------------------------- MODULE MarketplaceProofs -------------------------
(***************************************************************************)
(* OrderSystem implements Marketplace: every step of creation, expiration  *)
(* and payment is a step of the promise, or changes nothing it shows.      *)
(***************************************************************************)
EXTENDS OrderSystemProofs, SumProofs

(* A code that is not reserved names no order.                             *)
OnlyReservedName ==
  \A c \in Codes : codes[c].status # "reserved" => codes[c].order = Nobody

(* A payment that debits holds the row lock of the balance it has read,    *)
(* and has found enough there.                                             *)
MoneyHeld ==
  /\ balance = [b \in Buyers |-> balance[b]]
  /\ balanceRead = [p \in Payers |-> balanceRead[p]]
  /\ \A p \in Payers : ppc[p] = "debiting" =>
       /\ balanceLock[PayOrder(p).buyer] = p
       /\ balanceRead[p] = balance[PayOrder(p).buyer]
       /\ balance[PayOrder(p).buyer] >= Total(PayOrder(p).items)

RInv == IInv /\ OneOrderPerRequest /\ OnlyReservedName /\ MoneyHeld

LEMMA OnlyReservedStep ==
  ASSUME IInv, OnlyReservedName, [Next]_vars
  PROVE  OnlyReservedName'
<1> USE DEF OnlyReservedName
<1>1. CASE UNCHANGED tables
  BY <1>1 DEF tables
<1>2. CASE \E w \in Workers, o \in OrderIds : CreateStep(w, o)
  BY <1>2 DEF CreateStep, Created
<1>3. CASE (\E w \in Workers : RejectStep(w)) \/ \E o \in OrderIds : BecomeOverdue(o)
  BY <1>3 DEF RejectStep, RejectRow, BecomeOverdue
<1>4. CASE \E o \in OrderIds : ExpireStep(o)
  BY <1>4 DEF ExpireStep, Expired, Released
<1>5. CASE \E p \in Payers : PayStep(p)
  BY <1>5 DEF PayStep, Paid
<1> QED
  BY <1>1, <1>2, <1>3, <1>4, <1>5, StepKinds DEF IInv

-----------------------------------------------------------------------------
(* What a step may do to payments and balances.                            *)
Debits(p) ==
  /\ ppc[p] = "paying" /\ CanLockBalance(PayOrder(p).buyer)
  /\ balance[PayOrder(p).buyer] >= Total(PayOrder(p).items)
  /\ balanceLock' = [balanceLock EXCEPT ![PayOrder(p).buyer] = p]
  /\ balanceRead' = [balanceRead EXCEPT ![p] = balance[PayOrder(p).buyer]]
  /\ ppc' = [ppc EXCEPT ![p] = "debiting"]
  /\ UNCHANGED <<orderLock, payment, tables>>

LEMMA PayKinds ==
  ASSUME TypeOK, [Next]_vars
  PROVE  \/ UNCHANGED <<paymentVars, balance>>
         \/ \E q \in Payers : EndPayment(q) /\ UNCHANGED tables
         \/ \E q \in Payers : PayStep(q)
         \/ \E q \in Payers, o \in OrderIds, k \in Keys : PayBegin(q, o, k)
         \/ \E q \in Payers : Debits(q)
<1>1. CASE PaymentNext
  <2>1. ASSUME NEW q \in Payers, LockBalance(q)
        PROVE  (EndPayment(q) /\ UNCHANGED tables) \/ Debits(q)
    BY <2>1 DEF LockBalance, Debits
  <2>2. ASSUME NEW q \in Payers, PayCommit(q) \/ PayAbort(q)
        PROVE  (EndPayment(q) /\ UNCHANGED tables) \/ PayStep(q)
    BY <2>2 DEF PayCommit, PayAbort, PayStep
  <2> QED
    BY <1>1, <2>1, <2>2 DEF PaymentNext
<1>2. CASE UNCHANGED paymentVars
  <2>1. UNCHANGED balance
    <3>1. CASE \E p \in Payers : PayStep(p)
      <4>1. PICK p \in Payers : PayStep(p)
        BY <3>1
      <4>2. ppc[p] = "debiting" /\ ppc'[p] = "idle"
        BY <4>1 DEF PayStep, EndPayment, TypeOK, PaymentTypeOK
      <4> QED
        BY <1>2, <4>2 DEF paymentVars
    <3> QED
      BY <3>1, StepKinds DEF tables, CreateStep, Created, RejectStep, RejectRow,
         BecomeOverdue, ExpireStep, Expired
  <2> QED
    BY <1>2, <2>1
<1> QED
  BY <1>1, <1>2 DEF Next, vars

(* The order of a payment under way keeps its buyer and its cart.          *)
LEMMA PayOrderKept ==
  ASSUME IInv, [Next]_vars, NEW p \in Payers, ppc[p] # "idle", ppc'[p] # "idle"
  PROVE  /\ payment'[p] = payment[p]
         /\ (orders'[payment[p].order]).buyer = PayOrder(p).buyer
         /\ (orders'[payment[p].order]).items = PayOrder(p).items
<1> USE DEF IInv, TypeOK
<1> DEFINE o == payment[p].order
<1>1. o \in OrderIds /\ orderLock[o] = p /\ Pending(o)
  BY DEF PaymentHolds
<1>2. payment'[p] = payment[p]
  BY PayKinds DEF paymentVars, EndPayment, PayStep, PayBegin, Debits, PaymentTypeOK
<1>3. \A q \in OrderIds : ExpireStep(q) => q # o
  BY <1>1, PaymentAssumption DEF ExpireStep
<1>4. \A q \in Payers : PayStep(q) => payment[q].order # o
  <2> SUFFICES ASSUME NEW q \in Payers, PayStep(q) PROVE payment[q].order # o
    OBVIOUS
  <2>1. q # p
    BY DEF PayStep, EndPayment, PaymentTypeOK
  <2>2. orderLock[payment[q].order] = q
    BY DEF PayStep, PaymentHolds
  <2> QED
    BY <1>1, <2>1, <2>2
<1>5. orders'[o].items = orders[o].items
  BY <1>1, <1>3, <1>4, PendingKept
<1>6. orders'[o].buyer = orders[o].buyer
  BY <1>1, OrdersStay DEF Exists, Pending
<1> QED
  BY <1>2, <1>5, <1>6 DEF PayOrder

(* Every step keeps the balances that are read and locked as they were.    *)
LEMMA MoneyHeldStep ==
  ASSUME IInv, MoneyHeld, [Next]_vars
  PROVE  MoneyHeld'
<1> USE DEF IInv, TypeOK
<1>1. /\ balance' = [b \in Buyers |-> balance'[b]]
      /\ balanceRead' = [p \in Payers |-> balanceRead'[p]]
  BY PayKinds DEF MoneyHeld, tables, paymentVars, PayStep, EndPayment, Paid, PayBegin, Debits
<1> SUFFICES ASSUME NEW p \in Payers, ppc'[p] = "debiting"
             PROVE  /\ balanceLock'[(orders'[payment'[p].order]).buyer] = p
                    /\ balanceRead'[p] = balance'[(orders'[payment'[p].order]).buyer]
                    /\ balance'[(orders'[payment'[p].order]).buyer]
                         >= Total((orders'[payment'[p].order]).items)
  BY <1>1 DEF MoneyHeld, PayOrder
<1>2. ppc[p] # "idle"
  BY PayKinds DEF paymentVars, EndPayment, PayStep, PayBegin, Debits, PaymentTypeOK
<1> DEFINE b == PayOrder(p).buyer
<1>3. /\ payment'[p] = payment[p]
      /\ (orders'[payment[p].order]).buyer = b
      /\ (orders'[payment[p].order]).items = PayOrder(p).items
  BY <1>2, PayOrderKept
<1>4. b \in Buyers
  BY <1>2, PendingRow DEF PaymentHolds, PayOrder
<1> SUFFICES /\ balanceLock'[b] = p /\ balanceRead'[p] = balance'[b]
             /\ balance'[b] >= Total(PayOrder(p).items)
  BY <1>3
<1>5. CASE UNCHANGED <<paymentVars, balance>>
  BY <1>5 DEF MoneyHeld, paymentVars
<1>6. ASSUME NEW q \in Payers, EndPayment(q)
      PROVE  /\ q # p /\ ppc[p] = "debiting"
             /\ balanceLock'[b] = p /\ balanceRead'[p] = balanceRead[p]
  <2>1. q # p /\ ppc[p] = "debiting"
    BY <1>6 DEF EndPayment, PaymentTypeOK
  <2> QED
    BY <1>4, <1>6, <2>1 DEF EndPayment, Freed, MoneyHeld, PaymentTypeOK
<1>7. CASE \E q \in Payers : EndPayment(q) /\ UNCHANGED tables
  BY <1>6, <1>7 DEF MoneyHeld, tables
<1>8. ASSUME NEW q \in Payers, PayStep(q)
      PROVE  /\ balanceLock'[b] = p /\ balanceRead'[p] = balance'[b]
             /\ balance'[b] >= Total(PayOrder(p).items)
  <2>1. balanceLock[PayOrder(q).buyer] = q /\ EndPayment(q)
    BY <1>8 DEF PayStep, MoneyHeld
  <2>2. b # PayOrder(q).buyer
    BY <1>6, <2>1 DEF MoneyHeld
  <2>3. balance'[b] = balance[b]
    BY <1>4, <1>8, <2>2 DEF PayStep, Paid, PayOrder, MoneyHeld
  <2> QED
    BY <1>6, <2>1, <2>3 DEF MoneyHeld
<1>9. ASSUME NEW q \in Payers, NEW o \in OrderIds, NEW k \in Keys, PayBegin(q, o, k)
      PROVE  /\ balanceLock'[b] = p /\ balanceRead'[p] = balance'[b]
             /\ balance'[b] >= Total(PayOrder(p).items)
  <2>1. ppc[p] = "debiting"
    BY <1>9 DEF PayBegin, PaymentTypeOK
  <2> QED
    BY <1>9, <2>1 DEF PayBegin, MoneyHeld, tables
<1>10. ASSUME NEW q \in Payers, Debits(q)
       PROVE  /\ balanceLock'[b] = p /\ balanceRead'[p] = balance'[b]
              /\ balance'[b] >= Total(PayOrder(p).items)
  <2>1. CASE q = p
    BY <1>4, <1>10, <2>1 DEF Debits, tables, PaymentTypeOK, MoneyHeld
  <2>2. CASE q # p
    <3>1. ppc[p] = "debiting" /\ balanceRead'[p] = balanceRead[p]
      BY <1>10, <2>2 DEF Debits, PaymentTypeOK
    <3>2. balanceLock[PayOrder(q).buyer] = Nobody /\ balanceLock[b] = p
      BY <1>10, <3>1 DEF Debits, CanLockBalance, MoneyHeld
    <3>3. balanceLock'[b] = p
      BY <1>10, <3>2, PaymentAssumption DEF Debits
    <3> QED
      BY <1>10, <3>1, <3>3 DEF Debits, MoneyHeld, tables
  <2> QED
    BY <2>1, <2>2
<1> QED
  BY <1>5, <1>7, <1>8, <1>9, <1>10, PayKinds

-----------------------------------------------------------------------------
(* Who holds a code.                                                       *)
Holds(r, c) ==
  /\ requests[r].status = "created"
  /\ \/ codes[c].order = requests[r].order
     \/ <<requests[r].order, c>> \in bindings

LEMMA OneHolder ==
  RInv => \A c \in Codes : \A r, q \in Requests : Holds(r, c) /\ Holds(q, c) => r = q
<1> SUFFICES ASSUME RInv, NEW c \in Codes, NEW r \in Requests, NEW q \in Requests,
                    Holds(r, c), Holds(q, c)
             PROVE  requests[r].order = requests[q].order
  BY TableAssumption, RequestFields DEF OneOrderPerRequest, RInv, IInv, TypeOK, Holds
<1> USE DEF RInv
<1>1. requests[r].order \in OrderIds /\ requests[q].order \in OrderIds
  BY DEF OneOrderPerRequest, Holds
<1>2. \A o \in OrderIds : <<o, c>> \in bindings => codes[c].order = Nobody
  <2> SUFFICES ASSUME NEW o \in OrderIds, <<o, c>> \in bindings
               PROVE  codes[c].order = Nobody
    OBVIOUS
  <2>1. codes[c].status = "sold"
    BY DEF IInv, SoldCodesArePaidFor
  <2> QED
    BY <2>1 DEF OnlyReservedName
<1>3. \A o, p \in OrderIds : <<o, c>> \in bindings /\ <<p, c>> \in bindings => o = p
  BY DEF IInv, SoldCodesArePaidFor
<1>4. Nobody \notin OrderIds
  BY TableAssumption
<1> QED
  BY <1>1, <1>2, <1>3, <1>4 DEF Holds

HolderIsHolding ==
  \A c \in Codes :
    /\ \A r \in Requests : Holds(r, c) => HolderOf(c) = r
    /\ (\A r \in Requests : ~Holds(r, c)) => HolderOf(c) = Nobody
    /\ \A r \in Requests : HolderOf(c) = r => Holds(r, c)

LEMMA HolderIs == RInv => HolderIsHolding
<1> SUFFICES ASSUME RInv PROVE HolderIsHolding
  OBVIOUS
<1>1. ASSUME NEW c \in Codes
      PROVE  HolderOf(c) = IF \E r \in Requests : Holds(r, c)
                           THEN CHOOSE r \in Requests : Holds(r, c) ELSE Nobody
  BY DEF HolderOf, Holds
<1> QED
  BY <1>1, OneHolder, TableAssumption DEF HolderIsHolding

(* A code whose holders a step does not change keeps the one it has.       *)
LEMMA HolderStays ==
  ASSUME RInv, RInv', NEW c \in Codes,
         \A q \in Requests : Holds(q, c)' <=> Holds(q, c)
  PROVE  HolderOf(c)' = HolderOf(c)
<1>1. HolderIsHolding /\ HolderIsHolding'
  BY HolderIs, PTL
<1> QED
  BY <1>1 DEF HolderIsHolding

-----------------------------------------------------------------------------
(* Steps of the tables are steps of the promise.                           *)

(* The request of an order, and what the promise shows of it.              *)
LEMMA RequestOf ==
  ASSUME RInv, NEW o \in OrderIds, Exists(o)
  PROVE  \E r \in Requests :
           /\ requests[r].status = "created" /\ requests[r].order = o
           /\ OutcomeOf(r) = orders[o].status
           /\ CartOf(r) = [request |-> r, buyer |-> orders[o].buyer,
                           items |-> orders[o].items]
           /\ \A q \in Requests : q # r => requests[q].order # o
<1>1. PICK r \in Requests : requests[r].order = o /\ requests[r].status = "created"
  BY DEF RInv, OneOrderPerRequest
<1>2. \A q \in Requests : q # r => requests[q].order # o
  BY <1>1, TableAssumption DEF RInv, OneOrderPerRequest
<1> QED
  BY <1>1, <1>2 DEF OutcomeOf, CartOf

(* What does not change for any request and any code is not a step.        *)
LEMMA Stutter ==
  ASSUME \A r \in Requests : OutcomeOf(r)' = OutcomeOf(r) /\ CartOf(r)' = CartOf(r),
         \A c \in Codes : HolderOf(c)' = HolderOf(c),
         balance' = balance
  PROVE  UNCHANGED Promise!vars
BY DEF Promise!vars

(* A request is created when it was undecided, and gets its cart and free  *)
(* codes that fill it.                                                     *)
LEMMA CreateIs ==
  ASSUME NEW e, e.request \in Requests, NEW S \in SUBSET Codes,
         OutcomeOf(e.request) = "processing",
         \A q \in Requests :
           OutcomeOf(q)' = IF q = e.request THEN "pending_payment" ELSE OutcomeOf(q),
         \A q \in Requests : CartOf(q)' = IF q = e.request THEN e ELSE CartOf(q),
         \A c \in S : HolderOf(c) = Nobody,
         \A c \in Codes : HolderOf(c)' = IF c \in S THEN e.request ELSE HolderOf(c),
         Fills(S, e.items),
         balance' = balance
  PROVE  Promise!Create(e)
<1> DEFINE outcome == [q \in Requests |-> OutcomeOf(q)]
           cart == [q \in Requests |-> CartOf(q)]
           holder == [c \in Codes |-> HolderOf(c)]
<1>1. \A T : Promise!Cardinality(T) = Cardinality(T)
  BY DEF Promise!Cardinality, Cardinality, Promise!IsFiniteSet, IsFiniteSet
<1>2. /\ outcome[e.request] = "processing"
      /\ outcome' = [outcome EXCEPT ![e.request] = "pending_payment"]
  OBVIOUS
<1>3. cart' = [cart EXCEPT ![e.request] = e]
  OBVIOUS
<1>4. /\ S \in SUBSET Promise!HeldBy(Nobody)
      /\ \A l \in Listings : Promise!Cardinality({c \in S : ListingOf[c] = l}) = e.items[l]
  BY <1>1 DEF Promise!HeldBy, Fills
<1>5. holder' = [c \in Codes |-> IF c \in S THEN e.request ELSE holder[c]]
  OBVIOUS
<1> QED
  BY <1>2, <1>3, <1>4, <1>5 DEF Promise!Create

LEMMA Creates ==
  ASSUME RInv, RInv', [Next]_vars, NEW w \in Workers, NEW o \in OrderIds, CreateStep(w, o)
  PROVE  Promise!Create(Event(w))
<1> USE DEF RInv, IInv, TypeOK, TablesTypeOK
<1>0. PICK e \in [request : Requests, buyer : Buyers, items : Carts] : e = Event(w)
  BY JobEvent, TableAssumption DEF CreateStep
<1>1. PICK r \in Requests : r = e.request
  OBVIOUS
<1>2. /\ requests[r].status = "none" /\ orders[o].status = "none"
      /\ requests' = [requests EXCEPT ![r] =
                        [status |-> "created", buyer |-> e.buyer, order |-> o]]
      /\ orders' = [orders EXCEPT ![o] = NewOrder(e)]
      /\ codes' = [c \in Codes |-> IF c \in picked[w] THEN [status |-> "reserved", order |-> o]
                                   ELSE codes[c]]
      /\ balance' = balance /\ bindings' = bindings
  BY <1>0, <1>1 DEF CreateStep, Created, Insertable, Row, IsNextOrder
<1>3. /\ requests'[r] = [status |-> "created", buyer |-> e.buyer, order |-> o]
      /\ orders'[o] = NewOrder(e)
      /\ \A q \in Requests : q # r => requests'[q] = requests[q]
      /\ \A x \in OrderIds : x # o => orders'[x] = orders[x]
  BY <1>1, <1>2
<1>4. \A q \in Requests : requests[q].status = "created" =>
         requests[q].order \in OrderIds /\ requests[q].order # o
  BY <1>2 DEF OneOrderPerRequest, Exists
<1>5. \A q \in Requests : OutcomeOf(q)' = IF q = r THEN "pending_payment" ELSE OutcomeOf(q)
  BY <1>3, <1>4, RequestFields DEF OutcomeOf, NewOrder
<1>6. \A q \in Requests : CartOf(q)' = IF q = r THEN e ELSE CartOf(q)
  <2>1. CartOf(r)' = e
    BY <1>1, <1>3 DEF CartOf, NewOrder
  <2>2. ASSUME NEW q \in Requests, q # r PROVE CartOf(q)' = CartOf(q)
    BY <1>3, <1>4, <2>2 DEF CartOf
  <2> QED
    BY <2>1, <2>2
<1>7. picked[w] \in SUBSET Codes /\ Fills(picked[w], e.items)
  BY <1>0 DEF CreateStep, WorkerHolds, CreationTypeOK
<1>8. ASSUME NEW c \in Codes PROVE codes[c].order # o /\ <<o, c>> \notin bindings
  <2>1. codes[c].order # o
    BY <1>2, TableAssumption DEF OnlyReservedName, ReservationsMatchOrders, Pending
  <2>2. <<o, c>> \notin bindings
    BY <1>2 DEF SoldCodesArePaidFor, BoundTo
  <2> QED
    BY <2>1, <2>2
<1>9. \A c \in picked[w] : HolderOf(c) = Nobody
  <2> SUFFICES ASSUME NEW c \in picked[w] PROVE HolderOf(c) = Nobody
    OBVIOUS
  <2>1. c \in Codes /\ codes[c].status = "available"
    BY <1>7 DEF WorkerHolds
  <2>2. codes[c].order = Nobody /\ \A x \in OrderIds : <<x, c>> \notin bindings
    BY <2>1 DEF OnlyReservedName, SoldCodesArePaidFor
  <2>3. \A q \in Requests : ~Holds(q, c)
    BY <1>4, <2>2, TableAssumption DEF Holds
  <2>4. HolderIsHolding
    BY HolderIs
  <2> QED
    BY <2>1, <2>3, <2>4 DEF HolderIsHolding
<1>10. \A c \in Codes : HolderOf(c)' = IF c \in picked[w] THEN r ELSE HolderOf(c)
  <2>1. ASSUME NEW c \in picked[w] PROVE HolderOf(c)' = r
    <3>1. c \in Codes /\ Holds(r, c)'
      BY <1>2, <1>3, <1>7 DEF Holds
    <3>2. HolderIsHolding'
      BY HolderIs, PTL
    <3> QED
      BY <1>1, <3>1, <3>2 DEF HolderIsHolding
  <2>2. ASSUME NEW c \in Codes, c \notin picked[w] PROVE HolderOf(c)' = HolderOf(c)
    <3>1. codes'[c] = codes[c]
      BY <1>2, <2>2
    <3>2. \A q \in Requests : Holds(q, c)' <=> Holds(q, c)
      BY <1>2, <1>3, <1>8, <3>1 DEF Holds
    <3> QED
      BY <3>2, HolderStays
  <2> QED
    BY <1>7, <2>1, <2>2
<1>11. OutcomeOf(r) = "processing"
  BY <1>2 DEF OutcomeOf
<1> QED
  BY <1>0, <1>1, <1>2, <1>5, <1>6, <1>7, <1>9, <1>10, <1>11, CreateIs DEF Fills

LEMMA Rejects ==
  ASSUME RInv, RInv', [Next]_vars, NEW w \in Workers, RejectStep(w)
  PROVE  Promise!Next \/ UNCHANGED Promise!vars
<1> USE DEF RInv, IInv, TypeOK, TablesTypeOK
<1>1. PICK r \in Requests : r = Event(w).request
  BY JobEvent DEF RejectStep
<1>2. /\ UNCHANGED <<orders, codes, bindings, balance>>
      /\ \A q \in Requests : q # r => requests'[q] = requests[q]
      /\ requests[r].status # "none" => requests'[r] = requests[r]
      /\ requests[r].status = "none" => requests'[r].status = "rejected"
  BY <1>1 DEF RejectStep, RejectRow, OnConflictDoNothing
<1>3. \A q \in Requests : requests'[q].status = "created" <=> requests[q].status = "created"
  BY <1>1, <1>2
<1>4. \A q \in Requests : CartOf(q)' = CartOf(q)
  BY <1>2, <1>3 DEF CartOf
<1>5. \A c \in Codes : HolderOf(c)' = HolderOf(c)
  <2>1. ASSUME NEW c \in Codes PROVE \A q \in Requests : Holds(q, c)' <=> Holds(q, c)
    BY <1>2, <1>3 DEF Holds
  <2> QED
    BY <2>1, HolderStays
<1>6. CASE requests[r].status = "none"
  <2>1. OutcomeOf(r) = "processing" /\ OutcomeOf(r)' = "rejected"
    BY <1>2, <1>6 DEF OutcomeOf
  <2>2. \A q \in Requests : q # r => OutcomeOf(q)' = OutcomeOf(q)
    BY <1>2 DEF OutcomeOf
  <2>3. Promise!Reject(r)
    BY <1>1, <1>2, <1>4, <1>5, <2>1, <2>2 DEF Promise!Reject
  <2> QED
    BY <1>1, <2>3 DEF Promise!Next
<1>7. CASE requests[r].status # "none"
  <2>1. \A q \in Requests : OutcomeOf(q)' = OutcomeOf(q)
    BY <1>2, <1>7 DEF OutcomeOf
  <2> QED
    BY <1>2, <1>4, <1>5, <2>1, Stutter
<1> QED
  BY <1>6, <1>7

(* What the promise shows of a step that changes the row of one order.     *)
LEMMA OneOrderChanges ==
  ASSUME RInv, NEW o \in OrderIds, Pending(o), requests' = requests,
         orders'[o].buyer = orders[o].buyer, orders'[o].items = orders[o].items,
         \A x \in OrderIds : x # o => orders'[x] = orders[x]
  PROVE  \E r \in Requests :
           /\ requests[r].status = "created" /\ requests[r].order = o
           /\ OutcomeOf(r) = "pending_payment"
           /\ CartOf(r) = [request |-> r, buyer |-> orders[o].buyer, items |-> orders[o].items]
           /\ \A q \in Requests : q # r => requests[q].order # o
           /\ \A q \in Requests : OutcomeOf(q)' = IF q = r THEN orders'[o].status ELSE OutcomeOf(q)
           /\ \A q \in Requests : CartOf(q)' = CartOf(q)
<1> USE DEF RInv, IInv, TypeOK, TablesTypeOK
<1>1. PICK r \in Requests :
        /\ requests[r].status = "created" /\ requests[r].order = o
        /\ OutcomeOf(r) = orders[o].status
        /\ CartOf(r) = [request |-> r, buyer |-> orders[o].buyer, items |-> orders[o].items]
        /\ \A q \in Requests : q # r => requests[q].order # o
  BY RequestOf DEF Exists, Pending
<1>2. \A q \in Requests : requests[q].status = "created" => requests[q].order \in OrderIds
  BY DEF OneOrderPerRequest
<1>3. \A q \in Requests : OutcomeOf(q)' = IF q = r THEN orders'[o].status ELSE OutcomeOf(q)
  <2>1. OutcomeOf(r)' = orders'[o].status
    BY <1>1 DEF OutcomeOf
  <2>2. ASSUME NEW q \in Requests, q # r PROVE OutcomeOf(q)' = OutcomeOf(q)
    <3>1. requests[q].status \in {"none", "rejected", "created"}
      BY RequestFields
    <3> QED
      BY <1>1, <1>2, <2>2, <3>1 DEF OutcomeOf
  <2> QED
    BY <2>1, <2>2
<1>4. \A q \in Requests : CartOf(q)' = CartOf(q)
  <2>1. CartOf(r)' = CartOf(r)
    BY <1>1 DEF CartOf
  <2>2. ASSUME NEW q \in Requests, q # r PROVE CartOf(q)' = CartOf(q)
    BY <1>1, <1>2, <2>2 DEF CartOf
  <2> QED
    BY <2>1, <2>2
<1> QED
  BY <1>1, <1>3, <1>4 DEF Pending

(* An order that expires gives back what it held.                          *)
LEMMA ExpireIs ==
  ASSUME NEW r \in Requests, OutcomeOf(r) = "pending_payment",
         \A q \in Requests : OutcomeOf(q)' = IF q = r THEN "expired" ELSE OutcomeOf(q),
         \A q \in Requests : CartOf(q)' = CartOf(q),
         \A c \in Codes : HolderOf(c)' = IF HolderOf(c) = r THEN Nobody ELSE HolderOf(c),
         balance' = balance
  PROVE  Promise!Expire(r)
BY DEF Promise!Expire

LEMMA Expires ==
  ASSUME RInv, RInv', NEW o \in OrderIds, ExpireStep(o)
  PROVE  Promise!Next
<1>0. orders[o] \in [status : {"pending_payment", "paid", "expired"}, buyer : Buyers,
                     items : Carts, overdue : BOOLEAN]
  BY OrderFields DEF ExpireStep, Expirable, Pending, RInv, IInv, TypeOK, TablesTypeOK
<1>1. /\ Pending(o) /\ codes' = Released(o)
      /\ requests' = requests /\ bindings' = bindings /\ balance' = balance
      /\ orders'[o].status = "expired"
      /\ orders'[o].buyer = orders[o].buyer /\ orders'[o].items = orders[o].items
      /\ \A x \in OrderIds : x # o => orders'[x] = orders[x]
  BY <1>0 DEF ExpireStep, Expired, Expirable, RInv, IInv, TypeOK, TablesTypeOK
<1>2. PICK r \in Requests :
        /\ requests[r].status = "created" /\ requests[r].order = o
        /\ OutcomeOf(r) = "pending_payment"
        /\ \A q \in Requests : q # r => requests[q].order # o
        /\ \A q \in Requests : OutcomeOf(q)' = IF q = r THEN "expired" ELSE OutcomeOf(q)
        /\ \A q \in Requests : CartOf(q)' = CartOf(q)
  BY <1>1, OneOrderChanges
<1> USE DEF RInv, IInv, TypeOK, TablesTypeOK
<1>3. HolderIsHolding /\ HolderIsHolding'
  BY HolderIs, PTL
<1>4. \A c \in Codes : <<o, c>> \notin bindings
  BY <1>1 DEF SoldCodesArePaidFor, BoundTo, Pending
<1>5. ASSUME NEW c \in ReservedFor(o) PROVE HolderOf(c) = r /\ HolderOf(c)' = Nobody
  <2>1. c \in Codes /\ codes[c].status = "reserved" /\ codes[c].order = o
    BY DEF ReservedFor
  <2>2. Holds(r, c)
    BY <1>2, <2>1 DEF Holds
  <2>3. codes'[c].order = Nobody
    BY <1>1, <2>1 DEF Released
  <2>4. \A x \in OrderIds : <<x, c>> \notin bindings
    BY <2>1 DEF SoldCodesArePaidFor
  <2>5. \A q \in Requests : ~Holds(q, c)'
    <3>1. \A q \in Requests : requests[q].status = "created" => requests[q].order \in OrderIds
      BY DEF OneOrderPerRequest
    <3> QED
      BY <1>1, <2>3, <2>4, <3>1, TableAssumption DEF Holds
  <2> QED
    BY <1>3, <2>1, <2>2, <2>5 DEF HolderIsHolding
<1>6. ASSUME NEW c \in Codes, c \notin ReservedFor(o)
      PROVE  HolderOf(c)' = HolderOf(c) /\ HolderOf(c) # r
  <2>1. codes'[c] = codes[c]
    BY <1>1, <1>6 DEF Released
  <2>2. HolderOf(c)' = HolderOf(c)
    BY <1>1, <2>1, HolderStays DEF Holds
  <2>3. codes[c].order # o
    BY <1>6, TableAssumption DEF OnlyReservedName, ReservedFor
  <2>4. ~Holds(r, c)
    BY <1>2, <1>4, <2>3 DEF Holds
  <2>5. HolderOf(c) # r
    BY <1>3, <2>4 DEF HolderIsHolding
  <2> QED
    BY <2>2, <2>5
<1>7. \A c \in Codes : HolderOf(c)' = IF HolderOf(c) = r THEN Nobody ELSE HolderOf(c)
  <2> SUFFICES ASSUME NEW c \in Codes
               PROVE  HolderOf(c)' = IF HolderOf(c) = r THEN Nobody ELSE HolderOf(c)
    OBVIOUS
  <2> QED
    BY <1>5, <1>6
<1>8. Promise!Expire(r)
  BY <1>1, <1>2, <1>7, ExpireIs
<1> QED
  BY <1>8 DEF Promise!Next

(* Time passes: the promise knows of no clock.                             *)
LEMMA Ages ==
  ASSUME RInv, RInv', NEW o \in OrderIds, BecomeOverdue(o)
  PROVE  UNCHANGED Promise!vars
<1>0. orders[o] \in [status : {"pending_payment", "paid", "expired"}, buyer : Buyers,
                     items : Carts, overdue : BOOLEAN]
  BY OrderFields DEF BecomeOverdue, Pending, RInv, IInv, TypeOK, TablesTypeOK
<1>1. /\ Pending(o) /\ UNCHANGED <<requests, codes, bindings, balance>>
      /\ orders'[o].status = "pending_payment"
      /\ orders'[o].buyer = orders[o].buyer /\ orders'[o].items = orders[o].items
      /\ \A x \in OrderIds : x # o => orders'[x] = orders[x]
  BY <1>0 DEF BecomeOverdue, Pending, RInv, IInv, TypeOK, TablesTypeOK
<1>2. /\ \A q \in Requests : OutcomeOf(q)' = OutcomeOf(q)
      /\ \A q \in Requests : CartOf(q)' = CartOf(q)
  BY <1>1, OneOrderChanges
<1>3. ASSUME NEW c \in Codes PROVE HolderOf(c)' = HolderOf(c)
  BY <1>1, HolderStays DEF Holds
<1> QED
  BY <1>1, <1>2, <1>3, Stutter

(* An order that is paid keeps what it held, and its buyer is charged.     *)
LEMMA PayIs ==
  ASSUME NEW r \in Requests, OutcomeOf(r) = "pending_payment",
         Total(CartOf(r).items) <= balance[CartOf(r).buyer],
         balance' = [balance EXCEPT ![CartOf(r).buyer] = @ - Total(CartOf(r).items)],
         \A q \in Requests : OutcomeOf(q)' = IF q = r THEN "paid" ELSE OutcomeOf(q),
         \A q \in Requests : CartOf(q)' = CartOf(q),
         \A c \in Codes : HolderOf(c)' = HolderOf(c)
  PROVE  Promise!Pay(r)
BY DEF Promise!Pay

LEMMA Pays ==
  ASSUME RInv, RInv', NEW p \in Payers, PayStep(p)
  PROVE  Promise!Next
<1> DEFINE o == payment[p].order
           b == orders[payment[p].order].buyer
<1>1. /\ o \in OrderIds /\ Pending(o) /\ ppc[p] = "debiting"
      /\ payment[p].codes = ReservedFor(o)
  BY DEF PayStep, RInv, IInv, PaymentHolds
<1>2. /\ orders[o] \in [status : {"pending_payment", "paid", "expired"}, buyer : Buyers,
                        items : Carts, overdue : BOOLEAN]
      /\ b \in Buyers
  BY <1>1, OrderFields, PendingRow DEF Pending, RInv, IInv, TypeOK, TablesTypeOK
<1>3. /\ requests' = requests
      /\ bindings' = bindings \union ({o} \X ReservedFor(o))
      /\ codes' = [c \in Codes |-> IF c \in ReservedFor(o)
                                   THEN [status |-> "sold", order |-> Nobody] ELSE codes[c]]
      /\ balance' = [balance EXCEPT ![b] = balanceRead[p] - Total(orders[o].items)]
      /\ orders' = [orders EXCEPT ![o].status = "paid"]
  BY <1>1 DEF PayStep, Paid, ReservedFor
<1>4. balanceRead[p] = balance[b] /\ Total(orders[o].items) <= balance[b]
  BY <1>1 DEF RInv, MoneyHeld, PayOrder
<1>5. /\ orders'[o].status = "paid"
      /\ orders'[o].buyer = orders[o].buyer /\ orders'[o].items = orders[o].items
      /\ \A x \in OrderIds : x # o => orders'[x] = orders[x]
  BY <1>1, <1>2, <1>3 DEF RInv, IInv, TypeOK, TablesTypeOK
<1> HIDE DEF o, b
<1>6. PICK x \in OrderIds : x = o
  BY <1>1
<1>7. PICK r \in Requests :
        /\ requests[r].status = "created" /\ requests[r].order = x
        /\ OutcomeOf(r) = "pending_payment"
        /\ CartOf(r) = [request |-> r, buyer |-> orders[x].buyer, items |-> orders[x].items]
        /\ \A q \in Requests : q # r => requests[q].order # x
        /\ \A q \in Requests : OutcomeOf(q)' = IF q = r THEN orders'[x].status ELSE OutcomeOf(q)
        /\ \A q \in Requests : CartOf(q)' = CartOf(q)
  BY <1>1, <1>3, <1>5, <1>6, OneOrderChanges
<1>8. \A q \in Requests : requests[q].status = "created" => requests[q].order \in OrderIds
  BY DEF RInv, OneOrderPerRequest
<1>9. ASSUME NEW c \in Codes PROVE HolderOf(c)' = HolderOf(c)
  <2>1. CASE c \in ReservedFor(x)
    <3>1. codes[c].status = "reserved" /\ codes[c].order = x /\ codes'[c].order = Nobody
      BY <1>3, <1>6, <2>1 DEF ReservedFor
    <3>2. \A y \in OrderIds : <<y, c>> \notin bindings
      BY <3>1 DEF RInv, IInv, SoldCodesArePaidFor
    <3>3. \A y \in OrderIds : <<y, c>> \in bindings' <=> y = x
      BY <1>3, <1>6, <2>1, <3>2
    <3>4. \A q \in Requests : Holds(q, c)' <=> Holds(q, c)
      BY <1>3, <1>8, <3>1, <3>2, <3>3, TableAssumption DEF Holds
    <3> QED
      BY <3>4, HolderStays
  <2>2. CASE c \notin ReservedFor(x)
    <3>1. codes'[c] = codes[c]
      BY <1>3, <1>6, <2>2
    <3>2. \A y \in OrderIds : <<y, c>> \in bindings' <=> <<y, c>> \in bindings
      BY <1>3, <1>6, <2>2
    <3>3. \A q \in Requests : Holds(q, c)' <=> Holds(q, c)
      BY <1>3, <1>8, <3>1, <3>2 DEF Holds
    <3> QED
      BY <3>3, HolderStays
  <2> QED
    BY <2>1, <2>2
<1>10. CartOf(r).buyer = b /\ CartOf(r).items = orders[o].items
  BY <1>6, <1>7 DEF b, o
<1>11. /\ Total(CartOf(r).items) <= balance[CartOf(r).buyer]
       /\ balance' = [balance EXCEPT ![CartOf(r).buyer] = @ - Total(CartOf(r).items)]
  BY <1>3, <1>4, <1>10
<1>12. \A q \in Requests : OutcomeOf(q)' = IF q = r THEN "paid" ELSE OutcomeOf(q)
  BY <1>5, <1>6, <1>7
<1>13. Promise!Pay(r)
  BY <1>7, <1>9, <1>11, <1>12, PayIs
<1> QED
  BY <1>13 DEF Promise!Next

-----------------------------------------------------------------------------
LEMMA PromiseStep ==
  ASSUME RInv, RInv', [Next]_vars
  PROVE  [Promise!Next]_(Promise!vars)
<1>1. CASE UNCHANGED tables
  <2>1. \A r \in Requests : OutcomeOf(r)' = OutcomeOf(r) /\ CartOf(r)' = CartOf(r)
    BY <1>1 DEF tables, OutcomeOf, CartOf
  <2>2. ASSUME NEW c \in Codes PROVE HolderOf(c)' = HolderOf(c)
    BY <1>1, HolderStays DEF tables, Holds
  <2> QED
    BY <1>1, <2>1, <2>2, Stutter DEF tables
<1>2. ASSUME NEW w \in Workers, NEW o \in OrderIds, CreateStep(w, o)
      PROVE  Promise!Next
  <2>1. Event(w) \in Submissions
    BY <1>2, JobEvent DEF CreateStep, RInv, IInv, TypeOK
  <2> QED
    BY <1>2, <2>1, Creates DEF Promise!Next
<1>3. ASSUME NEW w \in Workers, RejectStep(w)
      PROVE  Promise!Next \/ UNCHANGED Promise!vars
  BY <1>3, Rejects
<1>4. ASSUME NEW o \in OrderIds, BecomeOverdue(o)
      PROVE  UNCHANGED Promise!vars
  BY <1>4, Ages
<1>5. ASSUME NEW o \in OrderIds, ExpireStep(o)
      PROVE  Promise!Next
  BY <1>5, Expires
<1>6. ASSUME NEW p \in Payers, PayStep(p)
      PROVE  Promise!Next
  BY <1>6, Pays
<1> QED
  BY <1>1, <1>2, <1>3, <1>4, <1>5, <1>6, StepKinds DEF RInv, IInv

LEMMA PromiseInit ==
  ASSUME Init
  PROVE  Promise!Init /\ OnlyReservedName /\ MoneyHeld
<1>1. \A r \in Requests : OutcomeOf(r) = "processing" /\ CartOf(r) = Nobody
  BY DEF Init, TablesInit, NoRequest, OutcomeOf, CartOf
<1>2. \A c \in Codes : HolderOf(c) = Nobody
  BY DEF Init, TablesInit, NoRequest, HolderOf
<1>3. balance = InitialBalance
  BY DEF Init, TablesInit
<1>4. OnlyReservedName /\ MoneyHeld
  BY TableAssumption DEF Init, TablesInit, PaymentInit, OnlyReservedName, MoneyHeld
<1> QED
  BY <1>1, <1>2, <1>3, <1>4 DEF Promise!Init

(* Whatever the workers, sweeps and payments interleave, fail or repeat,   *)
(* what buyers see of the tables is what the shop promises (createOrder,   *)
(* expireOne, payment.go Create).                                          *)
THEOREM Implements == Spec => KeepsThePromise
<1>1. Init => OnlyReservedName /\ MoneyHeld /\ Promise!Init
  BY PromiseInit
<1>2. IInv /\ OnlyReservedName /\ MoneyHeld /\ [Next]_vars => OnlyReservedName' /\ MoneyHeld'
  BY OnlyReservedStep, MoneyHeldStep
<1>3. IInv /\ OneOrderPerRequest /\ OnlyReservedName /\ MoneyHeld => RInv
  BY DEF RInv
<1>4. RInv /\ RInv' /\ [Next]_vars => [Promise!Next]_(Promise!vars)
  BY PromiseStep
<1> QED
  BY <1>1, <1>2, <1>3, <1>4, Invariant, OneOrder, PTL DEF Spec, KeepsThePromise, Promise!Spec

-----------------------------------------------------------------------------
(* Money.                                                                  *)

(* Every paid order has one ledger entry, of its buyer, and one successful *)
(* attempt; no other order has any.                                        *)
ChargedOnce ==
  /\ \A e \in ledger : /\ orders[e.order].status = "paid"
                        /\ orders[e.order].buyer = e.user
  /\ \A a \in attempts : orders[a.order].status = "paid"
  /\ \A o \in OrderIds : orders[o].status = "paid" =>
       /\ [user |-> orders[o].buyer, order |-> o] \in ledger
       /\ \E a \in attempts : {x \in attempts : x.order = o} = {a}

MoneyInv ==
  /\ balance \in [Buyers -> Nat]
  /\ IsFiniteSet(ledger)
  /\ ChargedOnce
  /\ \A b \in Buyers : balance[b] + Spent(b) = InitialBalance[b]

Charges == [o \in OrderIds |-> Total(orders[o].items)]

(* A cart amounts to a number of fen.                                      *)
LEMMA TotalType ==
  ASSUME NEW items \in Carts
  PROVE  Total(items) \in Nat
<1>1. \A k \in Listings : Price[k] \in Nat /\ items[k] \in Nat
  BY TableAssumption DEF Carts
<1>2. \A k \in Listings : Price[k] * items[k] \in Nat
  BY <1>1
<1>3. Amounts(items) \in [Listings -> Nat]
  BY <1>2 DEF Amounts
<1> QED
  BY <1>3, SumType, TableAssumption DEF Total

LEMMA ChargesType ==
  ASSUME TablesTypeOK
  PROVE  Charges \in [OrderIds -> Nat]
<1>1. \A o \in OrderIds : orders[o].items \in Carts
  BY OrderFields DEF TablesTypeOK
<1> QED
  BY <1>1, TotalType DEF Charges

LEMMA PaidByFinite ==
  ASSUME TablesTypeOK, IsFiniteSet(ledger), NEW b \in Buyers
  PROVE  IsFiniteSet(OrdersPaidBy(b)) /\ OrdersPaidBy(b) \subseteq OrderIds
<1> DEFINE E == {f \in ledger : f.user = b}
<1>1. IsFiniteSet(E)
  BY FS_Subset
<1>2. E \subseteq [user : Buyers, order : OrderIds]
  BY DEF TablesTypeOK
<1> DEFINE g == [e \in E |-> e.order]
<1>3. g \in Surjection(E, OrdersPaidBy(b))
  BY DEF Surjection, OrdersPaidBy
<1>4. IsFiniteSet(OrdersPaidBy(b))
  <2> HIDE DEF g, E
  <2> QED
    BY <1>1, <1>3, FS_Surjection
<1> QED
  BY <1>2, <1>4 DEF OrdersPaidBy

(* What is spent does not change when the ledger does not and the orders   *)
(* in it keep their carts.                                                 *)
LEMMA SpentKept ==
  ASSUME TablesTypeOK, TablesTypeOK', IsFiniteSet(ledger), ledger' = ledger,
         NEW b \in Buyers,
         \A o \in OrdersPaidBy(b) : orders'[o].items = orders[o].items
  PROVE  Spent(b)' = Spent(b)
<1> DEFINE S == OrdersPaidBy(b)
           F == Charges
           G == Charges'
<1>1. IsFiniteSet(S) /\ S \subseteq OrderIds /\ S' = S
  BY PaidByFinite DEF OrdersPaidBy
<1>2. \A o \in S : F[o] = G[o]
  BY <1>1 DEF Charges
<1>3. Spent(b) = SumFunctionOnSet(F, S) /\ Spent(b)' = SumFunctionOnSet(G, S)
  BY <1>1 DEF Spent, Charges
<1> HIDE DEF S, F, G
<1> QED
  BY <1>1, <1>2, <1>3, SumSame

(* A step that is not a payment leaves the money alone.                    *)
LEMMA OtherMoney ==
  ASSUME IInv, TablesTypeOK', MoneyInv, UNCHANGED <<balance, ledger, attempts>>,
         \A o \in OrderIds :
           /\ orders'[o].status = "paid" <=> orders[o].status = "paid"
           /\ orders[o].status = "paid" =>
                /\ orders'[o].items = orders[o].items
                /\ orders'[o].buyer = orders[o].buyer
  PROVE  MoneyInv'
<1> USE DEF IInv, TypeOK, MoneyInv, ChargedOnce
<1>1. /\ \A e \in ledger : e.order \in OrderIds
      /\ \A a \in attempts : a.order \in OrderIds
  BY DEF TablesTypeOK
<1>2. ChargedOnce'
  BY <1>1
<1>3. ASSUME NEW b \in Buyers PROVE Spent(b)' = Spent(b)
  <2>1. \A o \in OrdersPaidBy(b) : orders'[o].items = orders[o].items
    BY <1>1 DEF OrdersPaidBy
  <2> QED
    BY <2>1, SpentKept
<1> QED
  BY <1>2, <1>3

(* A payment moves the price of its order from the balance to the ledger.  *)
LEMMA PayMoney ==
  ASSUME IInv, TablesTypeOK', MoneyHeld, MoneyInv, NEW p \in Payers, PayStep(p)
  PROVE  MoneyInv'
<1> USE DEF IInv, TypeOK
<1>1. PICK o \in OrderIds, b \in Buyers :
        /\ o = payment[p].order /\ b = orders[o].buyer /\ Pending(o)
        /\ ppc[p] = "debiting"
  BY PendingRow DEF PayStep, PaymentHolds
<1>2. PICK t \in Nat : t = Total(orders[o].items)
  BY TotalType, OrderFields DEF TablesTypeOK
<1>3. PICK k \in Keys : k = payment[p].key
  BY <1>1 DEF PaymentTypeOK
<1>4. /\ balance' = [balance EXCEPT ![b] = balance[b] - t]
      /\ balance[b] >= t
      /\ ledger' = ledger \union {[user |-> b, order |-> o]}
      /\ attempts' = attempts \union {[buyer |-> b, key |-> k, order |-> o]}
      /\ orders' = [orders EXCEPT ![o].status = "paid"]
  BY <1>1, <1>2, <1>3 DEF PayStep, Paid, MoneyHeld, PayOrder
<1>5. /\ orders'[o].status = "paid"
      /\ \A q \in OrderIds : orders'[q].items = orders[q].items
                             /\ orders'[q].buyer = orders[q].buyer
      /\ \A q \in OrderIds : q # o => orders'[q].status = orders[q].status
  BY <1>1, <1>4, PendingRow DEF TablesTypeOK, OrderRows, Pending, NoOrder
<1>6. balance' \in [Buyers -> Nat]
  BY <1>1, <1>2, <1>4 DEF MoneyInv
<1>7. IsFiniteSet(ledger')
  BY <1>4, FS_AddElement DEF MoneyInv
<1>8. /\ \A e \in ledger : e.order \in OrderIds
      /\ \A a \in attempts : a.order \in OrderIds
  BY DEF TablesTypeOK
<1>9. ChargedOnce'
  <2>1. \A e \in ledger' : /\ orders'[e.order].status = "paid"
                           /\ orders'[e.order].buyer = e.user
    BY <1>1, <1>4, <1>5, <1>8 DEF MoneyInv, ChargedOnce
  <2>2. \A a \in attempts' : orders'[a.order].status = "paid"
    BY <1>1, <1>4, <1>5, <1>8 DEF MoneyInv, ChargedOnce
  <2>3. \A q \in OrderIds : orders'[q].status = "paid" =>
           [user |-> orders'[q].buyer, order |-> q] \in ledger'
    BY <1>1, <1>4, <1>5 DEF MoneyInv, ChargedOnce
  <2>4. ASSUME NEW q \in OrderIds, orders'[q].status = "paid"
        PROVE  \E a \in attempts' : {x \in attempts' : x.order = q} = {a}
    <3> DEFINE new == [buyer |-> b, key |-> k, order |-> o]
    <3>1. CASE q = o
      <4>1. \A x \in attempts : x.order # o
        BY <1>1 DEF MoneyInv, ChargedOnce, Pending
      <4>2. {x \in attempts' : x.order = o} = {new}
        BY <1>4, <4>1
      <4> QED
        BY <1>4, <3>1, <4>2
    <3>2. CASE q # o
      <4>1. PICK a \in attempts : {x \in attempts : x.order = q} = {a}
        BY <1>5, <2>4, <3>2 DEF MoneyInv, ChargedOnce
      <4>2. {x \in attempts' : x.order = q} = {a}
        BY <1>4, <3>2, <4>1
      <4> QED
        BY <1>4, <4>2
    <3> QED
      BY <3>1, <3>2
  <2> QED
    BY <2>1, <2>2, <2>3, <2>4 DEF ChargedOnce
<1>10. /\ Charges' = Charges /\ Charges \in [OrderIds -> Nat] /\ Charges[o] = t
  BY <1>2, <1>5, ChargesType DEF Charges
<1>11. ASSUME NEW u \in Buyers
       PROVE  balance'[u] + Spent(u)' = InitialBalance[u]
  <2> DEFINE S == OrdersPaidBy(u)
  <2>1. IsFiniteSet(S) /\ S \subseteq OrderIds
    BY PaidByFinite DEF MoneyInv
  <2>2. /\ Spent(u) = SumFunctionOnSet(Charges, S)
        /\ Spent(u)' = SumFunctionOnSet(Charges, S')
    BY <1>10 DEF Spent, Charges
  <2>3. balance[u] + Spent(u) = InitialBalance[u]
    BY DEF MoneyInv
  <2>4. CASE u # b
    <3>1. S' = S
      BY <1>4, <2>4 DEF OrdersPaidBy
    <3>2. balance'[u] = balance[u]
      BY <1>4, <2>4 DEF MoneyInv
    <3> HIDE DEF S
    <3> QED
      BY <2>2, <2>3, <3>1, <3>2
  <2>5. CASE u = b
    <3>1. S' = S \union {o}
      <4> DEFINE E == {f \in ledger : f.user = u}
                 new == [user |-> b, order |-> o]
      <4>1. {f \in ledger' : f.user = u} = E \union {new}
        BY <1>4, <2>5
      <4>2. {e.order : e \in E \union {new}} = {e.order : e \in E} \union {new.order}
        OBVIOUS
      <4> QED
        BY <4>1, <4>2 DEF OrdersPaidBy
    <3>2. o \notin S
      BY <1>1 DEF OrdersPaidBy, MoneyInv, ChargedOnce, Pending
    <3>3. balance'[u] = balance[u] - t /\ balance[u] \in Nat
      BY <1>4, <2>5 DEF MoneyInv
    <3>4. SumFunctionOnSet(Charges, S) \in Nat
      BY <1>10, <2>1, SumType
    <3> HIDE DEF S
    <3>5. SumFunctionOnSet(Charges, S \union {o}) = SumFunctionOnSet(Charges, S) + t
      BY <1>10, <2>1, <3>2, SumAdd
    <3> QED
      BY <2>2, <2>3, <3>1, <3>3, <3>4, <3>5
  <2> QED
    BY <2>4, <2>5
<1> QED
  BY <1>6, <1>7, <1>9, <1>11 DEF MoneyInv

LEMMA MoneyStep ==
  ASSUME IInv, MoneyHeld, MoneyInv, [Next]_vars
  PROVE  MoneyInv'
<1> USE DEF IInv, TypeOK
<1>0. TablesTypeOK'
  BY TablesType
<1>1. CASE UNCHANGED tables
  BY <1>0, <1>1, OtherMoney DEF tables
<1>2. ASSUME NEW w \in Workers, NEW o \in OrderIds, CreateStep(w, o)
      PROVE  MoneyInv'
  BY <1>0, <1>2, OtherMoney DEF CreateStep, Created, NewOrder, IsNextOrder, TablesTypeOK
<1>3. ASSUME NEW w \in Workers, RejectStep(w)
      PROVE  MoneyInv'
  BY <1>0, <1>3, OtherMoney DEF RejectStep, RejectRow
<1>4. ASSUME NEW o \in OrderIds, BecomeOverdue(o)
      PROVE  MoneyInv'
  BY <1>0, <1>4, OtherMoney, PendingRow DEF BecomeOverdue, Pending, TablesTypeOK
<1>5. ASSUME NEW o \in OrderIds, ExpireStep(o)
      PROVE  MoneyInv'
  BY <1>0, <1>5, OtherMoney, PendingRow DEF ExpireStep, Expirable, Expired, Pending,
     TablesTypeOK
<1>6. ASSUME NEW p \in Payers, PayStep(p)
      PROVE  MoneyInv'
  BY <1>0, <1>6, PayMoney
<1> QED
  BY <1>1, <1>2, <1>3, <1>4, <1>5, <1>6, StepKinds

LEMMA MoneyInit == Init => MoneyInv
<1> SUFFICES ASSUME Init PROVE MoneyInv
  OBVIOUS
<1> USE DEF Init, TablesInit
<1>1. ChargedOnce
  BY DEF ChargedOnce, NoOrder
<1>2. ASSUME NEW b \in Buyers PROVE balance[b] + Spent(b) = InitialBalance[b]
  <2>1. OrdersPaidBy(b) = {}
    BY DEF OrdersPaidBy
  <2>2. Spent(b) = 0
    BY <2>1, SumOfNone DEF Spent
  <2> QED
    BY <2>2, TableAssumption
<1> QED
  BY <1>1, <1>2, TableAssumption, FS_EmptySet DEF MoneyInv

LEMMA MoneyInvImplies ==
  ASSUME IInv, MoneyInv
  PROVE  MoneyIsConserved
<1> USE DEF MoneyInv, ChargedOnce
<1>1. ASSUME NEW o \in OrderIds
      PROVE  orders[o].status = "paid" <=> [user |-> orders[o].buyer, order |-> o] \in ledger
  OBVIOUS
<1>2. ASSUME NEW o \in OrderIds
      PROVE  orders[o].status = "paid" <=> Cardinality({a \in attempts : a.order = o}) = 1
  <2>1. CASE orders[o].status = "paid"
    BY <2>1, FS_Singleton
  <2>2. CASE orders[o].status # "paid"
    <3>1. {a \in attempts : a.order = o} = {}
      BY <2>2
    <3>2. Cardinality({a \in attempts : a.order = o}) = 0
      BY <3>1, FS_EmptySet, Zenon
    <3> QED
      BY <2>2, <3>2
  <2> QED
    BY <2>1, <2>2
<1> QED
  BY <1>1, <1>2 DEF MoneyIsConserved

(* What a buyer has left and the prices of the paid orders in the ledger   *)
(* add up to what the buyer began with, and a paid order has one charge    *)
(* and one successful attempt, whatever payments of the same order, key or *)
(* balance interleave (payment.go Create).                                 *)
THEOREM Money == Spec => []MoneyIsConserved
<1>1. Init => MoneyInv /\ MoneyHeld
  BY MoneyInit, PromiseInit
<1>2. IInv /\ MoneyHeld /\ MoneyInv /\ [Next]_vars => MoneyHeld' /\ MoneyInv'
  BY MoneyHeldStep, MoneyStep
<1>3. IInv /\ MoneyInv => MoneyIsConserved
  BY MoneyInvImplies
<1> QED
  BY <1>1, <1>2, <1>3, Invariant, PTL DEF Spec
=============================================================================
