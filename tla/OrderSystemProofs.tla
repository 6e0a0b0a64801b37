------------------------- MODULE OrderSystemProofs --------------------------
(***************************************************************************)
(* Proofs about OrderSystem, for any number of buyers, listings, codes,    *)
(* orders, workers, partitions, sweeps, payments and failures: what was    *)
(* ordered and paid for, and the requests, each of which makes at most one *)
(* order, whose acknowledged messages are decided, and whose workers never *)
(* wait for each other in a circle.                                        *)
(***************************************************************************)
EXTENDS OrderSystem, FiniteSetTheorems, WellFoundedInduction, TLAPS

(* The codes a worker's open transaction has picked are still available,   *)
(* are nobody else's, and are what its event asks for.                     *)
WorkerHolds ==
  \A w \in Workers :
    /\ wpc[w] # "inserting" => picked[w] = {}
    /\ wpc[w] = "inserting" => Fills(picked[w], Event(w).items)
    /\ \A c \in picked[w] : codes[c].status = "available"
    /\ \A v \in Workers : v # w => picked[v] \intersect picked[w] = {}

(* A payment past its first step holds the row lock of an order that still *)
(* waits for payment, and the codes it read are still that order's.        *)
PaymentHolds ==
  \A p \in Payers : ppc[p] # "idle" =>
    /\ payment[p].order \in OrderIds
    /\ orderLock[payment[p].order] = p
    /\ Pending(payment[p].order)
    /\ payment[p].codes = ReservedFor(payment[p].order)

(* The inductive invariant.                                                *)
IInv == TypeOK /\ WorkerHolds /\ PaymentHolds
          /\ ReservationsMatchOrders /\ SoldCodesArePaidFor

-----------------------------------------------------------------------------
(* What a step may do to the tables.                                       *)
CreateStep(w, o) ==
  /\ wpc[w] = "inserting" /\ Insertable(w) /\ IsNextOrder(o) /\ Created(w, o)
  /\ Unlock(w) /\ wpc'[w] # "inserting"

RejectStep(w) == wpc[w] = "rejecting" /\ RejectRow(w)

ExpireStep(o) == orderLock[o] = Nobody /\ Expirable(o) /\ Expired(o)

PayStep(p) == ppc[p] = "debiting" /\ Paid(p) /\ EndPayment(p)

(* Whatever a step is, it leaves the tables alone, or it is one of the five *)
(* transactions that write them.                                           *)
LEMMA StepKinds ==
  ASSUME TypeOK, [Next]_vars
  PROVE  \/ UNCHANGED tables
         \/ \E w \in Workers, o \in OrderIds :
              CreateStep(w, o) /\ UNCHANGED paymentVars /\ UNCHANGED orderLock
         \/ \E w \in Workers :
              RejectStep(w) /\ UNCHANGED paymentVars /\ UNCHANGED orderLock
         \/ \E o \in OrderIds :
              BecomeOverdue(o) /\ UNCHANGED <<creationVars, paymentVars>>
         \/ \E o \in OrderIds : /\ ExpireStep(o)
                                /\ UNCHANGED <<creationVars, paymentVars, orderLock>>
         \/ \E p \in Payers : PayStep(p) /\ UNCHANGED creationVars
<1>1. CASE UNCHANGED vars
  BY <1>1 DEF vars
<1>2. CASE CreationNext /\ UNCHANGED <<sweep, paymentVars>>
  <2>1. CASE \E s \in Submissions, p \in Partitions : Submit(s, p)
    BY <2>1 DEF Submit
  <2>2. CASE \E p \in Partitions : Assign(p) \/ Rebalance(p)
    BY <2>2 DEF Assign, Rebalance, AssignTo
  <2>3. ASSUME NEW w \in Workers, WorkerStep(w) \/ WorkerFault(w)
        PROVE  \/ UNCHANGED tables
               \/ \E o \in OrderIds : CreateStep(w, o) /\ UNCHANGED orderLock
               \/ RejectStep(w) /\ UNCHANGED orderLock
    <3>1. CASE Insert(w) \/ CommitLost(w)
      BY <3>1 DEF Insert, CommitLost, CreateStep, Goto, TypeOK, CreationTypeOK
    <3>2. CASE Reject(w) \/ Crash(w)
      BY <3>2 DEF Reject, Crash, RejectStep
    <3>3. CASE TxError(w) \/ Begin(w) \/ LockListing(w) \/ Reserve(w) \/ Recheck(w)
      BY <3>3 DEF TxError, Begin, LockListing, Reserve, Recheck
    <3>4. CASE Ack(w) \/ Reopen(w) \/ \E p \in Partitions : Fetch(w, p)
      BY <3>4 DEF Ack, Reopen, Fetch
    <3> QED
      BY <2>3, <3>1, <3>2, <3>3, <3>4 DEF WorkerStep, WorkerFault
  <2> QED
    BY <1>2, <2>1, <2>2, <2>3 DEF CreationNext
<1>3. CASE ExpirationNext /\ UNCHANGED <<creationVars, paymentVars>>
  BY <1>3 DEF ExpirationNext, ListOverdue, SweepError, ExpireOne, ExpireStep, CanLockOrder
<1>4. CASE PaymentNext /\ UNCHANGED <<creationVars, sweep>>
  <2>1. ASSUME NEW p \in Payers,
               \/ \E o \in OrderIds, k \in Keys : PayBegin(p, o, k)
               \/ LockBalance(p) \/ PayAbort(p)
        PROVE  UNCHANGED tables
    BY <2>1 DEF PayBegin, LockBalance, PayAbort
  <2>2. ASSUME NEW p \in Payers, PayCommit(p)
        PROVE  UNCHANGED tables \/ PayStep(p)
    BY <2>2 DEF PayCommit, PayStep
  <2> QED
    BY <1>4, <2>1, <2>2 DEF PaymentNext
<1>5. CASE \E o \in OrderIds : BecomeOverdue(o) /\ UNCHANGED <<creationVars, sweep, paymentVars>>
  BY <1>5
<1> QED
  BY <1>1, <1>2, <1>3, <1>4, <1>5 DEF Next

-----------------------------------------------------------------------------
(* The fields of an orders row.                                            *)
LEMMA OrderFields ==
  ASSUME NEW row \in OrderRows
  PROVE  /\ row.status = "pending_payment" =>
              row \in [status : {"pending_payment", "paid", "expired"}, buyer : Buyers,
                      items : Carts, overdue : BOOLEAN]
         /\ row.items \in Carts /\ row.overdue \in BOOLEAN
         /\ row.status \in {"none", "pending_payment", "paid", "expired"}
<1>1. CASE row = NoOrder
  BY <1>1 DEF NoOrder, Carts
<1>2. CASE row # NoOrder
  BY <1>2 DEF OrderRows
<1> QED
  BY <1>1, <1>2

(* An order waiting for payment has a buyer, and stays a legal row when it is *)
(* paid, expires or becomes overdue.                                       *)
LEMMA PendingRow ==
  ASSUME TablesTypeOK, NEW o \in OrderIds, Pending(o)
  PROVE  /\ orders[o].buyer \in Buyers
         /\ [orders[o] EXCEPT !.status = "paid"] \in OrderRows
         /\ [orders[o] EXCEPT !.status = "expired"] \in OrderRows
         /\ [orders[o] EXCEPT !.overdue = TRUE] \in OrderRows
  BY OrderFields DEF TablesTypeOK, Pending, OrderRows

(* A worker that is not idle has a published event.                        *)
LEMMA JobEvent ==
  ASSUME CreationTypeOK, NEW w \in Workers, wpc[w] \notin {"closed", "idle"}
  PROVE  /\ job[w] \in [partition : Partitions, offset : Nat, event : Submissions]
         /\ Event(w) \in Submissions
         /\ Event(w).request \in Requests
         /\ Event(w).buyer \in Buyers
         /\ Event(w).items \in Carts
  BY TableAssumption DEF CreationTypeOK, Event, Pcs

(* Every step keeps the tables well typed.                                 *)
LEMMA TablesType ==
  ASSUME IInv, [Next]_vars
  PROVE  TablesTypeOK'
<1> USE DEF IInv, TypeOK
<1>1. CASE UNCHANGED tables
  BY <1>1 DEF tables, TablesTypeOK
<1>2. ASSUME NEW w \in Workers, NEW o \in OrderIds, CreateStep(w, o)
      PROVE  TablesTypeOK'
  <2>1. Event(w).request \in Requests /\ Event(w).buyer \in Buyers
          /\ Event(w).items \in Carts
    BY <1>2, JobEvent DEF CreateStep
  <2>2. requests' \in [Requests -> RequestRows]
    BY <1>2, <2>1 DEF CreateStep, Created, TablesTypeOK, RequestRows
  <2>3. orders' \in [OrderIds -> OrderRows]
    BY <1>2, <2>1 DEF CreateStep, Created, NewOrder, TablesTypeOK, OrderRows
  <2>4. codes' \in [Codes -> CodeRows]
    BY <1>2 DEF CreateStep, Created, TablesTypeOK, CodeRows
  <2> QED
    BY <1>2, <2>2, <2>3, <2>4 DEF CreateStep, Created, TablesTypeOK
<1>3. ASSUME NEW w \in Workers, RejectStep(w)
      PROVE  TablesTypeOK'
  <2>1. Event(w).request \in Requests /\ Event(w).buyer \in Buyers
    BY <1>3, JobEvent DEF RejectStep
  <2>2. requests' \in [Requests -> RequestRows]
    BY <1>3, <2>1 DEF RejectStep, RejectRow, OnConflictDoNothing, TablesTypeOK, RequestRows
  <2> QED
    BY <1>3, <2>2 DEF RejectStep, RejectRow, TablesTypeOK
<1>4. ASSUME NEW o \in OrderIds, BecomeOverdue(o)
      PROVE  TablesTypeOK'
  BY <1>4, PendingRow DEF BecomeOverdue, TablesTypeOK
<1>5. ASSUME NEW o \in OrderIds, ExpireStep(o)
      PROVE  TablesTypeOK'
  <2>1. orders' \in [OrderIds -> OrderRows]
    BY <1>5, PendingRow DEF ExpireStep, Expirable, Expired, TablesTypeOK
  <2>2. codes' \in [Codes -> CodeRows]
    BY <1>5 DEF ExpireStep, Expired, Released, TablesTypeOK, CodeRows
  <2> QED
    BY <1>5, <2>1, <2>2 DEF ExpireStep, Expired, TablesTypeOK
<1>6. ASSUME NEW p \in Payers, PayStep(p)
      PROVE  TablesTypeOK'
  <2> DEFINE o == payment[p].order
  <2>0. payment[p] \in [order : OrderIds, key : Keys, codes : SUBSET Codes]
    BY <1>6 DEF PayStep, PaymentTypeOK
  <2>1. /\ o \in OrderIds /\ Pending(o) /\ orders[o].buyer \in Buyers
        /\ payment[p].key \in Keys /\ payment[p].codes \subseteq Codes
    BY <1>6, <2>0, PendingRow DEF PayStep, PaymentHolds
  <2>2. orders' \in [OrderIds -> OrderRows]
    BY <1>6, <2>1, PendingRow DEF PayStep, Paid, TablesTypeOK
  <2>3. codes' \in [Codes -> CodeRows]
    BY <1>6 DEF PayStep, Paid, TablesTypeOK, CodeRows
  <2>4. /\ bindings' \subseteq OrderIds \X Codes
        /\ attempts' \subseteq [buyer : Buyers, key : Keys, order : OrderIds]
        /\ ledger' \subseteq [user : Buyers, order : OrderIds]
    BY <1>6, <2>1 DEF PayStep, Paid, TablesTypeOK
  <2> QED
    BY <1>6, <2>2, <2>3, <2>4 DEF PayStep, Paid, TablesTypeOK
<1> QED
  BY <1>1, <1>2, <1>3, <1>4, <1>5, <1>6, StepKinds

(* The end of a worker transaction keeps the types of its locks.           *)
LEMMA UnlockType ==
  ASSUME CreationTypeOK, NEW w \in Workers, Unlock(w)
  PROVE  /\ listingLock' \in [Listings -> Workers \union {Nobody}]
         /\ picked' \in [Workers -> SUBSET Codes]
  BY DEF CreationTypeOK, Unlock

(* A consumer that returns keeps the types of creation.                    *)
LEMMA CloseType ==
  ASSUME CreationTypeOK, NEW w \in Workers, Close(w), faults' \in Nat
  PROVE  CreationTypeOK'
<1>1. /\ listingLock' \in [Listings -> Workers \union {Nobody}]
      /\ picked' \in [Workers -> SUBSET Codes]
  BY UnlockType DEF Close
<1>2. /\ wpc' \in [Workers -> Pcs]
      /\ job' \in [Workers ->
           [partition : Partitions, offset : Nat, event : Submissions] \union {NoJob}]
      /\ \A v \in Workers : job'[v] = NoJob <=> wpc'[v] \in {"closed", "idle"}
      /\ owner' \in [Partitions -> Workers \union {Nobody}]
  BY DEF CreationTypeOK, Close, Pcs
<1> QED
  BY <1>1, <1>2 DEF CreationTypeOK, Close

(* Moving a worker on keeps the types of creation.                         *)
LEMMA GotoType ==
  ASSUME CreationTypeOK, NEW w \in Workers, NEW pc \in Pcs \ {"closed", "idle"},
         wpc[w] \notin {"closed", "idle"}, Goto(w, pc),
         listingLock' \in [Listings -> Workers \union {Nobody}],
         picked' \in [Workers -> SUBSET Codes], faults' \in Nat
  PROVE  CreationTypeOK'
  BY DEF CreationTypeOK, Goto, queueVars, Pcs

(* Every worker step, failing or not, keeps the types of creation.         *)
LEMMA WorkerType ==
  ASSUME CreationTypeOK, NEW w \in Workers, WorkerStep(w) \/ WorkerFault(w)
  PROVE  CreationTypeOK'
<1> USE CreationAssumption
<1>1. CASE Begin(w)
  BY <1>1, GotoType DEF Begin, CreationTypeOK, Pcs, InTransaction
<1>2. CASE LockListing(w)
  <2>1. PICK l \in NextListing(w) :
          \/ /\ listingLock' = [listingLock EXCEPT ![l] = w]
             /\ UNCHANGED <<queueVars, wpc, job, picked>>
          \/ Unlock(w) /\ Goto(w, "rejecting")
    BY <1>2 DEF LockListing
  <2>2. l \in Listings /\ wpc[w] = "locking" /\ faults' = faults
    BY <1>2 DEF LockListing, NextListing, Unlocked
  <2>3. CASE Unlock(w) /\ Goto(w, "rejecting")
    BY <2>2, <2>3, UnlockType, GotoType DEF CreationTypeOK, Pcs, InTransaction
  <2>4. CASE /\ listingLock' = [listingLock EXCEPT ![l] = w]
             /\ UNCHANGED <<queueVars, wpc, job, picked>>
    BY <2>2, <2>4 DEF CreationTypeOK, queueVars
  <2> QED
    BY <2>1, <2>3, <2>4
<1>3. CASE Reserve(w)
  <2>1. CASE Unlock(w) /\ Goto(w, "rejecting")
    BY <1>3, <2>1, UnlockType, GotoType DEF Reserve, CreationTypeOK, Pcs, InTransaction
  <2>2. CASE /\ \E S \in SUBSET Free : picked' = [picked EXCEPT ![w] = S]
             /\ Goto(w, "inserting")
             /\ UNCHANGED listingLock
    <3>1. picked' \in [Workers -> SUBSET Codes]
      BY <2>2 DEF Free, CreationTypeOK
    <3> QED
      BY <1>3, <2>2, <3>1, GotoType DEF Reserve, CreationTypeOK, Pcs, InTransaction
  <2> QED
    BY <1>3, <2>1, <2>2 DEF Reserve
<1>4. CASE Insert(w) \/ CommitLost(w) \/ TxError(w)
  <2>1. /\ Unlock(w) /\ faults' \in Nat
        /\ wpc[w] \notin {"closed", "idle"}
        /\ Goto(w, "recheck") \/ Goto(w, "acking")
    BY <1>4 DEF Insert, CommitLost, TxError, CreationTypeOK, InTransaction
  <2> QED
    BY <2>1, UnlockType, GotoType DEF Pcs
<1>5. CASE Recheck(w) \/ Reject(w) \/ Crash(w)
  <2>1. /\ faults' \in Nat
        /\ \/ Close(w)
           \/ /\ wpc[w] \notin {"closed", "idle"}
              /\ Goto(w, "acking")
              /\ UNCHANGED <<listingLock, picked>>
    BY <1>5 DEF Recheck, Reject, Crash, CreationTypeOK
  <2> QED
    BY <2>1, CloseType, GotoType DEF CreationTypeOK, Pcs
<1>6. CASE Ack(w)
  <2>1. /\ job[w] \in [partition : Partitions, offset : Nat, event : Submissions]
        /\ job[w].offset + 1 \in Nat
    BY <1>6, JobEvent DEF Ack
  <2> QED
    BY <1>6, <2>1 DEF Ack, CreationTypeOK, Pcs
<1>7. CASE Reopen(w)
  BY <1>7 DEF Reopen, CreationTypeOK, queueVars, Pcs
<1>8. ASSUME NEW p \in Partitions, Fetch(w, p)
      PROVE  CreationTypeOK'
  <2> DEFINE j == [partition |-> p, offset |-> position[p],
                   event |-> log[p][position[p] + 1]]
  <2>1. position[p] \in Nat /\ log[p] \in Seq(Submissions)
          /\ position[p] + 1 \in 1..Len(log[p])
    BY <1>8 DEF Fetch, CreationTypeOK
  <2>2. j \in [partition : Partitions, offset : Nat, event : Submissions]
    BY <2>1
  <2>3. j # NoJob
    BY CreationAssumption DEF NoJob
  <2>4. job' = [job EXCEPT ![w] = j] /\ wpc' = [wpc EXCEPT ![w] = "begin"]
    BY <1>8 DEF Fetch
  <2>5. /\ job' \in [Workers ->
              [partition : Partitions, offset : Nat, event : Submissions] \union {NoJob}]
        /\ wpc' \in [Workers -> Pcs]
        /\ \A v \in Workers : job'[v] = NoJob <=> wpc'[v] \in {"closed", "idle"}
    <3> HIDE DEF j
    <3> QED
      BY <2>2, <2>3, <2>4 DEF CreationTypeOK, Pcs
  <2>6. position' \in [Partitions -> Nat]
    BY <1>8, <2>1 DEF Fetch, CreationTypeOK
  <2> QED
    BY <1>8, <2>5, <2>6 DEF Fetch, CreationTypeOK
<1> QED
  BY <1>1, <1>2, <1>3, <1>4, <1>5, <1>6, <1>7, <1>8 DEF WorkerStep, WorkerFault

(* Every step keeps the types of creation.                                 *)
LEMMA CreationType ==
  ASSUME CreationTypeOK, [Next]_vars
  PROVE  CreationTypeOK'
<1>1. CASE UNCHANGED creationVars
  BY <1>1 DEF creationVars, queueVars, workerVars, CreationTypeOK
<1>2. ASSUME NEW s \in Submissions, NEW p \in Partitions, Submit(s, p)
      PROVE  CreationTypeOK'
  <2>1. log' \in [Partitions -> Seq(Submissions)]
    BY <1>2 DEF Submit, CreationTypeOK
  <2> QED
    BY <1>2, <2>1 DEF Submit, CreationTypeOK, workerVars
<1>3. ASSUME NEW p \in Partitions, Assign(p) \/ Rebalance(p)
      PROVE  CreationTypeOK'
  <2>1. PICK w \in Workers : AssignTo(p, w) /\ faults' \in Nat
    BY <1>3 DEF Assign, Rebalance, CreationTypeOK
  <2> QED
    BY <2>1 DEF AssignTo, CreationTypeOK, workerVars
<1>4. CASE UNCHANGED vars
  BY <1>1, <1>4 DEF vars
<1>5. CASE ExpirationNext /\ UNCHANGED <<creationVars, paymentVars>>
  BY <1>1, <1>5
<1>6. CASE PaymentNext /\ UNCHANGED <<creationVars, sweep>>
  BY <1>1, <1>6
<1>7. CASE \E o \in OrderIds : BecomeOverdue(o) /\ UNCHANGED <<creationVars, sweep, paymentVars>>
  BY <1>1, <1>7
<1> QED
  BY <1>2, <1>3, <1>4, <1>5, <1>6, <1>7, WorkerType DEF Next, CreationNext

(* Every step keeps the types of payment, and the owners of order locks.   *)
LEMMA PaymentType ==
  ASSUME PaymentTypeOK, TablesTypeOK, [Next]_vars
  PROVE  PaymentTypeOK'
<1>1. CASE UNCHANGED <<paymentVars, orderLock>>
  BY <1>1 DEF paymentVars, PaymentTypeOK
<1>2. ASSUME NEW p \in Payers, EndPayment(p)
      PROVE  PaymentTypeOK'
  <2>1. /\ orderLock' \in [OrderIds -> Payers \union {Nobody}]
        /\ balanceLock' \in [Buyers -> Payers \union {Nobody}]
    BY <1>2 DEF EndPayment, Freed, PaymentTypeOK
  <2> QED
    BY <1>2, <2>1 DEF EndPayment, PaymentTypeOK
<1>3. ASSUME NEW p \in Payers, NEW o \in OrderIds, NEW k \in Keys, PayBegin(p, o, k)
      PROVE  PaymentTypeOK'
  <2> DEFINE c == [order |-> o, key |-> k, codes |-> ReservedFor(o)]
  <2>1. c \in [order : OrderIds, key : Keys, codes : SUBSET Codes]
    BY DEF ReservedFor
  <2>2. c # NoPayment
    BY TableAssumption DEF NoPayment
  <2>3. payment' = [payment EXCEPT ![p] = c]
    BY <1>3 DEF PayBegin
  <2> HIDE DEF c
  <2> QED
    BY <1>3, <2>1, <2>2, <2>3 DEF PayBegin, PaymentTypeOK
<1>4. ASSUME NEW p \in Payers, LockBalance(p)
      PROVE  PaymentTypeOK'
  <2>1. CASE EndPayment(p)
    BY <1>2, <2>1
  <2>2. CASE ~EndPayment(p)
    BY <1>4, <2>2 DEF LockBalance, PaymentTypeOK
  <2> QED
    BY <2>1, <2>2
<1>5. CASE PaymentNext
  BY <1>2, <1>3, <1>4, <1>5 DEF PaymentNext, PayCommit, PayAbort
<1>6. CASE CreationNext /\ UNCHANGED <<sweep, paymentVars>>
  BY <1>1, <1>6 DEF CreationNext, WorkerStep, WorkerFault, Submit, Assign, Rebalance,
     AssignTo, Fetch, Begin, LockListing, Reserve, Insert, Recheck, Reject, Ack, Reopen,
     CommitLost, TxError, Crash
<1>7. CASE ExpirationNext /\ UNCHANGED <<creationVars, paymentVars>>
  BY <1>1, <1>7 DEF ExpirationNext, ListOverdue, SweepError, ExpireOne
<1>8. CASE UNCHANGED vars \/ \E o \in OrderIds : BecomeOverdue(o) /\ UNCHANGED paymentVars
  BY <1>1, <1>8 DEF vars, BecomeOverdue
<1> QED
  BY <1>5, <1>6, <1>7, <1>8 DEF Next

(* Every step keeps the candidates of a sweep to be orders.                *)
LEMMA ExpirationType ==
  ASSUME ExpirationTypeOK, [Next]_vars
  PROVE  ExpirationTypeOK'
<1>1. CASE UNCHANGED sweep
  BY <1>1 DEF ExpirationTypeOK
<1>2. CASE ExpirationNext
  BY <1>2 DEF ExpirationNext, ListOverdue, SweepError, ExpireOne, ExpirationTypeOK, Overdue
<1> QED
  BY <1>1, <1>2 DEF Next, vars

(* TypeOK is preserved by every step.                                      *)
LEMMA TypeStep ==
  ASSUME IInv, [Next]_vars
  PROVE  TypeOK'
BY TablesType, CreationType, PaymentType, ExpirationType DEF IInv, TypeOK

-----------------------------------------------------------------------------
(* Transactions keep out of each other's way.                              *)

(* A step of the tables leaves a pending order, its cart and its codes     *)
(* alone unless it expires or pays that very order.                        *)
LEMMA PendingKept ==
  ASSUME IInv, [Next]_vars, NEW q \in OrderIds, Pending(q),
         \A o \in OrderIds : ExpireStep(o) => o # q,
         \A p \in Payers : PayStep(p) => payment[p].order # q
  PROVE  Pending(q)' /\ ReservedFor(q)' = ReservedFor(q)
           /\ orders'[q].items = orders[q].items
<1> USE DEF IInv, TypeOK, TablesTypeOK
<1>1. CASE UNCHANGED tables
  BY <1>1 DEF tables, Pending, ReservedFor
<1>2. ASSUME NEW w \in Workers, NEW o \in OrderIds, CreateStep(w, o)
      PROVE  Pending(q)' /\ ReservedFor(q)' = ReservedFor(q)
               /\ orders'[q].items = orders[q].items
  <2>1. o # q
    BY <1>2 DEF CreateStep, IsNextOrder, Pending
  <2>2. \A c \in picked[w] : codes[c].status = "available"
    BY DEF WorkerHolds
  <2> QED
    BY <1>2, <2>1, <2>2 DEF CreateStep, Created, Pending, ReservedFor
<1>3. ASSUME NEW w \in Workers, RejectStep(w)
      PROVE  Pending(q)' /\ ReservedFor(q)' = ReservedFor(q)
               /\ orders'[q].items = orders[q].items
  BY <1>3 DEF RejectStep, RejectRow, Pending, ReservedFor
<1>4. ASSUME NEW o \in OrderIds, BecomeOverdue(o)
      PROVE  Pending(q)' /\ ReservedFor(q)' = ReservedFor(q)
               /\ orders'[q].items = orders[q].items
  <2>1. ReservedFor(q)' = ReservedFor(q)
    BY <1>4 DEF BecomeOverdue, ReservedFor
  <2> QED
    BY <1>4, <2>1, PendingRow DEF BecomeOverdue, Pending
<1>5. ASSUME NEW o \in OrderIds, ExpireStep(o)
      PROVE  Pending(q)' /\ ReservedFor(q)' = ReservedFor(q)
               /\ orders'[q].items = orders[q].items
  BY <1>5 DEF ExpireStep, Expired, Released, Pending, ReservedFor
<1>6. ASSUME NEW p \in Payers, PayStep(p)
      PROVE  Pending(q)' /\ ReservedFor(q)' = ReservedFor(q)
               /\ orders'[q].items = orders[q].items
  <2>1. payment[p].order # q
    BY <1>6
  <2>2. payment[p].codes = ReservedFor(payment[p].order)
    BY <1>6 DEF PayStep, PaymentHolds
  <2> QED
    BY <1>6, <2>1, <2>2 DEF PayStep, Paid, Pending, ReservedFor
<1> QED
  BY <1>1, <1>2, <1>3, <1>4, <1>5, <1>6, StepKinds

(* The row lock a payment took keeps its order pending and its codes its own *)
(* until it ends: neither a sweep nor another payment passes it.           *)
LEMMA PaymentHoldsStep ==
  ASSUME IInv, [Next]_vars
  PROVE  PaymentHolds'
<1> USE DEF IInv, TypeOK
<1> SUFFICES ASSUME NEW p \in Payers, ppc'[p] # "idle"
             PROVE  /\ payment'[p].order \in OrderIds
                    /\ orderLock'[payment'[p].order] = p
                    /\ Pending(payment[p].order)'
                    /\ payment'[p].codes = ReservedFor(payment[p].order)'
  BY DEF PaymentHolds
<1>1. CASE \E o \in OrderIds, k \in Keys : PayBegin(p, o, k)
  BY <1>1 DEF PayBegin, Payable, tables, Pending, ReservedFor, PaymentTypeOK
<1>2. CASE ~\E o \in OrderIds, k \in Keys : PayBegin(p, o, k)
  <2> DEFINE Kept == /\ ppc[p] # "idle" /\ payment'[p] = payment[p]
                     /\ payment[p].order \in OrderIds
                     /\ orderLock'[payment[p].order] = p
  <2>1. Kept
    <3> DEFINE same == \/ UNCHANGED <<ppc, payment, orderLock>>
                       \/ \E q \in Payers : EndPayment(q)
                       \/ \E q \in Payers, o \in OrderIds, k \in Keys : PayBegin(q, o, k)
                       \/ \E q \in Payers : /\ ppc[q] = "paying"
                                            /\ ppc' = [ppc EXCEPT ![q] = "debiting"]
                                            /\ UNCHANGED <<payment, orderLock>>
    <3>1. same
      <4>1. CASE PaymentNext
        BY <4>1 DEF PaymentNext, LockBalance, PayCommit, PayAbort
      <4>2. CASE CreationNext /\ UNCHANGED <<sweep, paymentVars>>
        BY <4>2 DEF CreationNext, WorkerStep, WorkerFault, Submit, Assign, Rebalance,
           AssignTo, Fetch, Begin, LockListing, Reserve, Insert, Recheck, Reject, Ack,
           Reopen, CommitLost, TxError, Crash, paymentVars
      <4>3. CASE ExpirationNext /\ UNCHANGED <<creationVars, paymentVars>>
        BY <4>3 DEF ExpirationNext, ListOverdue, SweepError, ExpireOne, paymentVars
      <4>4. CASE UNCHANGED vars \/ \E o \in OrderIds : BecomeOverdue(o) /\ UNCHANGED paymentVars
        BY <4>4 DEF vars, BecomeOverdue, paymentVars
      <4> QED
        BY <4>1, <4>2, <4>3, <4>4 DEF Next
    <3>2. CASE UNCHANGED <<ppc, payment, orderLock>>
      BY <3>2 DEF PaymentHolds
    <3>3. ASSUME NEW q \in Payers, EndPayment(q)
          PROVE  Kept
      <4>1. q # p
        BY <3>3 DEF EndPayment, PaymentTypeOK
      <4>2. ppc[p] # "idle" /\ payment'[p] = payment[p]
        BY <3>3, <4>1 DEF EndPayment, PaymentTypeOK
      <4> QED
        BY <3>3, <4>1, <4>2 DEF EndPayment, Freed, PaymentTypeOK, PaymentHolds
    <3>4. ASSUME NEW q \in Payers, NEW o \in OrderIds, NEW k \in Keys, PayBegin(q, o, k)
          PROVE  Kept
      <4>1. q # p
        BY <1>2, <3>4
      <4>2. ppc[p] # "idle" /\ payment'[p] = payment[p]
        BY <3>4, <4>1 DEF PayBegin, PaymentTypeOK
      <4> QED
        BY <3>4, <4>1, <4>2, PaymentAssumption DEF PayBegin, PaymentTypeOK, PaymentHolds
    <3>5. ASSUME NEW q \in Payers, ppc[q] = "paying",
                 ppc' = [ppc EXCEPT ![q] = "debiting"],
                 UNCHANGED <<payment, orderLock>>
          PROVE  Kept
      BY <3>5 DEF PaymentTypeOK, PaymentHolds
    <3> QED
      BY <3>1, <3>2, <3>3, <3>4, <3>5
  <2>2. \A q \in Payers : PayStep(q) => payment[q].order # payment[p].order
    <3> SUFFICES ASSUME NEW q \in Payers, PayStep(q)
                 PROVE  payment[q].order # payment[p].order
      OBVIOUS
    <3>1. orderLock[payment[q].order] = q /\ orderLock[payment[p].order] = p
      BY <2>1 DEF PaymentHolds, PayStep
    <3>2. q # p
      BY DEF PayStep, EndPayment, PaymentTypeOK
    <3> QED
      BY <3>1, <3>2
  <2>3. \A o \in OrderIds : ExpireStep(o) => o # payment[p].order
    BY <2>1, PaymentAssumption DEF ExpireStep, PaymentHolds
  <2>4. Pending(payment[p].order) /\ payment[p].codes = ReservedFor(payment[p].order)
    BY <2>1 DEF PaymentHolds
  <2>5. /\ (orders'[payment[p].order]).status = "pending_payment"
        /\ payment[p].codes = {c \in Codes : codes'[c].status = "reserved"
                                 /\ codes'[c].order = payment[p].order}
    <3> DEFINE q == payment[p].order
    <3>1. Pending(q)' /\ ReservedFor(q)' = ReservedFor(q)
      BY <2>1, <2>2, <2>3, <2>4, PendingKept DEF Pending, ReservedFor
    <3> QED
      BY <3>1, <2>1, <2>4 DEF Pending, ReservedFor
  <2> QED
    BY <2>1, <2>5 DEF Pending, ReservedFor
<1> QED
  BY <1>1, <1>2

(* What a step may do to the open transactions of the workers.             *)
LEMMA WorkerKinds ==
  ASSUME CreationTypeOK, WorkerHolds, [Next]_vars
  PROVE  \/ UNCHANGED <<wpc, picked>> /\ (\A v \in Workers : wpc[v] = "inserting" => job'[v] = job[v])
         \/ \E w \in Workers :
              /\ picked' = [picked EXCEPT ![w] = {}]
              /\ wpc'[w] # "inserting"
              /\ \A v \in Workers : v # w => wpc'[v] = wpc[v] /\ job'[v] = job[v]
         \/ \E w \in Workers, S \in SUBSET Free :
              /\ Fills(S, Event(w).items)
              /\ picked' = [picked EXCEPT ![w] = S]
              /\ wpc' = [wpc EXCEPT ![w] = "inserting"]
              /\ UNCHANGED <<job, tables>>
<1> USE DEF CreationTypeOK
<1>1. CASE UNCHANGED creationVars
  BY <1>1 DEF creationVars, workerVars
<1>2. CASE CreationNext
  <2>1. CASE \E s \in Submissions, p \in Partitions : Submit(s, p)
    BY <2>1 DEF Submit, workerVars
  <2>2. CASE \E p \in Partitions : Assign(p) \/ Rebalance(p)
    BY <2>2 DEF Assign, Rebalance, AssignTo, workerVars
  <2>3. ASSUME NEW w \in Workers, WorkerStep(w) \/ WorkerFault(w)
        PROVE  \/ UNCHANGED <<wpc, picked>> /\ (\A v \in Workers : wpc[v] = "inserting" => job'[v] = job[v])
               \/ /\ picked' = [picked EXCEPT ![w] = {}]
                  /\ wpc'[w] # "inserting"
                  /\ \A v \in Workers : v # w => wpc'[v] = wpc[v] /\ job'[v] = job[v]
               \/ \E S \in SUBSET Free :
                    /\ Fills(S, Event(w).items)
                    /\ picked' = [picked EXCEPT ![w] = S]
                    /\ wpc' = [wpc EXCEPT ![w] = "inserting"]
                    /\ UNCHANGED <<job, tables>>
    <3>0. wpc[w] # "inserting" => picked = [picked EXCEPT ![w] = {}]
      BY DEF WorkerHolds
    <3>1. CASE Insert(w) \/ CommitLost(w) \/ TxError(w)
      BY <3>1 DEF Insert, CommitLost, TxError, Goto, Unlock
    <3>2. CASE LockListing(w)
      BY <3>2 DEF LockListing, Goto, Unlock
    <3>3. CASE Reserve(w)
      BY <3>3 DEF Reserve, Goto, Unlock
    <3>4. CASE Begin(w) \/ Ack(w) \/ Reopen(w) \/ \E p \in Partitions : Fetch(w, p)
      BY <3>0, <3>4 DEF Begin, Ack, Reopen, Fetch, Goto
    <3>5. CASE Recheck(w) \/ Reject(w) \/ Crash(w)
      BY <3>0, <3>5 DEF Recheck, Reject, Crash, Close, Goto, Unlock
    <3> QED
      BY <2>3, <3>1, <3>2, <3>3, <3>4, <3>5 DEF WorkerStep, WorkerFault
  <2> QED
    BY <1>2, <2>1, <2>2, <2>3 DEF CreationNext
<1> QED
  BY <1>1, <1>2 DEF Next, vars

(* SKIP LOCKED keeps the codes of open creation transactions apart and     *)
(* available.                                                              *)
LEMMA WorkerHoldsStep ==
  ASSUME IInv, [Next]_vars
  PROVE  WorkerHolds'
<1> USE DEF IInv, TypeOK
(* A code that stays picked stays available. *)
<1>1. ASSUME NEW v \in Workers, NEW c \in picked[v], c \in picked'[v]
      PROVE  codes'[c].status = "available"
  <2>0. c \in Codes /\ codes[c].status = "available"
    BY DEF WorkerHolds, CreationTypeOK
  <2>1. CASE UNCHANGED tables
    BY <2>0, <2>1 DEF tables
  <2>2. ASSUME NEW w \in Workers, NEW o \in OrderIds, CreateStep(w, o)
        PROVE  codes'[c].status = "available"
    <3>1. w # v
      BY <1>1, <2>2 DEF CreateStep, Unlock, CreationTypeOK
    <3>2. c \notin picked[w]
      BY <3>1 DEF WorkerHolds
    <3> QED
      BY <2>0, <2>2, <3>2 DEF CreateStep, Created
  <2>3. CASE \E w \in Workers : RejectStep(w)
    BY <2>0, <2>3 DEF RejectStep, RejectRow
  <2>4. CASE \E o \in OrderIds : BecomeOverdue(o)
    BY <2>0, <2>4 DEF BecomeOverdue
  <2>5. CASE \E o \in OrderIds : ExpireStep(o)
    BY <2>0, <2>5 DEF ExpireStep, Expired, Released
  <2>6. CASE \E p \in Payers : PayStep(p)
    BY <2>0, <2>6 DEF PayStep, Paid
  <2> QED
    BY <2>1, <2>2, <2>3, <2>4, <2>5, <2>6, StepKinds
<1>2. CASE UNCHANGED <<wpc, picked>> /\ (\A v \in Workers : wpc[v] = "inserting" => job'[v] = job[v])
  BY <1>1, <1>2 DEF WorkerHolds, Event
<1>3. ASSUME NEW w \in Workers,
             picked' = [picked EXCEPT ![w] = {}],
             wpc'[w] # "inserting",
             \A v \in Workers : v # w => wpc'[v] = wpc[v] /\ job'[v] = job[v]
      PROVE  WorkerHolds'
  BY <1>1, <1>3 DEF WorkerHolds, Event, CreationTypeOK
<1>4. ASSUME NEW w \in Workers, NEW S \in SUBSET Free,
             Fills(S, Event(w).items),
             picked' = [picked EXCEPT ![w] = S],
             wpc' = [wpc EXCEPT ![w] = "inserting"],
             UNCHANGED <<job, tables>>
      PROVE  WorkerHolds'
  <2>1. \A c \in S : codes[c].status = "available" /\ \A v \in Workers : c \notin picked[v]
    BY <1>4 DEF Free
  <2> QED
    BY <1>4, <2>1 DEF WorkerHolds, Event, CreationTypeOK, tables
<1> QED
  BY <1>2, <1>3, <1>4, WorkerKinds

(* Every step keeps reservations and pending orders matched.               *)
LEMMA ReservationsStep ==
  ASSUME IInv, [Next]_vars
  PROVE  ReservationsMatchOrders'
<1> USE DEF IInv, TypeOK, TablesTypeOK
<1> DEFINE Owned(c) == /\ codes'[c].order \in OrderIds
                       /\ (orders'[codes'[c].order]).status = "pending_payment"
<1>1. ASSUME NEW c \in Codes, codes'[c].status = "reserved"
      PROVE  Owned(c)
  <2>1. CASE UNCHANGED tables
    BY <1>1, <2>1 DEF tables, ReservationsMatchOrders, Pending
  <2>2. ASSUME NEW w \in Workers, NEW o \in OrderIds, CreateStep(w, o)
        PROVE  Owned(c)
    BY <1>1, <2>2 DEF CreateStep, Created, NewOrder, ReservationsMatchOrders, Pending
  <2>3. CASE \E w \in Workers : RejectStep(w)
    BY <1>1, <2>3 DEF RejectStep, RejectRow, ReservationsMatchOrders, Pending
  <2>4. CASE \E o \in OrderIds : BecomeOverdue(o)
    BY <1>1, <2>4, PendingRow DEF BecomeOverdue, ReservationsMatchOrders, Pending
  <2>5. CASE \E o \in OrderIds : ExpireStep(o)
    BY <1>1, <2>5 DEF ExpireStep, Expired, Released, ReservedFor, ReservationsMatchOrders, Pending
  <2>6. ASSUME NEW p \in Payers, PayStep(p)
        PROVE  Owned(c)
    BY <1>1, <2>6 DEF PayStep, Paid, PaymentHolds, ReservedFor, ReservationsMatchOrders, Pending
  <2> QED
    BY <2>1, <2>2, <2>3, <2>4, <2>5, <2>6, StepKinds
<1>2. ASSUME NEW q \in OrderIds, Pending(q), Pending(q)'
      PROVE  Fills(ReservedFor(q)', orders'[q].items)
  <2>1. \A o \in OrderIds : ExpireStep(o) => o # q
    BY <1>2 DEF ExpireStep, Expired, Pending
  <2>2. \A p \in Payers : PayStep(p) => payment[p].order # q
    BY <1>2 DEF PayStep, Paid, Pending
  <2>3. ReservedFor(q)' = ReservedFor(q) /\ orders'[q].items = orders[q].items
    BY <1>2, <2>1, <2>2, PendingKept
  <2> QED
    BY <1>2, <2>3 DEF ReservationsMatchOrders
<1>3. ASSUME NEW q \in OrderIds, ~Pending(q), Pending(q)'
      PROVE  Fills(ReservedFor(q)', orders'[q].items)
  <2>1. PICK w \in Workers : CreateStep(w, q)
    <3>1. CASE UNCHANGED tables
      BY <1>3, <3>1 DEF tables, Pending
    <3>2. ASSUME NEW w \in Workers, NEW o \in OrderIds, CreateStep(w, o)
          PROVE  o = q
      BY <1>3, <3>2 DEF CreateStep, Created, Pending
    <3>3. CASE \E w \in Workers : RejectStep(w)
      BY <1>3, <3>3 DEF RejectStep, RejectRow, Pending
    <3>4. CASE \E o \in OrderIds : BecomeOverdue(o)
      BY <1>3, <3>4 DEF BecomeOverdue, Pending
    <3>5. CASE \E o \in OrderIds : ExpireStep(o)
      BY <1>3, <3>5 DEF ExpireStep, Expired, Pending
    <3>6. CASE \E p \in Payers : PayStep(p)
      BY <1>3, <3>6 DEF PayStep, Paid, Pending
    <3> QED
      BY <3>1, <3>2, <3>3, <3>4, <3>5, <3>6, StepKinds
  <2>2. \A c \in Codes : codes[c].status = "reserved" => codes[c].order # q
    BY <1>3 DEF ReservationsMatchOrders
  <2>3. picked[w] \subseteq Codes
    BY DEF CreationTypeOK
  <2>4. ReservedFor(q)' = picked[w]
    BY <2>1, <2>2, <2>3 DEF CreateStep, Created, ReservedFor
  <2>5. orders'[q].items = Event(w).items
    BY <2>1 DEF CreateStep, Created, NewOrder
  <2> QED
    BY <2>1, <2>4, <2>5 DEF CreateStep, WorkerHolds
<1>4. \A q \in OrderIds : Pending(q)' => Fills(ReservedFor(q)', orders'[q].items)
  BY <1>2, <1>3
<1> QED
  BY <1>1, <1>4 DEF ReservationsMatchOrders, Pending, Fills

(* Every step keeps sold codes, bindings and paid orders matched.          *)
LEMMA SoldStep ==
  ASSUME IInv, [Next]_vars
  PROVE  SoldCodesArePaidFor'
<1> USE DEF IInv, TypeOK, TablesTypeOK
<1>1. ASSUME NEW p \in Payers, PayStep(p)
      PROVE  SoldCodesArePaidFor'
  <2>1. PICK o \in OrderIds, S \in SUBSET Codes :
          /\ o = payment[p].order /\ S = payment[p].codes
          /\ Pending(o) /\ S = ReservedFor(o)
    BY <1>1 DEF PayStep, PaymentHolds, ReservedFor
  <2>2. /\ orders' = [orders EXCEPT ![o].status = "paid"]
        /\ bindings' = bindings \union ({o} \X S)
        /\ codes' = [c \in Codes |-> IF c \in S /\ codes[c].status = "reserved"
                                     THEN [status |-> "sold", order |-> Nobody]
                                     ELSE codes[c]]
    BY <1>1, <2>1 DEF PayStep, Paid
  <2>3. /\ S \subseteq Codes
        /\ \A c \in S : codes[c].status = "reserved" /\ \A q \in OrderIds : <<q, c>> \notin bindings
    BY <2>1 DEF ReservedFor, SoldCodesArePaidFor
  <2>4. BoundTo(o) = {}
    BY <2>1 DEF SoldCodesArePaidFor, Pending
  <2>5. BoundTo(o)' = S /\ \A q \in OrderIds : q # o => BoundTo(q)' = BoundTo(q)
    <3>1. \A q \in OrderIds, c \in Codes :
            <<q, c>> \in bindings' <=> <<q, c>> \in bindings \/ (q = o /\ c \in S)
      BY <2>1, <2>2, <2>3
    <3>2. BoundTo(o)' = S
      BY <2>1, <2>3, <2>4, <3>1 DEF BoundTo
    <3>3. \A q \in OrderIds : q # o => BoundTo(q)' = BoundTo(q)
      BY <3>1 DEF BoundTo
    <3> QED
      BY <3>2, <3>3
  <2>6. \A c \in Codes : codes'[c].status = "sold" <=> \E q \in OrderIds : <<q, c>> \in bindings'
    BY <2>1, <2>2, <2>3 DEF SoldCodesArePaidFor
  <2>7. \A x, y \in bindings' : x[2] = y[2] => x = y
    <3>1. \A x \in bindings : x[2] \in Codes /\ x[2] \notin S
      BY <2>3
    <3>2. \A x \in {o} \X S : x[2] \in S /\ x = <<o, x[2]>>
      OBVIOUS
    <3>3. \A x, y \in bindings : x[2] = y[2] => x = y
      BY DEF SoldCodesArePaidFor
    <3>4. \A x \in bindings' : x \in bindings \/ x \in {o} \X S
      BY <2>2
    <3> QED
      BY <3>1, <3>2, <3>3, <3>4
  <2>8. Fills(S, orders[o].items)
    BY <2>1 DEF ReservationsMatchOrders
  <2>9. \A q \in OrderIds :
          /\ orders'[q].items = orders[q].items
          /\ orders'[q].status = IF q = o THEN "paid" ELSE orders[q].status
    <3>1. orders' = [orders EXCEPT ![o] = [orders[o] EXCEPT !.status = "paid"]]
      BY <2>2
    <3>2. /\ [orders[o] EXCEPT !.status = "paid"].items = orders[o].items
          /\ [orders[o] EXCEPT !.status = "paid"].status = "paid"
      BY <2>1, PendingRow
    <3>3. \A q \in OrderIds : orders'[q] = IF q = o THEN [orders[o] EXCEPT !.status = "paid"]
                                           ELSE orders[q]
      BY <2>1, <3>1
    <3> SUFFICES ASSUME NEW q \in OrderIds
                 PROVE  /\ orders'[q].items = orders[q].items
                        /\ orders'[q].status = IF q = o THEN "paid" ELSE orders[q].status
      OBVIOUS
    <3>4. CASE q = o
      BY <3>2, <3>3, <3>4
    <3>5. CASE q # o
      BY <3>3, <3>5
    <3> QED
      BY <3>4, <3>5
  <2>10. \A q \in OrderIds :
           /\ BoundTo(q)' # {} => orders'[q].status = "paid"
           /\ orders'[q].status = "paid" => Fills(BoundTo(q)', orders'[q].items)
    BY <2>1, <2>5, <2>8, <2>9 DEF SoldCodesArePaidFor
  <2> QED
    BY <2>6, <2>7, <2>10 DEF SoldCodesArePaidFor, Fills, BoundTo
(* No other step sells, binds or touches a paid order. *)
<1>2. ASSUME bindings' = bindings,
             \A c \in Codes : codes'[c].status = "sold" <=> codes[c].status = "sold",
             \A q \in OrderIds :
               /\ orders'[q].status = "paid" <=> orders[q].status = "paid"
               /\ orders[q].status = "paid" => orders'[q].items = orders[q].items
      PROVE  SoldCodesArePaidFor'
  <2>1. \A q \in OrderIds : BoundTo(q)' = BoundTo(q)
    BY <1>2 DEF BoundTo
  <2>2. \A q \in OrderIds :
          /\ BoundTo(q)' # {} => orders'[q].status = "paid"
          /\ orders'[q].status = "paid" => Fills(BoundTo(q)', orders'[q].items)
    BY <1>2, <2>1 DEF SoldCodesArePaidFor
  <2> QED
    BY <1>2, <2>2 DEF SoldCodesArePaidFor, Fills, BoundTo
<1>3. CASE UNCHANGED tables
  BY <1>2, <1>3 DEF tables
<1>4. ASSUME NEW w \in Workers, NEW o \in OrderIds, CreateStep(w, o)
      PROVE  SoldCodesArePaidFor'
  BY <1>2, <1>4 DEF CreateStep, Created, NewOrder, IsNextOrder, WorkerHolds
<1>5. ASSUME NEW w \in Workers, RejectStep(w)
      PROVE  SoldCodesArePaidFor'
  BY <1>2, <1>5 DEF RejectStep, RejectRow
<1>6. ASSUME NEW o \in OrderIds, BecomeOverdue(o)
      PROVE  SoldCodesArePaidFor'
  BY <1>2, <1>6, PendingRow DEF BecomeOverdue, Pending
<1>7. ASSUME NEW o \in OrderIds, ExpireStep(o)
      PROVE  SoldCodesArePaidFor'
  BY <1>2, <1>7 DEF ExpireStep, Expirable, Expired, Released, ReservedFor, Pending
<1> QED
  BY <1>1, <1>3, <1>4, <1>5, <1>6, <1>7, StepKinds

-----------------------------------------------------------------------------
(* The inductive invariant holds of empty tables and idle processes.       *)
LEMMA InvInit == Init => IInv
<1> SUFFICES ASSUME Init PROVE IInv
  OBVIOUS
<1> USE TableAssumption DEF Init, TablesInit, CreationInit, ExpirationInit, PaymentInit
<1>1. TypeOK
  BY DEF TypeOK, TablesTypeOK, CreationTypeOK, ExpirationTypeOK, PaymentTypeOK,
     RequestRows, OrderRows, CodeRows, Pcs
<1>2. WorkerHolds /\ PaymentHolds
  BY DEF WorkerHolds, PaymentHolds
<1>3. ReservationsMatchOrders
  BY DEF ReservationsMatchOrders, Pending, NoOrder
<1>4. SoldCodesArePaidFor
  BY DEF SoldCodesArePaidFor, BoundTo, NoOrder
<1> QED
  BY <1>1, <1>2, <1>3, <1>4 DEF IInv

(* The inductive invariant holds in every reachable state.                 *)
THEOREM Invariant == Spec => []IInv
<1>1. IInv /\ [Next]_vars => IInv'
  BY TypeStep, WorkerHoldsStep, PaymentHoldsStep, ReservationsStep, SoldStep DEF IInv
<1> QED
  BY InvInit, <1>1, PTL DEF Spec

(* TypeOK holds in every reachable state: tables, topic, workers, sweeps and *)
(* payments stay well typed.                                               *)
THEOREM Types == Spec => []TypeOK
BY Invariant, PTL DEF IInv

(* No code is stranded or reserved twice (createOrder, expireOne, Create). *)
THEOREM Reservations == Spec => []ReservationsMatchOrders
BY Invariant, PTL DEF IInv

(* A code is sold only to a paid order, once, and a paid order has all it  *)
(* bought (payment.go Create).                                             *)
THEOREM Sales == Spec => []SoldCodesArePaidFor
BY Invariant, PTL DEF IInv

-----------------------------------------------------------------------------
(* Requests.                                                               *)

(* A decided request stays as it was decided.                              *)
LEMMA DecidedStays ==
  ASSUME IInv, [Next]_vars, NEW r \in Requests, requests[r].status # "none"
  PROVE  requests'[r] = requests[r]
<1> USE DEF IInv, TypeOK, TablesTypeOK
<1>1. CASE UNCHANGED tables
  BY <1>1 DEF tables
<1>2. ASSUME NEW w \in Workers, NEW o \in OrderIds, CreateStep(w, o)
      PROVE  requests'[r] = requests[r]
  BY <1>2 DEF CreateStep, Created, Insertable, Row
<1>3. ASSUME NEW w \in Workers, RejectStep(w)
      PROVE  requests'[r] = requests[r]
  BY <1>3 DEF RejectStep, RejectRow, OnConflictDoNothing
<1>4. CASE \E o \in OrderIds : BecomeOverdue(o) \/ ExpireStep(o)
  BY <1>4 DEF BecomeOverdue, ExpireStep, Expired
<1>5. CASE \E p \in Payers : PayStep(p)
  BY <1>5 DEF PayStep, Paid
<1> QED
  BY <1>1, <1>2, <1>3, <1>4, <1>5, StepKinds

(* The fields of a request row.                                            *)
LEMMA RequestFields ==
  ASSUME TablesTypeOK, NEW r \in Requests
  PROVE  /\ requests[r].status \in {"none", "created", "rejected"}
         /\ requests[r].status # "created" => requests[r].order = Nobody
         /\ requests[r].status = "created" => requests[r].order \in OrderIds
BY DEF TablesTypeOK, RequestRows, NoRequest

(* An order that exists stays, with its buyer.                             *)
LEMMA OrdersStay ==
  ASSUME IInv, [Next]_vars, NEW o \in OrderIds, Exists(o)
  PROVE  Exists(o)' /\ orders'[o].buyer = orders[o].buyer
<1> USE DEF IInv, TypeOK, TablesTypeOK, Exists
<1>1. CASE UNCHANGED tables \/ \E w \in Workers : RejectStep(w)
  BY <1>1 DEF tables, RejectStep, RejectRow
<1>2. ASSUME NEW w \in Workers, NEW q \in OrderIds, CreateStep(w, q)
      PROVE  Exists(o)' /\ orders'[o].buyer = orders[o].buyer
  BY <1>2 DEF CreateStep, Created, IsNextOrder
<1>3. ASSUME NEW q \in OrderIds, BecomeOverdue(q)
      PROVE  Exists(o)' /\ orders'[o].buyer = orders[o].buyer
  <2>1. orders[q] \in [status : {"pending_payment", "paid", "expired"}, buyer : Buyers,
                       items : Carts, overdue : BOOLEAN]
    BY <1>3, OrderFields DEF BecomeOverdue, Pending
  <2> QED
    BY <1>3, <2>1 DEF BecomeOverdue
<1>4. ASSUME NEW q \in OrderIds, ExpireStep(q)
      PROVE  Exists(o)' /\ orders'[o].buyer = orders[o].buyer
  <2>1. orders[q] \in [status : {"pending_payment", "paid", "expired"}, buyer : Buyers,
                       items : Carts, overdue : BOOLEAN]
    BY <1>4, OrderFields DEF ExpireStep, Expirable, Pending
  <2> QED
    BY <1>4, <2>1 DEF ExpireStep, Expired
<1>5. ASSUME NEW p \in Payers, PayStep(p)
      PROVE  Exists(o)' /\ orders'[o].buyer = orders[o].buyer
  <2> DEFINE q == payment[p].order
  <2>1. q \in OrderIds /\ Pending(q)
    BY <1>5 DEF PayStep, PaymentHolds
  <2>2. orders[q] \in [status : {"pending_payment", "paid", "expired"}, buyer : Buyers,
                       items : Carts, overdue : BOOLEAN]
    BY <2>1, OrderFields DEF Pending
  <2> QED
    BY <1>5, <2>1, <2>2 DEF PayStep, Paid
<1> QED
  BY <1>1, <1>2, <1>3, <1>4, <1>5, StepKinds

(* Only a creation makes an order or points a request to one.              *)
LEMMA OnlyCreated ==
  ASSUME IInv, [Next]_vars,
         \A w \in Workers, o \in OrderIds : ~CreateStep(w, o)
  PROVE  /\ \A r \in Requests : requests'[r].status = "created" => requests'[r] = requests[r]
         /\ \A r \in Requests : requests'[r].order # Nobody => requests'[r] = requests[r]
         /\ \A o \in OrderIds : Exists(o)' => Exists(o)
<1> USE DEF IInv, TypeOK, TablesTypeOK, Exists
<1>1. CASE UNCHANGED tables
  BY <1>1 DEF tables
<1>2. CASE \E w \in Workers : RejectStep(w)
  BY <1>2 DEF RejectStep, RejectRow, OnConflictDoNothing
<1>3. CASE \E o \in OrderIds : BecomeOverdue(o) \/ ExpireStep(o)
  BY <1>3 DEF BecomeOverdue, Pending, ExpireStep, Expirable, Expired
<1>4. CASE \E p \in Payers : PayStep(p)
  <2>1. PICK p \in Payers : PayStep(p) /\ payment[p].order \in OrderIds /\ Pending(payment[p].order)
    BY <1>4 DEF PayStep, PaymentHolds
  <2> QED
    BY <2>1 DEF PayStep, Paid, Pending
<1> QED
  BY <1>1, <1>2, <1>3, <1>4, StepKinds

(* Every step keeps requests and orders one to one.                        *)
LEMMA RequestsStep ==
  ASSUME IInv, OneOrderPerRequest, [Next]_vars
  PROVE  OneOrderPerRequest'
<1> USE DEF IInv, TypeOK
<1>1. CASE \A w \in Workers, o \in OrderIds : ~CreateStep(w, o)
  <2>1. ASSUME NEW r \in Requests, requests'[r].status = "created"
        PROVE  /\ requests'[r].order \in OrderIds
               /\ Exists(requests[r].order)' /\ requests'[r].order = requests[r].order
               /\ orders'[requests'[r].order].buyer = requests'[r].buyer
    BY <1>1, <2>1, OnlyCreated, OrdersStay DEF OneOrderPerRequest
  <2>2. ASSUME NEW o \in OrderIds, Exists(o)'
        PROVE  \E r \in Requests : requests'[r].order = o /\ requests'[r].status = "created"
    BY <1>1, <2>2, OnlyCreated, DecidedStays DEF OneOrderPerRequest
  <2>3. ASSUME NEW r \in Requests, NEW q \in Requests,
               requests'[r].order = requests'[q].order, requests'[r].order # Nobody
        PROVE  r = q
    BY <1>1, <2>3, OnlyCreated DEF OneOrderPerRequest
  <2> QED
    BY <2>1, <2>2, <2>3 DEF OneOrderPerRequest, Exists
<1>2. ASSUME NEW w \in Workers, NEW o \in OrderIds, CreateStep(w, o)
      PROVE  OneOrderPerRequest'
  <2> DEFINE r == Event(w).request
  <2>1. r \in Requests /\ Event(w).buyer \in Buyers
    BY <1>2, JobEvent DEF CreateStep
  <2>2. /\ requests' = [requests EXCEPT ![r] =
                          [status |-> "created", buyer |-> Event(w).buyer, order |-> o]]
        /\ orders' = [orders EXCEPT ![o] = NewOrder(Event(w))]
        /\ ~Exists(o)
    BY <1>2 DEF CreateStep, Created, IsNextOrder, Exists
  <2>3. o # Nobody
    BY TableAssumption
  <2>4. \A q \in Requests : requests[q].order # o
    BY <2>2, <2>3, RequestFields DEF OneOrderPerRequest
  <2>5. /\ requests' \in [Requests -> RequestRows] /\ requests \in [Requests -> RequestRows]
        /\ orders \in [OrderIds -> OrderRows]
    BY TypeStep DEF TablesTypeOK
  <2>6. ASSUME NEW q \in Requests, requests'[q].status = "created"
        PROVE  /\ requests'[q].order \in OrderIds
               /\ (orders'[requests'[q].order]).status # "none"
               /\ (orders'[requests'[q].order]).buyer = requests'[q].buyer
    <3>1. CASE q = r
      BY <2>1, <2>2, <2>5, <3>1 DEF NewOrder
    <3>2. CASE q # r
      BY <2>1, <2>2, <2>4, <2>5, <2>6, <3>2 DEF OneOrderPerRequest, Exists
    <3> QED
      BY <3>1, <3>2
  <2>7. ASSUME NEW p \in OrderIds, (orders'[p]).status # "none"
        PROVE  \E q \in Requests : requests'[q].order = p /\ requests'[q].status = "created"
    <3>1. CASE p = o
      BY <2>1, <2>2, <2>5, <3>1
    <3>2. CASE p # o
      <4>1. Exists(p)
        BY <2>2, <2>5, <2>7, <3>2 DEF Exists
      <4> QED
        BY <4>1, DecidedStays DEF OneOrderPerRequest
    <3> QED
      BY <3>1, <3>2
  <2>8. ASSUME NEW p \in Requests, NEW q \in Requests,
               requests'[p].order = requests'[q].order, requests'[p].order # Nobody
        PROVE  p = q
    BY <2>1, <2>2, <2>4, <2>5, <2>8 DEF OneOrderPerRequest
  <2> QED
    BY <2>6, <2>7, <2>8 DEF OneOrderPerRequest, Exists
<1> QED
  BY <1>1, <1>2

(* However often a request is delivered it makes one order, of its buyer   *)
(* (createOrder).                                                          *)
THEOREM OneOrder == Spec => []OneOrderPerRequest
<1>1. Init => OneOrderPerRequest
  BY TableAssumption DEF Init, TablesInit, OneOrderPerRequest, Exists, NoRequest, NoOrder
<1>2. IInv /\ OneOrderPerRequest /\ [Next]_vars => OneOrderPerRequest'
  BY RequestsStep
<1> QED
  BY <1>1, <1>2, Invariant, PTL DEF Spec

-----------------------------------------------------------------------------
(* Offsets.  What lies before an offset a worker acts on is decided: before *)
(* the committed offset, before the message it processes, and before the   *)
(* next one to be fetched, but for the message its owner still has.        *)
Decided(p, i) == requests[log[p][i].request].status # "none"

HasMessage(w, p, i) == job[w].partition = p /\ job[w].offset + 1 = i

CommittedBehind ==
  \A p \in Partitions :
    committed[p] <= Len(log[p]) /\ \A i \in 1..committed[p] : Decided(p, i)

JobsBehind ==
  \A w \in Workers : job[w] # NoJob =>
    /\ job[w].offset < Len(log[job[w].partition])
    /\ job[w].event = log[job[w].partition][job[w].offset + 1]
    /\ \A i \in 1..job[w].offset : Decided(job[w].partition, i)

FetchedBehind ==
  \A p \in Partitions : owner[p] # Nobody =>
    /\ position[p] <= Len(log[p])
    /\ \A i \in 1..position[p] : Decided(p, i) \/ HasMessage(owner[p], p, i)

AckingDecided == \A w \in Workers : wpc[w] = "acking" => Row(w).status # "none"

Delivery == CommittedBehind /\ JobsBehind /\ FetchedBehind /\ AckingDecided

(* What a step may do to the topic, the group and the messages in hand.    *)
LEMMA QueueKinds ==
  ASSUME IInv, [Next]_vars
  PROVE  \/ UNCHANGED <<queueVars, job>>
         \/ \E s \in Submissions, p \in Partitions : Submit(s, p)
         \/ \E w \in Workers, p \in Partitions : AssignTo(p, w)
         \/ \E w \in Workers, p \in Partitions : Fetch(w, p)
         \/ \E w \in Workers : Close(w)
         \/ \E w \in Workers : Ack(w)
<1>1. CASE UNCHANGED vars
  BY <1>1 DEF vars, creationVars, workerVars
<1>2. CASE CreationNext
  <2>1. ASSUME NEW w \in Workers, WorkerStep(w) \/ WorkerFault(w)
        PROVE  \/ UNCHANGED <<queueVars, job>> \/ Close(w) \/ Ack(w)
               \/ \E p \in Partitions : Fetch(w, p)
    BY <2>1 DEF WorkerStep, WorkerFault, Begin, LockListing, Reserve, Insert, Recheck,
       Reject, Reopen, CommitLost, TxError, Crash, Goto
  <2> QED
    BY <1>2, <2>1 DEF CreationNext, Assign, Rebalance
<1>3. CASE ~CreationNext
  BY <1>1, <1>3 DEF Next, creationVars, workerVars
<1> QED
  BY <1>1, <1>2, <1>3

(* Messages stay where they are in the topic, and decided if they were.    *)
LEMMA LogKept ==
  ASSUME IInv, [Next]_vars, NEW p \in Partitions, NEW i \in 1..Len(log[p])
  PROVE  /\ i \in 1..Len(log'[p]) /\ Len(log[p]) <= Len(log'[p])
         /\ log'[p][i] = log[p][i]
         /\ Decided(p, i) => (requests'[log'[p][i].request]).status # "none"
<1> USE DEF IInv, TypeOK, CreationTypeOK
<1>1. log[p] \in Seq(Submissions) /\ log[p][i] \in Submissions
  OBVIOUS
<1>2. log[p][i].request \in Requests
  BY <1>1, TableAssumption
<1>3. i \in 1..Len(log'[p]) /\ Len(log[p]) <= Len(log'[p]) /\ log'[p][i] = log[p][i]
  <2>1. CASE UNCHANGED log
    BY <2>1
  <2>2. ASSUME NEW s \in Submissions, NEW q \in Partitions, Submit(s, q)
        PROVE  i \in 1..Len(log'[p]) /\ Len(log[p]) <= Len(log'[p]) /\ log'[p][i] = log[p][i]
    <3>1. CASE p = q
      <4>1. log'[p] = Append(log[p], s)
        BY <2>2, <3>1 DEF Submit
      <4> QED
        BY <1>1, <4>1
    <3>2. CASE p # q
      BY <2>2, <3>2 DEF Submit
    <3> QED
      BY <3>1, <3>2
  <2> QED
    BY <2>1, <2>2, QueueKinds DEF queueVars, AssignTo, Fetch, Close, Ack
<1> QED
  BY <1>2, <1>3, DecidedStays DEF Decided

(* A worker acknowledges only what is decided.                             *)
LEMMA AckingStep ==
  ASSUME IInv, AckingDecided, [Next]_vars
  PROVE  AckingDecided'
<1> USE DEF IInv, TypeOK, CreationTypeOK
<1> SUFFICES ASSUME NEW w \in Workers, wpc'[w] = "acking"
             PROVE  (requests'[job'[w].event.request]).status # "none"
  BY DEF AckingDecided, Row, Event
<1>1. CASE wpc[w] = "acking" /\ job'[w] = job[w]
  <2>1. Event(w).request \in Requests
    BY <1>1, JobEvent
  <2> QED
    BY <1>1, <2>1, DecidedStays DEF AckingDecided, Row, Event
<1>2. CASE ~(wpc[w] = "acking" /\ job'[w] = job[w])
  <2>1. \/ Begin(w) \/ Insert(w) \/ Recheck(w) \/ Reject(w)
    <3>1. CASE UNCHANGED <<wpc, job>>
      BY <1>2, <3>1
    <3>2. ASSUME NEW v \in Workers, WorkerStep(v) \/ WorkerFault(v)
          PROVE  Begin(w) \/ Insert(w) \/ Recheck(w) \/ Reject(w)
      <4>1. CASE v = w
        <5>1. Begin(w) \/ Insert(w) \/ Recheck(w) \/ Reject(w) \/ wpc'[w] # "acking"
                \/ UNCHANGED <<wpc, job>>
          BY <3>2, <4>1 DEF WorkerStep, WorkerFault, LockListing, Reserve, Ack, Reopen,
             Fetch, CommitLost, TxError, Crash, Goto, Close
        <5> QED
          BY <1>2, <5>1
      <4>2. CASE v # w
        <5>1. wpc'[w] = wpc[w] /\ job'[w] = job[w]
          BY <3>2, <4>2 DEF WorkerStep, WorkerFault, Begin, LockListing, Reserve, Insert,
             Recheck, Reject, Ack, Reopen, Fetch, CommitLost, TxError, Crash, Goto, Close
        <5> QED
          BY <1>2, <5>1
      <4> QED
        BY <4>1, <4>2
    <3>3. CASE CreationNext
      BY <3>1, <3>2, <3>3 DEF CreationNext, Submit, Assign, Rebalance, AssignTo, workerVars
    <3>4. CASE ~CreationNext
      BY <3>1, <3>4 DEF Next, vars, creationVars, workerVars, BecomeOverdue
    <3> QED
      BY <3>3, <3>4
  <2>2. wpc[w] \notin {"closed", "idle"} /\ job'[w] = job[w]
    BY <2>1 DEF Begin, Insert, Recheck, Reject, Goto, Close
  <2>3. Event(w) \in Submissions /\ Event(w).request \in Requests
    BY <2>2, JobEvent
  <2>4. CASE Begin(w) \/ Recheck(w)
    <3>1. Row(w).status # "none" /\ UNCHANGED requests
      BY <2>4 DEF Begin, Recheck, Goto, Close, Duplicate, tables
    <3> QED
      BY <2>2, <3>1 DEF Row, Event
  <2>5. CASE Insert(w)
    <3>1. PICK o \in OrderIds : Created(w, o)
      BY <2>5 DEF Insert, Goto
    <3>2. requests'[Event(w).request] =
            [status |-> "created", buyer |-> Event(w).buyer, order |-> o]
      BY <2>3, <3>1 DEF Created, TablesTypeOK
    <3> QED
      BY <2>2, <3>2 DEF Event
  <2>6. CASE Reject(w)
    BY <2>2, <2>3, <2>6 DEF Reject, RejectRow, OnConflictDoNothing, Goto, Close, Event,
       TablesTypeOK
  <2> QED
    BY <2>1, <2>4, <2>5, <2>6
<1> QED
  BY <1>1, <1>2

(* Every step keeps what lies before an offset decided.                    *)
LEMMA CommittedStep ==
  ASSUME IInv, Delivery, [Next]_vars
  PROVE  CommittedBehind'
<1> USE DEF IInv, TypeOK, CreationTypeOK
<1> SUFFICES ASSUME NEW p \in Partitions
             PROVE  /\ committed'[p] <= Len(log'[p])
                    /\ \A i \in 1..committed'[p] :
                         (requests'[log'[p][i].request]).status # "none"
  BY DEF CommittedBehind, Decided
<1>1. /\ log[p] \in Seq(Submissions) /\ Len(log[p]) \in Nat /\ Len(log'[p]) \in Nat
      /\ Len(log[p]) <= Len(log'[p])
  <2>1. CreationTypeOK'
    BY TypeStep
  <2>2. Len(log[p]) \in Nat /\ Len(log'[p]) \in Nat
    BY <2>1
  <2>3. CASE Len(log[p]) = 0
    BY <2>2, <2>3
  <2>4. CASE Len(log[p]) # 0
    <3>1. 1 \in 1..Len(log[p])
      BY <2>2, <2>4
    <3> QED
      BY <2>2, <3>1, LogKept
  <2> QED
    BY <2>2, <2>3, <2>4
<1>2. ASSUME NEW n \in Nat, n <= Len(log[p]), \A i \in 1..n : Decided(p, i)
      PROVE  /\ n <= Len(log'[p])
             /\ \A i \in 1..n : (requests'[log'[p][i].request]).status # "none"
  <2>1. \A i \in 1..n : i \in 1..Len(log[p])
    BY <1>1, <1>2
  <2> QED
    BY <1>1, <1>2, <2>1, LogKept
<1>3. CASE committed'[p] = committed[p]
  BY <1>2, <1>3 DEF Delivery, CommittedBehind
<1>4. ASSUME NEW w \in Workers, Ack(w), job[w].partition = p
      PROVE  /\ committed'[p] <= Len(log'[p])
             /\ \A i \in 1..committed'[p] :
                  (requests'[log'[p][i].request]).status # "none"
  <2>1. /\ job[w] # NoJob /\ job[w].offset \in Nat
        /\ Row(w).status # "none"
    BY <1>4, JobEvent DEF Ack, Delivery, AckingDecided
  <2>2. /\ job[w].offset < Len(log[p])
        /\ job[w].event = log[p][job[w].offset + 1]
        /\ \A i \in 1..job[w].offset : Decided(p, i)
    BY <1>4, <2>1 DEF Delivery, JobsBehind
  <2>3. Decided(p, job[w].offset + 1)
    BY <2>1, <2>2 DEF Decided, Row, Event
  <2>4. /\ job[w].offset + 1 \in Nat /\ job[w].offset + 1 <= Len(log[p])
        /\ \A i \in 1..job[w].offset + 1 : Decided(p, i)
    BY <1>1, <2>1, <2>2, <2>3
  <2>5. committed'[p] = job[w].offset + 1
    BY <1>4 DEF Ack
  <2> QED
    BY <1>2, <2>4, <2>5
<1> QED
  BY <1>3, <1>4, QueueKinds DEF queueVars, Submit, AssignTo, Fetch, Close, Ack

LEMMA JobsStep ==
  ASSUME IInv, Delivery, [Next]_vars
  PROVE  JobsBehind'
<1> USE DEF IInv, TypeOK, CreationTypeOK
<1> SUFFICES ASSUME NEW w \in Workers, job'[w] # NoJob
             PROVE  /\ job'[w].offset < Len(log'[job'[w].partition])
                    /\ job'[w].event = log'[job'[w].partition][job'[w].offset + 1]
                    /\ \A i \in 1..job'[w].offset :
                         (requests'[log'[job'[w].partition][i].request]).status # "none"
  BY DEF JobsBehind, Decided, NoJob
<1>1. ASSUME NEW p \in Partitions, NEW n \in Nat, n < Len(log[p]),
             \A i \in 1..n : Decided(p, i)
      PROVE  /\ n < Len(log'[p]) /\ log'[p][n + 1] = log[p][n + 1]
             /\ \A i \in 1..n : (requests'[log'[p][i].request]).status # "none"
  <2>1. CreationTypeOK'
    BY TypeStep
  <2>2. Len(log[p]) \in Nat /\ Len(log'[p]) \in Nat
    BY <2>1
  <2>3. n + 1 \in 1..Len(log[p]) /\ \A i \in 1..n : i \in 1..Len(log[p])
    BY <1>1, <2>2
  <2> QED
    BY <1>1, <2>2, <2>3, LogKept
<1>2. CASE job'[w] = job[w]
  <2>1. job[w].partition \in Partitions /\ job[w].offset \in Nat
    BY <1>2
  <2> QED
    BY <1>1, <1>2, <2>1 DEF Delivery, JobsBehind
<1>3. ASSUME NEW p \in Partitions, Fetch(w, p)
      PROVE  /\ job'[w].offset < Len(log'[job'[w].partition])
             /\ job'[w].event = log'[job'[w].partition][job'[w].offset + 1]
             /\ \A i \in 1..job'[w].offset :
                  (requests'[log'[job'[w].partition][i].request]).status # "none"
  <2>1. job'[w] = [partition |-> p, offset |-> position[p],
                   event |-> log[p][position[p] + 1]]
    BY <1>3 DEF Fetch
  <2>2. /\ owner[p] = w /\ owner[p] # Nobody /\ position[p] \in Nat
        /\ position[p] < Len(log[p]) /\ job[w] = NoJob
    BY <1>3, CreationAssumption DEF Fetch
  <2>3. \A i \in 1..position[p] : Decided(p, i)
    BY <2>2, CreationAssumption DEF Delivery, FetchedBehind, HasMessage, NoJob
  <2>4. /\ position[p] < Len(log'[p])
        /\ log'[p][position[p] + 1] = log[p][position[p] + 1]
        /\ \A i \in 1..position[p] : (requests'[log'[p][i].request]).status # "none"
    BY <1>1, <2>2, <2>3
  <2>5. /\ (job'[w]).partition = p /\ (job'[w]).offset = position[p]
        /\ (job'[w]).event = log[p][position[p] + 1]
    BY <2>1
  <2> QED
    BY <2>4, <2>5
<1>4. CASE \E v \in Workers : Close(v) \/ Ack(v)
  BY <1>2, <1>4 DEF Close, Ack
<1>5. CASE \E v \in Workers, p \in Partitions : Fetch(v, p)
  BY <1>2, <1>3, <1>5 DEF Fetch
<1>6. CASE \/ UNCHANGED <<queueVars, job>>
           \/ \E s \in Submissions, p \in Partitions : Submit(s, p)
           \/ \E v \in Workers, p \in Partitions : AssignTo(p, v)
  BY <1>2, <1>6 DEF Submit, AssignTo, workerVars
<1> QED
  BY <1>4, <1>5, <1>6, QueueKinds

LEMMA FetchedStep ==
  ASSUME IInv, Delivery, [Next]_vars
  PROVE  FetchedBehind'
<1> USE DEF IInv, TypeOK, CreationTypeOK
<1> DEFINE Sound(p) ==
      /\ position'[p] <= Len(log'[p])
      /\ \A i \in 1..position'[p] :
           \/ (requests'[log'[p][i].request]).status # "none"
           \/ (job'[owner'[p]]).partition = p /\ (job'[owner'[p]]).offset + 1 = i
<1> SUFFICES ASSUME NEW p \in Partitions, owner'[p] # Nobody
             PROVE  Sound(p)
  BY DEF FetchedBehind, Decided, HasMessage
<1>1. Len(log[p]) \in Nat /\ Len(log'[p]) \in Nat
  <2>1. CreationTypeOK'
    BY TypeStep
  <2> QED
    BY <2>1
<1>2. ASSUME NEW n \in Nat, n <= Len(log[p])
      PROVE  /\ n <= Len(log'[p])
             /\ \A i \in 1..n : i \in 1..Len(log[p])
             /\ \A i \in 1..n : Decided(p, i) => (requests'[log'[p][i].request]).status # "none"
  <2>1. \A i \in 1..n : i \in 1..Len(log[p])
    BY <1>1, <1>2
  <2>2. CASE n = 0
    BY <1>1, <2>1, <2>2, LogKept
  <2>3. CASE n # 0
    <3>1. n \in 1..Len(log[p])
      BY <1>1, <1>2, <2>3
    <3> QED
      BY <1>1, <1>2, <2>1, <3>1, LogKept
  <2> QED
    BY <2>2, <2>3
<1>3. CASE /\ position'[p] = position[p] /\ owner'[p] = owner[p]
           /\ job'[owner[p]] = job[owner[p]]
  BY <1>2, <1>3 DEF Delivery, FetchedBehind, HasMessage
<1>4. ASSUME NEW w \in Workers, AssignTo(p, w) PROVE Sound(p)
  <2>1. position'[p] = committed[p]
    BY <1>4 DEF AssignTo
  <2> QED
    BY <1>2, <2>1 DEF Delivery, CommittedBehind
<1>5. ASSUME NEW w \in Workers, Fetch(w, p) PROVE Sound(p)
  <2>1. /\ owner[p] = w /\ owner'[p] = w /\ w # Nobody /\ job[w] = NoJob
        /\ position[p] \in Nat /\ position[p] + 1 <= Len(log[p])
        /\ position'[p] = position[p] + 1
    BY <1>1, <1>5, CreationAssumption DEF Fetch
  <2>2. \A i \in 1..position[p] : Decided(p, i)
    BY <2>1, CreationAssumption DEF Delivery, FetchedBehind, HasMessage, NoJob
  <2>3. (job'[w]).partition = p /\ (job'[w]).offset = position[p]
    BY <1>5 DEF Fetch
  <2>4. \A i \in 1..position[p] + 1 : i \in 1..position[p] \/ i = position[p] + 1
    BY <2>1
  <2>5. /\ position[p] + 1 <= Len(log'[p])
        /\ \A i \in 1..position[p] + 1 :
             Decided(p, i) => (requests'[log'[p][i].request]).status # "none"
    BY <1>2, <2>1
  <2> QED
    BY <2>1, <2>2, <2>3, <2>4, <2>5
<1>6. ASSUME NEW w \in Workers, Ack(w), owner[p] = w PROVE Sound(p)
  <2>1. position'[p] = position[p] /\ w # Nobody /\ position[p] <= Len(log[p])
    BY <1>6, CreationAssumption DEF Ack, Delivery, FetchedBehind
  <2>2. ASSUME NEW i \in 1..position[p] PROVE Decided(p, i)
    <3>1. CASE ~HasMessage(w, p, i)
      BY <1>6, <2>1, <3>1 DEF Delivery, FetchedBehind
    <3>2. CASE HasMessage(w, p, i)
      <4>1. job[w] # NoJob /\ job[w].event = log[p][i] /\ Row(w).status # "none"
        BY <1>6, <3>2 DEF Ack, HasMessage, Delivery, JobsBehind, AckingDecided
      <4> QED
        BY <4>1 DEF Decided, Row, Event
    <3> QED
      BY <3>1, <3>2
  <2> QED
    BY <1>2, <2>1, <2>2
<1>7. CASE UNCHANGED <<queueVars, job>> \/ \E s \in Submissions, q \in Partitions : Submit(s, q)
  BY <1>3, <1>7 DEF queueVars, workerVars, Submit
<1>8. ASSUME NEW w \in Workers, NEW q \in Partitions, AssignTo(q, w) PROVE Sound(p)
  BY <1>3, <1>4, <1>8 DEF AssignTo, workerVars
<1>9. ASSUME NEW w \in Workers, NEW q \in Partitions, Fetch(w, q) PROVE Sound(p)
  <2>1. CASE q = p
    BY <1>5, <1>9, <2>1
  <2>2. CASE q # p
    <3>1. position'[p] = position[p] /\ owner'[p] = owner[p]
      BY <1>9, <2>2 DEF Fetch
    <3>2. CASE owner[p] # w
      BY <1>3, <1>9, <3>1, <3>2 DEF Fetch
    <3>3. CASE owner[p] = w
      <4>1. job[w] = NoJob /\ w # Nobody /\ position[p] <= Len(log[p]) /\ position[p] \in Nat
        BY <1>9, <3>3, CreationAssumption DEF Fetch, Delivery, FetchedBehind
      <4>2. \A i \in 1..position[p] : Decided(p, i)
        BY <3>3, <4>1, CreationAssumption DEF Delivery, FetchedBehind, HasMessage, NoJob
      <4> QED
        BY <1>2, <3>1, <4>1, <4>2
    <3> QED
      BY <3>2, <3>3
  <2> QED
    BY <2>1, <2>2
<1>10. ASSUME NEW w \in Workers, Close(w) PROVE Sound(p)
  <2>1. owner[p] # w /\ owner'[p] = owner[p]
    BY <1>10 DEF Close
  <2> QED
    BY <1>3, <1>10, <2>1 DEF Close
<1>11. ASSUME NEW w \in Workers, Ack(w) PROVE Sound(p)
  <2>1. CASE owner[p] = w
    BY <1>6, <1>11, <2>1
  <2>2. CASE owner[p] # w
    BY <1>3, <1>11, <2>2 DEF Ack
  <2> QED
    BY <2>1, <2>2
<1> QED
  BY <1>7, <1>8, <1>9, <1>10, <1>11, QueueKinds

(* An offset the group has committed lies behind decided requests, however *)
(* partitions move and workers die (Consume).                              *)
THEOREM Acked == Spec => []AckedIsDecided
<1>1. Init => Delivery
  BY CreationAssumption DEF Init, CreationInit, Delivery, CommittedBehind, JobsBehind,
     FetchedBehind, AckingDecided
<1>2. IInv /\ Delivery /\ [Next]_vars => Delivery'
  BY CommittedStep, JobsStep, FetchedStep, AckingStep DEF Delivery
<1>3. Delivery => AckedIsDecided
  BY DEF Delivery, CommittedBehind, AckedIsDecided, Decided
<1> QED
  BY <1>1, <1>2, <1>3, Invariant, PTL DEF Spec

-----------------------------------------------------------------------------
(* Waiting.  A finite set of numbers has a largest: the members above one  *)
(* of them are a finite set, and these sets cannot shrink for ever.        *)
LEMMA Largest ==
  ASSUME NEW S \in SUBSET Nat, IsFiniteSet(S), S # {}
  PROVE  \E m \in S : \A k \in S : k <= m
<1> DEFINE Above(m) == {k \in S : m < k}
           Sets == {Above(m) : m \in S}
<1>1. Sets \subseteq FiniteSubsetsOf(S) /\ Sets # {}
  <2>1. ASSUME NEW m \in S PROVE Above(m) \in SUBSET S /\ IsFiniteSet(Above(m))
    BY FS_Subset
  <2> QED
    BY <2>1 DEF FiniteSubsetsOf
<1>2. PICK A \in Sets : \A B \in Sets : <<B, A>> \notin StrictSubsetOrdering(S)
  <2> HIDE DEF Sets
  <2> QED
    BY <1>1, FS_StrictSubsetOrderingWellFounded, WFMin
<1>3. PICK m \in S : A = Above(m)
  OBVIOUS
<1>4. ASSUME NEW k \in S, m < k PROVE FALSE
  <2>1. Above(k) \subseteq Above(m) /\ k \in Above(m) /\ k \notin Above(k)
    <3>1. S \subseteq Nat /\ ~(k < k) /\ \A n \in S : k < n => m < n
      BY <1>4
    <3> QED
      BY <1>4, <3>1
  <2>2. Above(k) \in Sets /\ Above(k) \in SUBSET S /\ Above(m) \in SUBSET S
    OBVIOUS
  <2>3. <<Above(k), Above(m)>> \in StrictSubsetOrdering(S)
    BY <2>1, <2>2 DEF StrictSubsetOrdering
  <2> QED
    BY <1>2, <1>3, <2>2, <2>3
<1> QED
  BY <1>4

(* A worker holds listings only in a transaction, and only below those it  *)
(* still wants.                                                            *)
HeldInOrder ==
  \A w \in Workers, l \in Listings : listingLock[l] = w =>
    wpc[w] \in InTransaction /\ \A k \in Unlocked(w) : l < k

(* What a step may do to the row locks of listings.                        *)
LEMMA LockKinds ==
  ASSUME CreationTypeOK, [Next]_vars
  PROVE  \/ /\ UNCHANGED listingLock
            /\ \A w \in Workers : wpc[w] \in InTransaction =>
                 wpc'[w] \in InTransaction /\ job'[w] = job[w]
         \/ \E w \in Workers : /\ Unlock(w)
                               /\ \A v \in Workers \ {w} : wpc'[v] = wpc[v] /\ job'[v] = job[v]
         \/ \E w \in Workers : \E l \in NextListing(w) :
              /\ wpc[w] = "locking" /\ CanLockListing(l)
              /\ listingLock' = [listingLock EXCEPT ![l] = w]
              /\ UNCHANGED <<wpc, job>>
<1> DEFINE Kept == /\ UNCHANGED listingLock
                   /\ \A w \in Workers : wpc[w] \in InTransaction =>
                        wpc'[w] \in InTransaction /\ job'[w] = job[w]
           Ended(w) == /\ Unlock(w)
                       /\ \A v \in Workers \ {w} : wpc'[v] = wpc[v] /\ job'[v] = job[v]
           Locked(w) == \E l \in NextListing(w) :
                          /\ wpc[w] = "locking" /\ CanLockListing(l)
                          /\ listingLock' = [listingLock EXCEPT ![l] = w]
                          /\ UNCHANGED <<wpc, job>>
<1>1. CASE UNCHANGED <<wpc, job, listingLock>>
  BY <1>1
<1>2. ASSUME NEW w \in Workers, WorkerStep(w) \/ WorkerFault(w)
      PROVE  Kept \/ Ended(w) \/ Locked(w)
  <2>1. CASE Insert(w) \/ CommitLost(w) \/ TxError(w)
    BY <2>1 DEF Insert, CommitLost, TxError, Goto, CreationTypeOK
  <2>2. CASE LockListing(w)
    BY <2>2 DEF LockListing, Goto, CreationTypeOK
  <2>3. CASE Reserve(w)
    BY <2>3 DEF Reserve, Goto, CreationTypeOK, InTransaction
  <2>4. CASE Begin(w) \/ Ack(w) \/ Reopen(w) \/ \E p \in Partitions : Fetch(w, p)
    BY <2>4 DEF Begin, Ack, Reopen, Fetch, Goto, CreationTypeOK, InTransaction
  <2>5. CASE Recheck(w) \/ Reject(w) \/ Crash(w)
    BY <2>5 DEF Recheck, Reject, Crash, Close, Goto, CreationTypeOK, InTransaction
  <2> QED
    BY <1>2, <2>1, <2>2, <2>3, <2>4, <2>5 DEF WorkerStep, WorkerFault
<1>3. CASE CreationNext
  BY <1>1, <1>2, <1>3 DEF CreationNext, Submit, Assign, Rebalance, AssignTo, workerVars
<1>4. CASE ~CreationNext
  BY <1>1, <1>4 DEF Next, vars, creationVars, workerVars
<1> QED
  BY <1>3, <1>4

(* Every step keeps the order of locks.                                    *)
LEMMA LocksStep ==
  ASSUME CreationTypeOK, HeldInOrder, [Next]_vars
  PROVE  HeldInOrder'
<1> USE DEF CreationTypeOK
<1> SUFFICES ASSUME NEW v \in Workers, NEW l \in Listings, listingLock'[l] = v
             PROVE  /\ wpc'[v] \in InTransaction
                    /\ \A k \in Listings : job'[v].event.items[k] > 0 /\ listingLock'[k] # v
                                             => l < k
  BY DEF HeldInOrder, Unlocked, Event
<1>0. v # Nobody /\ Listings \subseteq Nat
  BY CreationAssumption, TableAssumption
<1>1. CASE /\ UNCHANGED listingLock
           /\ \A w \in Workers : wpc[w] \in InTransaction =>
                wpc'[w] \in InTransaction /\ job'[w] = job[w]
  BY <1>1 DEF HeldInOrder, Unlocked, Event
<1>2. ASSUME NEW w \in Workers, Unlock(w),
             \A u \in Workers \ {w} : wpc'[u] = wpc[u] /\ job'[u] = job[u]
      PROVE  /\ wpc'[v] \in InTransaction
             /\ \A k \in Listings : job'[v].event.items[k] > 0 /\ listingLock'[k] # v => l < k
  <2>1. v # w /\ listingLock[l] = v
    BY <1>0, <1>2 DEF Unlock
  <2>2. \A k \in Listings : listingLock'[k] # v => listingLock[k] # v
    BY <1>2, <2>1 DEF Unlock
  <2> QED
    BY <1>2, <2>1, <2>2 DEF HeldInOrder, Unlocked, Event
<1>3. ASSUME NEW w \in Workers, NEW m \in NextListing(w),
             wpc[w] = "locking", CanLockListing(m),
             listingLock' = [listingLock EXCEPT ![m] = w], UNCHANGED <<wpc, job>>
      PROVE  /\ wpc'[v] \in InTransaction
             /\ \A k \in Listings : job'[v].event.items[k] > 0 /\ listingLock'[k] # v => l < k
  <2>1. /\ m \in Listings /\ listingLock[m] = Nobody
        /\ \A k \in Unlocked(w) : m <= k
    BY <1>3 DEF NextListing, Unlocked, CanLockListing
  <2>2. \A k \in Listings : listingLock'[k] # v => listingLock[k] # v
    BY <1>0, <1>3, <2>1
  <2>3. CASE l = m
    <3>1. v = w /\ wpc'[v] \in InTransaction
      BY <1>3, <2>1, <2>3 DEF InTransaction
    <3>2. ASSUME NEW k \in Listings, job'[v].event.items[k] > 0, listingLock'[k] # v
          PROVE  l < k
      <4>1. k \in Unlocked(w) /\ k # m
        BY <1>3, <2>1, <2>2, <3>1, <3>2 DEF Unlocked, Event
      <4> QED
        BY <1>0, <2>1, <2>3, <4>1
    <3> QED
      BY <3>1, <3>2
  <2>4. CASE l # m
    <3>1. listingLock[l] = v
      BY <1>3, <2>1, <2>4
    <3> QED
      BY <1>3, <2>2, <3>1 DEF HeldInOrder, Unlocked, Event
  <2> QED
    BY <2>3, <2>4
<1> QED
  BY <1>1, <1>2, <1>3, LockKinds

(* Of workers that wait for each other, the one that wants the largest     *)
(* listing waits for one that wants a larger one still.                    *)
LEMMA OrderedHasNoCycle ==
  ASSUME CreationTypeOK, HeldInOrder
  PROVE  NoLockCycle
<1> SUFFICES ASSUME NEW S \in SUBSET Workers, S # {},
                    \A v \in S : \E w \in S : WaitsFor(v, w)
             PROVE  FALSE
  BY DEF NoLockCycle
<1> DEFINE Wanted == {l \in Listings : \E v \in S : l \in NextListing(v)}
<1>1. Wanted \in SUBSET Nat /\ IsFiniteSet(Wanted)
  BY TableAssumption, FS_Subset
<1>2. Wanted # {}
  BY DEF WaitsFor, NextListing, Unlocked
<1>3. PICK m \in Wanted : \A k \in Wanted : k <= m
  <2> HIDE DEF Wanted
  <2> QED
    BY <1>1, <1>2, Largest
<1>4. PICK v \in S : m \in NextListing(v)
  OBVIOUS
<1>5. PICK w \in S : WaitsFor(v, w)
  OBVIOUS
<1>6. listingLock[m] = w
  <2>1. PICK l \in NextListing(v) : listingLock[l] = w
    BY <1>5 DEF WaitsFor
  <2>2. l \in Nat /\ m \in Nat /\ l <= m /\ m <= l
    BY <1>4, TableAssumption DEF NextListing, Unlocked
  <2> QED
    BY <2>1, <2>2
<1>7. PICK x \in S : WaitsFor(w, x)
  OBVIOUS
<1>8. PICK n \in NextListing(w) : n \in Listings /\ n \in Unlocked(w)
  BY <1>7 DEF WaitsFor, NextListing, Unlocked
<1>9. m < n /\ n \in Wanted
  BY <1>6, <1>8 DEF HeldInOrder
<1> QED
  BY <1>1, <1>3, <1>9

(* Workers never wait for each other in a circle: carts lock listings in   *)
(* one order (normalizeItems, createOrder).                                *)
THEOREM LockOrder == Spec => []NoLockCycle
<1>1. Init => HeldInOrder
  BY CreationAssumption DEF Init, CreationInit, HeldInOrder
<1>2. TypeOK /\ HeldInOrder /\ [Next]_vars => HeldInOrder'
  BY LocksStep DEF TypeOK
<1>3. TypeOK /\ HeldInOrder => NoLockCycle
  BY OrderedHasNoCycle DEF TypeOK
<1> QED
  BY <1>1, <1>2, <1>3, Types, PTL DEF Spec

-----------------------------------------------------------------------------
(* Stock.  Codes a worker has picked are of listings it holds, so that the *)
(* worker that holds a listing sees all of its stock.                      *)
PickedLocked ==
  \A w \in Workers : \A c \in picked[w] : listingLock[ListingOf[c]] = w

(* A cart that a set of codes fills asks for the listing of each of them.  *)
LEMMA FilledIsAsked ==
  ASSUME NEW items \in Carts, NEW S \in SUBSET Codes, Fills(S, items), NEW c \in S
  PROVE  items[ListingOf[c]] > 0
<1> DEFINE same == {d \in S : ListingOf[d] = ListingOf[c]}
<1>1. ListingOf[c] \in Listings
  BY TableAssumption
<1>2. IsFiniteSet(same) /\ same # {}
  BY TableAssumption, FS_Subset
<1>3. Cardinality(same) \in Nat /\ Cardinality(same) # 0
  <2> HIDE DEF same
  <2> QED
    BY <1>2, FS_CardinalityType, FS_EmptySet
<1>4. Cardinality(same) = items[ListingOf[c]]
  BY <1>1 DEF Fills
<1> QED
  BY <1>3, <1>4

(* What a step may do to picked codes and the row locks of listings.       *)
LEMMA PickKinds ==
  ASSUME CreationTypeOK, [Next]_vars
  PROVE  \/ UNCHANGED <<picked, listingLock>>
         \/ \E w \in Workers : Unlock(w)
         \/ \E w \in Workers, l \in Listings :
              /\ listingLock[l] = Nobody
              /\ listingLock' = [listingLock EXCEPT ![l] = w] /\ UNCHANGED picked
         \/ \E w \in Workers, S \in SUBSET Free :
              /\ wpc[w] = "locking" /\ Unlocked(w) = {} /\ Fills(S, Event(w).items)
              /\ picked' = [picked EXCEPT ![w] = S] /\ UNCHANGED listingLock
<1>1. ASSUME NEW w \in Workers, WorkerStep(w) \/ WorkerFault(w)
      PROVE  \/ UNCHANGED <<picked, listingLock>> \/ Unlock(w)
             \/ \E l \in Listings :
                  /\ listingLock[l] = Nobody
                  /\ listingLock' = [listingLock EXCEPT ![l] = w] /\ UNCHANGED picked
             \/ \E S \in SUBSET Free :
                  /\ wpc[w] = "locking" /\ Unlocked(w) = {} /\ Fills(S, Event(w).items)
                  /\ picked' = [picked EXCEPT ![w] = S] /\ UNCHANGED listingLock
  <2>1. CASE LockListing(w)
    BY <2>1 DEF LockListing, NextListing, Unlocked, CanLockListing
  <2>2. CASE Reserve(w)
    BY <2>2 DEF Reserve
  <2>3. CASE Insert(w) \/ CommitLost(w) \/ TxError(w) \/ Recheck(w) \/ Reject(w) \/ Crash(w)
    BY <2>3 DEF Insert, CommitLost, TxError, Recheck, Reject, Crash, Close
  <2>4. CASE Begin(w) \/ Ack(w) \/ Reopen(w) \/ \E p \in Partitions : Fetch(w, p)
    BY <2>4 DEF Begin, Ack, Reopen, Fetch
  <2> QED
    BY <1>1, <2>1, <2>2, <2>3, <2>4 DEF WorkerStep, WorkerFault
<1>2. CASE CreationNext
  BY <1>1, <1>2 DEF CreationNext, Submit, Assign, Rebalance, AssignTo, workerVars
<1>3. CASE ~CreationNext
  BY <1>3 DEF Next, vars, creationVars, workerVars
<1> QED
  BY <1>2, <1>3

LEMMA PickedStep ==
  ASSUME IInv, PickedLocked, [Next]_vars
  PROVE  PickedLocked'
<1> USE DEF IInv, TypeOK, CreationTypeOK
<1>0. Nobody \notin Workers /\ \A c \in Codes : ListingOf[c] \in Listings
  BY CreationAssumption, TableAssumption
<1>1. CASE UNCHANGED <<picked, listingLock>>
  BY <1>1 DEF PickedLocked
<1>2. ASSUME NEW w \in Workers, Unlock(w) PROVE PickedLocked'
  BY <1>0, <1>2 DEF Unlock, PickedLocked
<1>3. ASSUME NEW w \in Workers, NEW l \in Listings, listingLock[l] = Nobody,
             listingLock' = [listingLock EXCEPT ![l] = w], UNCHANGED picked
      PROVE  PickedLocked'
  BY <1>0, <1>3 DEF PickedLocked
<1>4. ASSUME NEW w \in Workers, NEW S \in SUBSET Free,
             wpc[w] = "locking", Unlocked(w) = {}, Fills(S, Event(w).items),
             picked' = [picked EXCEPT ![w] = S], UNCHANGED listingLock
      PROVE  PickedLocked'
  <2>1. S \in SUBSET Codes /\ Event(w).items \in Carts
    BY <1>4, JobEvent DEF Free
  <2>2. ASSUME NEW c \in S PROVE listingLock[ListingOf[c]] = w
    <3>1. Event(w).items[ListingOf[c]] > 0
      BY <1>4, <2>1, FilledIsAsked
    <3> QED
      BY <1>0, <1>4, <2>1, <3>1 DEF Unlocked
  <2> QED
    BY <1>4, <2>2 DEF PickedLocked
<1> QED
  BY <1>1, <1>2, <1>3, <1>4, PickKinds

(* A step that rejects rejects a cart that cannot be met.                  *)
LEMMA RejectionStep ==
  ASSUME IInv, PickedLocked, [Next]_vars, NEW w \in Workers,
         wpc[w] # "rejecting", wpc'[w] = "rejecting"
  PROVE  Unfillable(w)
<1> USE DEF IInv, TypeOK, CreationTypeOK
<1>1. LockListing(w) \/ Reserve(w)
  <2>1. ASSUME NEW v \in Workers, WorkerStep(v) \/ WorkerFault(v)
        PROVE  LockListing(w) \/ Reserve(w)
    <3>1. CASE v = w
      BY <2>1, <3>1 DEF WorkerStep, WorkerFault, Begin, Insert, Recheck, Reject, Ack,
         Reopen, Fetch, CommitLost, TxError, Crash, Close, Goto
    <3>2. CASE v # w
      BY <2>1, <3>2 DEF WorkerStep, WorkerFault, Begin, LockListing, Reserve, Insert,
         Recheck, Reject, Ack, Reopen, Fetch, CommitLost, TxError, Crash, Close, Goto
    <3> QED
      BY <3>1, <3>2
  <2>2. CASE CreationNext
    BY <2>1, <2>2 DEF CreationNext, Submit, Assign, Rebalance, AssignTo, workerVars
  <2>3. CASE ~CreationNext
    BY <2>3 DEF Next, vars, creationVars, workerVars
  <2> QED
    BY <2>2, <2>3
<1>2. CASE LockListing(w)
  BY <1>2 DEF LockListing, NextListing, Unlocked, Unfillable
<1>3. CASE Reserve(w)
  <2>1. /\ wpc[w] = "locking" /\ Unlocked(w) = {} /\ Short(Event(w).items) # {}
    BY <1>3 DEF Reserve, Goto
  <2>2. PICK l \in Listings : Cardinality(FreeOf(l)) < Event(w).items[l]
    BY <2>1 DEF Short
  <2> DEFINE stock == {c \in Codes : ListingOf[c] = l /\ codes[c].status = "available"}
  <2>3. Event(w).items[l] \in Nat
    BY <2>1, JobEvent DEF Carts
  <2>4. Event(w).items[l] > 0
    <3>1. FreeOf(l) \in SUBSET Codes
      BY DEF FreeOf, Free
    <3>2. Cardinality(FreeOf(l)) \in Nat
      BY <3>1, TableAssumption, FS_Subset, FS_CardinalityType
    <3> QED
      BY <2>2, <2>3, <3>2
  <2>5. listingLock[l] = w
    BY <2>1, <2>4 DEF Unlocked
  <2>6. FreeOf(l) = stock
    <3>1. picked[w] = {}
      BY <2>1 DEF WorkerHolds
    <3>2. \A c \in stock : \A v \in Workers : c \notin picked[v]
      BY <2>5, <3>1 DEF PickedLocked
    <3> QED
      BY <3>2 DEF FreeOf, Free
  <2> QED
    BY <2>2, <2>4, <2>6 DEF Unfillable
<1> QED
  BY <1>1, <1>2, <1>3

(* Stock that another worker has only reserved in an open transaction never *)
(* causes a rejection (createOrder, SKIP LOCKED).                          *)
THEOREM Rejections == Spec => RejectsOnlyTheUnfillable
<1>1. Init => PickedLocked
  BY DEF Init, CreationInit, PickedLocked
<1>2. IInv /\ PickedLocked /\ [Next]_vars => PickedLocked'
  BY PickedStep
<1>3. IInv /\ PickedLocked /\ [Next]_vars =>
        [\A w \in Workers :
           wpc[w] # "rejecting" /\ wpc'[w] = "rejecting" => Unfillable(w)]_vars
  BY RejectionStep
<1> QED
  BY <1>1, <1>2, <1>3, Invariant, PTL DEF Spec, RejectsOnlyTheUnfillable
=============================================================================
