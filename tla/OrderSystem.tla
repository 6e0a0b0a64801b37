---------------------------- MODULE OrderSystem ----------------------------
(***************************************************************************)
(* Order creation, expiration and payment running against the same tables, *)
(* and the properties that make the three of them one shop.                *)
(***************************************************************************)
EXTENDS OrderCreation, OrderExpiration, Payment

vars == <<tables, orderLock, creationVars, sweep, paymentVars>>

TypeOK ==
  /\ TablesTypeOK
  /\ CreationTypeOK
  /\ ExpirationTypeOK
  /\ PaymentTypeOK

Init == TablesInit /\ CreationInit /\ ExpirationInit /\ PaymentInit

Next ==
  \/ CreationNext /\ UNCHANGED <<sweep, paymentVars>>
  \/ ExpirationNext /\ UNCHANGED <<creationVars, paymentVars>>
  \/ PaymentNext /\ UNCHANGED <<creationVars, sweep>>
  \/ \E o \in OrderIds : BecomeOverdue(o) /\ UNCHANGED <<creationVars, sweep, paymentVars>>

Spec == Init /\ [][Next]_vars

(***************************************************************************)
(* Fairness.  Workers and sweeps are goroutines that loop until the        *)
(* process ends, and a crashed one is restarted after a second; InnoDB     *)
(* grants a row lock in the order it was asked for, so a wait for a lock   *)
(* that is released again and again ends.  A payment that began goes on to *)
(* its end.  Nothing is assumed of clients or of the clock, and a step     *)
(* that fails is never fair.                                               *)
(***************************************************************************)
Idle == UNCHANGED <<sweep, paymentVars>>

EndPayStep(p) == LockBalance(p) \/ PayCommit(p)

Fairness ==
  /\ \A p \in Partitions : WF_vars(Assign(p) /\ Idle)
  /\ \A w \in Workers : /\ WF_vars(WorkerStep(w) /\ Idle)
                        /\ SF_vars(LockListing(w) /\ Idle)
  /\ \A s \in Sweepers :
       /\ WF_vars(ListOverdue(s) /\ UNCHANGED <<creationVars, paymentVars>>)
       /\ \A o \in OrderIds :
            SF_vars(ExpireOne(s, o) /\ UNCHANGED <<creationVars, paymentVars>>)
  /\ \A p \in Payers : SF_vars(EndPayStep(p) /\ UNCHANGED <<creationVars, sweep>>)

FairSpec == Spec /\ Fairness

-----------------------------------------------------------------------------
Exists(o) == orders[o].status # "none"

(* A reserved code belongs to an order still waiting for payment, and that *)
(* order has reserved exactly what it was created for: no code is stranded *)
(* by an expiration or a payment, none is taken twice.                     *)
ReservationsMatchOrders ==
  /\ \A c \in Codes : codes[c].status = "reserved" =>
       codes[c].order \in OrderIds /\ Pending(codes[c].order)
  /\ \A o \in OrderIds : Pending(o) => Fills(ReservedFor(o), orders[o].items)

(* A code is sold exactly when it is bound, to one order, and that order   *)
(* is paid and got all it paid for.                                        *)
SoldCodesArePaidFor ==
  /\ \A c \in Codes : codes[c].status = "sold" <=>
       \E o \in OrderIds : <<o, c>> \in bindings
  /\ \A x, y \in bindings : x[2] = y[2] => x = y
  /\ \A o \in OrderIds :
       /\ BoundTo(o) # {} => orders[o].status = "paid"
       /\ orders[o].status = "paid" => Fills(BoundTo(o), orders[o].items)

(* However often a request is delivered it makes one order, of its buyer,  *)
(* and there is no order that its request does not point to.               *)
OneOrderPerRequest ==
  /\ \A r \in Requests : requests[r].status = "created" =>
       /\ requests[r].order \in OrderIds
       /\ Exists(requests[r].order)
       /\ orders[requests[r].order].buyer = requests[r].buyer
  /\ \A o \in OrderIds : Exists(o) =>
       \E r \in Requests : requests[r].order = o /\ requests[r].status = "created"
  /\ \A r, q \in Requests :
       requests[r].order = requests[q].order /\ requests[r].order # Nobody => r = q

(* What a buyer's order_payment transactions amount to.                    *)
OrdersPaidBy(b) == {e.order : e \in {f \in ledger : f.user = b}}

Spent(b) ==
  SumFunctionOnSet([o \in OrderIds |-> Total(orders[o].items)], OrdersPaidBy(b))

(* Every fen a buyer has spent is the price of an order of theirs that is  *)
(* paid, each charged once.                                                *)
MoneyIsConserved ==
  /\ \A b \in Buyers : balance[b] + Spent(b) = InitialBalance[b]
  /\ \A o \in OrderIds : orders[o].status = "paid" <=>
       [user |-> orders[o].buyer, order |-> o] \in ledger
  /\ \A o \in OrderIds : orders[o].status = "paid" <=>
       Cardinality({a \in attempts : a.order = o}) = 1

(* No acknowledged message is lost: an offset the group has committed lies *)
(* behind requests that are decided in the database.                       *)
AckedIsDecided ==
  \A p \in Partitions : \A i \in 1..committed[p] :
    requests[log[p][i].request].status # "none"

(* Workers cannot wait for each other's listings in a circle.              *)
WaitsFor(v, w) ==
  /\ wpc[v] = "locking"
  /\ \E l \in NextListing(v) : listingLock[l] = w

NoLockCycle ==
  \A S \in SUBSET Workers : S # {} =>
    \E v \in S : \A w \in S : ~WaitsFor(v, w)

(* A listing of the cart is not sold, or its committed stock is short.     *)
Unfillable(w) ==
  \E l \in Listings :
    /\ Event(w).items[l] > 0
    /\ \/ ~Sellable(Event(w).items, l)
       \/ Cardinality({c \in Codes : ListingOf[c] = l /\ codes[c].status = "available"})
            < Event(w).items[l]

(* A worker decides to reject only a request that cannot be met (reject).  *)
(* Stock another worker has only reserved in an open transaction never     *)
(* causes a rejection.                                                     *)
RejectsOnlyTheUnfillable ==
  [][\A w \in Workers :
       wpc[w] # "rejecting" /\ wpc'[w] = "rejecting" => Unfillable(w)]_vars

(* Every published request whose id can be stored is decided in the end,   *)
(* through any bounded number of failures.                                 *)
PublishedIsDecided ==
  \A s \in {e \in Submissions : e.request \notin Unstorable} :
    (\E p \in Partitions, i \in 1..MaxPublishes :
        i <= Len(log[p]) /\ log[p][i] = s)
      ~> requests[s.request].status # "none"

(* An overdue order does not keep its codes: it is expired, or was being   *)
(* paid and is paid.                                                       *)
OverdueIsResolved ==
  \A o \in OrderIds : (Pending(o) /\ orders[o].overdue) ~> ~Pending(o)

(* A message acknowledged to the group has been decided for the buyer who  *)
(* sent it, so that GET /order-requests/:id stops answering "processing":  *)
(* idempotency keys are unique per buyer (internal/store/models.go).       *)
AckedIsDecidedForItsBuyer ==
  \A p \in Partitions : \A i \in 1..committed[p] :
    requests[log[p][i].request].buyer = log[p][i].buyer

-----------------------------------------------------------------------------
(***************************************************************************)
(* The promise, Marketplace, read off the tables.                          *)
(***************************************************************************)
OutcomeOf(r) ==
  CASE requests[r].status = "none" -> "processing"
    [] requests[r].status = "rejected" -> "rejected"
    [] OTHER -> orders[requests[r].order].status

CartOf(r) ==
  IF requests[r].status = "created"
  THEN [request |-> r, buyer |-> orders[requests[r].order].buyer,
        items |-> orders[requests[r].order].items]
  ELSE Nobody

HolderOf(c) ==
  LET holds(r) == /\ requests[r].status = "created"
                  /\ \/ codes[c].order = requests[r].order
                     \/ <<requests[r].order, c>> \in bindings
  IN IF \E r \in Requests : holds(r) THEN CHOOSE r \in Requests : holds(r)
     ELSE Nobody

Promise == INSTANCE Marketplace WITH
  outcome <- [r \in Requests |-> OutcomeOf(r)],
  cart <- [r \in Requests |-> CartOf(r)],
  holder <- [c \in Codes |-> HolderOf(c)],
  funds <- balance,
  Charge <- Total

(* Order creation, expiration and payment together implement Marketplace.  *)
KeepsThePromise == Promise!Spec
=============================================================================
