-------------------------- MODULE OrderExpiration --------------------------
(***************************************************************************)
(* The sweep that expires overdue orders (internal/order/order.go          *)
(* ExpirePending and expireOne, cmd/api/main.go expirePendingOrders).      *)
(* Every API instance runs one.  A sweep lists candidates without a lock   *)
(* and then handles each in a transaction of its own, so a candidate may   *)
(* have been paid, or expired by another sweep, in between.                *)
(***************************************************************************)
EXTENDS OrderTables

CONSTANTS Sweepers,
          BatchSize     \* orders listed by one sweep

ASSUME ExpirationAssumption == BatchSize \in Nat \ {0}

VARIABLE sweep          \* candidates a sweep has still to handle

ExpirationTypeOK == sweep \in [Sweepers -> SUBSET OrderIds]

ExpirationInit == sweep = [s \in Sweepers |-> {}]

Overdue == {o \in OrderIds : Pending(o) /\ orders[o].overdue}

(* The non-locking, limited query.  Orders of one instant may be listed in *)
(* either order.                                                           *)
ListOverdue(s) ==
  /\ sweep[s] = {}
  /\ \E S \in SUBSET Overdue :
       /\ S # {}
       /\ Cardinality(S) <= BatchSize
       /\ S # Overdue => Cardinality(S) = BatchSize
       /\ sweep' = [sweep EXCEPT ![s] = S]
  /\ UNCHANGED <<tables, orderLock>>

(* Fault: the candidate list is trusted.                                   *)
ExpirableAsListed(o) == orders[o].overdue

Expirable(o) == Pending(o) /\ orders[o].overdue

(* Fault: the codes keep their reservation.                                *)
Unreleased(o) == codes

Released(o) == [c \in Codes |-> IF c \in ReservedFor(o)
                               THEN [status |-> "available", order |-> Nobody]
                               ELSE codes[c]]

Expired(o) ==
  /\ orders' = [orders EXCEPT ![o].status = "expired"]
  /\ codes' = Released(o)
  /\ UNCHANGED <<requests, bindings, attempts, balance, ledger>>

(* Fault: the order is read without FOR UPDATE.                            *)
CanReadOrder(o) == TRUE

CanLockOrder(o) == orderLock[o] = Nobody

(* expireOne waits for the order's row lock and checks again.              *)
ExpireOne(s, o) ==
  /\ o \in sweep[s]
  /\ CanLockOrder(o)
  /\ \/ Expirable(o) /\ Expired(o)
     \/ ~Expirable(o) /\ UNCHANGED tables
  /\ sweep' = [sweep EXCEPT ![s] = @ \ {o}]
  /\ UNCHANGED orderLock

(* An error ends the sweep; the remaining candidates wait for the next one. *)
SweepError(s) ==
  /\ sweep[s] # {}
  /\ sweep' = [sweep EXCEPT ![s] = {}]
  /\ UNCHANGED <<tables, orderLock>>

ExpirationNext ==
  \E s \in Sweepers :
    \/ ListOverdue(s)
    \/ SweepError(s)
    \/ \E o \in OrderIds : ExpireOne(s, o)
=============================================================================
