------------------------------ MODULE Payment ------------------------------
(***************************************************************************)
(* Balance payment (internal/payment/payment.go Create): one transaction   *)
(* that takes the order's row lock, looks the idempotency key up, checks   *)
(* the order and its reserved codes, takes the balance's row lock, and     *)
(* then moves money, payment record and codes together.                    *)
(*                                                                         *)
(* The transaction's snapshot is taken by the key lookup, after the order  *)
(* lock: a payment with the same key for another order may commit after    *)
(* it.  A call that ends without an effect (an unknown order, a key        *)
(* already used, an order that is not payable) is a stuttering step.       *)
(***************************************************************************)
EXTENDS OrderTables

CONSTANT Payers      \* payment requests being served at the same time

ASSUME PaymentAssumption == Nobody \notin Payers

VARIABLES
  ppc,           \* where a payment is in its transaction
  payment,       \* the call: its order and key, and the codes it read
  balanceLock,   \* the row lock of a balance
  balanceRead    \* the balance the transaction read

paymentVars == <<ppc, payment, balanceLock, balanceRead>>

NoPayment == [order |-> Nobody, key |-> Nobody, codes |-> {}]

PaymentTypeOK ==
  /\ ppc \in [Payers -> {"idle", "paying", "debiting"}]
  /\ payment \in [Payers ->
       [order : OrderIds, key : Keys, codes : SUBSET Codes] \union {NoPayment}]
  /\ \A p \in Payers : payment[p] = NoPayment <=> ppc[p] = "idle"
  /\ balanceLock \in [Buyers -> Payers \union {Nobody}]
  /\ orderLock \in [OrderIds -> Payers \union {Nobody}]

PaymentInit ==
  /\ ppc = [p \in Payers |-> "idle"]
  /\ payment = [p \in Payers |-> NoPayment]
  /\ balanceLock = [b \in Buyers |-> Nobody]
  /\ balanceRead = [p \in Payers |-> 0]

KeyUsed(b, k) == \E a \in attempts : a.buyer = b /\ a.key = k

Payable(o) ==
  /\ Pending(o)
  /\ ~orders[o].overdue
  /\ Quantity(orders[o].items) # 0
  /\ Cardinality(ReservedFor(o)) = Quantity(orders[o].items)

PayBegin(p, o, k) ==
  /\ ppc[p] = "idle"
  /\ orderLock[o] = Nobody
  /\ Payable(o)
  /\ ~KeyUsed(orders[o].buyer, k)
  /\ orderLock' = [orderLock EXCEPT ![o] = p]
  /\ payment' = [payment EXCEPT ![p] =
                   [order |-> o, key |-> k, codes |-> ReservedFor(o)]]
  /\ ppc' = [ppc EXCEPT ![p] = "paying"]
  /\ UNCHANGED <<tables, balanceLock, balanceRead>>

PayOrder(p) == orders[payment[p].order]

(* Fault: a finished payment leaves its order locked.                      *)
StillLocked(lock, p) == lock

Freed(lock, p) == [x \in DOMAIN lock |-> IF lock[x] = p THEN Nobody ELSE lock[x]]

(* The end of the transaction, committed or rolled back.                   *)
EndPayment(p) ==
  /\ orderLock' = Freed(orderLock, p)
  /\ balanceLock' = Freed(balanceLock, p)
  /\ ppc' = [ppc EXCEPT ![p] = "idle"]
  /\ payment' = [payment EXCEPT ![p] = NoPayment]
  /\ balanceRead' = [balanceRead EXCEPT ![p] = 0]

(* Fault: the balance is read without FOR UPDATE.                          *)
CanReadBalance(b) == TRUE

CanLockBalance(b) == balanceLock[b] = Nobody

LockBalance(p) ==
  LET b == PayOrder(p).buyer
      total == Total(PayOrder(p).items)
  IN /\ ppc[p] = "paying"
     /\ CanLockBalance(b)
     /\ \/ /\ balance[b] < total
           /\ EndPayment(p)
        \/ /\ balance[b] >= total
           /\ balanceLock' = [balanceLock EXCEPT ![b] = p]
           /\ balanceRead' = [balanceRead EXCEPT ![p] = balance[b]]
           /\ ppc' = [ppc EXCEPT ![p] = "debiting"]
           /\ UNCHANGED <<orderLock, payment>>
     /\ UNCHANGED tables

(* The unique keys of balance_transactions and payment_attempts.           *)
Recordable(p) ==
  /\ ~KeyUsed(PayOrder(p).buyer, payment[p].key)
  /\ \A e \in ledger : e.order # payment[p].order

Paid(p) ==
  LET o == payment[p].order
      b == orders[o].buyer
  IN /\ balance' = [balance EXCEPT ![b] = balanceRead[p] - Total(orders[o].items)]
     /\ ledger' = ledger \union {[user |-> b, order |-> o]}
     /\ attempts' = attempts \union {[buyer |-> b, key |-> payment[p].key, order |-> o]}
     /\ orders' = [orders EXCEPT ![o].status = "paid"]
     /\ bindings' = bindings \union ({o} \X payment[p].codes)
     /\ codes' = [c \in Codes |->
                    IF c \in payment[p].codes /\ codes[c].status = "reserved"
                    THEN [status |-> "sold", order |-> Nobody]
                    ELSE codes[c]]
     /\ UNCHANGED requests

PayCommit(p) ==
  /\ ppc[p] = "debiting"
  /\ \/ Recordable(p) /\ Paid(p)
     \/ ~Recordable(p) /\ UNCHANGED tables
  /\ EndPayment(p)

(* A failed statement, a client that went away or a crash: rolled back.    *)
PayAbort(p) ==
  /\ ppc[p] # "idle"
  /\ EndPayment(p)
  /\ UNCHANGED tables

PaymentNext ==
  \E p \in Payers :
    \/ \E o \in OrderIds, k \in Keys : PayBegin(p, o, k)
    \/ LockBalance(p)
    \/ PayCommit(p)
    \/ PayAbort(p)
=============================================================================
