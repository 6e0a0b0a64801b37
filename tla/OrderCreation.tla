--------------------------- MODULE OrderCreation ---------------------------
(***************************************************************************)
(* Asynchronous order creation (internal/order/order.go): Submit publishes *)
(* an event to Kafka, and the workers of one consumer group fetch it,      *)
(* create the order in a MySQL transaction and commit its offset.          *)
(*                                                                         *)
(* Delivery is at least once: a publish may be repeated by its client, a   *)
(* partition may move while its message is still being processed, and any  *)
(* call may fail.  The transaction reads the request row without a lock,   *)
(* so what it read may be stale by the time it inserts.                    *)
(***************************************************************************)
EXTENDS OrderTables, Sequences

CONSTANTS
  Partitions, Workers,
  Unstorable,      \* request ids longer than order_creation_requests allows
  MaxPublishes,    \* bound on the messages published
  MaxFaults        \* bound on failures: a failing system need not progress

ASSUME CreationAssumption ==
  /\ MaxPublishes \in Nat /\ MaxFaults \in Nat
  /\ Unstorable \subseteq Requests
  /\ Nobody \notin Workers \union Partitions

VARIABLES
  log,          \* the topic: per partition, the events published
  committed,    \* the group's committed offset of a partition
  position,     \* the next offset the partition's owner will fetch
  owner,        \* the worker a partition is assigned to
  wpc,          \* where a worker is in Consume / Process / createOrder
  job,          \* the message a worker is processing
  listingLock,  \* the row lock of a listing
  picked,       \* codes a worker's open transaction has locked and reserved
  faults        \* failures so far

queueVars == <<log, committed, position, owner>>
workerVars == <<wpc, job, listingLock, picked>>
creationVars == <<queueVars, workerVars, faults>>

InTransaction == {"locking", "inserting"}
Pcs == {"closed", "idle", "begin", "recheck", "rejecting", "acking"}
         \union InTransaction
NoJob == [partition |-> Nobody, offset |-> 0, event |-> Nobody]

CreationTypeOK ==
  /\ log \in [Partitions -> Seq(Submissions)]
  /\ committed \in [Partitions -> Nat]
  /\ position \in [Partitions -> Nat]
  /\ owner \in [Partitions -> Workers \union {Nobody}]
  /\ wpc \in [Workers -> Pcs]
  /\ job \in [Workers ->
       [partition : Partitions, offset : Nat, event : Submissions] \union {NoJob}]
  /\ \A w \in Workers : job[w] = NoJob <=> wpc[w] \in {"closed", "idle"}
  /\ listingLock \in [Listings -> Workers \union {Nobody}]
  /\ picked \in [Workers -> SUBSET Codes]
  /\ faults \in Nat

CreationInit ==
  /\ log = [p \in Partitions |-> <<>>]
  /\ committed = [p \in Partitions |-> 0]
  /\ position = [p \in Partitions |-> 0]
  /\ owner = [p \in Partitions |-> Nobody]
  /\ wpc = [w \in Workers |-> "idle"]
  /\ job = [w \in Workers |-> NoJob]
  /\ listingLock = [l \in Listings |-> Nobody]
  /\ picked = [w \in Workers |-> {}]
  /\ faults = 0

-----------------------------------------------------------------------------
(* Submit writes one message.  The writer has no balancer, so a retry of a *)
(* request lands on any partition.  The client may submit again whatever   *)
(* it was answered: a failed publish may have reached the log.             *)
Published == MapThenSumSet(LAMBDA p : Len(log[p]), Partitions)

Submit(s, p) ==
  /\ Published < MaxPublishes
  /\ log' = [log EXCEPT ![p] = Append(@, s)]
  /\ UNCHANGED <<tables, orderLock, committed, position, owner, workerVars, faults>>

-----------------------------------------------------------------------------
(* Consumer group.  An assigned partition is read from the committed       *)
(* offset.                                                                 *)
AssignTo(p, w) ==
  /\ wpc[w] # "closed"
  /\ owner' = [owner EXCEPT ![p] = w]
  /\ position' = [position EXCEPT ![p] = committed[p]]
  /\ UNCHANGED <<tables, orderLock, log, committed, workerVars>>

Assign(p) ==
  /\ owner[p] = Nobody
  /\ \E w \in Workers : AssignTo(p, w)
  /\ UNCHANGED faults

(* A rebalance takes a partition from a live worker, or gives it back to   *)
(* the same one under a new generation, whatever that worker is doing.     *)
Rebalance(p) ==
  /\ faults < MaxFaults
  /\ owner[p] # Nobody
  /\ \E w \in Workers : AssignTo(p, w)
  /\ faults' = faults + 1

Fetch(w, p) ==
  /\ wpc[w] = "idle"
  /\ owner[p] = w
  /\ position[p] < Len(log[p])
  /\ position' = [position EXCEPT ![p] = @ + 1]
  /\ job' = [job EXCEPT ![w] = [partition |-> p, offset |-> position[p],
                                event |-> log[p][position[p] + 1]]]
  /\ wpc' = [wpc EXCEPT ![w] = "begin"]
  /\ UNCHANGED <<tables, orderLock, log, committed, owner, listingLock, picked, faults>>

(* The end of a transaction releases every row it locked.                  *)
Unlock(w) ==
  /\ listingLock' = [l \in Listings |-> IF listingLock[l] = w THEN Nobody
                                        ELSE listingLock[l]]
  /\ picked' = [picked EXCEPT ![w] = {}]

(* Fault: the reader is not closed and stays a member of the group.        *)
CloseWithoutLeaving(w) ==
  /\ wpc' = [wpc EXCEPT ![w] = "closed"]
  /\ job' = [job EXCEPT ![w] = NoJob]
  /\ Unlock(w)
  /\ UNCHANGED queueVars

(* Consume returned: the deferred Close leaves the group.                  *)
Close(w) ==
  /\ wpc' = [wpc EXCEPT ![w] = "closed"]
  /\ job' = [job EXCEPT ![w] = NoJob]
  /\ owner' = [p \in Partitions |-> IF owner[p] = w THEN Nobody ELSE owner[p]]
  /\ Unlock(w)
  /\ UNCHANGED <<log, committed, position>>

Reopen(w) ==
  /\ wpc[w] = "closed"
  /\ wpc' = [wpc EXCEPT ![w] = "idle"]
  /\ UNCHANGED <<tables, orderLock, queueVars, job, listingLock, picked, faults>>

-----------------------------------------------------------------------------
(* createOrder, statement by statement.                                    *)
Event(w) == job[w].event
Row(w) == requests[Event(w).request]

Goto(w, pc) ==
  /\ wpc' = [wpc EXCEPT ![w] = pc]
  /\ UNCHANGED <<queueVars, job>>

Begin(w) ==
  /\ wpc[w] = "begin"
  /\ Goto(w, IF Row(w).status = "none" THEN "locking" ELSE "acking")
  /\ UNCHANGED <<tables, orderLock, listingLock, picked, faults>>

Unlocked(w) ==
  {l \in Listings : Event(w).items[l] > 0 /\ listingLock[l] # w}

(* Fault: the cart's own order.                                            *)
AnyListing(w) == Unlocked(w)

(* Listings are locked in ascending order: normalizeItems sorts the cart.  *)
NextListing(w) == {l \in Unlocked(w) : \A k \in Unlocked(w) : l <= k}

Sellable(items, l) == l \in Active /\ SubTotal(items, l) <= MaxFen

(* Fault: the listing is read without FOR UPDATE.                          *)
CanReadListing(l) == TRUE

CanLockListing(l) == listingLock[l] = Nobody

LockListing(w) ==
  /\ wpc[w] = "locking"
  /\ \E l \in NextListing(w) :
       /\ CanLockListing(l)
       /\ \/ /\ Sellable(Event(w).items, l)
             /\ listingLock' = [listingLock EXCEPT ![l] = w]
             /\ UNCHANGED <<queueVars, wpc, job, picked>>
          \/ /\ ~Sellable(Event(w).items, l)
             /\ Unlock(w)
             /\ Goto(w, "rejecting")
  /\ UNCHANGED <<tables, orderLock, faults>>

(* FOR UPDATE SKIP LOCKED does not see the codes of other transactions.    *)
Free == {c \in Codes : codes[c].status = "available"
                         /\ \A v \in Workers : c \notin picked[v]}

FreeOf(l) == {c \in Free : ListingOf[c] = l}

Short(items) == {l \in Listings : Cardinality(FreeOf(l)) < items[l]}

Reserve(w) ==
  /\ wpc[w] = "locking"
  /\ Unlocked(w) = {}
  /\ \/ /\ Short(Event(w).items) # {}
        /\ Unlock(w)
        /\ Goto(w, "rejecting")
     \/ /\ \E S \in SUBSET Free :
             /\ Fills(S, Event(w).items)
             /\ \A c \in S : \A d \in FreeOf(ListingOf[c]) \ S : c < d
             /\ picked' = [picked EXCEPT ![w] = S]
        /\ Goto(w, "inserting")
        /\ UNCHANGED listingLock
  /\ UNCHANGED <<tables, orderLock, faults>>

(* The auto-increment key of a new order.                                  *)
IsNextOrder(o) ==
  /\ orders[o].status = "none"
  /\ \A q \in OrderIds : q < o => orders[q].status # "none"

(* Fault: a status no other query looks for.                               *)
MisnamedOrder(e) == [status |-> "pending", buyer |-> e.buyer,
                     items |-> e.items, overdue |-> FALSE]

NewOrder(e) == [status |-> "pending_payment", buyer |-> e.buyer,
                items |-> e.items, overdue |-> FALSE]

Created(w, o) ==
  /\ requests' = [requests EXCEPT ![Event(w).request] =
                    [status |-> "created", buyer |-> Event(w).buyer, order |-> o]]
  /\ orders' = [orders EXCEPT ![o] = NewOrder(Event(w))]
  /\ codes' = [c \in Codes |-> IF c \in picked[w]
                               THEN [status |-> "reserved", order |-> o]
                               ELSE codes[c]]
  /\ UNCHANGED <<bindings, attempts, balance, ledger>>

(* Fault: the request id is not a key of the table.                        *)
InsertableTwice(w) == Event(w).request \notin Unstorable

Insertable(w) == Row(w).status = "none" /\ Event(w).request \notin Unstorable

(* Insert the request row and commit.  A row another worker inserted since *)
(* Begin, or a key the column cannot hold, rolls the order back.           *)
Insert(w) ==
  /\ wpc[w] = "inserting"
  /\ \/ /\ Insertable(w)
        /\ \E o \in OrderIds : IsNextOrder(o) /\ Created(w, o)
        /\ Goto(w, "acking")
     \/ /\ ~Insertable(w)
        /\ Goto(w, "recheck")
        /\ UNCHANGED tables
  /\ Unlock(w)
  /\ UNCHANGED <<orderLock, faults>>

(* The commit took effect but its answer was lost.                         *)
CommitLost(w) ==
  /\ faults < MaxFaults
  /\ wpc[w] = "inserting"
  /\ Insertable(w)
  /\ \E o \in OrderIds : IsNextOrder(o) /\ Created(w, o)
  /\ Goto(w, "recheck")
  /\ Unlock(w)
  /\ faults' = faults + 1
  /\ UNCHANGED orderLock

(* Any statement of the transaction fails (deadlock victim, lost           *)
(* connection).                                                            *)
TxError(w) ==
  /\ faults < MaxFaults
  /\ wpc[w] \in InTransaction \union {"begin"}
  /\ Goto(w, "recheck")
  /\ Unlock(w)
  /\ faults' = faults + 1
  /\ UNCHANGED <<tables, orderLock>>

(* Fault: every failed transaction is acknowledged like a duplicate.       *)
AnyFailure(w) == TRUE

Duplicate(w) == Row(w).status # "none"

(* Process looks the request up after a failed transaction.                *)
Recheck(w) ==
  /\ wpc[w] = "recheck"
  /\ \/ /\ Duplicate(w)
        /\ Goto(w, "acking")
        /\ UNCHANGED <<listingLock, picked>>
     \/ /\ ~Duplicate(w)
        /\ Close(w)
  /\ UNCHANGED <<tables, orderLock, faults>>

(* Fault: the rejection replaces a row inserted meanwhile.                 *)
OnConflictReplace(old, new) == new

OnConflictDoNothing(old, new) == IF old.status = "none" THEN new ELSE old

RejectRow(w) ==
  /\ requests' = [requests EXCEPT ![Event(w).request] =
       OnConflictDoNothing(@, [status |-> "rejected", buyer |-> Event(w).buyer,
                               order |-> Nobody])]
  /\ UNCHANGED <<orders, codes, bindings, attempts, balance, ledger>>

Reject(w) ==
  /\ wpc[w] = "rejecting"
  /\ \/ /\ Event(w).request \notin Unstorable
        /\ RejectRow(w)
        /\ Goto(w, "acking")
        /\ UNCHANGED <<listingLock, picked>>
     \/ /\ Event(w).request \in Unstorable
        /\ Close(w)
        /\ UNCHANGED tables
  /\ UNCHANGED <<orderLock, faults>>

(* CommitMessages.  The broker takes the offset of a live member even when *)
(* the partition has moved, so a slow worker can turn the offset back.     *)
Ack(w) ==
  /\ wpc[w] = "acking"
  /\ committed' = [committed EXCEPT ![job[w].partition] = job[w].offset + 1]
  /\ wpc' = [wpc EXCEPT ![w] = "idle"]
  /\ job' = [job EXCEPT ![w] = NoJob]
  /\ UNCHANGED <<tables, orderLock, log, position, owner, listingLock, picked, faults>>

(* A call outside the transaction fails, or the process dies.  Whether a   *)
(* reject reached the database is not known.                               *)
Crash(w) ==
  /\ faults < MaxFaults
  /\ wpc[w] # "closed"
  /\ Close(w)
  /\ \/ UNCHANGED tables
     \/ /\ wpc[w] = "rejecting"
        /\ Event(w).request \notin Unstorable
        /\ RejectRow(w)
  /\ faults' = faults + 1
  /\ UNCHANGED orderLock

WorkerStep(w) ==
  \/ Begin(w) \/ LockListing(w) \/ Reserve(w) \/ Insert(w)
  \/ Recheck(w) \/ Reject(w) \/ Ack(w) \/ Reopen(w)
  \/ \E p \in Partitions : Fetch(w, p)

WorkerFault(w) == CommitLost(w) \/ TxError(w) \/ Crash(w)

CreationNext ==
  \/ \E s \in Submissions, p \in Partitions : Submit(s, p)
  \/ \E p \in Partitions : Assign(p) \/ Rebalance(p)
  \/ \E w \in Workers : WorkerStep(w) \/ WorkerFault(w)
=============================================================================
