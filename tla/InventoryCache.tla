--------------------------- MODULE InventoryCache ---------------------------
(***************************************************************************)
(* The number of available codes of one listing as GET /listings shows it: *)
(* a Redis key with a short life over a count in MySQL (Available in       *)
(* internal/order/order.go, and the updates createOrder and ExpirePending  *)
(* send after their commits).  The lock against simultaneous rebuilds has  *)
(* a life of its own, and a rebuild may outlive it.                        *)
(***************************************************************************)
EXTENDS Integers, FiniteSets

CONSTANTS Readers, None, MaxStock,
          MaxChanges, MaxLapses, MaxFaults   \* bounds

CacheAssumption ==
  /\ MaxStock \in Nat /\ MaxChanges \in Nat /\ MaxLapses \in Nat /\ MaxFaults \in Nat
  /\ None \notin Readers \union Int

Amounts == 1..MaxStock

VARIABLES
  stock,      \* activation_codes of the listing that are "available"
  cache,      \* the cached number, or None
  expires,    \* the cached number has a life that will end
  lock,       \* the token of the rebuild lock
  pc, count,  \* a reader, and what it counted
  overdue,    \* readers whose lock's life has ended under them
  decrements, \* how many decrements of each amount are on their way
  deletes,    \* deletions on their way
  changes, lapses, faults

readers == <<lock, pc, count, overdue, lapses>>
updates == <<stock, decrements, deletes, changes>>
vars == <<cache, expires, readers, updates, faults>>

TypeOK ==
  /\ stock \in 0..MaxStock
  /\ cache \in 0..MaxStock \union {None}
  /\ expires \in BOOLEAN
  /\ lock \in Readers \union {None}
  /\ pc \in [Readers -> {"idle", "locking", "counting", "setting", "unlocking"}]
  /\ count \in [Readers -> 0..MaxStock]
  /\ overdue \subseteq Readers
  /\ decrements \in [Amounts -> 0..MaxChanges]
  /\ deletes \in 0..MaxChanges

Init ==
  /\ stock = MaxStock
  /\ cache = None /\ expires = FALSE
  /\ lock = None
  /\ pc = [r \in Readers |-> "idle"]
  /\ count = [r \in Readers |-> 0]
  /\ overdue = {}
  /\ decrements = [n \in Amounts |-> 0]
  /\ deletes = 0
  /\ changes = 0 /\ lapses = 0 /\ faults = 0

Goto(r, to) == pc' = [pc EXCEPT ![r] = to]

-----------------------------------------------------------------------------
(* A reader that finds nothing, or cannot ask, goes on to rebuild.         *)
Miss(r) ==
  /\ pc[r] = "idle"
  /\ Goto(r, "locking")
  /\ \/ cache = None /\ UNCHANGED faults
     \/ cache # None /\ faults < MaxFaults /\ faults' = faults + 1
  /\ UNCHANGED <<cache, expires, lock, count, overdue, lapses, updates>>

(* ErrInventoryRefreshing for who does not get the lock.                   *)
TakeLock(r) ==
  /\ pc[r] = "locking"
  /\ IF lock = None THEN lock' = r /\ Goto(r, "counting")
                    ELSE Goto(r, "idle") /\ UNCHANGED lock
  /\ UNCHANGED <<cache, expires, count, overdue, lapses, updates, faults>>

Count(r) ==
  /\ pc[r] = "counting"
  /\ count' = [count EXCEPT ![r] = stock]
  /\ Goto(r, "setting")
  /\ UNCHANGED <<cache, expires, lock, overdue, lapses, updates, faults>>

Set(r) ==
  /\ pc[r] = "setting"
  /\ cache' = count[r]
  /\ expires' = TRUE
  /\ count' = [count EXCEPT ![r] = 0]
  /\ Goto(r, "unlocking")
  /\ UNCHANGED <<lock, overdue, lapses, updates, faults>>

(* The count or the Set fails; the deferred unlock still runs.             *)
RebuildFails(r) ==
  /\ faults < MaxFaults
  /\ pc[r] \in {"counting", "setting"}
  /\ Goto(r, "unlocking")
  /\ count' = [count EXCEPT ![r] = 0]
  /\ faults' = faults + 1
  /\ UNCHANGED <<cache, expires, lock, overdue, lapses, updates>>

(* Fault: the lock is deleted, whoever holds it.                           *)
Delete(r) == None

DeleteIfEqual(r) == IF lock = r THEN None ELSE lock

Unlock(r) ==
  /\ pc[r] = "unlocking"
  /\ lock' = DeleteIfEqual(r)
  /\ Goto(r, "idle")
  /\ overdue' = overdue \ {r}
  /\ UNCHANGED <<cache, expires, count, lapses, updates, faults>>

(* The reader's process dies, or Redis cannot be asked to unlock.          *)
Die(r) ==
  /\ faults < MaxFaults
  /\ pc[r] # "idle"
  /\ Goto(r, "idle")
  /\ overdue' = overdue \ {r}
  /\ count' = [count EXCEPT ![r] = 0]
  /\ faults' = faults + 1
  /\ UNCHANGED <<cache, expires, lock, lapses, updates>>

LockLapses ==
  /\ lock # None
  /\ lapses < MaxLapses
  /\ lock' = None
  /\ lapses' = lapses + 1
  /\ overdue' = overdue \union {r \in {lock} : pc[r] # "idle"}
  /\ UNCHANGED <<cache, expires, pc, count, updates, faults>>

CacheLapses ==
  /\ expires
  /\ cache' = None
  /\ expires' = FALSE
  /\ UNCHANGED <<readers, updates, faults>>

-----------------------------------------------------------------------------
(* An order commits; its decrement follows, or is lost with the worker.    *)
Reserve(n) ==
  /\ changes < MaxChanges
  /\ n <= stock
  /\ stock' = stock - n
  /\ changes' = changes + 1
  /\ \/ decrements' = [decrements EXCEPT ![n] = @ + 1] /\ UNCHANGED faults
     \/ faults < MaxFaults /\ faults' = faults + 1 /\ UNCHANGED decrements
  /\ UNCHANGED <<cache, expires, readers, deletes>>

(* Fault: the number is not kept from falling below zero.                  *)
Difference(n) == cache - n

Lowered(n) == IF cache < n THEN 0 ELSE cache - n

(* Fault: SET without KEEPTTL.                                             *)
NoTTL == FALSE

KeepTTL == expires

(* DecrementIfExists.                                                      *)
Decrement(n) ==
  /\ decrements[n] > 0
  /\ decrements' = [decrements EXCEPT ![n] = @ - 1]
  /\ IF cache = None THEN UNCHANGED <<cache, expires>>
     ELSE cache' = Lowered(n) /\ expires' = KeepTTL
  /\ UNCHANGED <<readers, stock, deletes, changes, faults>>

(* An expired order gives its codes back; the deletion follows, or not.    *)
Release(n) ==
  /\ changes < MaxChanges
  /\ stock + n <= MaxStock
  /\ stock' = stock + n
  /\ changes' = changes + 1
  /\ \/ deletes' = deletes + 1 /\ UNCHANGED faults
     \/ faults < MaxFaults /\ faults' = faults + 1 /\ UNCHANGED deletes
  /\ UNCHANGED <<cache, expires, readers, decrements>>

DeleteCache ==
  /\ deletes > 0
  /\ deletes' = deletes - 1
  /\ cache' = None
  /\ expires' = FALSE
  /\ UNCHANGED <<readers, stock, decrements, changes, faults>>

ReaderStep(r) == TakeLock(r) \/ Count(r) \/ Set(r) \/ Unlock(r)

Next ==
  \/ \E r \in Readers : Miss(r) \/ ReaderStep(r) \/ RebuildFails(r) \/ Die(r)
  \/ LockLapses \/ CacheLapses \/ DeleteCache
  \/ \E n \in Amounts : Reserve(n) \/ Decrement(n) \/ Release(n)

(* A request that began runs on, as do updates on their way; keys with a   *)
(* life end.  Nothing makes a reader come.                                 *)
Fairness ==
  /\ \A r \in Readers : WF_vars(ReaderStep(r))
  /\ \A n \in Amounts : WF_vars(Decrement(n))
  /\ WF_vars(CacheLapses) /\ WF_vars(DeleteCache)

Spec == Init /\ [][Next]_vars /\ Fairness

-----------------------------------------------------------------------------
(* A reader that rebuilds holds the lock, unless its life has ended: a     *)
(* slow reader does not take the lock of another away.                     *)
RebuildersHoldTheLock ==
  \A r \in Readers :
    pc[r] \in {"counting", "setting"} => lock = r \/ r \in overdue

(* "Its short TTL bounds any stale view": lost, late and repeated updates  *)
(* and rebuilds from an old count are forgotten once orders pause.         *)
StaleViewEnds == <>[](cache \in {None, stock})
=============================================================================
