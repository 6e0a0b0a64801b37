---------------------------- MODULE MessageStore ----------------------------
(***************************************************************************)
(* The transaction that stores a chat message (persistMessage in           *)
(* internal/realtime/hub.go), for the attempts at one conversation.  A     *)
(* message is known by its sender and client_message_id, so that a client  *)
(* may send it again.                                                      *)
(*                                                                         *)
(* InnoDB at its default, repeatable read: a plain SELECT sees the rows    *)
(* committed before the transaction's first one, while an INSERT meets the *)
(* rows there are.  The foreign key of a new message takes a shared lock   *)
(* on its conversation, and the update of the conversation an exclusive    *)
(* one.                                                                    *)
(***************************************************************************)
EXTENDS Naturals, FiniteSets

CONSTANTS Attempts, Keys, None,
          KeyOf,          \* the message an attempt is to store
          MaxFaults       \* bound

MessageStoreAssumption ==
  /\ KeyOf \in [Attempts -> Keys] /\ None \notin Attempts /\ MaxFaults \in Nat

VARIABLES
  pc,       \* where an attempt is
  rows,     \* messages committed
  view,     \* what an attempt's transaction sees of them
  writer,   \* the open transaction that has inserted a message
  sharing,  \* attempts with a shared lock on the conversation
  faults

vars == <<pc, rows, view, writer, sharing, faults>>

TypeOK ==
  /\ pc \in [Attempts -> {"new", "inserting", "finding", "touching", "stored", "failed"}]
  /\ rows \subseteq Keys
  /\ view \in [Attempts -> SUBSET rows]
  /\ writer \in [Keys -> Attempts \union {None}]
  /\ \A k \in Keys : writer[k] # None => KeyOf[writer[k]] = k /\ k \notin rows
  /\ sharing \subseteq {a \in Attempts : pc[a] \in {"inserting", "finding", "touching"}}

Init ==
  /\ pc = [a \in Attempts |-> "new"]
  /\ rows = {}
  /\ view = [a \in Attempts |-> {}]
  /\ writer = [k \in Keys |-> None]
  /\ sharing = {}
  /\ faults = 0

Goto(a, to) == pc' = [pc EXCEPT ![a] = to]

(* Reading the conversation opens the transaction's view.                  *)
Begin(a) ==
  /\ pc[a] = "new"
  /\ Goto(a, "inserting")
  /\ view' = [view EXCEPT ![a] = rows]
  /\ UNCHANGED <<rows, writer, sharing, faults>>

(* The insert takes the key and the shared lock in the order of the        *)
(* table's indexes, which is not determined: the two steps come in either  *)
(* order.                                                                  *)
ShareConversation(a) ==
  /\ pc[a] = "inserting"
  /\ a \notin sharing
  /\ sharing' = sharing \union {a}
  /\ Goto(a, IF writer[KeyOf[a]] = a THEN "touching" ELSE "inserting")
  /\ UNCHANGED <<rows, view, writer, faults>>

(* Fault: there is no unique index.                                        *)
AlwaysFree(k) == TRUE

KeyIsFree(k) == writer[k] = None /\ k \notin rows

InsertMessage(a) ==
  /\ pc[a] = "inserting"
  /\ KeyIsFree(KeyOf[a])
  /\ writer' = [writer EXCEPT ![KeyOf[a]] = a]
  /\ Goto(a, IF a \in sharing THEN "touching" ELSE "inserting")
  /\ UNCHANGED <<rows, view, sharing, faults>>

Duplicate(a) ==
  /\ pc[a] = "inserting"
  /\ KeyOf[a] \in rows
  /\ Goto(a, "finding")
  /\ UNCHANGED <<rows, view, writer, sharing, faults>>

(* Fault: a transaction that fails is not rolled back.                     *)
KeepLocks(a) == UNCHANGED <<writer, sharing>>

Release(a) ==
  /\ writer' = [k \in Keys |-> IF writer[k] = a THEN None ELSE writer[k]]
  /\ sharing' = sharing \ {a}

Answer(a, result) ==
  /\ Goto(a, result)
  /\ Release(a)
  /\ view' = [view EXCEPT ![a] = {}]

(* Fault: any failed insert is taken for a message stored before.          *)
Assumed(a) == TRUE

Found(a) == KeyOf[a] \in view[a]

(* A failed insert is followed by a look for the message in the            *)
(* transaction's view.                                                     *)
FindStored(a) ==
  /\ pc[a] = "finding"
  /\ Answer(a, IF Found(a) THEN "stored" ELSE "failed")
  /\ UNCHANGED <<rows, faults>>

(* Update the conversation and commit.                                     *)
TouchAndCommit(a) ==
  /\ pc[a] = "touching"
  /\ sharing = {a}
  /\ rows' = rows \union {KeyOf[a]}
  /\ Answer(a, "stored")
  /\ UNCHANGED faults

WaitsFor(a, b) ==
  /\ a # b
  /\ \/ pc[a] = "touching" /\ b \in sharing
     \/ pc[a] = "inserting" /\ writer[KeyOf[a]] = b

Deadlocked(a) ==
  \E b \in Attempts :
    /\ WaitsFor(a, b)
    /\ \/ WaitsFor(b, a)
       \/ \E c \in Attempts : WaitsFor(b, c) /\ WaitsFor(c, a)

(* InnoDB rolls one transaction of a circle back.  If it was waiting for   *)
(* its insert, the code still looks for the message, in a view of its own, *)
(* since the transaction is gone.                                          *)
RollBackVictim(a) ==
  /\ Deadlocked(a)
  /\ IF pc[a] = "inserting"
     THEN /\ Release(a)
          /\ Goto(a, "finding")
          /\ view' = [view EXCEPT ![a] = rows]
     ELSE Answer(a, "failed")
  /\ UNCHANGED <<rows, faults>>

(* A lost connection.  Of a commit it is not known whether it took effect. *)
Lose(a) ==
  /\ faults < MaxFaults
  /\ pc[a] \in {"inserting", "finding", "touching"}
  /\ faults' = faults + 1
  /\ Answer(a, "failed")
  /\ \/ UNCHANGED rows
     \/ pc[a] = "touching" /\ sharing = {a} /\ rows' = rows \union {KeyOf[a]}

Step(a) ==
  \/ ShareConversation(a) \/ InsertMessage(a) \/ Duplicate(a)
  \/ FindStored(a) \/ TouchAndCommit(a) \/ RollBackVictim(a)

Next == \E a \in Attempts : Begin(a) \/ Step(a) \/ Lose(a)

(* A request that began runs on; InnoDB looks for circles at every wait.   *)
Fairness == \A a \in Attempts : WF_vars(Step(a))

Spec == Init /\ [][Next]_vars /\ Fairness

-----------------------------------------------------------------------------
(* A sender who is told that a message was stored can rely on it, whichever *)
(* attempt stored it.                                                      *)
StoredMeansStored == \A a \in Attempts : pc[a] = "stored" => KeyOf[a] \in rows

(* Every attempt is answered: no circle of locks, no forgotten lock holds  *)
(* a conversation up.                                                      *)
EveryAttemptIsAnswered ==
  \A a \in Attempts : pc[a] = "inserting" ~> pc[a] \in {"stored", "failed"}

(* An attempt at a message that is stored returns it: "retry did not       *)
(* return the stored message" (hub_test.go 49).                            *)
RetryReturnsTheStoredMessage ==
  \A a \in Attempts : pc[a] = "failed" => KeyOf[a] \notin rows
=============================================================================
