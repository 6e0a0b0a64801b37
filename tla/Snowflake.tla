----------------------------- MODULE Snowflake -----------------------------
(***************************************************************************)
(* User ids (internal/auth/snowflake.go).  Each configured node has one    *)
(* generator, which a restart replaces; NextID runs under its mutex, so a  *)
(* call is one step except that it may wait for the next millisecond,      *)
(* while the clock moves in either direction.                              *)
(***************************************************************************)
EXTENDS Integers

CONSTANTS
  Nodes,         \* configured node ids
  NodeSpan,      \* 2^10 node ids
  SequenceSpan,  \* 2^12 sequence numbers a millisecond
  Epoch,         \* snowflakeEpochUnixMilli
  Horizon,       \* 2^41 milliseconds
  MaxClock,      \* bound on the wall clock
  MaxRollback,   \* how far the clock may be set back
  MaxIds         \* bound on the ids issued

ASSUME SnowflakeAssumption ==
  /\ NodeSpan \in Nat /\ Nodes \subseteq 0..(NodeSpan - 1)
  /\ SequenceSpan \in Nat \ {0, 1}
  /\ Epoch \in Nat /\ Horizon \in Nat
  /\ MaxClock \in Nat /\ MaxRollback \in Nat /\ MaxIds \in Nat

VARIABLES
  clock,      \* the wall clock, in milliseconds
  lastTime,   \* the millisecond of a generator's newest id
  sequence,   \* the sequence number of its newest id
  waiting,    \* generators whose NextID waits for the next millisecond
  issued,     \* the ids returned, numbered in the order they were returned
  count       \* how many

vars == <<clock, lastTime, sequence, waiting, issued, count>>

MaxSequence == SequenceSpan - 1

Issued == [number : Nat, node : Nodes, delta : Nat, sequence : 0..MaxSequence]

TypeOK ==
  /\ clock \in 0..MaxClock
  /\ lastTime \in [Nodes -> 0..MaxClock]
  /\ sequence \in [Nodes -> 0..MaxSequence]
  /\ waiting \subseteq Nodes
  /\ issued \subseteq Issued
  /\ count \in Nat

(* NewSnowflake: nothing is issued in the millisecond a generator starts.  *)
Init ==
  /\ clock \in 0..MaxClock
  /\ lastTime = [n \in Nodes |-> clock]
  /\ sequence = [n \in Nodes |-> MaxSequence]
  /\ waiting = {}
  /\ issued = {}
  /\ count = 0

-----------------------------------------------------------------------------
Encode(delta, n, s) == (delta * NodeSpan + n) * SequenceSpan + s

IdOf(x) == Encode(x.delta, x.node, x.sequence)

(* Fault: the first id of the epoch may be zero.                           *)
MaybeZero(delta, n, s) == s

(* Zero is reserved.                                                       *)
Nonzero(delta, n, s) == IF delta = 0 /\ n = 0 /\ s = 0 THEN 1 ELSE s

(* Ends a call that chose sequence number s in the current millisecond.    *)
(* An overflow is reported, with the sequence number already replaced.     *)
Emit(n, s) ==
  LET delta == clock - Epoch
      seq == Nonzero(delta, n, s)
  IN /\ \/ /\ delta < Horizon
           /\ count < MaxIds
           /\ issued' = issued \union
                {[number |-> count, node |-> n, delta |-> delta, sequence |-> seq]}
           /\ count' = count + 1
           /\ lastTime' = [lastTime EXCEPT ![n] = clock]
           /\ sequence' = [sequence EXCEPT ![n] = seq]
        \/ /\ delta >= Horizon
           /\ sequence' = [sequence EXCEPT ![n] = s]
           /\ UNCHANGED <<lastTime, issued, count>>
     /\ waiting' = waiting \ {n}
     /\ UNCHANGED clock

(* Fault: the sequence number goes on without regard to its width.         *)
WrapSequence(s) == TRUE

SequenceLeft(s) == s # MaxSequence

(* A clock behind the newest id, or before the epoch, is an error that     *)
(* changes nothing.                                                        *)
NextID(n) ==
  /\ n \notin waiting
  /\ clock >= lastTime[n]
  /\ clock >= Epoch
  /\ \/ /\ clock > lastTime[n]
        /\ Emit(n, 0)
     \/ /\ clock = lastTime[n]
        /\ SequenceLeft(sequence[n])
        /\ Emit(n, sequence[n] + 1)
     \/ /\ clock = lastTime[n]
        /\ ~SequenceLeft(sequence[n])
        /\ waiting' = waiting \union {n}
        /\ UNCHANGED <<clock, lastTime, sequence, issued, count>>

NextMillisecond(n) ==
  /\ n \in waiting
  /\ \/ clock > lastTime[n] /\ Emit(n, 0)
     \/ /\ clock < lastTime[n]
        /\ waiting' = waiting \ {n}
        /\ UNCHANGED <<clock, lastTime, sequence, issued, count>>

(* The clock may be set back, but not across a restart: the generator      *)
(* keeps no state, and the comment in the code leaves that to deployment.  *)
ClockIsPast(n) == \A x \in issued : x.node = n => Epoch + x.delta <= clock

(* Fault: a new generator starts like a zero value.                        *)
FreshStart == 0

StartSequence == MaxSequence

Restart(n) ==
  /\ ClockIsPast(n)
  /\ lastTime' = [lastTime EXCEPT ![n] = clock]
  /\ sequence' = [sequence EXCEPT ![n] = StartSequence]
  /\ waiting' = waiting \ {n}
  /\ UNCHANGED <<clock, issued, count>>

(* A clock beyond the last millisecond that an id can hold, in 2089, is not *)
(* set back: after an overflow the generator has lost its sequence number. *)
InRange == clock < Epoch + Horizon

SetClock ==
  /\ clock' \in 0..MaxClock
  /\ clock' >= clock - MaxRollback
  /\ InRange \/ clock' >= clock
  /\ UNCHANGED <<lastTime, sequence, waiting, issued, count>>

Next ==
  \/ SetClock
  \/ \E n \in Nodes : NextID(n) \/ NextMillisecond(n) \/ Restart(n)

Spec == Init /\ [][Next]_vars

-----------------------------------------------------------------------------
(* Ids are positive, differ across nodes, restarts and clock changes, and  *)
(* grow with every call on one node: "positive, sortable IDs".             *)
IdsAreSortedAndUnique ==
  /\ \A x \in issued : IdOf(x) > 0
  /\ \A x, y \in issued : x.number # y.number => IdOf(x) # IdOf(y)
  /\ \A x, y \in issued :
       x.node = y.node /\ x.number < y.number => IdOf(x) < IdOf(y)
=============================================================================
