--------------------------- MODULE ServiceProofs ----------------------------
(***************************************************************************)
(* Proofs about the parts of MCServices: ids are positive, unique and      *)
(* sorted for any number of nodes, sequence numbers, restarts and clock    *)
(* changes, and beyond the last timestamp; the mails about a rule keep     *)
(* their distance; the cached stock of a listing is rebuilt under a lock.  *)
(***************************************************************************)
EXTENDS MCServices, TLAPS

-----------------------------------------------------------------------------
(* The encoding.                                                           *)

(* In a positional notation the leading digits decide.                     *)
LEMMA Digits ==
  ASSUME NEW B \in Nat, NEW a \in Nat, NEW b \in Nat, a < b,
         NEW s \in 0..(B - 1), NEW t \in 0..(B - 1)
  PROVE  a * B + s < b * B + t
<1>1. PICK k \in Nat : b = a + 1 + k
  <2>1. b - a - 1 \in Nat /\ b = a + 1 + (b - a - 1)
    OBVIOUS
  <2> QED
    BY <2>1
<1>2. b * B = a * B + B + k * B
  BY <1>1
<1>3. k * B \in Nat /\ a * B \in Nat
  OBVIOUS
<1> QED
  BY <1>2, <1>3

(* On one node, ids are ordered by time and then by sequence number.       *)
LEMMA EncodeSorts ==
  ASSUME NEW d \in Nat, NEW e \in Nat, NEW n \in 0..(NodeSpan - 1),
         NEW s \in 0..MaxSequence, NEW t \in 0..MaxSequence,
         d < e \/ (d = e /\ s < t)
  PROVE  Encode(d, n, s) < Encode(e, n, t)
<1>1. /\ d * NodeSpan + n \in Nat /\ e * NodeSpan + n \in Nat
      /\ (d * NodeSpan + n) * SequenceSpan \in Nat
  BY SnowflakeAssumption
<1>2. CASE d < e
  <2>1. d * NodeSpan + n < e * NodeSpan + n
    BY <1>2, Digits, SnowflakeAssumption
  <2> QED
    BY <1>1, <2>1, Digits, SnowflakeAssumption DEF Encode, MaxSequence
<1>3. CASE d = e /\ s < t
  BY <1>1, <1>3 DEF Encode, MaxSequence
<1> QED
  BY <1>2, <1>3

(* Ids of different nodes differ.                                          *)
LEMMA EncodeSeparates ==
  ASSUME NEW d \in Nat, NEW e \in Nat,
         NEW n \in 0..(NodeSpan - 1), NEW m \in 0..(NodeSpan - 1), n # m,
         NEW s \in 0..MaxSequence, NEW t \in 0..MaxSequence
  PROVE  Encode(d, n, s) # Encode(e, m, t)
<1> DEFINE a == d * NodeSpan + n
           b == e * NodeSpan + m
<1>1. a \in Nat /\ b \in Nat
  BY SnowflakeAssumption
<1>2. a # b
  <2>1. CASE d < e
    BY <2>1, Digits, SnowflakeAssumption
  <2>2. CASE e < d
    BY <2>2, Digits, SnowflakeAssumption
  <2>3. CASE d = e
    BY <2>3, SnowflakeAssumption
  <2> QED
    BY <2>1, <2>2, <2>3
<1>3. a * SequenceSpan + s # b * SequenceSpan + t
  <2> HIDE DEF a, b
  <2>1. CASE a < b
    <3>1. a * SequenceSpan + s < b * SequenceSpan + t
      BY <1>1, <2>1, Digits, SnowflakeAssumption DEF MaxSequence
    <3>2. a * SequenceSpan + s \in Nat
      BY <1>1, SnowflakeAssumption DEF MaxSequence
    <3> QED
      BY <3>1, <3>2
  <2>2. CASE b < a
    <3>1. b * SequenceSpan + t < a * SequenceSpan + s
      BY <1>1, <2>2, Digits, SnowflakeAssumption DEF MaxSequence
    <3>2. b * SequenceSpan + t \in Nat
      BY <1>1, SnowflakeAssumption DEF MaxSequence
    <3> QED
      BY <3>1, <3>2
  <2> QED
    BY <1>1, <1>2, <2>1, <2>2
<1> QED
  BY <1>3 DEF Encode

(* An id is positive unless all its parts are zero.                        *)
LEMMA EncodePositive ==
  ASSUME NEW d \in Nat, NEW n \in 0..(NodeSpan - 1), NEW s \in 0..MaxSequence,
         d > 0 \/ n > 0 \/ s > 0
  PROVE  Encode(d, n, s) > 0
<1>1. CASE d > 0 \/ n > 0
  <2>1. d * NodeSpan + n \in Nat \ {0}
    <3>1. CASE d > 0
      <4>1. NodeSpan > 0 /\ d * NodeSpan > 0
        BY <3>1, SnowflakeAssumption
      <4> QED
        BY <4>1, SnowflakeAssumption
    <3>2. CASE n > 0
      BY <3>2, SnowflakeAssumption
    <3> QED
      BY <1>1, <3>1, <3>2
  <2>2. (d * NodeSpan + n) * SequenceSpan > 0
    BY <2>1, SnowflakeAssumption
  <2> QED
    BY <2>1, <2>2, SnowflakeAssumption DEF Encode, MaxSequence
<1>2. CASE d = 0 /\ n = 0 /\ s > 0
  BY <1>2, SnowflakeAssumption DEF Encode, MaxSequence
<1> QED
  BY <1>1, <1>2

-----------------------------------------------------------------------------
(* An id's place in time, before another's of the same node.               *)
Before(x, y) == x.delta < y.delta \/ (x.delta = y.delta /\ x.sequence < y.sequence)

(* The generator of a node is never behind what the node has issued.       *)
NeverBehind ==
  \A x \in issued :
    \/ Epoch + x.delta < lastTime[x.node]
    \/ Epoch + x.delta = lastTime[x.node] /\ x.sequence <= sequence[x.node]

InOrder ==
  /\ \A x \in issued : x.number < count
  /\ \A x, y \in issued : x.number = y.number => x = y
  /\ \A x, y \in issued : x.node = y.node /\ x.number < y.number => Before(x, y)
  /\ \A x \in issued : x.delta > 0 \/ x.node > 0 \/ x.sequence > 0

(* A wait began after the epoch.                                           *)
WaitsAfterEpoch == \A n \in waiting : lastTime[n] >= Epoch

(* An overflow may put a generator behind its ids, but then none follow.   *)
IInv ==
  /\ TypeOK
  /\ InRange => NeverBehind
  /\ InOrder
  /\ WaitsAfterEpoch

(* A call that returns an id in the current millisecond keeps the          *)
(* invariant, if its sequence number is new there.                         *)
LEMMA EmitStep ==
  ASSUME IInv, InRange, NEW n \in Nodes, NEW s \in 0..MaxSequence,
         clock >= Epoch,
         clock > lastTime[n] \/ (clock = lastTime[n] /\ sequence[n] < s),
         Emit(n, s)
  PROVE  IInv'
<1> DEFINE delta == clock - Epoch
           seq == Nonzero(delta, n, s)
           new == [number |-> count, node |-> n, delta |-> delta, sequence |-> seq]
<1> USE DEF IInv
<1>1. /\ delta \in Nat /\ delta < Horizon
      /\ seq \in 0..MaxSequence /\ seq >= s
      /\ delta > 0 \/ n > 0 \/ seq > 0
      /\ n \in Nat
  BY SnowflakeAssumption DEF InRange, TypeOK, Nonzero, MaxSequence
<1>2. /\ issued' = issued \union {new}
      /\ count' = count + 1
      /\ lastTime' = [lastTime EXCEPT ![n] = clock]
      /\ sequence' = [sequence EXCEPT ![n] = seq]
      /\ waiting' = waiting \ {n}
      /\ UNCHANGED clock
  <2>1. ~(clock - Epoch >= Horizon)
    BY <1>1, SnowflakeAssumption DEF TypeOK
  <2> QED
    BY <2>1 DEF Emit
<1> HIDE DEF delta, seq
<1>3. TypeOK' /\ WaitsAfterEpoch'
  <2>1. new \in Issued
    BY <1>1 DEF Issued, TypeOK
  <2>2. issued' \subseteq Issued /\ count' \in Nat
    BY <1>2, <2>1 DEF TypeOK
  <2>3. WaitsAfterEpoch'
    BY <1>2 DEF TypeOK, WaitsAfterEpoch
  <2> HIDE DEF new
  <2> QED
    BY <1>1, <1>2, <2>2, <2>3 DEF TypeOK
<1>4. \A x \in issued : x.node = n => Before(x, new)
  <2> SUFFICES ASSUME NEW x \in issued, x.node = n PROVE Before(x, new)
    OBVIOUS
  <2>1. x \in Issued
    BY DEF TypeOK
  <2>2. \/ Epoch + x.delta < lastTime[n]
        \/ Epoch + x.delta = lastTime[n] /\ x.sequence <= sequence[n]
    BY DEF NeverBehind
  <2>3. delta = clock - Epoch
    BY DEF delta
  <2> QED
    BY <1>1, <2>1, <2>2, <2>3, SnowflakeAssumption DEF Before, Issued, TypeOK, MaxSequence
<1>5. NeverBehind'
  <2> SUFFICES ASSUME NEW x \in issued'
               PROVE  \/ Epoch + x.delta < lastTime'[x.node]
                      \/ Epoch + x.delta = lastTime'[x.node] /\ x.sequence <= sequence'[x.node]
    BY DEF NeverBehind
  <2>1. CASE x = new
    BY <1>1, <1>2, <2>1, SnowflakeAssumption DEF delta, TypeOK, MaxSequence
  <2>2. CASE x \in issued /\ x.node # n
    BY <1>2, <2>2 DEF NeverBehind, TypeOK, Issued
  <2>3. CASE x \in issued /\ x.node = n
    <3>1. Before(x, new)
      BY <1>4, <2>3
    <3>2. x \in Issued
      BY <2>3 DEF TypeOK
    <3> QED
      BY <1>1, <1>2, <2>3, <3>1, <3>2, SnowflakeAssumption DEF Before, delta, Issued,
         TypeOK, MaxSequence
  <2> QED
    BY <1>2, <2>1, <2>2, <2>3
<1>6. InOrder'
  <2>1. \A x \in issued : x.number < count
    BY DEF InOrder
  <2>2. count \in Nat /\ \A x \in issued : x.number \in Nat
    BY DEF TypeOK, Issued
  <2>3. \A x \in issued' : x \in issued \/ x = new
    BY <1>2
  <2>4. \A x \in issued' : x.number < count'
    BY <1>2, <2>1, <2>2, <2>3
  <2>5. \A x, y \in issued' : x.number = y.number => x = y
    BY <2>1, <2>2, <2>3 DEF InOrder
  <2>6. \A x, y \in issued' : x.node = y.node /\ x.number < y.number => Before(x, y)
    <3> SUFFICES ASSUME NEW x \in issued', NEW y \in issued',
                        x.node = y.node, x.number < y.number
                 PROVE  Before(x, y)
      OBVIOUS
    <3>1. CASE x \in issued /\ y \in issued
      BY <3>1 DEF InOrder
    <3>2. CASE x \in issued /\ y = new
      BY <1>4, <3>2
    <3>3. CASE x = new
      BY <2>1, <2>2, <2>3, <3>3
    <3> QED
      BY <2>3, <3>1, <3>2, <3>3
  <2>7. \A x \in issued' : x.delta > 0 \/ x.node > 0 \/ x.sequence > 0
    BY <1>1, <2>3 DEF InOrder
  <2> QED
    BY <2>4, <2>5, <2>6, <2>7 DEF InOrder
<1> QED
  BY <1>3, <1>5, <1>6

(* A call that overflows issues nothing.                                   *)
LEMMA OverflowStep ==
  ASSUME IInv, ~InRange, NEW n \in Nodes, NEW s \in 0..MaxSequence, Emit(n, s)
  PROVE  IInv'
<1> USE DEF IInv
<1>1. /\ sequence' = [sequence EXCEPT ![n] = s]
      /\ waiting' = waiting \ {n}
      /\ UNCHANGED <<clock, lastTime, issued, count>>
  <2>1. ~(clock - Epoch < Horizon)
    BY SnowflakeAssumption DEF InRange, TypeOK
  <2> QED
    BY <2>1 DEF Emit
<1>2. TypeOK'
  BY <1>1 DEF TypeOK
<1>3. ~InRange' /\ InOrder' /\ WaitsAfterEpoch'
  BY <1>1 DEF InRange, InOrder, WaitsAfterEpoch, TypeOK
<1> QED
  BY <1>2, <1>3

(* Every step keeps the invariant.                                         *)
LEMMA InvStep ==
  ASSUME IInv, [Next]_vars
  PROVE  IInv'
<1>0. TypeOK /\ (InRange => NeverBehind) /\ InOrder /\ WaitsAfterEpoch
  BY DEF IInv
<1>1. CASE UNCHANGED vars
  BY <1>0, <1>1 DEF vars, InRange, IInv, TypeOK, NeverBehind, InOrder, WaitsAfterEpoch
<1>2. CASE SetClock
  <2>1. InRange' => InRange
    BY <1>0, <1>2, SnowflakeAssumption DEF SetClock, InRange, TypeOK
  <2> QED
    BY <1>0, <1>2, <2>1 DEF SetClock, IInv, TypeOK, NeverBehind, InOrder, WaitsAfterEpoch
<1>3. ASSUME NEW n \in Nodes, NextID(n)
      PROVE  IInv'
  <2>1. CASE clock > lastTime[n] /\ Emit(n, 0)
    BY <1>3, <2>1, EmitStep, OverflowStep, SnowflakeAssumption DEF NextID, MaxSequence
  <2>2. CASE clock = lastTime[n] /\ SequenceLeft(sequence[n]) /\ Emit(n, sequence[n] + 1)
    <3>1. sequence[n] + 1 \in 0..MaxSequence /\ sequence[n] < sequence[n] + 1
      BY <1>0, <2>2, SnowflakeAssumption DEF TypeOK, SequenceLeft, MaxSequence
    <3> QED
      BY <1>3, <2>2, <3>1, EmitStep, OverflowStep DEF NextID
  <2>3. CASE /\ clock = lastTime[n] /\ waiting' = waiting \union {n}
             /\ UNCHANGED <<clock, lastTime, sequence, issued, count>>
    BY <1>0, <1>3, <2>3, SnowflakeAssumption
       DEF NextID, InRange, IInv, TypeOK, NeverBehind, InOrder, WaitsAfterEpoch
  <2> QED
    BY <1>3, <2>1, <2>2, <2>3 DEF NextID
<1>4. ASSUME NEW n \in Nodes, NextMillisecond(n)
      PROVE  IInv'
  <2>1. CASE clock > lastTime[n] /\ Emit(n, 0)
    <3>1. clock >= Epoch
      BY <1>0, <1>4, <2>1, SnowflakeAssumption DEF NextMillisecond, WaitsAfterEpoch, TypeOK
    <3> QED
      BY <3>1, <2>1, EmitStep, OverflowStep, SnowflakeAssumption DEF MaxSequence, IInv
  <2>2. CASE waiting' = waiting \ {n} /\ UNCHANGED <<clock, lastTime, sequence, issued, count>>
    BY <1>0, <2>2 DEF InRange, IInv, TypeOK, NeverBehind, InOrder, WaitsAfterEpoch
  <2> QED
    BY <1>4, <2>1, <2>2 DEF NextMillisecond
<1>5. ASSUME NEW n \in Nodes, Restart(n)
      PROVE  IInv'
  <2>1. TypeOK'
    BY <1>0, <1>5, SnowflakeAssumption DEF Restart, StartSequence, TypeOK, MaxSequence
  <2>2. InRange' => NeverBehind'
    <3> SUFFICES ASSUME InRange', NEW x \in issued
                 PROVE  \/ Epoch + x.delta < lastTime'[x.node]
                        \/ Epoch + x.delta = lastTime'[x.node] /\ x.sequence <= sequence'[x.node]
      BY <1>5 DEF Restart, NeverBehind
    <3>0. NeverBehind
      BY <1>0, <1>5 DEF Restart, InRange
    <3>1. x \in Issued
      BY <1>0 DEF TypeOK
    <3>2. CASE x.node = n
      BY <1>0, <1>5, <3>1, <3>2, SnowflakeAssumption
         DEF Restart, ClockIsPast, StartSequence, TypeOK, Issued, MaxSequence
    <3>3. CASE x.node # n
      BY <1>0, <1>5, <3>0, <3>1, <3>3 DEF Restart, NeverBehind, TypeOK, Issued
    <3> QED
      BY <3>2, <3>3
  <2>3. InOrder'
    BY <1>0, <1>5 DEF Restart, InOrder
  <2>4. WaitsAfterEpoch'
    BY <1>0, <1>5 DEF Restart, WaitsAfterEpoch, TypeOK
  <2> QED
    BY <2>1, <2>2, <2>3, <2>4 DEF IInv
<1> QED
  BY <1>1, <1>2, <1>3, <1>4, <1>5 DEF Next

(* The invariant implies the property.                                     *)
LEMMA InvImplies ==
  ASSUME IInv
  PROVE  IdsAreSortedAndUnique
<1> USE DEF IInv
<1>1. \A x \in issued : /\ x.delta \in Nat /\ x.number \in Nat
                        /\ x.node \in 0..(NodeSpan - 1)
                        /\ x.sequence \in 0..MaxSequence
                        /\ x.node \in Nodes
  BY SnowflakeAssumption DEF TypeOK, Issued
<1>2. \A x \in issued : IdOf(x) > 0
  BY <1>1, EncodePositive DEF InOrder, IdOf
<1>3. \A x, y \in issued : x.node = y.node /\ x.number < y.number => IdOf(x) < IdOf(y)
  BY <1>1, EncodeSorts DEF InOrder, Before, IdOf
<1>4. ASSUME NEW x \in issued, NEW y \in issued, x.number # y.number
      PROVE  IdOf(x) # IdOf(y)
  <2>1. CASE x.node # y.node
    BY <1>1, <2>1, EncodeSeparates DEF IdOf
  <2>2. CASE x.node = y.node
    <3>1. x.number < y.number \/ y.number < x.number
      BY <1>1, <1>4
    <3>2. IdOf(x) \in Int /\ IdOf(y) \in Int
      BY <1>1, SnowflakeAssumption DEF IdOf, Encode, MaxSequence
    <3> QED
      BY <1>3, <2>2, <3>1, <3>2
  <2> QED
    BY <2>1, <2>2
<1> QED
  BY <1>2, <1>3, <1>4 DEF IdsAreSortedAndUnique

(* Ids are positive, unique and sorted (snowflake.go NextID) whatever the  *)
(* clock does and however often a generator is restarted.                  *)
THEOREM UniqueIds == Spec => []IdsAreSortedAndUnique
<1>1. Init => IInv
  BY SnowflakeAssumption DEF Init, InRange, IInv, TypeOK, NeverBehind, InOrder,
     WaitsAfterEpoch, Issued, MaxSequence
<1>2. IInv /\ [Next]_vars => IInv'
  BY InvStep
<1>3. IInv => IdsAreSortedAndUnique
  BY InvImplies
<1> QED
  BY <1>1, <1>2, <1>3, PTL DEF Spec

-----------------------------------------------------------------------------
(* Alerts about a rule.                                                    *)

LEMMA AlertSteps ==
  ASSUME [ServicesNext]_serviceVars, part' = part
  PROVE  \/ part = "alerts" /\ Alerts!Next
         \/ UNCHANGED alertVars
  BY DEF ServicesNext, serviceVars

(* The recipient of an alert whose sending reported no error waits for     *)
(* news of a rule that is active since then, and nobody is told anything   *)
(* while no samples are taken.                                             *)
AlertInv ==
  /\ active \in BOOLEAN /\ sure \in BOOLEAN
  /\ told = "alert" /\ sure => active /\ sentAgo = heardAgo
  /\ told \in {"alert", "recovery"}
  /\ part # "alerts" => mail # "alert"

LEMMA AlertStart == ASSUME ServicesInit PROVE AlertInv
  BY DEF ServicesInit, Alerts!Init, AlertInv

LEMMA PartStays == ASSUME [ServicesNext]_serviceVars PROVE part' = part
  BY DEF ServicesNext, serviceVars

(* What a sample may tell.                                                 *)
LEMMA Telling ==
  ASSUME NEW kind
  PROVE  /\ Alerts!Deliver(kind) => told' = kind /\ sure' = TRUE /\ mail' = kind
                                     /\ (kind = "alert" => heardAgo' = 0)
         /\ Alerts!MailFails(kind) => \/ told' = kind /\ sure' = FALSE /\ mail' = kind
                                      \/ Alerts!Silence
  BY DEF Alerts!Deliver, Alerts!MailFails, Alerts!Heard

LEMMA AlertStep == ASSUME AlertInv, [ServicesNext]_serviceVars PROVE AlertInv'
<1>1. part' = part
  BY PartStays
<1>2. CASE UNCHANGED alertVars
  BY <1>1, <1>2, Zenon DEF alertVars, AlertInv
<1>3. CASE part = "alerts" /\ Alerts!SampleBad
  <2>1. \/ active' = TRUE /\ told' = "alert" /\ sure' = TRUE /\ sentAgo' = 0 /\ heardAgo' = 0
        \/ active' = active /\ told' = "alert" /\ sure' = FALSE
        \/ active' = active /\ told' = told /\ sure' = sure
           /\ sentAgo' = Alerts!Later(sentAgo) /\ heardAgo' = Alerts!Later(heardAgo)
    <3>1. CASE Alerts!Due /\ Alerts!Deliver("alert") /\ active' = TRUE /\ sentAgo' = 0
      BY <3>1, Telling, Zenon
    <3>2. CASE Alerts!Due /\ Alerts!MailFails("alert") /\ active' = active /\ sentAgo' = Alerts!Aged
      BY <3>2, Telling, Zenon DEF Alerts!Silence, Alerts!Aged
    <3>3. CASE ~Alerts!Due /\ Alerts!Quiet /\ active' = active /\ sentAgo' = Alerts!Aged
      BY <3>3, Zenon DEF Alerts!Quiet, Alerts!Silence, Alerts!Aged
    <3> QED
      BY <1>3, <3>1, <3>2, <3>3, Zenon DEF Alerts!SampleBad
  <2>2. active' \in BOOLEAN /\ sure' \in BOOLEAN /\ told' \in {"alert", "recovery"}
    BY <2>1 DEF AlertInv
  <2>3. ASSUME told' = "alert", sure' PROVE active' /\ sentAgo' = heardAgo'
    BY <2>1, <2>3 DEF AlertInv
  <2> QED
    BY <1>1, <1>3, <2>2, <2>3, Zenon DEF AlertInv
<1>4. CASE part = "alerts" /\ Alerts!SampleClear
  <2>1. \/ told' = "recovery" /\ active' \in BOOLEAN /\ sure' \in BOOLEAN
        \/ active' = active /\ told' = told /\ sure' = sure
           /\ sentAgo' = Alerts!Later(sentAgo) /\ heardAgo' = Alerts!Later(heardAgo)
    <3>0. active' \in BOOLEAN
      BY <1>4, Zenon DEF Alerts!SampleClear, AlertInv
    <3>1. CASE Alerts!Deliver("recovery")
      BY <3>0, <3>1, Telling, Zenon
    <3>2. CASE Alerts!MailFails("recovery") /\ told' = "recovery" /\ sure' = FALSE
      BY <3>0, <3>2, Zenon
    <3>3. CASE Alerts!Silence
      <4>1. ~(active /\ Alerts!Recovered)
        BY <3>3, Zenon DEF Alerts!Silence, Alerts!Recovered
      <4>2. UNCHANGED <<consecutive, active>> /\ sentAgo' = Alerts!Aged
        BY <1>4, <4>1, Zenon DEF Alerts!SampleClear
      <4> QED
        BY <3>3, <4>2, Zenon DEF Alerts!Silence, Alerts!Aged
    <3> QED
      BY <1>4, <3>1, <3>2, <3>3, Telling, Zenon DEF Alerts!SampleClear, Alerts!Quiet
  <2>2. active' \in BOOLEAN /\ sure' \in BOOLEAN /\ told' \in {"alert", "recovery"}
    BY <2>1 DEF AlertInv
  <2>3. ASSUME told' = "alert", sure' PROVE active' /\ sentAgo' = heardAgo'
    BY <2>1, <2>3 DEF AlertInv
  <2> QED
    BY <1>1, <1>4, <2>2, <2>3, Zenon DEF AlertInv
<1> QED
  BY <1>1, <1>2, <1>3, <1>4, AlertSteps DEF Alerts!Next

(* A recipient of an alert hears of the rule again within the cooldown     *)
(* only after hearing of its recovery, or when the sending of what was     *)
(* heard last reported an error: an alert nobody got starts no cooldown, a *)
(* recovery nobody got ends none, and only the mail that a server accepted *)
(* without saying so is followed by another before its time (Evaluate).    *)
THEOREM Distance == ServicesSpec => AlertsKeepTheirDistance
<1>1. ServicesInit => AlertInv
  BY AlertStart
<1>2. AlertInv /\ [ServicesNext]_serviceVars => AlertInv'
  BY AlertStep
<1>3. AlertInv /\ [ServicesNext]_serviceVars
        => [mail' = "alert"
              => told = "recovery" \/ Alerts!Later(heardAgo) >= Cooldown \/ ~sure]_Alerts!vars
  <2> SUFFICES ASSUME AlertInv, [ServicesNext]_serviceVars, mail' = "alert", told # "recovery",
                      sure, ~UNCHANGED Alerts!vars
               PROVE  Alerts!Later(heardAgo) >= Cooldown
    OBVIOUS
  <2>1. told = "alert" /\ active /\ sentAgo = heardAgo
    BY Zenon DEF AlertInv
  <2>2. part # "alerts" => mail' # "alert"
    BY PartStays, AlertStep DEF AlertInv
  <2>3. Alerts!Next
    BY <2>2 DEF ServicesNext, serviceVars, alertVars, Alerts!vars, Alerts!state
  <2>4. Alerts!Due
    <3>1. CASE Alerts!SampleBad
      BY <3>1, Zenon DEF Alerts!SampleBad, Alerts!Quiet, Alerts!Silence
    <3>2. CASE Alerts!SampleClear
      <4>1. Alerts!Deliver("recovery") \/ Alerts!MailFails("recovery") \/ Alerts!Silence
        BY <3>2, Zenon DEF Alerts!SampleClear, Alerts!Quiet
      <4>2. mail' = "recovery" \/ mail' = "none"
        BY <4>1, Telling, Zenon DEF Alerts!Silence
      <4> QED
        BY <4>2
    <3> QED
      BY <2>3, <3>1, <3>2 DEF Alerts!Next
  <2> QED
    BY <2>1, <2>4 DEF Alerts!Due, Alerts!Aged
<1> QED
  BY <1>1, <1>2, <1>3, PTL DEF ServicesSpec, AlertsKeepTheirDistance,
     Alerts!AlertsKeepTheirDistance

-----------------------------------------------------------------------------
(* The cache of a listing's stock.                                         *)

LEMMA CacheSteps ==
  ASSUME [ServicesNext]_serviceVars
  PROVE  /\ part' = part
         /\ \/ part = "cache" /\ Cache!Next
            \/ part = "cache" /\ UNCHANGED <<cacheVars, changes>>
            \/ part # "cache" /\ UNCHANGED cacheVars
  BY DEF ServicesNext, serviceVars

LEMMA CacheFacts ==
  /\ MaxStock \in Nat /\ MaxChanges \in Nat
  /\ None \notin Readers /\ None \notin 0..MaxStock
  BY CacheAssumption DEF Cache!CacheAssumption

(* What is kept and counted are numbers of codes.                          *)
Stocks ==
  /\ stock \in 0..MaxStock
  /\ cache \in 0..MaxStock \union {None}
  /\ expires \in BOOLEAN
  /\ counted \in [Readers -> 0..MaxStock]

(* No more updates are on their way than orders have made.                 *)
Updates ==
  /\ decrements \in [Cache!Amounts -> 0..MaxChanges]
  /\ deletes \in 0..MaxChanges
  /\ part = "cache" =>
       /\ changes \in 0..MaxChanges /\ deletes <= changes
       /\ \A n \in Cache!Amounts : decrements[n] <= changes

(* A reader rebuilds under the lock, or after its life.                    *)
Rebuilds ==
  /\ lock \in Readers \union {None}
  /\ pc \in [Readers -> {"idle", "locking", "counting", "setting", "unlocking"}]
  /\ overdue \subseteq Readers
  /\ Cache!RebuildersHoldTheLock

CacheInv == Stocks /\ Updates /\ Rebuilds

LEMMA CacheStart == ASSUME Cache!Init PROVE CacheInv
<1>1. Stocks
  <2>1. MaxStock \in 0..MaxStock /\ 0 \in 0..MaxStock
    BY CacheFacts
  <2> QED
    BY <2>1 DEF Cache!Init, Stocks
<1>2. Updates
  BY CacheFacts DEF Cache!Init, Updates
<1>3. Rebuilds
  BY DEF Cache!Init, Rebuilds, Cache!RebuildersHoldTheLock
<1> QED
  BY <1>1, <1>2, <1>3 DEF CacheInv

LEMMA StocksStep == ASSUME Stocks, Cache!Next PROVE Stocks'
<1> USE CacheFacts DEF Stocks
<1>1. ASSUME NEW r \in Readers, Cache!Miss(r) \/ Cache!TakeLock(r) \/ Cache!Unlock(r) \/ Cache!Die(r)
      PROVE  Stocks'
  BY <1>1 DEF Cache!Miss, Cache!TakeLock, Cache!Unlock, Cache!Die, Cache!updates
<1>2. ASSUME NEW r \in Readers, Cache!Count(r) PROVE Stocks'
  BY <1>2 DEF Cache!Count, Cache!updates
<1>3. ASSUME NEW r \in Readers, Cache!Set(r) PROVE Stocks'
  <2>1. 0 \in 0..MaxStock
    OBVIOUS
  <2> QED
    BY <1>3, <2>1 DEF Cache!Set, Cache!updates
<1>4. ASSUME NEW r \in Readers, Cache!RebuildFails(r) PROVE Stocks'
  <2>1. 0 \in 0..MaxStock
    OBVIOUS
  <2> QED
    BY <1>4, <2>1 DEF Cache!RebuildFails, Cache!updates
<1>5. CASE Cache!LockLapses \/ Cache!CacheLapses \/ Cache!DeleteCache
  BY <1>5 DEF Cache!LockLapses, Cache!CacheLapses, Cache!DeleteCache, Cache!updates,
     Cache!readers
<1>6. ASSUME NEW n \in Cache!Amounts, Cache!Reserve(n) \/ Cache!Release(n) PROVE Stocks'
  BY <1>6 DEF Cache!Reserve, Cache!Release, Cache!Amounts, Cache!readers
<1>7. ASSUME NEW n \in Cache!Amounts, Cache!Decrement(n) PROVE Stocks'
  <2>1. cache # None => Cache!Lowered(n) \in 0..MaxStock
    BY DEF Cache!Lowered, Cache!Amounts
  <2> QED
    BY <1>7, <2>1, Zenon DEF Cache!Decrement, Cache!readers, Cache!KeepTTL
<1> QED
  BY <1>1, <1>2, <1>3, <1>4, <1>5, <1>6, <1>7 DEF Cache!Next, Cache!ReaderStep

LEMMA UpdatesStep == ASSUME Updates, part = "cache", part' = part, Cache!Next PROVE Updates'
<1> USE CacheFacts DEF Updates
<1>1. CASE UNCHANGED <<decrements, deletes, changes>>
  BY <1>1
<1>2. ASSUME NEW n \in Cache!Amounts, Cache!Reserve(n) PROVE Updates'
  <2>1. changes' = changes + 1 /\ changes' \in 0..MaxChanges /\ deletes' = deletes
    BY <1>2 DEF Cache!Reserve
  <2>2. \A m \in Cache!Amounts : decrements'[m] <= changes' /\ decrements'[m] \in 0..MaxChanges
    BY <1>2, <2>1 DEF Cache!Reserve
  <2>3. decrements' \in [Cache!Amounts -> 0..MaxChanges]
    BY <1>2, <2>2 DEF Cache!Reserve
  <2> QED
    BY <2>1, <2>2, <2>3
<1>3. ASSUME NEW n \in Cache!Amounts, Cache!Release(n) PROVE Updates'
  BY <1>3 DEF Cache!Release
<1>4. ASSUME NEW n \in Cache!Amounts, Cache!Decrement(n) PROVE Updates'
  <2>1. deletes' = deletes /\ changes' = changes
    BY <1>4 DEF Cache!Decrement
  <2>2. \A m \in Cache!Amounts : decrements'[m] <= changes' /\ decrements'[m] \in 0..MaxChanges
    BY <1>4, <2>1 DEF Cache!Decrement
  <2>3. decrements' \in [Cache!Amounts -> 0..MaxChanges]
    BY <1>4, <2>2 DEF Cache!Decrement
  <2> QED
    BY <2>1, <2>2, <2>3
<1>5. CASE Cache!DeleteCache
  BY <1>5 DEF Cache!DeleteCache
<1> QED
  BY <1>1, <1>2, <1>3, <1>4, <1>5
     DEF Cache!Next, Cache!ReaderStep, Cache!Miss, Cache!TakeLock, Cache!Count, Cache!Set,
         Cache!Unlock, Cache!RebuildFails, Cache!Die, Cache!LockLapses, Cache!CacheLapses,
         Cache!updates

LEMMA RebuildsStep == ASSUME Rebuilds, Cache!Next PROVE Rebuilds'
<1> USE CacheFacts DEF Rebuilds, Cache!RebuildersHoldTheLock, Cache!Goto
<1>1. CASE UNCHANGED <<lock, pc, overdue>>
  BY <1>1
<1>2. ASSUME NEW r \in Readers, Cache!Miss(r) PROVE Rebuilds'
  BY <1>2 DEF Cache!Miss
<1>3. ASSUME NEW r \in Readers, Cache!TakeLock(r) PROVE Rebuilds'
  BY <1>3 DEF Cache!TakeLock
<1>4. ASSUME NEW r \in Readers, Cache!Count(r) \/ Cache!Set(r) \/ Cache!RebuildFails(r)
      PROVE  Rebuilds'
  BY <1>4 DEF Cache!Count, Cache!Set, Cache!RebuildFails
<1>5. ASSUME NEW r \in Readers, Cache!Unlock(r) PROVE Rebuilds'
  BY <1>5 DEF Cache!Unlock, Cache!DeleteIfEqual
<1>6. ASSUME NEW r \in Readers, Cache!Die(r) PROVE Rebuilds'
  BY <1>6 DEF Cache!Die
<1>7. CASE Cache!LockLapses
  BY <1>7 DEF Cache!LockLapses
<1> QED
  BY <1>1, <1>2, <1>3, <1>4, <1>5, <1>6, <1>7
     DEF Cache!Next, Cache!ReaderStep, Cache!CacheLapses, Cache!DeleteCache, Cache!Reserve,
         Cache!Decrement, Cache!Release, Cache!readers

LEMMA CacheStep == ASSUME CacheInv, [ServicesNext]_serviceVars PROVE CacheInv'
<1>1. CASE part = "cache" /\ part' = part /\ Cache!Next
  BY <1>1, StocksStep, UpdatesStep, RebuildsStep DEF CacheInv
<1>2. CASE part' = part /\ UNCHANGED cacheVars /\ (part = "cache" => changes' = changes)
  <2>1. Stocks'
    BY <1>2 DEF CacheInv, Stocks, cacheVars
  <2>2. Updates'
    BY <1>2 DEF CacheInv, Updates, cacheVars
  <2>3. Rebuilds'
    BY <1>2 DEF CacheInv, Rebuilds, cacheVars, Cache!RebuildersHoldTheLock
  <2> QED
    BY <2>1, <2>2, <2>3 DEF CacheInv
<1> QED
  BY <1>1, <1>2, CacheSteps

(* However slow readers are and whatever updates are lost or late: only    *)
(* the holder of the lock rebuilds the number, unless the lock's life has  *)
(* ended under it, and the number stays one of codes (Available,           *)
(* DecrementIfExists).                                                     *)
THEOREM Rebuilding == ServicesSpec => []CacheIsSound
<1>1. ServicesInit => CacheInv
  BY CacheStart DEF ServicesInit
<1>2. CacheInv /\ [ServicesNext]_serviceVars => CacheInv'
  BY CacheStep
<1>3. CacheInv => CacheIsSound
  BY DEF CacheInv, Stocks, Updates, Rebuilds, CacheIsSound, Cache!TypeOK
<1> QED
  BY <1>1, <1>2, <1>3, PTL DEF ServicesSpec
=============================================================================
