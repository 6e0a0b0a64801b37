------------------------------ MODULE KafkaLag ------------------------------
(***************************************************************************)
(* The sampling of the order queue and the alarms raised from it: sample   *)
(* in internal/app/app.go calls SampleKafkaLag (kafka_lag.go), stores the  *)
(* snapshot and evaluates the conditions of alerts.go, round after round,  *)
(* while records are produced, committed, expire and grow old, and workers *)
(* start and stop (ConsumerAlive in metrics.go).                           *)
(*                                                                         *)
(* A record is overdue when it is older than three hours: old counts the   *)
(* overdue records of a partition, which are its first ones.               *)
(***************************************************************************)
EXTENDS Integers, Sequences, FiniteSetsExt, Functions

CONSTANTS Partitions, Workers,
          MaxOffset, MaxFaults  \* bounds: records, and failed calls

LagAssumption ==
  /\ IsFiniteSet(Partitions) /\ Partitions \subseteq Nat /\ Partitions # {}
  /\ IsFiniteSet(Workers)
  /\ MaxOffset \in Nat /\ MaxFaults \in Nat

VARIABLES
  first, end, old,      \* the log of each partition
  committed,            \* the offsets of the group, -1: none
  running, activeConsumers,     \* workers; the counter of Metrics
  at,                   \* what the round does next, an index of Stages
  observed,             \* old, when the sample began
  position, low, high,  \* the answers about committed offsets and the log
  todo,                 \* partitions left to look at
  snapshot,             \* the sample, stored when it is complete
  raised,               \* the conditions of this round
  backlog,              \* history: what was uncommitted when ends were read
  waited, overdue,      \* history: records and overdue records were
                        \* uncommitted some time during the sample
  excuse,               \* history: a call failed or records expired
  faults

topic == <<first, end, old, committed>>
fleet == <<running, activeConsumers>>
answers == <<observed, position, low, high>>
history == <<backlog, waited, overdue, excuse>>
vars == <<topic, fleet, at, answers, todo, snapshot, raised, history, faults>>

Uncommitted(p) == {o \in first[p]..end[p] - 1 : o >= committed[p]}
Backlog ==
  SumFunctionOnSet([p \in Partitions |-> Cardinality(Uncommitted(p))], Partitions)
Expired == \E p \in Partitions : committed[p] \in 0..first[p] - 1
SomeOverdue == \E p \in Partitions : \E o \in Uncommitted(p) : o < old[p]

Unknown == [p \in Partitions |-> -1]
NoSample == [state |-> "unavailable", lag |-> 0, overdue |-> FALSE]

TypeOK ==
  /\ {first, end, old} \subseteq [Partitions -> 0..MaxOffset]
  /\ {committed, position, low, high, observed} \subseteq [Partitions -> -1..MaxOffset]
  /\ \A p \in Partitions : first[p] <= end[p] /\ old[p] <= end[p] /\ committed[p] <= end[p]
  /\ running \subseteq Workers /\ activeConsumers \in 0..Cardinality(Workers)
  /\ todo \subseteq Partitions
  /\ snapshot.state \in {"unavailable", "not_integrated", "ok"} /\ snapshot.lag \in Nat

(* Fault: the ends of the log are read before the committed offsets.       *)
EndsFirst == <<"begin", "ends", "offsets", "records", "evaluate">>

(* The calls of a round (SampleKafkaLag, sample).                          *)
Stages == <<"begin", "offsets", "ends", "records", "evaluate">>

Init ==
  /\ first = [p \in Partitions |-> 0] /\ end = first /\ old = first
  /\ committed = Unknown
  /\ running = {} /\ activeConsumers = 0
  /\ at = 1 /\ todo = {}
  /\ observed = Unknown /\ position = Unknown /\ low = Unknown /\ high = Unknown
  /\ snapshot = NoSample /\ raised = {}
  /\ backlog = 0 /\ waited = FALSE /\ overdue = FALSE /\ excuse = FALSE
  /\ faults = 0

-----------------------------------------------------------------------------
(* The topic and the workers.                                              *)

Calling(call) == Stages[at] = call
Sampling == ~Calling("begin")

Happened ==
  /\ waited' = (waited \/ (Sampling /\ Backlog' > 0))
  /\ overdue' = (overdue \/ (Sampling /\ SomeOverdue'))
  /\ UNCHANGED <<fleet, at, answers, todo, snapshot, raised, backlog, faults>>

Produce(p) ==
  /\ SumFunctionOnSet(end, Partitions) < MaxOffset
  /\ end' = [end EXCEPT ![p] = @ + 1]
  /\ UNCHANGED <<first, old, committed, excuse>> /\ Happened

Age(p) ==
  /\ old[p] < end[p]
  /\ old' = [old EXCEPT ![p] = @ + 1]
  /\ UNCHANGED <<first, end, committed, excuse>> /\ Happened

Commit(p) ==
  /\ running # {} /\ Uncommitted(p) # {}
  /\ committed' = [committed EXCEPT ![p] = Min(Uncommitted(p)) + 1]
  /\ UNCHANGED <<first, end, old, excuse>> /\ Happened

(* Retention removes old records, processed or not.                        *)
Expire(p) ==
  /\ first[p] < old[p]
  /\ first' = [first EXCEPT ![p] = @ + 1]
  /\ excuse' = (excuse \/ Sampling)
  /\ UNCHANGED <<end, old, committed>> /\ Happened

(* ConsumerAlive.                                                          *)
WorkerStarts(w) ==
  /\ w \notin running
  /\ running' = running \union {w}
  /\ activeConsumers' = activeConsumers + 1
  /\ UNCHANGED <<topic, at, answers, todo, snapshot, raised, history, faults>>

WorkerStops(w) ==
  /\ w \in running
  /\ running' = running \ {w}
  /\ activeConsumers' = IF activeConsumers > 0 THEN activeConsumers - 1 ELSE 0
  /\ UNCHANGED <<topic, at, answers, todo, snapshot, raised, history, faults>>

-----------------------------------------------------------------------------
(* One round.                                                              *)

Proceed(call) == at' = CHOOSE i \in DOMAIN Stages : Stages[i] = call

Forget ==
  /\ todo' = {} /\ observed' = Unknown
  /\ position' = Unknown /\ low' = Unknown /\ high' = Unknown

(* The sample ends and is stored (SetKafkaSample).                         *)
Conclude(state) ==
  /\ snapshot' = [snapshot EXCEPT !.state = state]
  /\ Proceed("evaluate") /\ Forget
  /\ UNCHANGED <<backlog, waited, overdue, raised>>

(* The age of a record is taken at the beginning of the sample.            *)
Begin ==
  /\ Calling("begin") /\ at' = at + 1
  /\ observed' = old /\ todo' = Partitions /\ raised' = {}
  /\ waited' = (Backlog > 0) /\ overdue' = SomeOverdue /\ excuse' = Expired
  /\ UNCHANGED <<topic, fleet, position, low, high, snapshot, backlog, faults>>

CallFails ==
  /\ Stages[at] \in {"offsets", "ends", "records"} /\ faults < MaxFaults
  /\ faults' = faults + 1
  /\ excuse' = TRUE
  /\ Conclude("unavailable")
  /\ UNCHANGED <<topic, fleet>>

ReadOffsets ==
  /\ Calling("offsets")
  /\ IF committed = Unknown
     THEN Conclude("not_integrated")
     ELSE /\ position' = committed /\ at' = at + 1
          /\ UNCHANGED <<observed, low, high, todo, backlog, waited, overdue, snapshot,
                         raised>>
  /\ UNCHANGED <<topic, fleet, excuse, faults>>

ReadEnds ==
  /\ Calling("ends") /\ at' = at + 1
  /\ low' = first /\ high' = end
  /\ backlog' = Backlog
  /\ UNCHANGED <<topic, fleet, observed, position, todo, snapshot, raised,
                 waited, overdue, excuse, faults>>

(* Fault: the first record of the batch is taken for the oldest one.       *)
HeadOfBatch(base, start) == base

(* firstRecordAge: a batch may begin before the offset that was asked for. *)
FirstRecord(base, start) == IF base < start THEN start ELSE base

(* partitionLag, and the age of the oldest record, partition by partition. *)
Look(p) ==
  LET start == IF position[p] < 0 THEN low[p] ELSE position[p]
      lag == high[p] - start
      valid == start \in low[p]..high[p]
  IN /\ Calling("records") /\ p = Min(todo)
     /\ \/ valid /\ lag = 0 /\ UNCHANGED snapshot
        \/ /\ valid /\ lag > 0
           /\ \E base \in first[p]..start :
                snapshot' = [snapshot EXCEPT
                  !.lag = @ + lag, !.overdue = @ \/ FirstRecord(base, start) < observed[p]]
     /\ todo' = todo \ {p}
     /\ at' = at
     /\ UNCHANGED <<topic, fleet, answers, raised, history, faults>>

(* Not in the log, or no longer in the log when it is fetched.             *)
OutOfRange(p) ==
  LET start == IF position[p] < 0 THEN low[p] ELSE position[p]
  IN /\ Calling("records") /\ p = Min(todo)
     /\ \/ start \notin low[p]..high[p]
        \/ start < high[p] /\ start < first[p]
     /\ Conclude("unavailable")
     /\ UNCHANGED <<topic, fleet, excuse, faults>>

Looked ==
  /\ Calling("records") /\ todo = {}
  /\ Conclude("ok")
  /\ UNCHANGED <<topic, fleet, excuse, faults>>

(* The rules about Kafka.                                                  *)
conditions(kafka, workers) ==
  {rule \in {"kafka_sample_unavailable", "order_queue_deadline", "order_consumer_stopped"} :
     CASE rule = "kafka_sample_unavailable" -> kafka.state = "unavailable"
       [] rule = "order_queue_deadline" ->
            kafka.state = "ok" /\ kafka.lag > 0 /\ kafka.overdue
       [] rule = "order_consumer_stopped" ->
            kafka.state = "ok" /\ kafka.lag > 0 /\ workers = 0}

(* RuntimeSnapshot is taken when the alerts are evaluated.                 *)
Evaluate ==
  /\ Calling("evaluate") /\ Proceed("begin")
  /\ raised' = conditions(snapshot, activeConsumers) /\ snapshot' = NoSample
  /\ backlog' = 0 /\ waited' = FALSE /\ overdue' = FALSE /\ excuse' = FALSE
  /\ Forget /\ UNCHANGED <<topic, fleet, faults>>

Round ==
  \/ Begin \/ CallFails \/ ReadOffsets \/ ReadEnds \/ Looked \/ Evaluate
  \/ \E p \in todo : Look(p) \/ OutOfRange(p)

Next ==
  \/ Round
  \/ \E p \in Partitions : Produce(p) \/ Age(p) \/ Commit(p) \/ Expire(p)
  \/ \E w \in Workers : WorkerStarts(w) \/ WorkerStops(w)

-----------------------------------------------------------------------------
(* The lag of a sample is never less than what was uncommitted when the    *)
(* ends of the log were read, and a sample fails only if a call failed or  *)
(* records expired: it never finds a group ahead of its log (partitionLag).*)
SamplesAreSound ==
  Calling("evaluate") =>
    /\ snapshot.state = "ok" => snapshot.lag >= backlog
    /\ snapshot.state = "unavailable" => excuse

(* An alarm is about something that was so (conditions): a record more     *)
(* than three hours old was not committed when the sample began or later;  *)
(* a record waited and no worker runs; a call failed or records expired.   *)
AlarmsAreReal ==
  [][Calling("evaluate") =>
       /\ "order_queue_deadline" \in raised' => overdue
       /\ "order_consumer_stopped" \in raised' => waited /\ running = {}
       /\ "kafka_sample_unavailable" \in raised' => excuse]_vars
=============================================================================
