------------------------------ MODULE LoadTest ------------------------------
(***************************************************************************)
(* A run of the load generator (cmd/loadtest/main.go) against the server.  *)
(* The run reads the server's counter of accepted submissions, submits one *)
(* order that is not measured, waits for an empty queue, submits orders at *)
(* a rate, waits until the queue has drained, reads the counter again,     *)
(* looks the orders up and pays for some of them.  Meanwhile an observer   *)
(* samples the lag of the consumer group.                                  *)
(*                                                                         *)
(* Call 0 is the warm-up, calls 1..Orders submit, the others pay.  A call  *)
(* that times out may have been published, or be published later.          *)
(***************************************************************************)
EXTENDS Integers, FiniteSets

CONSTANTS Orders, Payments,     \* requestedCount of the two phases
          MaxInflight, None,
          MaxStock, MaxFaults   \* bounds: codes, and failures of calls

LoadAssumption ==
  /\ Orders \in Nat \ {0} /\ Payments \in Nat /\ MaxInflight \in Nat \ {0}
  /\ MaxStock \in Nat /\ MaxFaults \in Nat /\ None \notin Nat

VARIABLES
  step, failing, late,  \* run: where it is, whether it stops for an error,
                        \* whether the deadline of its wait has passed
  call,                 \* what the client knows of each request
  before, after,        \* the server's counter, read twice
  created, rejected,    \* terminalOrderCounts
  found,                \* findCreatedOrders
  latest, peak, atEnd,  \* lagObserver: latestLag, maxLag; lagAtInputEnd
  sampler,              \* a sample under way in each of the two goroutines
  loop,                 \* the observer's goroutine
  order, counted, committed, stock, paid,     \* server
  failures

report == <<before, after, created, rejected, found>>
lags == <<latest, peak, atEnd, sampler, loop>>
server == <<order, counted, committed, stock, paid>>
vars == <<step, failing, late, call, report, lags, server, failures>>

Submissions == 1..Orders
Settlements == Orders + 1..Orders + Payments
Launches == 0..Orders + Payments
Samplers == {"loop", "main"}
Waits == {"priming", "empty", "counts", "drained"}
Idle == [at |-> "idle", n |-> 0]

Answered(calls) == {c \in calls : call[c] = "accepted"}
Running == {c \in Launches : call[c] = "running"}
Published == {c \in DOMAIN order : order[c] # "none"}
Decided == {c \in DOMAIN order : order[c] \in {"created", "rejected"}}
CountOf(status) == Cardinality({c \in Submissions : order[c] = status})

TypeOK ==
  /\ step \in {"counter", "prime", "priming", "empty", "input", "sampling", "counts",
               "drained", "stop", "after", "lookup", "pay", "done", "failed"}
  /\ failing \in BOOLEAN /\ late \in BOOLEAN
  /\ call \in [Launches -> {"new", "running", "accepted", "refused", "lost"}]
  /\ Cardinality(Running) <= MaxInflight
  /\ {before, after, latest, peak, atEnd} \subseteq Nat \union {None}
  /\ {created, rejected, found} \subseteq 0..Orders
  /\ sampler \in [Samplers -> [at : {"idle", "committed", "read"}, n : Nat]]
  /\ loop \in {"off", "on", "ended"}
  /\ order \in [0..Orders -> {"none", "published", "created", "rejected"}]
  /\ counted \subseteq Published /\ committed \subseteq Decided
  /\ paid \subseteq Settlements

InitAt(start) ==
  /\ step = start /\ failing = FALSE /\ late = FALSE
  /\ call = [c \in Launches |-> "new"]
  /\ before = None /\ after = None
  /\ created = 0 /\ rejected = 0 /\ found = 0
  /\ latest = None /\ peak = None /\ atEnd = None
  /\ sampler = [s \in Samplers |-> Idle] /\ loop = "off"
  /\ order = [c \in 0..Orders |-> "none"]
  /\ counted = {} /\ committed = {} /\ paid = {}
  /\ stock \in 0..MaxStock
  /\ failures = 0

Init == InitAt("counter")

-----------------------------------------------------------------------------
(* The server.                                                             *)

Publish(c) ==
  /\ call[c] \in {"running", "lost"} /\ order[c] = "none"
  /\ order' = [order EXCEPT ![c] = "published"]
  /\ UNCHANGED <<step, failing, late, call, report, lags, counted, committed, stock,
                 paid, failures>>

(* The submission is counted before it is answered (OrderSubmitted).       *)
Accept(c) ==
  /\ call[c] = "running" /\ order[c] # "none"
  /\ counted' = counted \union {c}
  /\ call' = [call EXCEPT ![c] = "accepted"]
  /\ UNCHANGED <<step, failing, late, report, lags, order, committed, stock, paid,
                 failures>>

(* A handler goes on after its client has given up.                        *)
CountLate(c) ==
  /\ call[c] = "lost" /\ order[c] # "none" /\ c \notin counted
  /\ counted' = counted \union {c}
  /\ UNCHANGED <<step, failing, late, call, report, lags, order, committed, stock,
                 paid, failures>>

Decide(c) ==
  /\ order[c] = "published"
  /\ order' = [order EXCEPT ![c] = IF stock > 0 THEN "created" ELSE "rejected"]
  /\ stock' = IF stock > 0 THEN stock - 1 ELSE 0
  /\ UNCHANGED <<step, failing, late, call, report, lags, counted, committed, paid,
                 failures>>

Commit(c) ==
  /\ c \in Decided \ committed
  /\ committed' = committed \union {c}
  /\ UNCHANGED <<step, failing, late, call, report, lags, order, counted, stock, paid,
                 failures>>

Settle(c) ==
  /\ call[c] = "running"
  /\ paid' = paid \union {c}
  /\ call' = [call EXCEPT ![c] = "accepted"]
  /\ UNCHANGED <<step, failing, late, report, lags, order, counted, committed, stock,
                 failures>>

(* An error of the server, or the client's timeout.                        *)
CallFails(c) ==
  /\ call[c] = "running" /\ failures < MaxFaults
  /\ failures' = failures + 1
  /\ \E outcome \in {"refused", "lost"} : call' = [call EXCEPT ![c] = outcome]
  /\ UNCHANGED <<step, failing, late, report, lags, server>>

-----------------------------------------------------------------------------
(* Fault: nothing tells the goroutine to stop.                             *)
NotTold == FALSE

(* The observer's context ends; a sample with it would fail at once.       *)
Cancelled == step = "stop"

(* A sample of the lag: the committed offsets are read before the ends.  A *)
(* group without a committed offset is not integrated, and is not counted. *)

ReadCommitted(s) ==
  /\ sampler[s].at = "idle"
  /\ IF s = "loop" THEN loop = "on" /\ ~Cancelled ELSE step = "sampling"
  /\ committed # {}
  /\ sampler' = [sampler EXCEPT ![s] = [at |-> "committed", n |-> Cardinality(committed)]]
  /\ UNCHANGED <<step, failing, late, call, report, latest, peak, atEnd, loop, server,
                 failures>>

ReadEnds(s) ==
  /\ sampler[s].at = "committed"
  /\ sampler' = [sampler EXCEPT ![s] =
       [at |-> "read", n |-> Cardinality(Published) - sampler[s].n]]
  /\ UNCHANGED <<step, failing, late, call, report, latest, peak, atEnd, loop, server,
                 failures>>

(* The sampling of the run is followed by reading what is stored.          *)
StoreLag(s, sampled) ==
  /\ latest' = IF sampled THEN sampler[s].n ELSE latest
  /\ peak' = IF sampled /\ (peak = None \/ sampler[s].n > peak) THEN sampler[s].n ELSE peak
  /\ sampler' = [sampler EXCEPT ![s] = Idle]
  /\ IF s = "main" THEN atEnd' = latest' /\ step' = "counts" ELSE UNCHANGED <<atEnd, step>>
  /\ late' = (s = "loop" /\ late)

SampleEnds(s) ==
  /\ sampler[s].at = "read"
  /\ StoreLag(s, TRUE)
  /\ UNCHANGED <<failing, call, report, loop, server, failures>>

(* A failed sample is dropped: the last number stays.                      *)
SampleFails(s) ==
  /\ \/ sampler[s].at # "idle" /\ failures < MaxFaults /\ failures' = failures + 1
     \/ s = "main" /\ step = "sampling" /\ committed = {} /\ UNCHANGED failures
  /\ StoreLag(s, FALSE)
  /\ UNCHANGED <<failing, call, report, loop, server>>

(* The goroutine looks at its context between two samples.                 *)
ObserverEnds ==
  /\ loop = "on" /\ sampler["loop"].at = "idle" /\ Cancelled
  /\ loop' = "ended"
  /\ UNCHANGED <<step, failing, late, call, report, latest, peak, atEnd, sampler, server,
                 failures>>

-----------------------------------------------------------------------------
(* The run.                                                                *)

Go(next) == step' = next /\ late' = FALSE

(* The deadline of a wait passes.                                          *)
Deadline ==
  /\ step \in Waits /\ ~late
  /\ late' = TRUE
  /\ UNCHANGED <<step, failing, call, report, lags, server, failures>>

ReadBefore ==
  /\ step = "counter" /\ Go("prime")
  /\ before' = Cardinality(counted)
  /\ UNCHANGED <<failing, call, after, created, rejected, found, lags, server, failures>>

Prime ==
  /\ step = "prime" /\ Go("priming")
  /\ call' = [call EXCEPT ![0] = "running"]
  /\ UNCHANGED <<failing, report, lags, server, failures>>

(* The observer starts when the warm-up order is decided.                  *)
Primed ==
  /\ step = "priming"
  /\ \/ call[0] = "accepted" /\ 0 \in Decided /\ Go("empty") /\ loop' = "on"
     \/ call[0] = "accepted" /\ 0 \notin Decided /\ late /\ Go("failed") /\ UNCHANGED loop
     \/ call[0] \in {"refused", "lost"} /\ Go("failed") /\ UNCHANGED loop
  /\ UNCHANGED <<failing, call, report, latest, peak, atEnd, sampler, server, failures>>

QueueIsEmpty ==
  /\ step = "empty"
  /\ \/ latest = 0 /\ Go("input") /\ UNCHANGED failing
     \/ latest # 0 /\ late /\ Go("stop") /\ failing' = TRUE
  /\ UNCHANGED <<call, report, lags, server, failures>>

Phase ==
  CASE step = "input" -> Submissions
    [] step = "pay" -> Settlements
    [] OTHER -> {}

(* runAtRate: the next call starts when the semaphore has room.            *)
Launch(c) ==
  /\ c \in Phase
  /\ call[c] = "new" /\ \A d \in 1..c - 1 : call[d] # "new"
  /\ Cardinality(Running) < MaxInflight
  /\ call' = [call EXCEPT ![c] = "running"]
  /\ UNCHANGED <<step, failing, late, report, lags, server, failures>>

(* The run waits for all its calls, then samples the lag once itself.      *)
InputEnds ==
  /\ step = "input" /\ \A c \in Submissions : call[c] \notin {"new", "running"}
  /\ Go("sampling")
  /\ UNCHANGED <<failing, call, report, lags, server, failures>>

ReadCounts ==
  /\ step = "counts"
  /\ IF Answered(Submissions) = {}
     THEN Go("stop") /\ failing' = TRUE /\ UNCHANGED <<created, rejected>>
     ELSE /\ created' = CountOf("created") /\ rejected' = CountOf("rejected")
          /\ step' = "drained" /\ UNCHANGED <<late, failing>>
  /\ UNCHANGED <<call, before, after, found, lags, server, failures>>

HasDrained ==
  /\ created + rejected >= Cardinality(Answered(Submissions))
  /\ latest = 0

Drain ==
  /\ step = "drained"
  /\ \/ HasDrained /\ Go("stop") /\ UNCHANGED failing
     \/ ~HasDrained /\ late /\ Go("stop") /\ failing' = TRUE
     \/ ~HasDrained /\ ~late /\ step' = "counts" /\ UNCHANGED <<late, failing>>
  /\ UNCHANGED <<call, report, lags, server, failures>>

WaitForObserver ==
  /\ step = "stop" /\ loop = "ended"
  /\ Go(IF failing THEN "failed" ELSE "after")
  /\ UNCHANGED <<failing, call, report, lags, server, failures>>

(* Fault: the warm-up is taken for a measured order.                       *)
WithWarmUp == after - before

(* The counter went up for the warm-up too.                                *)
Received == after - before - 1

ReadAfter ==
  /\ step = "after"
  /\ after' = Cardinality(counted)
  /\ UNCHANGED <<failing, call, before, created, rejected, found, lags, server, failures>>
  /\ Go(IF Received' < 0 THEN "failed" ELSE "lookup")

(* Orders that were created since they were counted end the run.           *)
LookUp ==
  /\ step = "lookup"
  /\ found' = CountOf("created")
  /\ Go(IF found' # created \/ Payments > found'
        THEN "failed" ELSE "pay")
  /\ UNCHANGED <<failing, call, before, after, created, rejected, lags, server, failures>>

Finish ==
  /\ step = "pay" /\ \A c \in Settlements : call[c] \notin {"new", "running"}
  /\ Go("done")
  /\ UNCHANGED <<failing, call, report, lags, server, failures>>

(* A read of the metrics or of the database fails.                         *)
ReadFails ==
  /\ step \in {"counter", "priming", "counts", "drained", "after", "lookup"}
  /\ step = "priming" => call[0] = "accepted"
  /\ failures < MaxFaults
  /\ failures' = failures + 1
  /\ Go(IF step \in {"counts", "drained"} THEN "stop" ELSE "failed")
  /\ failing' = TRUE
  /\ UNCHANGED <<call, report, lags, server>>

-----------------------------------------------------------------------------
Run ==
  \/ ReadBefore \/ Prime \/ Primed \/ QueueIsEmpty \/ InputEnds \/ ReadCounts \/ Drain
  \/ WaitForObserver \/ ReadAfter \/ LookUp \/ Finish

Server(c) == Publish(c) \/ Accept(c)

Sample(s) == ReadCommitted(s) \/ ReadEnds(s) \/ SampleEnds(s)

Next ==
  \/ \E c \in 0..Orders : Server(c) \/ CountLate(c) \/ Decide(c) \/ Commit(c)
  \/ \E c \in Settlements : Settle(c)
  \/ \E c \in Launches : CallFails(c) \/ Launch(c)
  \/ \E s \in Samplers : Sample(s) \/ SampleFails(s)
  \/ Deadline \/ Run \/ ReadFails \/ ObserverEnds

(* Goroutines run, deadlines pass, and a call is answered.  The consumers  *)
(* of the server may do nothing at all.                                    *)
Fairness ==
  /\ WF_vars(Run) /\ WF_vars(Deadline) /\ WF_vars(ObserverEnds)
  /\ \A c \in Launches : WF_vars(Launch(c))
  /\ \A c \in 0..Orders : WF_vars(Server(c))
  /\ \A c \in Settlements : WF_vars(Settle(c))
  /\ \A s \in Samplers : WF_vars(Sample(s)) /\ WF_vars(SampleFails(s))

Spec == Init /\ [][Next]_vars /\ Fairness

-----------------------------------------------------------------------------
(* A finished report adds up (run, 379-388): the submissions the server    *)
(* counted are at least those answered and at most those launched, none of *)
(* them the warm-up; the terminal orders are at least the answered ones;   *)
(* and when no answer was lost, every order launched is decided and is in  *)
(* the counts.                                                             *)
TheReportAddsUp ==
  step = "done" =>
    /\ Received \in Cardinality(Answered(Submissions))..Orders
    /\ created + rejected >= Cardinality(Answered(Submissions))
    /\ Answered(Submissions) = Submissions =>
         /\ Submissions \subseteq Decided
         /\ created = CountOf("created") /\ rejected = CountOf("rejected")
    /\ atEnd # None => peak >= atEnd

(* A run comes to an end, however the consumers of the server behave: no   *)
(* wait for the semaphore, the calls, the queue or the observer is for     *)
(* ever (runAtRate, waitForOrderDrain, lagObserver.wait).                  *)
RunEnds == <>(step \in {"done", "failed"})
=============================================================================
