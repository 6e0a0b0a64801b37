------------------------------ MODULE Realtime ------------------------------
(***************************************************************************)
(* The realtime hub (internal/realtime/hub.go): a bounded number of seats, *)
(* one WebSocket per user, a bounded queue per connection.  A connection   *)
(* that loses its seat, or does not keep up, is told to fall back to HTTP; *)
(* messages are in the database before anyone hears of them.               *)
(*                                                                         *)
(* What a goroutine does under Hub.mu is one step, as are a try of a       *)
(* connection's queue, a query and a transaction.  Between two of them the *)
(* peer a goroutine looked up may have lost its seat.                      *)
(***************************************************************************)
EXTENDS Naturals, FiniteSets, Sequences, SequencesExt

CONSTANTS Subjects, Conns, Messages, None,
          Owner,       \* the user a connection belongs to
          Route,       \* a message's <<sender, recipient>>
          MaxConnections, FallbackCooldown, QueueSize,
          recentMessageLimit,   \* the messages of a snapshot
          MaxTime, MaxSends, MaxFaults   \* bounds: clock, sends, lost answers

ASSUME RealtimeAssumption ==
  /\ IsFiniteSet(Subjects) /\ IsFiniteSet(Conns)
  /\ Owner \in [Conns -> Subjects]
  /\ Route \in [Messages -> Subjects \X Subjects]
  /\ MaxConnections \in Nat \ {0} /\ QueueSize \in Nat \ {0}
  /\ recentMessageLimit \in Nat \ {0}
  /\ FallbackCooldown \in Nat /\ MaxTime \in Nat
  /\ MaxSends \in Nat /\ MaxFaults \in Nat
  /\ None \notin Conns

VARIABLES
  peers, pending, cooldowns,   \* Hub, under its mutex
  pc,              \* where the handler of a connection (ServeHTTP) is
  victim,          \* the connection it evicted
  snapshot,        \* the messages it read for its snapshot
  open,            \* connections that have been upgraded and not closed
  queue,           \* client.send
  lastDelivered,
  stored,          \* conversation_messages, in the order of created_at
  sender,          \* sendMessage: where it is, whom it sends to, and to which peer
  sends,
  accepted,        \* history: messages a sender was told were stored
  delivered,       \* messages written to an open connection
  passed,          \* history: stored messages a snapshot left out
  now,
  faults

hub == <<peers, pending, cooldowns>>
handler == <<pc, victim, snapshot, passed>>
clients == <<open, queue, lastDelivered, delivered>>
sending == <<stored, sender, sends, accepted, faults>>
vars == <<hub, handler, clients, sending, now>>

Frames == [type : {"text"}, messages : SUBSET Messages]
            \union {[type |-> "close", messages |-> {}]}
Text(set) == [type |-> "text", messages |-> set]
CloseFrame == [type |-> "close", messages |-> {}]
Registered == {"registered", "received", "snapshot", "detaching", "fallback", "reading"}
NotSending == [pc |-> "idle", step |-> 1, peer |-> None]

TypeOK ==
  /\ peers \in [Subjects -> Conns \union {None}]
  /\ pending \subseteq Subjects
  /\ cooldowns \in [Subjects -> 0..MaxTime + FallbackCooldown]
  /\ pc \in [Conns -> {"new", "evicting", "upgrading", "gone"} \union Registered]
  /\ victim \in [Conns -> Conns \union {None}]
  /\ snapshot \in [Conns -> SUBSET Messages]
  /\ open \subseteq Conns
  /\ \A c \in Conns : /\ Len(queue[c]) <= QueueSize
                      /\ \A i \in 1..Len(queue[c]) : queue[c][i] \in Frames
                      /\ pc[c] \in {"new", "evicting", "upgrading"} =>
                           c \notin open /\ queue[c] = <<>>
  /\ lastDelivered \in [Conns -> 0..MaxTime]
  /\ IsInjective(stored) /\ ToSet(stored) \subseteq Messages
  /\ sender \in [Messages -> [pc : {"idle", "lookup", "enqueue", "detaching", "fallback"},
                             step : {1, 2}, peer : Conns \union {None}]]
  /\ sends \in 0..MaxSends
  /\ accepted \subseteq ToSet(stored)
  /\ delivered \in [Conns -> SUBSET ToSet(stored)]
  /\ passed \in [Conns -> SUBSET ToSet(stored)]
  /\ now \in 0..MaxTime

Init ==
  /\ peers = [s \in Subjects |-> None]
  /\ pending = {}
  /\ cooldowns = [s \in Subjects |-> 0]
  /\ pc = [c \in Conns |-> "new"]
  /\ victim = [c \in Conns |-> None]
  /\ snapshot = [c \in Conns |-> {}]
  /\ open = {}
  /\ queue = [c \in Conns |-> <<>>]
  /\ lastDelivered = [c \in Conns |-> 0]
  /\ stored = <<>>
  /\ sender = [m \in Messages |-> NotSending]
  /\ sends = 0
  /\ accepted = {}
  /\ delivered = [c \in Conns |-> {}]
  /\ passed = [c \in Conns |-> {}]
  /\ now = 0
  /\ faults = 0
-----------------------------------------------------------------------------
(* Fault: the queue has no bound.                                          *)
AcceptsAny(c) == c \in open

(* client.enqueue; a connection that cannot take the frame is unaffected.  *)
Accepts(c) == c \in open /\ Len(queue[c]) < QueueSize

Enqueue(c, frame) == queue' = [queue EXCEPT ![c] = Append(@, frame)]

(* Fault: the peer of the subject is removed, whichever it is.             *)
AnyRemoved(c) == [peers EXCEPT ![Owner[c]] = None]

(* Hub.remove: only the connection's own seat.                             *)
Removed(c) == IF peers[Owner[c]] = c THEN [peers EXCEPT ![Owner[c]] = None] ELSE peers

(* client.close: what is left in the queue is never written.               *)
Close(c) ==
  /\ open' = open \ {c}
  /\ queue' = [queue EXCEPT ![c] = <<>>]
  /\ delivered' = [delivered EXCEPT ![c] = {}]

(* beginHTTPFallback asks a connection to close, or closes it at once.     *)
BeginHTTPFallback(c) ==
  IF Accepts(c)
  THEN Enqueue(c, CloseFrame) /\ UNCHANGED <<open, delivered>>
  ELSE Close(c)

(* detachSlowPeer, under the mutex; beginHTTPFallback comes after it.      *)
DetachSlowPeer(c) ==
  /\ peers' = Removed(c)
  /\ cooldowns' = IF peers[Owner[c]] = c
                  THEN [cooldowns EXCEPT ![Owner[c]] = now + FallbackCooldown]
                  ELSE cooldowns
  /\ UNCHANGED <<pending, clients>>

-----------------------------------------------------------------------------
Seated == {c \in Conns : peers[Owner[c]] = c}

(* Fault: seats promised to handlers that are upgrading are not counted.   *)
SeatedOnly == Cardinality(Seated)

SeatsTaken == Cardinality(Seated) + Cardinality(pending)

Oldest == {c \in Seated : \A d \in Seated : lastDelivered[c] <= lastDelivered[d]}

(* reserve, and its answer 429 or 503 for a user who cools down or is      *)
(* connecting already.                                                     *)
Reserve(c) ==
  LET s == Owner[c]
      Take(evicted, left, cooling) ==
        /\ peers' = left
        /\ pending' = pending \union {s}
        /\ cooldowns' = cooling
        /\ victim' = [victim EXCEPT ![c] = evicted]
        /\ pc' = [pc EXCEPT ![c] = IF evicted = None THEN "upgrading" ELSE "evicting"]
  IN /\ pc[c] = "new"
     /\ \/ /\ now < cooldowns[s] \/ s \in pending
           /\ pc' = [pc EXCEPT ![c] = "gone"]
           /\ UNCHANGED <<hub, victim>>
        \/ /\ now >= cooldowns[s]
           /\ s \notin pending
           /\ \/ /\ peers[s] # None
                 /\ Take(peers[s], [peers EXCEPT ![s] = None], cooldowns)
              \/ /\ peers[s] = None
                 /\ SeatsTaken < MaxConnections
                 /\ Take(None, peers, cooldowns)
              \/ /\ peers[s] = None
                 /\ SeatsTaken >= MaxConnections
                 /\ \E d \in Oldest :
                      Take(d, [peers EXCEPT ![Owner[d]] = None],
                           [cooldowns EXCEPT ![Owner[d]] = now + FallbackCooldown])
              \/ /\ peers[s] = None
                 /\ SeatsTaken >= MaxConnections
                 /\ Seated = {}
                 /\ pc' = [pc EXCEPT ![c] = "gone"]
                 /\ UNCHANGED <<hub, victim>>
     /\ UNCHANGED <<snapshot, passed, clients, sending, now>>

Evict(c) ==
  /\ pc[c] = "evicting"
  /\ BeginHTTPFallback(victim[c])
  /\ pc' = [pc EXCEPT ![c] = "upgrading"]
  /\ victim' = [victim EXCEPT ![c] = None]
  /\ UNCHANGED <<hub, snapshot, passed, lastDelivered, sending, now>>

(* The upgrade fails and the seat is given back, or the new connection     *)
(* takes it and its writePump starts.                                      *)
Upgrade(c) ==
  /\ pc[c] = "upgrading"
  /\ pending' = pending \ {Owner[c]}
  /\ \/ /\ pc' = [pc EXCEPT ![c] = "gone"]
        /\ UNCHANGED <<peers, open, lastDelivered>>
     \/ /\ pc' = [pc EXCEPT ![c] = "registered"]
        /\ peers' = [peers EXCEPT ![Owner[c]] = c]
        /\ open' = open \union {c}
        /\ lastDelivered' = [lastDelivered EXCEPT ![c] = now]
  /\ UNCHANGED <<cooldowns, victim, snapshot, passed, queue, delivered, sending, now>>

(* recentMessages: the newest of the messages the user sent, then of those *)
(* received, and of both together.  A message may be stored in between.    *)
Newer(n, m) == \E i, j \in DOMAIN stored : stored[i] = n /\ stored[j] = m /\ i > j

Newest(messages) ==
  {m \in messages : Cardinality({n \in messages : Newer(n, m)}) < recentMessageLimit}

SentBy(s) == {m \in ToSet(stored) : Route[m][1] = s}
ReceivedBy(s) == {m \in ToSet(stored) : Route[m][2] = s}

Read(c, messages, next) ==
  /\ snapshot' = [snapshot EXCEPT ![c] = Newest(messages)]
  /\ passed' = [passed EXCEPT ![c] = @ \union (messages \ Newest(messages))]
  /\ pc' = [pc EXCEPT ![c] = next]
  /\ UNCHANGED <<hub, victim, clients, sending, now>>

ReadSent(c) == pc[c] = "registered" /\ Read(c, SentBy(Owner[c]), "received")

ReadReceived(c) ==
  /\ pc[c] = "received"
  /\ Read(c, snapshot[c] \union ReceivedBy(Owner[c]), "snapshot")

(* An error of the database is ignored: the connection goes on without     *)
(* what was stored before it.                                              *)
LoseSnapshot(c) ==
  /\ pc[c] \in {"registered", "received"}
  /\ faults < MaxFaults
  /\ faults' = faults + 1
  /\ pc' = [pc EXCEPT ![c] = "reading"]
  /\ snapshot' = [snapshot EXCEPT ![c] = {}]
  /\ passed' = [passed EXCEPT ![c] = SentBy(Owner[c]) \union ReceivedBy(Owner[c])]
  /\ UNCHANGED <<hub, victim, clients, stored, sender, sends, accepted, now>>

SendSnapshot(c) ==
  /\ pc[c] = "snapshot"
  /\ \/ /\ Accepts(c)
        /\ Enqueue(c, Text(snapshot[c]))
        /\ pc' = [pc EXCEPT ![c] = "reading"]
     \/ /\ ~Accepts(c)
        /\ pc' = [pc EXCEPT ![c] = "detaching"]
        /\ UNCHANGED queue
  /\ snapshot' = [snapshot EXCEPT ![c] = {}]
  /\ UNCHANGED <<hub, victim, passed, open, lastDelivered, delivered, sending, now>>

DetachSnapshot(c) ==
  /\ \/ /\ pc[c] = "detaching"
        /\ DetachSlowPeer(c)
        /\ pc' = [pc EXCEPT ![c] = "fallback"]
     \/ /\ pc[c] = "fallback"
        /\ BeginHTTPFallback(c)
        /\ pc' = [pc EXCEPT ![c] = "reading"]
        /\ UNCHANGED <<hub, lastDelivered>>
  /\ UNCHANGED <<victim, snapshot, passed, sending, now>>

(* A message that cannot be handled is answered with an error frame, which *)
(* takes a place in the queue.                                             *)
AnswerError(c) ==
  /\ pc[c] = "reading"
  /\ Accepts(c)
  /\ Enqueue(c, Text({}))
  /\ UNCHANGED <<hub, handler, open, lastDelivered, delivered, sending, now>>

(* ReadMessage fails: the connection was closed by this side or the other, *)
(* or no pong came.  The handler's deferred calls run.                     *)
StopReading(c) ==
  /\ pc[c] = "reading"
  /\ pc' = [pc EXCEPT ![c] = "gone"]
  /\ peers' = Removed(c)
  /\ Close(c)
  /\ UNCHANGED <<pending, cooldowns, victim, snapshot, passed, lastDelivered, sending, now>>

-----------------------------------------------------------------------------
(* writePump.                                                              *)
Write(c) ==
  /\ c \in open
  /\ queue[c] # <<>>
  /\ IF Head(queue[c]).type = "text"
     THEN /\ queue' = [queue EXCEPT ![c] = Tail(@)]
          /\ delivered' = [delivered EXCEPT ![c] = @ \union Head(queue[c]).messages]
          /\ UNCHANGED <<peers, open>>
     ELSE peers' = Removed(c) /\ Close(c)
  /\ UNCHANGED <<pending, cooldowns, handler, lastDelivered, sending, now>>

(* A frame or a ping cannot be written within writeWait.                   *)
WriteFails(c) ==
  /\ c \in open
  /\ peers' = Removed(c)
  /\ Close(c)
  /\ UNCHANGED <<pending, cooldowns, handler, lastDelivered, sending, now>>

-----------------------------------------------------------------------------
(* The row of a message; created_at is stamped before the transaction      *)
(* commits, so that a message may come before others that are there.       *)
Insert(m) == \E i \in 1..Len(stored) + 1 : stored' = InsertAt(stored, i, m)

(* sendMessage stores a message, or finds it stored by an earlier try, and *)
(* sends it to both users; Route[m][step] is the user it is at.            *)
PersistMessage(m) ==
  /\ sender[m].pc = "idle"
  /\ sends < MaxSends
  /\ IF m \in ToSet(stored) THEN UNCHANGED stored ELSE Insert(m)
  /\ sends' = sends + 1
  /\ accepted' = accepted \union {m}
  /\ sender' = [sender EXCEPT ![m].pc = "lookup"]
  /\ UNCHANGED <<hub, handler, clients, now, faults>>

(* The answer of the commit is lost: the message may be stored, and no one *)
(* is sent it unless the client tries again.                               *)
LosePersist(m) ==
  /\ sender[m].pc = "idle"
  /\ sends < MaxSends
  /\ faults < MaxFaults
  /\ \/ UNCHANGED stored
     \/ m \notin ToSet(stored) /\ Insert(m)
  /\ sends' = sends + 1
  /\ faults' = faults + 1
  /\ UNCHANGED <<hub, handler, clients, sender, accepted, now>>

NextUser(m) ==
  sender' = [sender EXCEPT ![m] =
    IF sender[m].step = 1 /\ Route[m][1] # Route[m][2]
    THEN [pc |-> "lookup", step |-> 2, peer |-> None] ELSE NotSending]

Lookup(m) ==
  LET peer == peers[Route[m][sender[m].step]]
  IN /\ sender[m].pc = "lookup"
     /\ IF peer = None THEN NextUser(m)
        ELSE sender' = [sender EXCEPT ![m].pc = "enqueue", ![m].peer = peer]
     /\ UNCHANGED <<hub, handler, clients, stored, sends, accepted, now, faults>>

(* Fault: a message for a full queue is dropped.                           *)
SkipPeer(m) == NextUser(m)

SlowPeer(m) == sender' = [sender EXCEPT ![m].pc = "detaching"]

SendTo(m) ==
  LET peer == sender[m].peer
  IN /\ sender[m].pc = "enqueue"
     /\ \/ Accepts(peer) /\ Enqueue(peer, Text({m})) /\ NextUser(m)
        \/ ~Accepts(peer) /\ SlowPeer(m) /\ UNCHANGED queue
     /\ UNCHANGED <<hub, handler, open, lastDelivered, delivered, stored,
                    sends, accepted, now, faults>>

Detach(m) ==
  /\ \/ /\ sender[m].pc = "detaching"
        /\ DetachSlowPeer(sender[m].peer)
        /\ sender' = [sender EXCEPT ![m].pc = "fallback"]
     \/ /\ sender[m].pc = "fallback"
        /\ BeginHTTPFallback(sender[m].peer)
        /\ NextUser(m)
        /\ UNCHANGED <<hub, lastDelivered>>
  /\ UNCHANGED <<handler, stored, sends, accepted, now, faults>>

(* acknowledgeMessage and recordCompletedDelivery, after which both users  *)
(* count as recently delivered.  The hub never reads received_at.          *)
AcknowledgeMessage(m) ==
  /\ m \in ToSet(stored)
  /\ lastDelivered' = [c \in Conns |->
       IF peers[Owner[c]] = c /\ Owner[c] \in {Route[m][1], Route[m][2]}
       THEN now ELSE lastDelivered[c]]
  /\ UNCHANGED <<hub, handler, open, queue, delivered, sending, now>>

Tick ==
  /\ now < MaxTime
  /\ now' = now + 1
  /\ UNCHANGED <<hub, handler, clients, sending>>

HandlerStep(c) ==
  \/ Evict(c) \/ Upgrade(c) \/ ReadSent(c) \/ ReadReceived(c) \/ SendSnapshot(c)
  \/ DetachSnapshot(c)
  \/ c \notin open /\ StopReading(c)

SenderStep(m) == Lookup(m) \/ SendTo(m) \/ Detach(m)

Next ==
  \/ \E c \in Conns : \/ Reserve(c) \/ Evict(c) \/ Upgrade(c) \/ ReadSent(c)
                      \/ ReadReceived(c) \/ SendSnapshot(c) \/ DetachSnapshot(c)
                      \/ StopReading(c) \/ Write(c) \/ WriteFails(c)
                      \/ LoseSnapshot(c) \/ AnswerError(c)
  \/ \E m \in Messages : \/ PersistMessage(m) \/ LosePersist(m) \/ SenderStep(m)
                         \/ AcknowledgeMessage(m)
  \/ Tick

(* Handlers, pumps and senders are goroutines that run on; a write ends    *)
(* within its deadline one way or the other.  Nothing is assumed of        *)
(* clients or of the clock.                                                *)
Fairness ==
  /\ \A c \in Conns : WF_vars(HandlerStep(c)) /\ WF_vars(Write(c))
  /\ \A m \in Messages : WF_vars(SenderStep(m))

Spec == Init /\ [][Next]_vars /\ Fairness

-----------------------------------------------------------------------------
(* Seats promised while connections upgrade count: there are never more    *)
(* connections and promises than the limit, and a user has one at most.    *)
SeatsAreBounded ==
  /\ Cardinality(Seated) + Cardinality(pending) <= MaxConnections
  /\ \A s \in pending : peers[s] = None
  /\ \A s \in pending : Cardinality({c \in Conns : Owner[c] = s
                                       /\ pc[c] \in {"evicting", "upgrading"}}) = 1

(* A connection that has lost its seat does not linger: evicted, replaced  *)
(* or detached, it is closed in the end.                                   *)
UnseatedIsClosed ==
  \A c \in Conns : (c \in open /\ peers[Owner[c]] # c) ~> c \notin open

(* A message that its sender was told is stored reaches every connection   *)
(* of its users that stays: by the snapshot if it was stored before that   *)
(* was read, by Send if after, and a message that finds the queue full     *)
(* ends the connection instead.  Left out are only messages stored before  *)
(* a snapshot that was full of newer ones, or could not be read.           *)
NothingIsMissed ==
  \A c \in Conns, m \in Messages :
    (c \in open /\ m \in accepted \ passed[c] /\ Owner[c] \in {Route[m][1], Route[m][2]})
      ~> (m \in delivered[c] \/ c \notin open \/ m \in passed[c])
=============================================================================
