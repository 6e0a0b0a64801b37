----------------------------- MODULE ChatProofs -----------------------------
(***************************************************************************)
(* Proofs about MCChat: the bound on the seats of the hub, for any number  *)
(* of users, connections and messages and any limit, and what a sender is  *)
(* told about a message, for any number of attempts.                       *)
(***************************************************************************)
EXTENDS MCChat, FiniteSetTheorems, TLAPS

Reserving == {"evicting", "upgrading"}

(* The part of the type invariant that seats depend on.                    *)
SeatTypes ==
  /\ peers \in [Subjects -> Conns \union {None}]
  /\ pending \subseteq Subjects
  /\ pc \in [Conns -> {"new", "evicting", "upgrading", "gone"} \union Registered]

(* A seat is held by a connection of its user, and a promise is kept by    *)
(* one handler, for a user who has no seat.                                *)
SeatsAreOwned ==
  /\ \A s \in Subjects : peers[s] # None => Owner[peers[s]] = s
  /\ \A s \in pending : peers[s] = None
  /\ \A c \in Conns : pc[c] \in Reserving => Owner[c] \in pending
  /\ \A s \in pending : \E c \in Conns : Owner[c] = s /\ pc[c] \in Reserving
  /\ \A c, d \in Conns :
       pc[c] \in Reserving /\ pc[d] \in Reserving /\ Owner[c] = Owner[d] => c = d

SeatLimit == SeatsTaken <= MaxConnections

SeatInv == SeatTypes /\ SeatsAreOwned /\ SeatLimit

-----------------------------------------------------------------------------
LEMMA Finite ==
  ASSUME SeatTypes
  PROVE  /\ IsFiniteSet(Seated) /\ IsFiniteSet(pending)
         /\ Cardinality(Seated) \in Nat /\ Cardinality(pending) \in Nat
<1>1. IsFiniteSet(Seated)
  BY RealtimeAssumption, FS_Subset DEF Seated
<1>2. IsFiniteSet(pending)
  BY RealtimeAssumption, FS_Subset DEF SeatTypes
<1> QED
  BY <1>1, <1>2, FS_CardinalityType

(* What a step may do to seats, promises and handlers.                     *)

(* A seat may be given up.                                                 *)
Vacates ==
  /\ \A s \in Subjects : peers'[s] \in {peers[s], None}
  /\ peers' \in [Subjects -> Conns \union {None}]
  /\ pending' = pending
  /\ \A c \in Conns : pc'[c] \in Reserving <=> pc[c] \in Reserving

(* A handler is promised a seat, the last of which may be taken from its   *)
(* user or from d.                                                         *)
Promised(c) ==
  /\ Owner[c] \notin pending /\ pc[c] = "new" /\ pc'[c] \in Reserving
  /\ \A d \in Conns : d # c => pc'[d] = pc[d]
  /\ pending' = pending \union {Owner[c]}
  /\ \/ peers' = peers /\ peers[Owner[c]] = None /\ SeatsTaken < MaxConnections
     \/ \E d \in Seated : /\ peers' = [peers EXCEPT ![Owner[d]] = None]
                          /\ peers[Owner[c]] = None \/ Owner[d] = Owner[c]

(* The promise is kept, or given up.                                       *)
Decided(c) ==
  /\ pc[c] = "upgrading" /\ pc'[c] \notin Reserving
  /\ \A d \in Conns : d # c => pc'[d] = pc[d]
  /\ pending' = pending \ {Owner[c]}
  /\ \/ peers' = peers
     \/ peers' = [peers EXCEPT ![Owner[c]] = c]

LEMMA HubKinds ==
  ASSUME SeatInv, [Next]_vars
  PROVE  /\ pc' \in [Conns -> {"new", "evicting", "upgrading", "gone"} \union Registered]
         /\ \/ Vacates
            \/ \E c \in Conns : Promised(c) \/ Decided(c)
<1> USE DEF SeatInv, SeatTypes
<1> DEFINE Handlers == [Conns -> {"new", "evicting", "upgrading", "gone"} \union Registered]
<1>1. CASE UNCHANGED <<hub, handler>>
  BY <1>1 DEF hub, handler, Vacates
<1>2. ASSUME NEW c \in Conns, Reserve(c)
      PROVE  pc' \in Handlers /\ (Vacates \/ Promised(c))
  <2>1. pc' \in Handlers
    BY <1>2 DEF Reserve
  <2>2. CASE UNCHANGED hub /\ pc' = [pc EXCEPT ![c] = "gone"] /\ pc[c] = "new"
    BY <2>1, <2>2 DEF hub, Vacates, Reserving
  <2>3. CASE ~(UNCHANGED hub /\ pc' = [pc EXCEPT ![c] = "gone"] /\ pc[c] = "new")
    <3>1. Owner[c] \in Subjects
      BY RealtimeAssumption
    <3>2. peers[Owner[c]] # None => peers[Owner[c]] \in Seated /\ Owner[peers[Owner[c]]] = Owner[c]
      BY <3>1 DEF Seated, SeatsAreOwned
    <3>3. \A d \in Oldest : d \in Seated
      BY DEF Oldest
    <3> QED
      BY <1>2, <2>3, <3>1, <3>2, <3>3 DEF Reserve, Promised, Reserving
  <2> QED
    BY <2>1, <2>2, <2>3
<1>3. ASSUME NEW c \in Conns, Upgrade(c)
      PROVE  pc' \in Handlers /\ Decided(c)
  BY <1>3 DEF Upgrade, Decided, Reserving, Registered
<1>4. ASSUME NEW c \in Conns,
             \/ Evict(c) \/ ReadSent(c) \/ ReadReceived(c) \/ SendSnapshot(c)
             \/ LoseSnapshot(c)
      PROVE  pc' \in Handlers /\ Vacates
  BY <1>4 DEF Evict, ReadSent, ReadReceived, Read, SendSnapshot, LoseSnapshot,
     Vacates, Reserving, Registered, hub
<1>5. ASSUME NEW c \in Conns
      PROVE  Removed(c) \in [Subjects -> Conns \union {None}]
             /\ \A s \in Subjects : Removed(c)[s] \in {peers[s], None}
  BY DEF Removed
<1>6. ASSUME NEW c \in Conns, DetachSnapshot(c) \/ StopReading(c) \/ Write(c) \/ WriteFails(c)
      PROVE  pc' \in Handlers /\ Vacates
  BY <1>5, <1>6 DEF DetachSnapshot, DetachSlowPeer, StopReading, Write, WriteFails,
     Vacates, Reserving, Registered, handler, hub
<1>7. ASSUME NEW m \in Messages, Detach(m)
      PROVE  pc' \in Handlers /\ Vacates
  <2>1. CASE UNCHANGED <<hub, handler>>
    BY <2>1 DEF hub, handler, Vacates
  <2>2. CASE sender[m].pc = "detaching"
    <3>1. PICK c : c = sender[m].peer
      OBVIOUS
    <3>2. peers' = Removed(c) /\ UNCHANGED <<pending, handler>>
      BY <1>7, <2>2, <3>1 DEF Detach, DetachSlowPeer
    <3>3. /\ Removed(c) \in [Subjects -> Conns \union {None}]
          /\ \A s \in Subjects : Removed(c)[s] \in {peers[s], None}
      BY DEF Removed
    <3> QED
      BY <3>2, <3>3 DEF Vacates, handler
  <2> QED
    BY <1>7, <2>1, <2>2 DEF Detach
<1>8. ASSUME NEW m \in Messages,
             \/ PersistMessage(m) \/ LosePersist(m) \/ Lookup(m) \/ SendTo(m)
             \/ AcknowledgeMessage(m)
      PROVE  UNCHANGED <<hub, handler>>
  BY <1>8 DEF PersistMessage, LosePersist, Lookup, SendTo, AcknowledgeMessage
<1>9. ASSUME NEW c \in Conns, AnswerError(c)
      PROVE  UNCHANGED <<hub, handler>>
  BY <1>9 DEF AnswerError
<1>10. CASE Tick \/ UNCHANGED vars
  BY <1>1, <1>10 DEF Tick, vars
<1> QED
  BY <1>1, <1>2, <1>3, <1>4, <1>6, <1>7, <1>8, <1>9, <1>10 DEF Next, SenderStep

-----------------------------------------------------------------------------
LEMMA VacatesKeeps ==
  ASSUME SeatInv, Vacates,
         pc' \in [Conns -> {"new", "evicting", "upgrading", "gone"} \union Registered]
  PROVE  SeatInv'
<1>1. SeatTypes'
  BY DEF SeatInv, SeatTypes, Vacates
<1>2. SeatsAreOwned'
  BY RealtimeAssumption DEF SeatInv, SeatTypes, SeatsAreOwned, Vacates
<1>3. Seated' \subseteq Seated
  BY RealtimeAssumption DEF SeatInv, SeatTypes, Vacates, Seated
<1>4. Cardinality(Seated') <= Cardinality(Seated) /\ Cardinality(Seated') \in Nat
  BY <1>3, Finite, FS_Subset, FS_CardinalityType DEF SeatInv
<1>5. SeatLimit'
  BY <1>4, Finite, RealtimeAssumption DEF SeatInv, SeatLimit, SeatsTaken, Vacates
<1> QED
  BY <1>1, <1>2, <1>5 DEF SeatInv

LEMMA PromisedKeeps ==
  ASSUME SeatInv, NEW c \in Conns, Promised(c),
         pc' \in [Conns -> {"new", "evicting", "upgrading", "gone"} \union Registered]
  PROVE  SeatInv'
<1> USE DEF SeatInv
<1>0. Owner[c] \in Subjects /\ Owner \in [Conns -> Subjects] /\ None \notin Conns
  BY RealtimeAssumption
<1>1. SeatTypes'
  BY <1>0 DEF SeatTypes, Promised, Seated
<1>2. /\ \A s \in Subjects : peers'[s] \in {peers[s], None}
      /\ peers'[Owner[c]] = None
  BY <1>0 DEF Promised, SeatTypes, Seated
<1>3. SeatsAreOwned'
  <2>1. /\ \A s \in Subjects : peers'[s] # None => Owner[peers'[s]] = s
        /\ \A s \in pending' : peers'[s] = None
    BY <1>2 DEF SeatTypes, SeatsAreOwned, Promised
  <2>2. \A d \in Conns : pc[d] \in Reserving => Owner[d] # Owner[c]
    BY DEF SeatsAreOwned, Promised
  <2>3. /\ \A d \in Conns : pc'[d] \in Reserving => Owner[d] \in pending'
        /\ \A s \in pending' : \E d \in Conns : Owner[d] = s /\ pc'[d] \in Reserving
        /\ \A d, e \in Conns :
             pc'[d] \in Reserving /\ pc'[e] \in Reserving /\ Owner[d] = Owner[e] => d = e
    BY <2>2 DEF SeatsAreOwned, Promised, Reserving
  <2> QED
    BY <2>1, <2>3 DEF SeatsAreOwned
<1>4. Cardinality(pending') = Cardinality(pending) + 1
  BY Finite, FS_AddElement DEF Promised
<1>5. SeatLimit'
  <2>1. CASE peers' = peers /\ SeatsTaken < MaxConnections
    <3>1. Seated' = Seated
      BY <2>1 DEF Seated
    <3> QED
      BY <1>4, <2>1, <3>1, Finite, RealtimeAssumption DEF SeatLimit, SeatsTaken
  <2>2. ASSUME NEW d \in Seated, peers' = [peers EXCEPT ![Owner[d]] = None]
        PROVE  SeatLimit'
    <3>1. d \in Conns /\ peers[Owner[d]] = d /\ Owner[d] \in Subjects
      BY <1>0 DEF Seated
    <3>2. Seated' = Seated \ {d}
      BY <1>0, <2>2, <3>1 DEF Seated, SeatTypes
    <3>3. Cardinality(Seated') = Cardinality(Seated) - 1
      BY <3>2, Finite, FS_RemoveElement
    <3> QED
      BY <1>4, <3>3, Finite, RealtimeAssumption DEF SeatLimit, SeatsTaken
  <2> QED
    BY <2>1, <2>2 DEF Promised
<1> QED
  BY <1>1, <1>3, <1>5

LEMMA DecidedKeeps ==
  ASSUME SeatInv, NEW c \in Conns, Decided(c),
         pc' \in [Conns -> {"new", "evicting", "upgrading", "gone"} \union Registered]
  PROVE  SeatInv'
<1> USE DEF SeatInv
<1>0. Owner[c] \in Subjects /\ Owner \in [Conns -> Subjects] /\ None \notin Conns
  BY RealtimeAssumption
<1>1. SeatTypes'
  BY <1>0 DEF SeatTypes, Decided
<1>2. Owner[c] \in pending /\ peers[Owner[c]] = None
  BY DEF SeatsAreOwned, Decided, Reserving
<1>3. SeatsAreOwned'
  <2>1. /\ \A s \in Subjects : peers'[s] # None => Owner[peers'[s]] = s
        /\ \A s \in pending' : peers'[s] = None
    BY <1>0, <1>2 DEF SeatTypes, SeatsAreOwned, Decided
  <2>2. \A d \in Conns : pc[d] \in Reserving /\ d # c => Owner[d] # Owner[c]
    BY DEF SeatsAreOwned, Decided, Reserving
  <2>3. /\ \A d \in Conns : pc'[d] \in Reserving => Owner[d] \in pending'
        /\ \A s \in pending' : \E d \in Conns : Owner[d] = s /\ pc'[d] \in Reserving
        /\ \A d, e \in Conns :
             pc'[d] \in Reserving /\ pc'[e] \in Reserving /\ Owner[d] = Owner[e] => d = e
    BY <2>2 DEF SeatsAreOwned, Decided
  <2> QED
    BY <2>1, <2>3 DEF SeatsAreOwned
<1>4. Cardinality(pending') = Cardinality(pending) - 1
  BY <1>2, Finite, FS_RemoveElement DEF Decided
<1>5. SeatLimit'
  <2>1. CASE peers' = peers
    <3>1. Seated' = Seated
      BY <2>1 DEF Seated
    <3> QED
      BY <1>4, <3>1, Finite, RealtimeAssumption DEF SeatLimit, SeatsTaken
  <2>2. CASE peers' = [peers EXCEPT ![Owner[c]] = c]
    <3>1. Seated' = Seated \union {c} /\ c \notin Seated
      BY <1>0, <1>2, <2>2 DEF Seated, SeatTypes
    <3>2. Cardinality(Seated') = Cardinality(Seated) + 1
      BY <3>1, Finite, FS_AddElement
    <3> QED
      BY <1>4, <3>2, Finite, RealtimeAssumption DEF SeatLimit, SeatsTaken
  <2> QED
    BY <2>1, <2>2 DEF Decided
<1> QED
  BY <1>1, <1>3, <1>5

LEMMA SeatInit == Init => SeatInv
<1> SUFFICES ASSUME Init PROVE SeatInv
  OBVIOUS
<1>1. SeatTypes /\ SeatsAreOwned
  BY RealtimeAssumption DEF Init, SeatTypes, SeatsAreOwned, Reserving
<1>2. Seated = {} /\ pending = {}
  BY RealtimeAssumption DEF Init, Seated
<1>3. SeatLimit
  BY <1>2, FS_EmptySet, RealtimeAssumption DEF SeatLimit, SeatsTaken
<1> QED
  BY <1>1, <1>3 DEF SeatInv

LEMMA OnePromise ==
  ASSUME SeatInv
  PROVE  SeatsAreBounded
<1> USE DEF SeatInv
<1>1. ASSUME NEW s \in pending
      PROVE  Cardinality({c \in Conns : Owner[c] = s /\ pc[c] \in {"evicting", "upgrading"}}) = 1
  <2>1. PICK c \in Conns : Owner[c] = s /\ pc[c] \in Reserving
    BY DEF SeatsAreOwned
  <2>2. {d \in Conns : Owner[d] = s /\ pc[d] \in {"evicting", "upgrading"}} = {c}
    BY <2>1 DEF SeatsAreOwned, Reserving
  <2> QED
    BY <2>2, FS_Singleton
<1> QED
  BY <1>1 DEF SeatsAreBounded, SeatLimit, SeatsTaken, SeatsAreOwned

(* However connections come, are evicted, fail to upgrade and are closed,  *)
(* the hub never promises or gives more seats than it has (reserve).       *)
THEOREM Seats == Spec => []SeatsAreBounded
<1>1. Init => SeatInv
  BY SeatInit
<1>2. SeatInv /\ [Next]_vars => SeatInv'
  BY HubKinds, VacatesKeeps, PromisedKeeps, DecidedKeeps
<1>3. SeatInv => SeatsAreBounded
  BY OnePromise
<1> QED
  BY <1>1, <1>2, <1>3, PTL DEF Spec

-----------------------------------------------------------------------------
(* The transaction that stores a message.                                  *)

LEMMA StoreSteps ==
  ASSUME [ChatNext]_chatVars PROVE Store!Next \/ UNCHANGED transaction
  BY DEF ChatNext, chatVars

LEMMA StoreFacts ==
  /\ MCKeyOf \in [Attempts -> Keys]
  /\ None \notin Attempts
  BY MessageStoreAssumption DEF Store!MessageStoreAssumption

(* What transactions see is committed, and what an attempt has been told   *)
(* was stored is.                                                          *)
StoreInv ==
  /\ rows \subseteq Keys
  /\ view \in [Attempts -> SUBSET rows]
  /\ point \in [Attempts -> {"new", "inserting", "finding", "touching", "stored", "failed"}]
  /\ \A a \in Attempts : point[a] = "stored" => MCKeyOf[a] \in rows

LEMMA StoreStart == ASSUME Store!Init PROVE StoreInv
  BY DEF Store!Init, StoreInv

(* Rows only come, an attempt moves, and is told that its message was      *)
(* stored only if it was.                                                  *)
LEMMA StoreMoves ==
  ASSUME StoreInv, NEW a \in Attempts,
         NEW to \in {"inserting", "finding", "touching", "stored", "failed"},
         NEW seen \in SUBSET rows', Store!Goto(a, to),
         rows' \subseteq Keys, rows \subseteq rows',
         view' = view \/ view' = [view EXCEPT ![a] = seen],
         to = "stored" => MCKeyOf[a] \in rows'
  PROVE  StoreInv'
<1>1. view' \in [Attempts -> SUBSET rows']
  BY DEF StoreInv
<1>2. point' = [point EXCEPT ![a] = to]
  BY DEF Store!Goto
<1>3. point' \in [Attempts -> {"new", "inserting", "finding", "touching", "stored", "failed"}]
  BY <1>2 DEF StoreInv
<1>4. ASSUME NEW b \in Attempts, point'[b] = "stored" PROVE MCKeyOf[b] \in rows'
  <2>1. CASE b = a
    BY <1>2, <1>4, <2>1 DEF StoreInv
  <2>2. CASE b # a
    BY <1>2, <1>4, <2>2 DEF StoreInv
  <2> QED
    BY <2>1, <2>2
<1> QED
  BY <1>1, <1>3, <1>4 DEF StoreInv

LEMMA StoreStep == ASSUME StoreInv, Store!Next \/ UNCHANGED transaction PROVE StoreInv'
<1>1. CASE UNCHANGED transaction
  BY <1>1 DEF transaction, StoreInv
<1>2. CASE Store!Next
  <2> SUFFICES ASSUME NEW a \in Attempts, Store!Begin(a) \/ Store!Step(a) \/ Store!Lose(a)
               PROVE  StoreInv'
    BY <1>2 DEF Store!Next
  <2>0. rows \subseteq Keys /\ MCKeyOf[a] \in Keys /\ {} \in SUBSET rows /\ rows \in SUBSET rows
    BY StoreFacts DEF StoreInv
  <2>1. CASE Store!Begin(a)
    BY <2>0, <2>1, StoreMoves DEF Store!Begin
  <2>2. CASE Store!ShareConversation(a)
    BY <2>0, <2>2, StoreMoves DEF Store!ShareConversation
  <2>3. CASE Store!InsertMessage(a)
    BY <2>0, <2>3, StoreMoves DEF Store!InsertMessage
  <2>4. CASE Store!Duplicate(a)
    BY <2>0, <2>4, StoreMoves DEF Store!Duplicate
  <2>5. CASE Store!FindStored(a)
    <3>1. Store!Found(a) => MCKeyOf[a] \in rows
      BY DEF StoreInv, Store!Found
    <3> QED
      BY <2>0, <2>5, <3>1, StoreMoves DEF Store!FindStored, Store!Answer
  <2>6. CASE Store!TouchAndCommit(a)
    <3>1. {} \in SUBSET rows' /\ rows' \subseteq Keys /\ rows \subseteq rows' /\ MCKeyOf[a] \in rows'
      BY <2>0, <2>6 DEF Store!TouchAndCommit
    <3> QED
      BY <2>6, <3>1, StoreMoves DEF Store!TouchAndCommit, Store!Answer
  <2>7. CASE Store!RollBackVictim(a)
    BY <2>0, <2>7, StoreMoves DEF Store!RollBackVictim, Store!Answer
  <2>8. CASE Store!Lose(a)
    <3>1. {} \in SUBSET rows' /\ rows' \subseteq Keys /\ rows \subseteq rows'
      BY <2>0, <2>8 DEF Store!Lose
    <3> QED
      BY <2>8, <3>1, StoreMoves DEF Store!Lose, Store!Answer
  <2> QED
    BY <2>1, <2>2, <2>3, <2>4, <2>5, <2>6, <2>7, <2>8 DEF Store!Step
<1> QED
  BY <1>1, <1>2

(* An attempt that is told its message was stored can rely on it, for any  *)
(* number of attempts at any messages, deadlocks and lost connections      *)
(* (persistMessage): what it finds after a failed insert is committed.     *)
THEOREM Stored == ChatSpec => []StoredMeansStored
<1>1. ChatInit => StoreInv
  BY StoreStart DEF ChatInit
<1>2. StoreInv /\ [ChatNext]_chatVars => StoreInv'
  BY StoreSteps, StoreStep
<1>3. StoreInv => StoredMeansStored
  BY DEF StoreInv, StoredMeansStored, Store!StoredMeansStored
<1> QED
  BY <1>1, <1>2, <1>3, PTL DEF ChatSpec
=============================================================================
