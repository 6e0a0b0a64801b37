------------------------------- MODULE MCChat -------------------------------
(***************************************************************************)
(* The hub and the transaction that stores a message.  They share no state *)
(* but the stored messages, which Realtime sees when they are committed,   *)
(* so that one of them at a time is explored: part says which.  The hub    *)
(* is explored twice, with a clock for the cooldowns and no messages, and  *)
(* with messages and lost answers.                                         *)
(*                                                                         *)
(* Users 1 and 2; connections 1 and 2 are user 1's and alike, so that 2    *)
(* comes after 1, and connection 3 is user 2's.  Message 1 goes from user  *)
(* 1 to user 2, message 2 back.  Attempts 1 and 2 are at one message, 3 at *)
(* another of the same conversation.                                       *)
(***************************************************************************)
EXTENDS Realtime

CONSTANTS Attempts, Keys

VARIABLES part, point, rows, view, writer, sharing

MCOwner == [c \in Conns |-> IF c = 3 THEN 2 ELSE 1]
MCRoute == [m \in Messages |-> IF m = 1 THEN <<1, 2>> ELSE <<2, 1>>]
MCKeyOf == [a \in Attempts |-> IF a <= 2 THEN 1 ELSE 2]

Store == INSTANCE MessageStore WITH pc <- point, KeyOf <- MCKeyOf

ASSUME MessageStoreAssumption == Store!MessageStoreAssumption

transaction == <<point, rows, view, writer, sharing>>
chatVars == <<vars, part, transaction>>

ChatInit == part \in {"seats", "delivery", "storing"} /\ Init /\ Store!Init

(* The bounds of the part with messages: two messages for connection 1,    *)
(* and a third try if an answer was lost, or one message, sent once, for   *)
(* two connections.                                                        *)
Unused(c) == pc[c] = "new"
Alone == Unused(2) /\ Unused(3) /\ sends <= 2 + faults
Single == /\ Unused(2) \/ Unused(3)
          /\ sends <= 1 /\ 2 \notin ToSet(stored) /\ faults = 0

ChatNext ==
  /\ \/ part = "seats" /\ Next /\ UNCHANGED <<sends, faults, transaction>>
     \/ /\ part = "delivery" /\ Next /\ UNCHANGED <<now, transaction>>
        /\ Alone' \/ Single'
     \/ /\ part = "storing" /\ Store!Next
        /\ UNCHANGED <<hub, handler, clients, stored, sender, sends, accepted, now>>
  /\ Unused(1)' => Unused(2)'
  /\ UNCHANGED part

ChatSpec ==
  /\ ChatInit /\ [][ChatNext]_chatVars
  /\ Fairness /\ Store!Fairness

-----------------------------------------------------------------------------
(* What a sender is told was stored is stored (persistMessage).            *)
StoredMeansStored == Store!StoredMeansStored

(* Every attempt at storing a message is answered (persistMessage).        *)
EveryAttemptIsAnswered == Store!EveryAttemptIsAnswered
=============================================================================
