---------------------------- MODULE ChatClient -----------------------------
(***************************************************************************)
(* The chat page's connection (useRealtimeChat.ts): a WebSocket, or every  *)
(* fifteen seconds a request over HTTP.  connect waits for an answer       *)
(* before it makes a socket, and a socket that is closed tells so later,   *)
(* when another connection may be under way.                               *)
(***************************************************************************)
EXTENDS Integers, FiniteSets

CONSTANTS MaxSockets, MaxTimers   \* bounds

VARIABLES
  connectionState,
  asking,       \* connects that wait for /auth/me
  socket,       \* the newest socket, 0: none
  ready,        \* of each socket; "gone" is closed before it told the page
  pollingTimer, \* the timer the page knows, 0: none
  timers        \* the timers that run

vars == <<connectionState, asking, socket, ready, pollingTimer, timers>>

ClientAssumption == MaxSockets \in Nat /\ MaxTimers \in Nat
Sockets == 1..MaxSockets

TypeOK ==
  /\ connectionState \in {"idle", "connecting", "connected", "http", "error"}
  /\ asking \in 0..MaxSockets /\ socket \in 0..MaxSockets
  /\ ready \in [Sockets -> {"none", "connecting", "open", "gone", "closed"}]
  /\ timers \subseteq 1..MaxTimers /\ pollingTimer \in timers \union {0}

Init ==
  /\ connectionState = "idle" /\ asking = 0
  /\ socket = 0 /\ ready = [s \in Sockets |-> "none"]
  /\ pollingTimer = 0 /\ timers = {}

Made == {s \in Sockets : ready[s] # "none"}
Drop(s) == [ready EXCEPT ![s] = IF @ \in {"connecting", "open"} THEN "gone" ELSE @]
StopPolling == timers' = timers \ {pollingTimer} /\ pollingTimer' = 0

(* The button is disabled while the page connects.                         *)
Connect ==
  /\ connectionState # "connecting" /\ asking + Cardinality(Made) < MaxSockets
  /\ StopPolling
  /\ ready' = IF socket = 0 THEN ready ELSE Drop(socket)
  /\ connectionState' = "connecting" /\ asking' = asking + 1
  /\ UNCHANGED socket

Refused ==
  /\ asking > 0 /\ asking' = asking - 1
  /\ connectionState' = "error"
  /\ UNCHANGED <<socket, ready, pollingTimer, timers>>

NewSocket ==
  /\ asking > 0 /\ asking' = asking - 1
  /\ socket' = Cardinality(Made) + 1
  /\ ready' = [ready EXCEPT ![socket'] = "connecting"]
  /\ UNCHANGED <<connectionState, pollingTimer, timers>>

OnOpen(s) ==
  /\ ready[s] = "connecting"
  /\ ready' = [ready EXCEPT ![s] = "open"]
  /\ connectionState' = "connected"
  /\ UNCHANGED <<asking, socket, pollingTimer, timers>>

(* The server or the network ends a connection, or refuses it.             *)
Break(s) ==
  /\ ready[s] \in {"connecting", "open"}
  /\ ready' = Drop(s)
  /\ UNCHANGED <<connectionState, asking, socket, pollingTimer, timers>>

(* Fault: only the end of a connection that was made starts to poll.       *)
WasConnected == connectionState = "connected"

FallsBack == connectionState \notin {"idle", "http"}

(* onclose, startHTTPFallback: a timer that runs is not looked for.        *)
OnClose(s) ==
  /\ ready[s] = "gone"
  /\ ready' = [ready EXCEPT ![s] = "closed"]
  /\ IF FallsBack
     THEN /\ \E t \in 1..MaxTimers \ timers : timers' = timers \union {t} /\ pollingTimer' = t
          /\ connectionState' = "http"
     ELSE UNCHANGED <<connectionState, pollingTimer, timers>>
  /\ UNCHANGED <<asking, socket>>

(* The page is left, and its sockets and answers are not all forgotten.    *)
Leave ==
  /\ connectionState' = "idle"
  /\ StopPolling
  /\ ready' = IF socket = 0 THEN ready ELSE Drop(socket)
  /\ socket' = 0
  /\ UNCHANGED asking

Next ==
  \/ Connect \/ Refused \/ NewSocket \/ Leave
  \/ \E s \in Sockets : OnOpen(s) \/ Break(s) \/ OnClose(s)

-----------------------------------------------------------------------------
(* "When a seat is missing or a connection closes, HTTP is used to go on"  *)
(* (RealtimeView.vue 14): a page that says it is connected, or connecting, *)
(* or uses HTTP has a socket, an answer or an event to wait for, or a      *)
(* timer (connect, onclose, startHTTPFallback).                            *)
TheClientHears ==
  LET some(states) == \E s \in Sockets : ready[s] \in states
  IN /\ connectionState = "http" => pollingTimer # 0
     /\ connectionState = "connected" => some({"open", "gone"})
     /\ connectionState = "connecting" => asking > 0 \/ some({"connecting", "gone"})
=============================================================================
