------------------------------ MODULE Limiter ------------------------------
(***************************************************************************)
(* FixedWindowLimiter (protection/limiter.go), in front of every route:    *)
(* at most limit requests of a client in a window of time.  A request      *)
(* reads the time before it waits for the mutex, so that requests are      *)
(* counted in any order, each with the time it came.                       *)
(***************************************************************************)
EXTENDS Integers

CONSTANTS Clients, Requests, None,
          Limit, Window,    \* as they are configured
          MaxClock          \* bound: the ticks of the clock

(* NewFixedWindowLimiter.                                                  *)
limit == IF Limit < 1 THEN 1 ELSE Limit
window == IF Window <= 0 THEN 1 ELSE Window

LimiterAssumption == Limit \in Int /\ Window \in Int /\ MaxClock \in Nat /\ None \notin Nat

VARIABLES
  clock,
  now,              \* the time a request read, None if it is not here
  started, count,   \* the bucket of each client; started is None at first
  windows, admitted \* history: the buckets begun, and the requests let in

vars == <<clock, now, started, count, windows, admitted>>

TypeOK ==
  /\ clock \in Nat
  /\ now \in [Clients -> [Requests -> Nat \union {None}]]
  /\ started \in [Clients -> Nat \union {None}] /\ count \in [Clients -> Nat]
  /\ windows \in [Clients -> Nat] /\ admitted \in [Clients -> Nat]

Init ==
  /\ clock = 0
  /\ now = [c \in Clients |-> [r \in Requests |-> None]]
  /\ started = [c \in Clients |-> None] /\ count = [c \in Clients |-> 0]
  /\ windows = [c \in Clients |-> 0] /\ admitted = [c \in Clients |-> 0]

Tick ==
  /\ clock < MaxClock
  /\ clock' = clock + 1
  /\ UNCHANGED <<now, started, count, windows, admitted>>

Arrive(c, r) ==
  /\ now[c][r] = None
  /\ now' = [now EXCEPT ![c][r] = clock]
  /\ UNCHANGED <<clock, started, count, windows, admitted>>

(* Fault: a window begins for a time before the last one, too.             *)
AnotherWindow(c, time) == started[c] # None => time # started[c]

NewWindow(c, time) == started[c] # None => time - started[c] >= window

(* Allow, while it holds the mutex.  A refusal stores nothing.             *)
Admit(c, r) ==
  /\ now[c][r] # None
  /\ \/ /\ NewWindow(c, now[c][r])
        /\ started' = [started EXCEPT ![c] = now[c][r]]
        /\ count' = [count EXCEPT ![c] = 1]
        /\ windows' = [windows EXCEPT ![c] = @ + 1]
     \/ /\ ~NewWindow(c, now[c][r]) /\ count[c] < limit
        /\ count' = [count EXCEPT ![c] = @ + 1]
        /\ UNCHANGED <<started, windows>>
  /\ admitted' = [admitted EXCEPT ![c] = @ + 1]
  /\ now' = [now EXCEPT ![c][r] = None]
  /\ UNCHANGED clock

Refuse(c, r) ==
  /\ now[c][r] # None
  /\ ~NewWindow(c, now[c][r]) /\ count[c] >= limit
  /\ now' = [now EXCEPT ![c][r] = None]
  /\ UNCHANGED <<clock, started, count, windows, admitted>>

Next ==
  \/ Tick
  \/ \E c \in Clients, r \in Requests : Arrive(c, r) \/ Admit(c, r) \/ Refuse(c, r)

Spec == Init /\ [][Next]_vars

-----------------------------------------------------------------------------
(* However requests are delayed between reading the time and taking the    *)
(* mutex, a client is let in at most limit times for each window of time   *)
(* that has begun (Allow): a late request begins no window of its own.     *)
AdmissionsAreBounded ==
  \A c \in Clients : admitted[c] <= limit * (clock \div window + 1)
=============================================================================
