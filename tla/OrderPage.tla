----------------------------- MODULE OrderPage -----------------------------
(***************************************************************************)
(* The page that submits an order and pays for it (useOrderCreation.ts,    *)
(* PaymentView.vue), against a server that keeps the promise of            *)
(* Marketplace.  Answers may be lost; a submission whose answer is lost    *)
(* may be accepted all the same.  A new submission is a new request.       *)
(***************************************************************************)
EXTENDS Integers

CONSTANTS MaxSubmits    \* bound, and the number of requests

VARIABLES
  outcome,      \* of each request at the server
  requestId, status, orderNo,   \* what the page shows; 0: no request, no order
  call,         \* the calls of the page that wait: [kind, of]
  timer         \* the request the page polls for later, 0: none

vars == <<outcome, requestId, status, orderNo, call, timer>>

PageAssumption == MaxSubmits \in Nat
Requests == 1..MaxSubmits

TypeOK ==
  /\ outcome \in [Requests -> {"unknown", "processing", "rejected", "created", "paid",
                               "expired"}]
  /\ {requestId, orderNo, timer} \subseteq 0..MaxSubmits
  /\ status \in {"idle", "processing", "created", "rejected", "paying", "paid", "error"}
  /\ call \subseteq [kind : {"submit", "poll", "pay", "paid"}, of : Requests]

Init ==
  /\ outcome = [r \in Requests |-> "unknown"]
  /\ requestId = 0 /\ status = "idle" /\ orderNo = 0
  /\ call = {} /\ timer = 0

Show(r, s, o) == requestId' = r /\ status' = s /\ orderNo' = o
Shown == <<requestId, status, orderNo>>

-----------------------------------------------------------------------------
(* The server.  A submission that was lost may still be accepted, and a    *)
(* payment is answered after it has committed.                             *)

Publish(r) ==
  /\ outcome[r] = "unknown" /\ r <= requestId
  /\ outcome' = [outcome EXCEPT ![r] = "processing"]
  /\ UNCHANGED <<Shown, call, timer>>

Decide(r) ==
  /\ \/ outcome[r] = "processing" /\ \E o \in {"created", "rejected"} :
          outcome' = [outcome EXCEPT ![r] = o]
     \/ outcome[r] = "created" /\ outcome' = [outcome EXCEPT ![r] = "expired"]
  /\ UNCHANGED <<Shown, call, timer>>

Charge(r) ==
  /\ [kind |-> "pay", of |-> r] \in call /\ outcome[r] = "created"
  /\ outcome' = [outcome EXCEPT ![r] = "paid"]
  /\ call' = (call \ {[kind |-> "pay", of |-> r]}) \union {[kind |-> "paid", of |-> r]}
  /\ UNCHANGED <<Shown, timer>>

-----------------------------------------------------------------------------
(* Fault: the form can be sent at any time.                                *)
Always == TRUE

(* The form is disabled while a request is under way (PaymentView 18).     *)
Enabled == status \notin {"processing", "paying"}

Submit ==
  /\ Enabled /\ requestId < MaxSubmits
  /\ Show(requestId + 1, "processing", 0)
  /\ timer' = 0
  /\ call' = call \union {[kind |-> "submit", of |-> requestId + 1]}
  /\ UNCHANGED outcome

Poll(c) ==
  /\ c.kind = "submit" /\ c \in call /\ outcome[c.of] # "unknown"
  /\ call' = (call \ {c}) \union {[kind |-> "poll", of |-> c.of]}
  /\ UNCHANGED <<outcome, Shown, timer>>

PollAgain ==
  /\ timer # 0
  /\ timer' = 0 /\ call' = call \union {[kind |-> "poll", of |-> timer]}
  /\ UNCHANGED <<outcome, Shown>>

(* Status: an order that was decided is "created" whatever became of it.   *)
Answer(c) ==
  LET state == IF outcome[c.of] \in {"processing", "rejected"} THEN outcome[c.of] ELSE "created"
  IN /\ c.kind = "poll" /\ c \in call
     /\ Show(c.of, state, IF state = "created" THEN c.of ELSE 0)
     /\ timer' = IF state = "processing" THEN c.of ELSE timer
     /\ call' = call \ {c}
     /\ UNCHANGED outcome

(* The button is there for an order that is shown as created.              *)
Pay ==
  /\ status = "created" /\ orderNo # 0
  /\ Show(requestId, "paying", orderNo)
  /\ call' = call \union {[kind |-> "pay", of |-> orderNo]}
  /\ UNCHANGED <<outcome, timer>>

Paid(c) ==
  /\ c.kind = "paid" /\ c \in call
  /\ Show(requestId, "paid", orderNo)
  /\ call' = call \ {c}
  /\ UNCHANGED <<outcome, timer>>

(* No answer, or a refusal.                                                *)
Fails(c) ==
  /\ c \in call /\ call' = call \ {c}
  /\ IF c.kind \in {"pay", "paid"} THEN Show(requestId, "created", orderNo)
                                   ELSE Show(c.of, "error", 0)
  /\ UNCHANGED <<outcome, timer>>

Next ==
  \/ \E r \in Requests : Publish(r) \/ Decide(r) \/ Charge(r)
  \/ Submit \/ PollAgain \/ Pay
  \/ \E c \in call : Poll(c) \/ Answer(c) \/ Paid(c) \/ Fails(c)

-----------------------------------------------------------------------------
(* "Only when order and reservation are in MySQL does the page show an     *)
(* order and a button to pay" (PaymentView.vue 17): what it shows is about *)
(* the newest request, was decided so by the server, and an order shown as *)
(* paid is paid - however answers are lost and late (useOrderCreation).    *)
ShownIsTrue ==
  /\ \A c \in call : c.of = requestId
  /\ timer \in {0, requestId}
  /\ orderNo # 0 => orderNo = requestId
  /\ status \in {"created", "paying"} => outcome[requestId] \in {"created", "paid", "expired"}
  /\ status \in {"rejected", "paid"} => outcome[requestId] = status
=============================================================================
