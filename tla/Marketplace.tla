---------------------------- MODULE Marketplace ----------------------------
(***************************************************************************)
(* What the shop promises: a request is decided once; a created order      *)
(* holds exactly the codes it asks for from that moment until it is paid,  *)
(* when it keeps them for good and its buyer is charged once, or expires,  *)
(* when it gives all of them back.  Every step is atomic; there are no     *)
(* queues, locks, workers or failures.                                     *)
(***************************************************************************)
EXTENDS Naturals, FiniteSets

CONSTANTS Requests, Buyers, Listings, Codes, ListingOf, Submissions, Nobody,
          InitialBalance,
          Charge(_)         \* the amount of a cart

VARIABLES
  outcome,     \* what became of a request
  cart,        \* the accepted submission of a created request
  holder,      \* the request that holds a code
  funds        \* what a buyer has left

vars == <<outcome, cart, holder, funds>>

Init ==
  /\ outcome = [r \in Requests |-> "processing"]
  /\ cart = [r \in Requests |-> Nobody]
  /\ holder = [c \in Codes |-> Nobody]
  /\ funds = InitialBalance

HeldBy(r) == {c \in Codes : holder[c] = r}

Reject(r) ==
  /\ outcome[r] = "processing"
  /\ outcome' = [outcome EXCEPT ![r] = "rejected"]
  /\ UNCHANGED <<cart, holder, funds>>

Create(s) ==
  /\ outcome[s.request] = "processing"
  /\ outcome' = [outcome EXCEPT ![s.request] = "pending_payment"]
  /\ cart' = [cart EXCEPT ![s.request] = s]
  /\ \E S \in SUBSET HeldBy(Nobody) :
       /\ \A l \in Listings :
            Cardinality({c \in S : ListingOf[c] = l}) = s.items[l]
       /\ holder' = [c \in Codes |-> IF c \in S THEN s.request ELSE holder[c]]
  /\ UNCHANGED funds

Expire(r) ==
  /\ outcome[r] = "pending_payment"
  /\ outcome' = [outcome EXCEPT ![r] = "expired"]
  /\ holder' = [c \in Codes |-> IF holder[c] = r THEN Nobody ELSE holder[c]]
  /\ UNCHANGED <<cart, funds>>

Pay(r) ==
  /\ outcome[r] = "pending_payment"
  /\ Charge(cart[r].items) <= funds[cart[r].buyer]
  /\ outcome' = [outcome EXCEPT ![r] = "paid"]
  /\ funds' = [funds EXCEPT ![cart[r].buyer] = @ - Charge(cart[r].items)]
  /\ UNCHANGED <<cart, holder>>

Next ==
  \/ \E r \in Requests : Reject(r) \/ Expire(r) \/ Pay(r)
  \/ \E s \in Submissions : Create(s)

Spec == Init /\ [][Next]_vars
=============================================================================
