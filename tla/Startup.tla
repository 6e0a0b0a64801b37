------------------------------ MODULE Startup ------------------------------
(***************************************************************************)
(* Processes that start against one database and one broker: servers       *)
(* (cmd/api main) and runs of dbtool that seed demonstration rows.  Each   *)
(* migrates, which gives messages of an older schema their recipient; a    *)
(* server then sees to the partitions of its topic and begins to consume.  *)
(* A process that meets an error, or dies, starts from the beginning.      *)
(***************************************************************************)
EXTENDS Integers, FiniteSetsExt

CONSTANTS Servers, Seeders,
          OrderTopicPartitions, \* what each server is configured with
          Messages, Demo,       \* Demo is the message that seeding stores
          Batch,                \* how many messages a query returns, 100
          MaxDeaths             \* bound

StartupAssumption ==
  /\ OrderTopicPartitions \in [Servers -> Nat \ {0}]
  /\ Batch \in Nat \ {0} /\ Demo \notin Messages /\ MaxDeaths \in Nat

VARIABLES
  at,           \* what each process does next
  batch,        \* the messages it still has to give a recipient
  sender, recipient,    \* of each message
  partitions,   \* of the topic, 0: there is none
  seeded,       \* how often the demonstration rows are there
  deaths

vars == <<at, batch, sender, recipient, partitions, seeded, deaths>>

Processes == Servers \union Seeders
Participants == {"publisher", "initiator"}

TypeOK ==
  /\ at \in [Processes -> {"migrate", "fill", "create", "read", "grow", "run",
                           "check", "seed", "done"}]
  /\ batch \in [Processes -> SUBSET Messages]
  /\ sender \in [Messages \union {Demo} -> Participants]
  /\ recipient \in [Messages \union {Demo} -> Participants \union {"nobody", "absent"}]
  /\ partitions \in Nat /\ seeded \in Nat

(* The messages were stored before they had a recipient.                   *)
Init ==
  /\ at = [p \in Processes |-> "migrate"]
  /\ batch = [p \in Processes |-> {}]
  /\ sender \in {s \in [Messages \union {Demo} -> Participants] : s[Demo] = "initiator"}
  /\ recipient = [m \in Messages \union {Demo} |-> IF m = Demo THEN "absent" ELSE "nobody"]
  /\ partitions \in 0..1
  /\ seeded = 0 /\ deaths = 0

Go(p, next) == at' = [at EXCEPT ![p] = next]

-----------------------------------------------------------------------------
(* backfillConversationMessageRecipients: batch after batch, in no order.  *)

Unfilled == {m \in Messages : recipient[m] = "nobody"}

Select(p) ==
  /\ at[p] = "migrate" /\ Unfilled # {}
  /\ \E found \in SUBSET Unfilled :
       /\ Cardinality(found) = Min({Batch, Cardinality(Unfilled)})
       /\ batch' = [batch EXCEPT ![p] = found]
  /\ Go(p, "fill")
  /\ UNCHANGED <<sender, recipient, partitions, seeded, deaths>>

Migrated(p) ==
  /\ at[p] = "migrate" /\ Unfilled = {}
  /\ Go(p, IF p \in Servers THEN "create" ELSE "check")
  /\ UNCHANGED <<batch, sender, recipient, partitions, seeded, deaths>>

(* Fault: the publisher of the listing is taken for the recipient.         *)
Publisher(participant) == "publisher"

Other(participant) == IF participant = "publisher" THEN "initiator" ELSE "publisher"

Fill(p, m) ==
  /\ at[p] = "fill" /\ m \in batch[p]
  /\ recipient' = [recipient EXCEPT ![m] = Other(sender[m])]
  /\ batch' = [batch EXCEPT ![p] = @ \ {m}]
  /\ Go(p, IF batch'[p] = {} THEN "migrate" ELSE "fill")
  /\ UNCHANGED <<sender, partitions, seeded, deaths>>

-----------------------------------------------------------------------------
(* EnsureOrderTopic.  Creating a topic that exists does nothing.           *)

CreateTopic(p) ==
  /\ at[p] = "create" /\ Go(p, "read")
  /\ partitions' = IF partitions = 0 THEN OrderTopicPartitions[p] ELSE partitions
  /\ UNCHANGED <<batch, sender, recipient, seeded, deaths>>

ReadPartitions(p) ==
  /\ at[p] = "read"
  /\ Go(p, IF partitions >= OrderTopicPartitions[p] THEN "run" ELSE "grow")
  /\ UNCHANGED <<batch, sender, recipient, partitions, seeded, deaths>>

(* The broker refuses to take partitions away, and the process ends.       *)
CreatePartitions(p) ==
  /\ at[p] = "grow"
  /\ IF OrderTopicPartitions[p] > partitions
     THEN partitions' = OrderTopicPartitions[p] /\ Go(p, "run")
     ELSE Go(p, "migrate") /\ UNCHANGED partitions
  /\ UNCHANGED <<batch, sender, recipient, seeded, deaths>>

-----------------------------------------------------------------------------
(* SeedMockData looks for its event, then inserts all rows in a            *)
(* transaction that the unique keys of the rows let through once.          *)

Check(p) ==
  /\ at[p] = "check"
  /\ Go(p, IF seeded > 0 THEN "done" ELSE "seed")
  /\ UNCHANGED <<batch, sender, recipient, partitions, seeded, deaths>>

Seed(p) ==
  /\ at[p] = "seed"
  /\ IF seeded > 0
     THEN Go(p, "migrate") /\ UNCHANGED <<recipient, seeded>>
     ELSE /\ recipient' = [recipient EXCEPT ![Demo] = "publisher"]
          /\ seeded' = seeded + 1
          /\ Go(p, "done")
  /\ UNCHANGED <<batch, sender, partitions, deaths>>

-----------------------------------------------------------------------------
(* An error of the database or the broker, or a crash.                     *)
Dies(p) ==
  /\ at[p] # "done" /\ deaths < MaxDeaths
  /\ deaths' = deaths + 1
  /\ Go(p, "migrate") /\ batch' = [batch EXCEPT ![p] = {}]
  /\ UNCHANGED <<sender, recipient, partitions, seeded>>

Next ==
  \E p \in Processes :
    \/ Select(p) \/ Migrated(p) \/ \E m \in Messages : Fill(p, m)
    \/ CreateTopic(p) \/ ReadPartitions(p) \/ CreatePartitions(p)
    \/ Check(p) \/ Seed(p) \/ Dies(p)

Spec == Init /\ [][Next]_vars

-----------------------------------------------------------------------------
(* However processes start, die and overtake each other: one that has      *)
(* migrated finds the other participant as the recipient of every message  *)
(* ("preserves existing chat history", migrate.go 25); one that consumes   *)
(* finds the partitions it asked for ("readers that subscribe before a new *)
(* topic has partitions ... stay unable to process", clients.go 471); and  *)
(* the demonstration rows are there once.                                  *)
StartedIsReady ==
  /\ \A p \in Processes : at[p] \notin {"migrate", "fill"} =>
       \A m \in Messages : recipient[m] \in Participants \ {sender[m]}
  /\ \A p \in Servers : at[p] = "run" => partitions >= OrderTopicPartitions[p]
  /\ seeded <= 1 /\ (seeded = 1) = (recipient[Demo] = "publisher")
=============================================================================
