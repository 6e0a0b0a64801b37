---------------------------- MODULE AlertManager ----------------------------
(***************************************************************************)
(* Alert mails of one rule (Evaluate in internal/monitoring/alerts.go).    *)
(* Every sample says whether the rule's condition holds; Evaluate runs     *)
(* under a mutex, so a sample is one step, with a mail that may fail, or   *)
(* be accepted by a server whose answer is lost (sendPlainText in          *)
(* internal/auth/email.go).  Rules do not share state.  Samples are one    *)
(* unit of time apart.                                                     *)
(***************************************************************************)
EXTENDS Integers

CONSTANTS ConsecutiveSamples, Cooldown,
          MaxSamples, MaxFaults     \* bounds: bad samples, and failed mails

AlertAssumption ==
  /\ ConsecutiveSamples \in Nat \ {0} /\ Cooldown \in Nat \ {0}
  /\ MaxSamples \in Nat /\ MaxFaults \in Nat

VARIABLES
  consecutive, active,  \* alertState of the rule
  sentAgo,        \* samples since its LastSent, at most Cooldown
  holds,          \* history: the condition held at the last sample
  run,            \* history: bad samples in a row
  mail,           \* the mail of the last sample: "alert", "recovery", "none"
  told,           \* history: what the recipient last heard
  sure,           \* history: and that its sending reported no error
  heardAgo,       \* history: samples since an alert was heard, at most Cooldown
  samples, faults

state == <<consecutive, active, sentAgo>>
vars == <<state, holds, run, mail, told, sure, heardAgo, samples, faults>>

TypeOK ==
  /\ consecutive \in 0..MaxSamples
  /\ active \in BOOLEAN
  /\ active => consecutive >= ConsecutiveSamples
  /\ sentAgo \in 0..Cooldown
  /\ holds \in BOOLEAN
  /\ run \in 0..MaxSamples
  /\ mail \in {"alert", "recovery", "none"}
  /\ told \in {"alert", "recovery"}
  /\ sure \in BOOLEAN
  /\ heardAgo \in 0..Cooldown

Init ==
  /\ consecutive = 0 /\ active = FALSE /\ sentAgo = Cooldown
  /\ holds = FALSE /\ run = 0 /\ mail = "none"
  /\ told = "recovery" /\ sure = TRUE /\ heardAgo = Cooldown
  /\ samples = 0 /\ faults = 0

Later(ago) == IF ago < Cooldown THEN ago + 1 ELSE ago

Aged == Later(sentAgo)

Heard(kind) ==
  /\ mail' = kind
  /\ told' = kind
  /\ heardAgo' = IF kind = "alert" THEN 0 ELSE Later(heardAgo)

Silence == mail' = "none" /\ heardAgo' = Later(heardAgo) /\ UNCHANGED <<told, sure>>

Deliver(kind) == Heard(kind) /\ sure' = TRUE /\ UNCHANGED faults

(* An error may come back although the mail is on its way.                 *)
MailFails(kind) ==
  /\ faults < MaxFaults
  /\ faults' = faults + 1
  /\ \/ Heard(kind) /\ sure' = FALSE
     \/ Silence

Quiet == Silence /\ UNCHANGED faults

(* Fault: every sample over the threshold is reported.                     *)
AlwaysDue == consecutive + 1 >= ConsecutiveSamples

(* Enough samples, and not within the cooldown of the last mail.           *)
Due == IF active THEN Aged >= Cooldown ELSE consecutive + 1 >= ConsecutiveSamples

SampleBad ==
  /\ samples < MaxSamples
  /\ samples' = samples + 1
  /\ holds' = TRUE
  /\ run' = run + 1
  /\ consecutive' = consecutive + 1
  /\ \/ Due /\ Deliver("alert") /\ active' = TRUE /\ sentAgo' = 0
     \/ Due /\ MailFails("alert") /\ active' = active /\ sentAgo' = Aged
     \/ ~Due /\ Quiet /\ active' = active /\ sentAgo' = Aged

(* Fault: the rule is forgotten before its recovery is told.               *)
Forget == TRUE

Recovered == mail' = "recovery" /\ sure'

(* A clear sample touches only a rule that is active.                      *)
SampleClear ==
  /\ holds' = FALSE
  /\ run' = 0
  /\ UNCHANGED samples
  /\ \/ active /\ (Deliver("recovery") \/ MailFails("recovery"))
     \/ ~active /\ Quiet
  /\ IF active /\ Recovered
     THEN consecutive' = 0 /\ active' = FALSE /\ sentAgo' = Cooldown
     ELSE UNCHANGED <<consecutive, active>> /\ sentAgo' = Aged

Next == SampleBad \/ SampleClear

(* The sampling loop runs every 30 seconds.                                *)
Fairness == WF_vars(Next)

Spec == Init /\ [][Next]_vars /\ Fairness

-----------------------------------------------------------------------------
(* Reminders keep their distance: the recipient of an alert hears of the   *)
(* rule again within the cooldown only after hearing of its recovery, or   *)
(* when the sending of what was heard last reported an error.              *)
AlertsKeepTheirDistance ==
  [][mail' = "alert" => told = "recovery" \/ Later(heardAgo) >= Cooldown \/ ~sure]_vars

(* The recipient of an alert is told once the condition is gone, whatever  *)
(* mails fail - unless the only news was an alert whose sending reported   *)
(* an error, which leaves the rule inactive.                               *)
RecoveryIsTold ==
  (told = "alert" /\ (sure \/ active) /\ [](~holds)) ~> told = "recovery"

(* "TestAlertManagerSendsOnceThenRecoveryAfterConsecutiveSamples"          *)
(* (alerts_test.go 34): the first mail about a rule follows                *)
(* ConsecutiveSamples bad samples in a row.                                *)
AlertsFollowConsecutiveSamples ==
  [][mail' = "alert" /\ told = "recovery" => run' >= ConsecutiveSamples]_vars
=============================================================================
