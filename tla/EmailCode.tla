------------------------------ MODULE EmailCode ------------------------------
(***************************************************************************)
(* Verification codes of one address and purpose (SendEmailCode,           *)
(* consumeCode and recordInvalidCode in internal/auth/auth.go).  The four  *)
(* keys live in Redis, and a request makes its calls one after another:    *)
(* requests of several senders and guessers interleave between any two.    *)
(* A code is the number of its sending; only its hash is kept, so a guess  *)
(* is right or wrong.  A call that fails may have done its work all the    *)
(* same.                                                                   *)
(***************************************************************************)
EXTENDS Integers, FiniteSets

CONSTANTS
  Senders, Guessers,    \* requests for a code, and requests that present one
  verificationMaxAttempts, emailDailyLimit,
  MaxCodes,             \* bound: codes stored
  MaxFaults             \* bound: failed calls

CodeAssumption ==
  /\ IsFiniteSet(Senders) /\ IsFiniteSet(Guessers)
  /\ verificationMaxAttempts \in Nat \ {0} /\ emailDailyLimit \in Nat
  /\ MaxCodes \in Nat /\ MaxFaults \in Nat

NoCode == 0
Codes == 1..MaxCodes

VARIABLES
  code, cooldown,       \* verificationKey and emailCooldownKey
  attempts, daily,      \* the two counters; 0: the key is absent
  sender,               \* next call of each SendEmailCode
  guesser,              \* next call of each consumeCode
  outdated,             \* the attempts counter is older than the code
  stored,               \* history: codes stored so far
  refused,              \* history: wrong guesses compared with each code
  accepted,             \* history: logins each code gave
  letters, owed,        \* history: of the requests counted in this life of the daily
                        \* key, the mails handed over and the senders still to mail
  faults

keys == <<code, cooldown, attempts, daily, outdated>>
histories == <<stored, refused, accepted, letters, owed>>
vars == <<keys, sender, guesser, histories, faults>>

TypeOK ==
  /\ code \in Codes \union {NoCode}
  /\ cooldown \in BOOLEAN
  /\ attempts \in 0..(verificationMaxAttempts + Cardinality(Guessers) - 1 + MaxFaults)
  /\ daily \in 0..(emailDailyLimit + 1 + MaxFaults)
  /\ sender \in [Senders -> {"idle", "daily", "store", "reset", "mail", "undo"}]
  /\ guesser \in [Guessers -> {"idle", "clear", "count", "void"}]
  /\ outdated \in BOOLEAN
  /\ stored \in 0..MaxCodes
  /\ refused \in [Codes -> Nat] /\ accepted \in [Codes -> Nat]
  /\ letters \in Nat /\ owed \in SUBSET Senders
  /\ faults \in 0..MaxFaults

Init ==
  /\ code = NoCode /\ cooldown = FALSE /\ attempts = 0 /\ daily = 0
  /\ sender = [s \in Senders |-> "idle"]
  /\ guesser = [g \in Guessers |-> "idle"]
  /\ outdated = FALSE
  /\ stored = 0 /\ letters = 0 /\ owed = {} /\ faults = 0
  /\ refused = [c \in Codes |-> 0]
  /\ accepted = [c \in Codes |-> 0]

Fault == faults < MaxFaults /\ faults' = faults + 1

Send(s, from, to) == sender[s] = from /\ sender' = [sender EXCEPT ![s] = to]

Guess(g, from, to) == guesser[g] = from /\ guesser' = [guesser EXCEPT ![g] = to]

-----------------------------------------------------------------------------
(* SendEmailCode.                                                          *)

(* SetIfNotExists of the cooldown; a request within it is turned away.     *)
(* One request over the daily limit is enough (a bound).                   *)
Ask(s) ==
  /\ daily <= emailDailyLimit
  /\ stored + Cardinality({t \in Senders : sender[t] \in {"daily", "store"}}) < MaxCodes
  /\ ~cooldown
  /\ \/ Send(s, "idle", "daily") /\ UNCHANGED faults
     \/ Send(s, "idle", "idle") /\ Fault
  /\ cooldown' = TRUE
  /\ UNCHANGED <<code, attempts, daily, outdated, guesser, histories>>

(* Fault: the limit is checked before the request is counted.              *)
OverDailyLater == daily > emailDailyLimit

OverDaily == daily + 1 > emailDailyLimit

CountDaily(s) ==
  /\ \/ /\ daily' = daily + 1
        /\ Send(s, "daily", IF OverDaily THEN "idle" ELSE "store")
        /\ owed' = IF OverDaily THEN owed ELSE owed \union {s}
        /\ UNCHANGED faults
     \/ /\ Send(s, "daily", "idle") /\ Fault
        /\ daily' \in {daily, daily + 1}
        /\ UNCHANGED owed
  /\ UNCHANGED <<code, cooldown, attempts, outdated, guesser, stored, refused, accepted, letters>>

NewCode ==
  /\ stored' = stored + 1
  /\ code' = stored + 1
  /\ outdated' = (attempts > 0)

Store(s) ==
  /\ \/ /\ Send(s, "store", "reset") /\ NewCode
        /\ UNCHANGED <<owed, faults>>
     \/ /\ Send(s, "store", "idle") /\ Fault
        /\ NewCode \/ UNCHANGED <<stored, code, outdated>>
        /\ owed' = owed \ {s}
  /\ UNCHANGED <<cooldown, attempts, daily, guesser, refused, accepted, letters>>

(* The counter is deleted.                                                 *)
Fresh == attempts' = 0 /\ outdated' = FALSE

(* When the counter cannot be deleted the code stays, and is not mailed.   *)
Reset(s) ==
  /\ \/ /\ Send(s, "reset", "mail")
        /\ Fresh
        /\ UNCHANGED <<owed, faults>>
     \/ /\ Send(s, "reset", "idle") /\ Fault
        /\ Fresh \/ UNCHANGED <<attempts, outdated>>
        /\ owed' = owed \ {s}
  /\ UNCHANGED <<code, cooldown, daily, guesser, stored, refused, accepted, letters>>

(* A mail counts in the life of the daily key that counted its request.    *)
HandOver(s) == letters' = letters + (IF s \in owed THEN 1 ELSE 0)

(* The mail is handed over, and may be so although an error comes back.    *)
Mail(s) ==
  /\ \/ Send(s, "mail", "idle") /\ HandOver(s) /\ UNCHANGED faults
     \/ Send(s, "mail", "undo") /\ Fault /\ (HandOver(s) \/ UNCHANGED letters)
  /\ owed' = owed \ {s}
  /\ UNCHANGED <<keys, guesser, stored, refused, accepted>>

(* After a failed mail: the code and the cooldown are deleted.  Nobody     *)
(* hears when that fails too.                                              *)
Undo(s) ==
  /\ Send(s, "undo", "idle")
  /\ \/ code' = NoCode /\ cooldown' = FALSE /\ UNCHANGED faults
     \/ Fault /\ UNCHANGED <<code, cooldown>>
  /\ UNCHANGED <<attempts, daily, outdated, guesser, histories>>

-----------------------------------------------------------------------------
(* consumeCode.                                                            *)

(* Fault: the code is compared and not deleted.                            *)
LeaveCode(g) ==
  /\ code # NoCode
  /\ Guess(g, "idle", "clear")
  /\ accepted' = [accepted EXCEPT ![code] = @ + 1]
  /\ UNCHANGED <<keys, sender, stored, refused, letters, owed, faults>>

(* ConsumeIfEqual with the stored code.                                    *)
Consume(g) ==
  /\ code # NoCode
  /\ Guess(g, "idle", "clear")
  /\ accepted' = [accepted EXCEPT ![code] = @ + 1]
  /\ code' = NoCode
  /\ UNCHANGED <<cooldown, attempts, daily, outdated, sender, stored, refused, letters, owed, faults>>

(* ConsumeIfEqual with any other code, or none of the right form.          *)
Refuse(g) ==
  /\ code # NoCode
  /\ Guess(g, "idle", "count")
  /\ refused' = [refused EXCEPT ![code] = @ + 1]
  /\ UNCHANGED <<keys, sender, stored, accepted, letters, owed, faults>>

(* No code is stored, or the call fails, and the script may have deleted   *)
(* the code all the same.                                                  *)
RefuseUnseen(g) ==
  /\ Guess(g, "idle", "count")
  /\ \/ code = NoCode /\ UNCHANGED <<code, faults>>
     \/ code # NoCode /\ Fault /\ code' \in {code, NoCode}
  /\ UNCHANGED <<cooldown, attempts, daily, outdated, sender, histories>>

(* A failure here turns away the request whose code is spent.              *)
ClearAttempts(g) ==
  /\ Guess(g, "clear", "idle")
  /\ \/ Fresh /\ UNCHANGED faults
     \/ Fault /\ (Fresh \/ UNCHANGED <<attempts, outdated>>)
  /\ UNCHANGED <<code, cooldown, daily, sender, histories>>

(* Fault: the counter may grow by one more before the code is void.        *)
OneMore == attempts + 1 > verificationMaxAttempts

TooMany == attempts + 1 >= verificationMaxAttempts

CountAttempt(g) ==
  /\ \/ /\ Guess(g, "count", IF TooMany THEN "void" ELSE "idle")
        /\ attempts' = attempts + 1
        /\ UNCHANGED faults
     \/ Guess(g, "count", "idle") /\ Fault /\ attempts' \in {attempts, attempts + 1}
  /\ UNCHANGED <<code, cooldown, daily, outdated, sender, histories>>

(* Fault: a void code leaves its count behind.                             *)
VoidCode(g) ==
  /\ Guess(g, "void", "idle")
  /\ code' = NoCode
  /\ UNCHANGED <<cooldown, attempts, outdated, daily, sender, histories, faults>>

Void(g) ==
  /\ Guess(g, "void", "idle")
  /\ \/ code' = NoCode /\ Fresh /\ UNCHANGED faults
     \/ Fault /\ UNCHANGED <<code, attempts, outdated>>
  /\ UNCHANGED <<cooldown, daily, sender, histories>>

-----------------------------------------------------------------------------
(* Lives of the keys.                                                      *)

CodeLapses ==
  /\ code # NoCode
  /\ code' = NoCode
  /\ UNCHANGED <<cooldown, attempts, daily, outdated, sender, guesser, histories, faults>>

(* The calls of a sender to Redis take less than the minute of the         *)
(* cooldown; its mail, which has no deadline, may take longer.             *)
CooldownLapses ==
  /\ cooldown
  /\ \A s \in Senders : sender[s] \notin {"daily", "store", "reset"}
  /\ cooldown' = FALSE
  /\ UNCHANGED <<code, attempts, daily, outdated, sender, guesser, histories, faults>>

(* Code and counter have the same life: the counter of a code's own        *)
(* guesses ends after it.                                                  *)
AttemptsLapse ==
  /\ attempts > 0
  /\ code = NoCode \/ outdated
  /\ attempts' = 0 /\ outdated' = FALSE
  /\ UNCHANGED <<code, cooldown, daily, sender, guesser, histories, faults>>

(* The key lives a day from its first count, whoever is mailing by then.   *)
DayEnds ==
  /\ daily > 0
  /\ daily' = 0 /\ letters' = 0 /\ owed' = {}
  /\ UNCHANGED <<code, cooldown, attempts, outdated, sender, guesser, stored, refused, accepted, faults>>

SenderStep(s) ==
  Ask(s) \/ CountDaily(s) \/ Store(s) \/ Reset(s) \/ Mail(s) \/ Undo(s)

GuesserStep(g) ==
  \/ Consume(g) \/ Refuse(g) \/ RefuseUnseen(g)
  \/ ClearAttempts(g) \/ CountAttempt(g) \/ Void(g)

Lapse == CodeLapses \/ CooldownLapses \/ AttemptsLapse \/ DayEnds

Next ==
  \/ \E s \in Senders : SenderStep(s)
  \/ \E g \in Guessers : GuesserStep(g)
  \/ Lapse

Spec == Init /\ [][Next]_vars

-----------------------------------------------------------------------------
(* A code gives one login, whatever the guessers present at once.          *)
SingleUse == \A c \in Codes : accepted[c] <= 1

(* Of the requests counted in one life of the daily key no more than the   *)
(* limit are mailed or still to be, also when failed mails lift the        *)
(* cooldown and when a mail is handed over after that life has ended.      *)
MailsAreLimited == letters + Cardinality(owed) <= emailDailyLimit

Uncounted == verificationMaxAttempts - 1

(* The counter of a code starts again when its sender resets it, when a    *)
(* counter older than the code lapses before that, and when a guesser that *)
(* used an earlier code clears it late: of the guessers and of the codes   *)
(* one is left for the guesses.                                            *)
Restarts ==
  2 + (IF Cardinality(Guessers) < MaxCodes THEN Cardinality(Guessers) ELSE MaxCodes)

GuessBound ==
  Uncounted * Restarts + Cardinality(Guessers) - (IF Uncounted > 0 THEN 1 ELSE 0)

(* A failed call leaves one guess uncounted, or - a mail that failed lifts *)
(* the cooldown - lets one more sender start the counter again.            *)
FaultCost == IF Uncounted > 0 THEN Uncounted ELSE 1

(* A code is compared with a bounded number of wrong guesses before it is  *)
(* void, whatever the order of the counter's resets and the guesses: the   *)
(* guesses under way add to the limit, and so does a call that failed.     *)
GuessesAreBounded == \A c \in Codes : refused[c] <= GuessBound + FaultCost * faults
=============================================================================
