---------------------------- MODULE PasswordLock ----------------------------
(***************************************************************************)
(* The lock of one address against wrong passwords (LoginByPassword and    *)
(* recordPasswordFailure in internal/auth/auth.go): two keys in Redis, and *)
(* logins whose calls interleave.  A login knows whether it is locked only *)
(* at its start, and the lock is set by a call of its own after the count. *)
(***************************************************************************)
EXTENDS Integers, FiniteSets

CONSTANTS
  Logins,               \* requests with this address
  passwordMaxFailures,
  MaxGuesses,           \* bound: wrong passwords
  MaxFaults             \* bound: failed calls

LockAssumption ==
  /\ IsFiniteSet(Logins)
  /\ passwordMaxFailures \in Nat \ {0}
  /\ MaxGuesses \in Nat /\ MaxFaults \in Nat

VARIABLES
  failures,     \* passwordFailureKey; 0: absent
  lock,         \* passwordLockKey exists
  young,        \* the failure key is younger than the lock
  pc,           \* next call of each login
  guesses,      \* wrong passwords compared so far
  round,        \* history: wrong passwords compared since the last fresh start
  faults

vars == <<failures, lock, young, pc, guesses, round, faults>>

TypeOK ==
  /\ failures \in Nat
  /\ lock \in BOOLEAN /\ young \in BOOLEAN
  /\ pc \in [Logins -> {"idle", "compare", "count", "lock", "clear"}]
  /\ guesses \in 0..MaxGuesses
  /\ round \in 0..MaxGuesses
  /\ faults \in 0..MaxFaults

Init ==
  /\ failures = 0 /\ lock = FALSE /\ young = FALSE
  /\ pc = [l \in Logins |-> "idle"]
  /\ guesses = 0 /\ round = 0 /\ faults = 0

Goto(l, from, to) == pc[l] = from /\ pc' = [pc EXCEPT ![l] = to]

Fault == faults < MaxFaults /\ faults' = faults + 1

(* Fault: the lock is not looked at.                                       *)
IgnoreLock == TRUE

Unlocked == ~lock

(* Has(passwordLockKey); a locked address is turned away.                  *)
Enter(l) ==
  /\ Unlocked
  /\ Goto(l, "idle", "compare")
  /\ UNCHANGED <<failures, lock, young, guesses, round, faults>>

(* An unknown address takes the same way.                                  *)
Wrong(l) ==
  /\ guesses < MaxGuesses
  /\ Goto(l, "compare", "count")
  /\ guesses' = guesses + 1
  /\ round' = round + 1
  /\ UNCHANGED <<failures, lock, young, faults>>

Right(l) ==
  /\ Goto(l, "compare", "clear")
  /\ UNCHANGED <<failures, lock, young, guesses, round, faults>>

(* Fault: the failure that reaches the limit does not lock.                *)
Passed == failures + 1 > passwordMaxFailures

Reached == failures + 1 >= passwordMaxFailures

(* The answer to the request does not depend on whether it was counted.    *)
Count(l) ==
  /\ \/ /\ Goto(l, "count", IF Reached THEN "lock" ELSE "idle")
        /\ failures' = failures + 1
        /\ young' = (young \/ failures = 0)
        /\ UNCHANGED faults
     \/ Goto(l, "count", "idle") /\ Fault /\ UNCHANGED <<failures, young>>
  /\ UNCHANGED <<lock, guesses, round>>

Lock(l) ==
  /\ Goto(l, "lock", "idle")
  /\ \/ lock' = TRUE /\ young' = (failures = 0) /\ UNCHANGED faults
     \/ Fault /\ UNCHANGED <<lock, young>>
  /\ UNCHANGED <<failures, guesses, round>>

(* The right password deletes both keys, also a lock that was set since    *)
(* this login looked; when the call fails the login is refused.            *)
Clear(l) ==
  /\ Goto(l, "clear", "idle")
  /\ \/ failures' = 0 /\ lock' = FALSE /\ young' = TRUE /\ round' = 0 /\ UNCHANGED faults
     \/ Fault /\ UNCHANGED <<failures, lock, young, round>>
  /\ UNCHANGED guesses

(* Both keys live for passwordLockDuration: a count from before the lock   *)
(* ends before it.                                                         *)
FailuresLapse ==
  /\ failures > 0
  /\ ~lock \/ ~young
  /\ failures' = 0 /\ young' = TRUE
  /\ round' = IF lock THEN round ELSE 0
  /\ UNCHANGED <<lock, pc, guesses, faults>>

LockLapses ==
  /\ lock
  /\ failures = 0 \/ young
  /\ lock' = FALSE /\ round' = 0
  /\ UNCHANGED <<failures, young, pc, guesses, faults>>

LoginStep(l) == Enter(l) \/ Wrong(l) \/ Right(l) \/ Count(l) \/ Lock(l) \/ Clear(l)

Lapse == FailuresLapse \/ LockLapses

Next == (\E l \in Logins : LoginStep(l)) \/ Lapse

Spec == Init /\ [][Next]_vars

-----------------------------------------------------------------------------
(* Between two fresh starts (the right password, or the end of the count   *)
(* or the lock) at most passwordMaxFailures wrong passwords are compared,  *)
(* plus one for every other login under way and every failed call.         *)
GuessesAreBounded ==
  round <= passwordMaxFailures + Cardinality(Logins) - 1 + faults
=============================================================================
