----------------------------- MODULE Permissions -----------------------------
(***************************************************************************)
(* Restrictions of one permission of one user (loadAccess,                 *)
(* compilePermissions, SetPermissionRestriction and                        *)
(* ClearPermissionRestriction in internal/auth/auth.go).  The flag of the  *)
(* UserAccess row says what is allowed, the restriction row says why not.  *)
(* Logins compile the permission and lift a restriction whose end has      *)
(* come; operators set and clear.  Transactions hold row locks until they  *)
(* commit, and write when they commit; a wait in a circle ends with an     *)
(* aborted victim.  What revokes the sessions afterwards is in Sessions.   *)
(***************************************************************************)
EXTENDS Integers

CONSTANTS
  Logins, Operators,
  Never,        \* the end of a permanent restriction
  None,         \* no row, and nobody holds a lock
  MaxTime,      \* bound: end of the clock
  MaxChanges    \* bound: changes by operators

PermissionAssumption ==
  /\ Logins \intersect Operators = {} /\ None \notin Logins \union Operators
  /\ MaxTime \in Nat /\ MaxChanges \in Nat
  /\ Never \notin Int /\ None \notin BOOLEAN

Parties == Logins \union Operators
Ends == 0..MaxTime \union {Never}

VARIABLES
  clock,
  access,           \* flag of the permission in UserAccess, or None
  known,            \* the restriction row exists
  active, until,    \* its fields Active and ExpiresAt
  accessLock, restrictionLock,
  pc,
  ask,              \* the operator's call: its kind, its end, the row seen in its snapshot
  now,              \* the time a compilation works with
  granted,          \* what the compilation has found for the permission
  seen,             \* history: values of the flag during each compilation
  changes

rows == <<access, known, active, until>>
locks == <<accessLock, restrictionLock>>
vars == <<clock, rows, locks, pc, ask, now, granted, seen, changes>>

LoginPoints == {"idle", "create", "read", "evidence", "lift", "allow", "done"}
OperatorPoints == {"idle", "create", "begin", "access", "restrict"}
Asks == [set : BOOLEAN, until : Ends, saw : BOOLEAN]

TypeOK ==
  /\ clock \in 0..MaxTime
  /\ access \in BOOLEAN \union {None}
  /\ known \in BOOLEAN /\ active \in BOOLEAN
  /\ active => known
  /\ until \in Ends
  /\ accessLock \in Parties \union {None}
  /\ restrictionLock \in Parties \union {None}
  /\ pc \in [Parties -> LoginPoints \union OperatorPoints]
  /\ \A p \in Parties :
       /\ p = accessLock => pc[p] = "restrict"
       /\ p = restrictionLock => pc[p] = "allow"
  /\ ask \in [Operators -> Asks]
  /\ now \in [Logins -> 0..MaxTime]
  /\ granted \in [Logins -> BOOLEAN]
  /\ seen \in [Logins -> SUBSET BOOLEAN]
  /\ changes \in 0..MaxChanges

(* An account from before UserAccess, or one that has its row.             *)
Init ==
  /\ clock = 0
  /\ access \in {None, TRUE}
  /\ known = FALSE /\ active = FALSE /\ until = Never
  /\ accessLock = None /\ restrictionLock = None
  /\ pc = [p \in Parties |-> "idle"]
  /\ ask = [o \in Operators |-> [set |-> FALSE, until |-> Never, saw |-> FALSE]]
  /\ now = [l \in Logins |-> 0]
  /\ granted = [l \in Logins |-> FALSE]
  /\ seen = [l \in Logins |-> {}]
  /\ changes = 0

Flag == IF access = None THEN TRUE ELSE access

Running(l) == pc[l] \notin {"idle", "done"}

(* Every compilation under way sees the flag change.                       *)
Show(flag) == [l \in Logins |-> IF Running(l) THEN seen[l] \union {flag} ELSE seen[l]]

Goto(p, from, to) == pc[p] = from /\ pc' = [pc EXCEPT ![p] = to]

-----------------------------------------------------------------------------
(* loadAccess, for both kinds of caller.                                   *)

AfterLoad(p) == IF p \in Logins THEN "evidence" ELSE "begin"

(* A login reads the flag with the row.                                    *)
Answer(p, flag, to) ==
  IF p \notin Logins THEN pc' = [pc EXCEPT ![p] = to] /\ UNCHANGED granted
  ELSE /\ pc' = [pc EXCEPT ![p] = IF flag THEN "done" ELSE to]
       /\ granted' = [granted EXCEPT ![p] = flag]

Load(p) ==
  /\ pc[p] = "read"
  /\ IF access = None THEN pc' = [pc EXCEPT ![p] = "create"] /\ UNCHANGED granted
     ELSE Answer(p, access, AfterLoad(p))
  /\ UNCHANGED <<clock, rows, locks, ask, now, seen, changes>>

(* Two initialisers: one creates the row, the other reads it again.        *)
CreateAccess(p) ==
  /\ pc[p] = "create"
  /\ access' = Flag
  /\ Answer(p, Flag, AfterLoad(p))
  /\ UNCHANGED <<clock, known, active, until, locks, ask, now, seen, changes>>

-----------------------------------------------------------------------------
(* compilePermissions.                                                     *)

Compile(l) ==
  /\ Goto(l, "idle", "read")
  /\ granted' = [granted EXCEPT ![l] = FALSE]
  /\ seen' = [seen EXCEPT ![l] = {Flag}]
  /\ UNCHANGED <<clock, rows, locks, ask, now, changes>>

Over(time) == until # Never /\ until <= time

(* No evidence, a permanent restriction or one that lasts: denied.         *)
Evidence(l) ==
  /\ now' = [now EXCEPT ![l] = clock]
  /\ Goto(l, "evidence", IF active /\ Over(clock) THEN "lift" ELSE "done")
  /\ UNCHANGED <<clock, rows, locks, ask, granted, seen, changes>>

(* Fault: the end that was read is not read again.                         *)
StillActive(l) == active

StillOver(l) == active /\ Over(now[l])

(* The guarded update of the restriction; nothing to lift ends it.         *)
Lift(l) ==
  /\ restrictionLock = None
  /\ Goto(l, "lift", IF StillOver(l) THEN "allow" ELSE "done")
  /\ restrictionLock' = IF StillOver(l) THEN l ELSE None
  /\ UNCHANGED <<clock, rows, accessLock, ask, now, granted, seen, changes>>

(* Fault: the restriction ends and the flag stays.                         *)
AllowNothing(l) ==
  /\ accessLock = None
  /\ Goto(l, "allow", "done")
  /\ active' = FALSE
  /\ restrictionLock' = None
  /\ granted' = [granted EXCEPT ![l] = TRUE]
  /\ UNCHANGED <<clock, access, known, until, accessLock, ask, now, seen, changes>>

(* The update of the flag, and the commit.                                 *)
Allow(l) ==
  /\ accessLock = None
  /\ Goto(l, "allow", "done")
  /\ active' = FALSE /\ access' = TRUE
  /\ restrictionLock' = None
  /\ granted' = [granted EXCEPT ![l] = TRUE]
  /\ seen' = Show(TRUE)
  /\ UNCHANGED <<clock, known, until, accessLock, ask, now, changes>>

Leave(l) ==
  /\ Goto(l, "done", "idle")
  /\ UNCHANGED <<clock, rows, locks, ask, now, granted, seen, changes>>

-----------------------------------------------------------------------------
(* SetPermissionRestriction and ClearPermissionRestriction.                *)

(* The end of a new restriction lies in the future.                        *)
Request(o) ==
  /\ changes < MaxChanges
  /\ changes' = changes + 1
  /\ Goto(o, "idle", "read")
  /\ \E set \in BOOLEAN, end \in {e \in Ends : e = Never \/ e > clock} :
       ask' = [ask EXCEPT ![o] = [set |-> set, until |-> end, saw |-> FALSE]]
  /\ UNCHANGED <<clock, rows, locks, now, granted, seen>>

(* The first read of the transaction fixes what it sees of other rows.     *)
Begin(o) ==
  /\ Goto(o, "begin", "access")
  /\ ask' = [ask EXCEPT ![o].saw = known]
  /\ UNCHANGED <<clock, rows, locks, now, granted, seen, changes>>

LockAccess(o) ==
  /\ accessLock = None
  /\ Goto(o, "access", "restrict")
  /\ accessLock' = o
  /\ UNCHANGED <<clock, rows, restrictionLock, ask, now, granted, seen, changes>>

(* Fault: the flag is restored and the restriction stays.                  *)
ClearFlag(o) ==
  /\ ~ask[o].set
  /\ access' = TRUE
  /\ UNCHANGED <<known, active, until>>
  /\ seen' = Show(TRUE)

Clear(o) ==
  /\ ~ask[o].set
  /\ access' = TRUE /\ active' = FALSE
  /\ UNCHANGED <<known, until>>
  /\ seen' = Show(TRUE)

(* Update of the row seen, or an insert that fails when another set        *)
(* inserted since the snapshot.                                            *)
Set(o) ==
  /\ ask[o].set
  /\ IF ask[o].saw \/ ~known
     THEN /\ access' = FALSE /\ known' = TRUE /\ active' = TRUE
          /\ until' = ask[o].until
          /\ seen' = Show(FALSE)
     ELSE UNCHANGED <<rows, seen>>

(* Fault: a transaction that ends keeps the flag's row.                    *)
KeepAccess(o) ==
  /\ restrictionLock = None
  /\ Goto(o, "restrict", "idle")
  /\ Set(o) \/ Clear(o)
  /\ UNCHANGED <<clock, locks, ask, now, granted, changes>>

Restrict(o) ==
  /\ restrictionLock = None
  /\ Goto(o, "restrict", "idle")
  /\ Set(o) \/ Clear(o)
  /\ accessLock' = None
  /\ UNCHANGED <<clock, restrictionLock, ask, now, granted, changes>>

-----------------------------------------------------------------------------
(* The database and the clock.                                             *)

Circle(l, o) == accessLock = o /\ restrictionLock = l

(* Fault: the victim's lock stays.                                         *)
ForgetLogin(l, o) ==
  /\ pc' = [pc EXCEPT ![l] = "idle"]
  /\ UNCHANGED locks

AbortLogin(l, o) ==
  /\ pc' = [pc EXCEPT ![l] = "idle"]
  /\ restrictionLock' = None
  /\ UNCHANGED accessLock

AbortOperator(l, o) ==
  /\ pc' = [pc EXCEPT ![o] = "idle"]
  /\ accessLock' = None
  /\ UNCHANGED restrictionLock

(* A login lifts while an operator changes: each waits for the other.      *)
Deadlock(l, o) ==
  /\ Circle(l, o)
  /\ AbortLogin(l, o) \/ AbortOperator(l, o)
  /\ UNCHANGED <<clock, rows, ask, now, granted, seen, changes>>

Tick ==
  /\ clock < MaxTime
  /\ clock' = clock + 1
  /\ UNCHANGED <<rows, locks, pc, ask, now, granted, seen, changes>>

LoginStep(l) ==
  \/ Compile(l) \/ Load(l) \/ CreateAccess(l) \/ Evidence(l)
  \/ Lift(l) \/ Allow(l) \/ Leave(l)

OperatorStep(o) ==
  \/ Request(o) \/ Load(o) \/ CreateAccess(o) \/ Begin(o)
  \/ LockAccess(o) \/ Restrict(o)

Next ==
  \/ \E l \in Logins : LoginStep(l)
  \/ \E o \in Operators : OperatorStep(o)
  \/ \E l \in Logins, o \in Operators : Deadlock(l, o)
  \/ Tick

(* A call under way goes on: InnoDB grants a row lock in the order it was  *)
(* asked for, and looks for circles at every wait.                         *)
Fairness ==
  /\ \A l \in Logins : SF_vars(Running(l) /\ LoginStep(l))
  /\ \A o \in Operators : SF_vars(pc[o] # "idle" /\ OperatorStep(o))
  /\ \A l \in Logins, o \in Operators : WF_vars(Deadlock(l, o))

Spec == Init /\ [][Next]_vars /\ Fairness

-----------------------------------------------------------------------------
(* "A false value is fail-closed and must have a current restriction"      *)
(* (models.go 57): whatever transactions are aborted, the flag is off      *)
(* exactly while the restriction is active.                                *)
FlagsAgree == Flag = ~active

(* A login grants or denies what the flag said at some time during the     *)
(* compilation, although it reads flag and restriction apart and lifts a   *)
(* restriction that an operator may have renewed.                          *)
CompiledWasTrue == \A l \in Logins : pc[l] = "done" => granted[l] \in seen[l]

(* Nobody but an operator ends a restriction before its time.              *)
RestrictionsLast ==
  [][active /\ ~Over(clock) /\ ~active' => \E o \in Operators : accessLock = o]_vars

(* No wait among logins and operators lasts.                               *)
CallsEnd ==
  /\ \A l \in Logins : Running(l) ~> ~Running(l)
  /\ \A o \in Operators : pc[o] # "idle" ~> pc[o] = "idle"
=============================================================================
