---------------------------- MODULE AccountProofs ----------------------------
(***************************************************************************)
(* Proofs about what guards an account in MCComponents: permissions and    *)
(* their restrictions, the two checks of a request, the codes sent by mail *)
(* and the lock against wrong passwords, for every value of the constants. *)
(***************************************************************************)
EXTENDS MCComponents, SumProofs

-----------------------------------------------------------------------------
(* Restrictions of a permission.                                           *)

LEMMA AccessSteps ==
  ASSUME [ComponentsNext]_componentVars PROVE [Access!Next]_accessVars
  BY DEF ComponentsNext, componentVars, accessVars

(* Who holds a lock is where it needs it, and the other way round: the     *)
(* locks are what separates the changes of flag and restriction.           *)
LocksAreHeld ==
  /\ \A o \in Operators : point[o] = "restrict" => accessLock = o
  /\ \A l \in Compilers : point[l] = "allow" => restrictionLock = l
  /\ \A o \in Operators : point[o] \in {"idle", "create", "read", "begin", "access",
                                        "restrict"}
  /\ \A l \in Compilers : point[l] \in Access!LoginPoints

(* A compilation has seen what the flag says now, and a denial so far was  *)
(* seen; a lift is under way only at or after the end that it found.       *)
CompilationsSee ==
  \A l \in Compilers : Access!Running(l) => Access!Flag \in seen[l]

DenialsAreSeen ==
  \A l \in Compilers :
    point[l] \in {"evidence", "lift", "allow"} => ~granted[l] /\ FALSE \in seen[l]

LiftsAreDue ==
  \A l \in Compilers : now[l] <= clock /\ (point[l] = "allow" => Access!Over(now[l]))

AccessInv ==
  /\ Access!TypeOK /\ LocksAreHeld
  /\ CompilationsSee /\ DenialsAreSeen /\ LiftsAreDue
  /\ Access!FlagsAgree /\ Access!CompiledWasTrue

LEMMA AccessStart == ASSUME Access!Init PROVE AccessInv
<1> USE PermissionAssumption DEF Access!PermissionAssumption, Access!Init
<1>1. Access!TypeOK
  <2>0. access \in BOOLEAN \union {None}
    BY Zenon
  <2>1. /\ clock \in 0..MaxTime /\ changes \in 0..MaxRestrictions /\ ~known /\ ~active
        /\ accessLock = None /\ restrictionLock = None
    OBVIOUS
  <2>4. until \in Access!Ends
    BY DEF Access!Ends
  <2>2. /\ point \in [Access!Parties -> Access!LoginPoints \union Access!OperatorPoints]
        /\ now \in [Compilers -> 0..MaxTime] /\ granted \in [Compilers -> BOOLEAN]
        /\ seen \in [Compilers -> SUBSET BOOLEAN]
    BY DEF Access!LoginPoints
  <2>3. ask \in [Operators -> Access!Asks]
    BY DEF Access!Asks, Access!Ends
  <2> QED
    BY <2>0, <2>1, <2>2, <2>3, <2>4 DEF Access!TypeOK, Access!Parties
<1>2. LocksAreHeld
  BY DEF LocksAreHeld, Access!Parties, Access!LoginPoints
<1>3. CompilationsSee /\ DenialsAreSeen /\ LiftsAreDue
  BY DEF CompilationsSee, DenialsAreSeen, LiftsAreDue, Access!Running, Access!Parties
<1>4. Access!FlagsAgree /\ Access!CompiledWasTrue
  BY DEF Access!FlagsAgree, Access!Flag, Access!CompiledWasTrue, Access!Parties
<1> QED
  BY <1>1, <1>2, <1>3, <1>4 DEF AccessInv

(* Every compilation under way sees the flag change.                       *)
LEMMA Shown ==
  ASSUME AccessInv, NEW flag \in BOOLEAN
  PROVE  /\ Access!Show(flag) \in [Compilers -> SUBSET BOOLEAN]
         /\ \A l \in Compilers :
              /\ Access!Running(l) => flag \in Access!Show(flag)[l]
              /\ \A f \in seen[l] : f \in Access!Show(flag)[l]
  BY DEF AccessInv, Access!TypeOK, Access!Show

LEMMA CompileStep ==
  ASSUME AccessInv, NEW l \in Compilers, Access!Compile(l) PROVE AccessInv'
<1> USE PermissionAssumption DEF Access!PermissionAssumption, AccessInv, Access!Compile
<1>1. Access!TypeOK'
  BY DEF Access!Goto, Access!Flag, Access!rows, Access!locks, Access!TypeOK, Access!Parties,
     Access!LoginPoints, Access!OperatorPoints
<1>2. LocksAreHeld'
  BY DEF Access!Goto, Access!Flag, Access!rows, Access!locks, LocksAreHeld, Access!TypeOK,
     Access!Parties, Access!LoginPoints
<1>3. CompilationsSee'
  BY DEF Access!Goto, Access!Flag, Access!rows, Access!locks, CompilationsSee,
     Access!FlagsAgree, LocksAreHeld, Access!TypeOK, Access!Parties, Access!Running
<1>6. DenialsAreSeen'
  BY DEF Access!Goto, Access!Flag, Access!rows, Access!locks, CompilationsSee,
     DenialsAreSeen, LocksAreHeld, Access!TypeOK, Access!Parties, Access!Running
<1>7. LiftsAreDue'
  BY DEF Access!Goto, Access!Flag, Access!rows, Access!locks, LiftsAreDue, LocksAreHeld,
     Access!TypeOK, Access!Parties, Access!Over, Access!Ends
<1>4. Access!FlagsAgree'
  BY DEF Access!Goto, Access!Flag, Access!rows, Access!locks, LocksAreHeld, Access!TypeOK,
     Access!FlagsAgree
<1>5. Access!CompiledWasTrue'
  BY DEF Access!Goto, Access!Flag, Access!rows, Access!locks, Access!CompiledWasTrue,
     CompilationsSee, DenialsAreSeen, Access!TypeOK, Access!Parties, LocksAreHeld,
     Access!Running
<1> QED
  BY <1>1, <1>2, <1>3, <1>4, <1>5, <1>6, <1>7

LEMMA ReadsTheFlag ==
  ASSUME AccessInv, NEW p \in Compilers, point[p] \in {"create", "read"},
         Access!Answer(p, Access!Flag, Access!AfterLoad(p)), seen' = seen
  PROVE  DenialsAreSeen' /\ Access!CompiledWasTrue'
<1> USE DEF AccessInv, Access!TypeOK, Access!Parties
<1>1. /\ point' = [point EXCEPT ![p] = IF Access!Flag THEN "done" ELSE "evidence"]
      /\ granted' = [granted EXCEPT ![p] = Access!Flag]
  BY DEF Access!Answer, Access!AfterLoad
<1>2. Access!Flag \in seen[p] /\ Access!Flag \in BOOLEAN
  BY PermissionAssumption DEF CompilationsSee, Access!Running, Access!Flag,
     Access!PermissionAssumption
<1>3. CASE Access!Flag = TRUE
  <2>1. point' = [point EXCEPT ![p] = "done"] /\ granted' = [granted EXCEPT ![p] = TRUE]
    BY <1>1, <1>3
  <2> QED
    BY <1>2, <1>3, <2>1 DEF DenialsAreSeen, Access!CompiledWasTrue
<1>4. CASE Access!Flag = FALSE
  <2>1. point' = [point EXCEPT ![p] = "evidence"] /\ granted' = [granted EXCEPT ![p] = FALSE]
    BY <1>1, <1>4
  <2> QED
    BY <1>2, <1>4, <2>1 DEF DenialsAreSeen, Access!CompiledWasTrue
<1> QED
  BY <1>2, <1>3, <1>4

LEMMA LoginLoadStep ==
  ASSUME AccessInv, NEW p \in Access!Parties, Access!Load(p) PROVE AccessInv'
<1> USE PermissionAssumption DEF Access!PermissionAssumption, AccessInv, Access!Load
<1>1. Access!TypeOK'
  BY DEF Access!Answer, Access!AfterLoad, Access!rows, Access!locks, Access!Flag,
     Access!TypeOK, Access!Parties, Access!LoginPoints, Access!OperatorPoints
<1>2. LocksAreHeld'
  BY DEF Access!Answer, Access!AfterLoad, Access!rows, Access!locks, Access!Flag,
     LocksAreHeld, Access!TypeOK, Access!Parties, Access!LoginPoints
<1>3. CompilationsSee'
  BY DEF Access!Answer, Access!AfterLoad, Access!rows, Access!locks, Access!Flag,
     CompilationsSee, Access!FlagsAgree, LocksAreHeld, Access!TypeOK, Access!Parties,
     Access!Running
<1>6. DenialsAreSeen'
  <2>1. CASE p \in Compilers
    <3>1. CASE access = None
      BY <2>1, <3>1 DEF Access!Answer, Access!AfterLoad, Access!rows, Access!locks,
         Access!Flag, CompilationsSee, DenialsAreSeen, LocksAreHeld, Access!TypeOK,
         Access!Parties, Access!Running
    <3>2. CASE access # None
      <4>1. Access!Answer(p, Access!Flag, Access!AfterLoad(p)) /\ seen' = seen
        BY <3>2 DEF Access!Flag
      <4> QED
        BY <2>1, <4>1, ReadsTheFlag
    <3> QED
      BY <3>1, <3>2
  <2>2. CASE p \notin Compilers
    BY <2>2 DEF Access!Answer, Access!AfterLoad, Access!rows, Access!locks, Access!Flag,
       CompilationsSee, DenialsAreSeen, LocksAreHeld, Access!TypeOK, Access!Parties,
       Access!Running
  <2> QED
    BY <2>1, <2>2
<1>7. LiftsAreDue'
  BY DEF Access!Answer, Access!AfterLoad, Access!rows, Access!locks, Access!Flag,
     LiftsAreDue, LocksAreHeld, Access!TypeOK, Access!Parties, Access!Over, Access!Ends
<1>4. Access!FlagsAgree'
  BY DEF Access!Answer, Access!AfterLoad, Access!rows, Access!locks, Access!Flag,
     LocksAreHeld, Access!TypeOK, Access!FlagsAgree
<1>5. Access!CompiledWasTrue'
  <2>1. CASE p \in Compilers
    <3>1. CASE access = None
      BY <2>1, <3>1 DEF Access!Answer, Access!AfterLoad, Access!rows, Access!locks,
         Access!Flag, Access!CompiledWasTrue, CompilationsSee, LocksAreHeld, Access!TypeOK,
         Access!Parties, Access!Running
    <3>2. CASE access # None
      <4>1. Access!Answer(p, Access!Flag, Access!AfterLoad(p)) /\ seen' = seen
        BY <3>2 DEF Access!Flag
      <4> QED
        BY <2>1, <4>1, ReadsTheFlag
    <3> QED
      BY <3>1, <3>2
  <2>2. CASE p \notin Compilers
    BY <2>2 DEF Access!Answer, Access!AfterLoad, Access!rows, Access!locks, Access!Flag,
       Access!CompiledWasTrue, CompilationsSee, LocksAreHeld, Access!TypeOK, Access!Parties,
       Access!Running
  <2> QED
    BY <2>1, <2>2
<1> QED
  BY <1>1, <1>2, <1>3, <1>4, <1>5, <1>6, <1>7

LEMMA CreateAccessStep ==
  ASSUME AccessInv, NEW p \in Access!Parties, Access!CreateAccess(p) PROVE AccessInv'
<1> USE PermissionAssumption DEF Access!PermissionAssumption, AccessInv, Access!CreateAccess
<1>1. Access!TypeOK'
  BY DEF Access!Answer, Access!AfterLoad, Access!locks, Access!Flag, Access!TypeOK,
     Access!Parties, Access!LoginPoints, Access!OperatorPoints
<1>2. LocksAreHeld'
  <2>1. CASE p \in Compilers
    BY <2>1 DEF Access!Answer, Access!AfterLoad, Access!locks, Access!Flag, LocksAreHeld,
       Access!TypeOK, Access!Parties, Access!LoginPoints
  <2>2. CASE p \notin Compilers
    BY <2>2 DEF Access!Answer, Access!AfterLoad, Access!locks, Access!Flag, LocksAreHeld,
       Access!TypeOK, Access!Parties, Access!LoginPoints
  <2> QED
    BY <2>1, <2>2
<1>3. CompilationsSee'
  BY DEF Access!Answer, Access!AfterLoad, Access!locks, Access!Flag, CompilationsSee,
     Access!FlagsAgree, LocksAreHeld, Access!TypeOK, Access!Parties, Access!Running
<1>6. DenialsAreSeen'
  <2>1. CASE p \in Compilers
    BY <2>1, ReadsTheFlag
  <2>2. CASE p \notin Compilers
    BY <2>2 DEF Access!Answer, Access!AfterLoad, Access!locks, Access!Flag, CompilationsSee,
       DenialsAreSeen, LocksAreHeld, Access!TypeOK, Access!Parties, Access!Running
  <2> QED
    BY <2>1, <2>2
<1>7. LiftsAreDue'
  BY DEF Access!Answer, Access!AfterLoad, Access!locks, Access!Flag, LiftsAreDue,
     LocksAreHeld, Access!TypeOK, Access!Parties, Access!Over, Access!Ends
<1>4. Access!FlagsAgree'
  BY DEF Access!Answer, Access!AfterLoad, Access!locks, Access!Flag, LocksAreHeld,
     Access!TypeOK, Access!FlagsAgree
<1>5. Access!CompiledWasTrue'
  <2>1. CASE p \in Compilers
    BY <2>1, ReadsTheFlag
  <2>2. CASE p \notin Compilers
    BY <2>2 DEF Access!Answer, Access!AfterLoad, Access!locks, Access!Flag,
       Access!CompiledWasTrue, CompilationsSee, LocksAreHeld, Access!TypeOK, Access!Parties,
       Access!Running
  <2> QED
    BY <2>1, <2>2
<1> QED
  BY <1>1, <1>2, <1>3, <1>4, <1>5, <1>6, <1>7

LEMMA EvidenceStep ==
  ASSUME AccessInv, NEW l \in Compilers, Access!Evidence(l) PROVE AccessInv'
<1> USE PermissionAssumption DEF Access!PermissionAssumption, AccessInv, Access!Evidence
<1>1. Access!TypeOK'
  BY DEF Access!Goto, Access!Over, Access!rows, Access!locks, Access!TypeOK, Access!Parties,
     Access!LoginPoints, Access!OperatorPoints
<1>2. LocksAreHeld'
  BY DEF Access!Goto, Access!Over, Access!rows, Access!locks, LocksAreHeld, Access!TypeOK,
     Access!Parties, Access!LoginPoints
<1>3. CompilationsSee'
  BY DEF Access!Goto, Access!Over, Access!rows, Access!locks, CompilationsSee,
     Access!FlagsAgree, LocksAreHeld, Access!TypeOK, Access!Parties, Access!Flag,
     Access!Running
<1>6. DenialsAreSeen'
  BY DEF Access!Goto, Access!Over, Access!rows, Access!locks, CompilationsSee,
     DenialsAreSeen, LocksAreHeld, Access!TypeOK, Access!Parties, Access!Flag,
     Access!Running
<1>7. LiftsAreDue'
  BY DEF Access!Goto, Access!Over, Access!rows, Access!locks, LiftsAreDue, LocksAreHeld,
     Access!TypeOK, Access!Parties, Access!Ends
<1>4. Access!FlagsAgree'
  BY DEF Access!Goto, Access!Over, Access!rows, Access!locks, LocksAreHeld, Access!TypeOK,
     Access!FlagsAgree, Access!Flag
<1>5. Access!CompiledWasTrue'
  BY DEF Access!Goto, Access!Over, Access!rows, Access!locks, Access!CompiledWasTrue,
     CompilationsSee, DenialsAreSeen, Access!TypeOK, Access!Parties, Access!Flag,
     LocksAreHeld, Access!Running
<1> QED
  BY <1>1, <1>2, <1>3, <1>4, <1>5, <1>6, <1>7

LEMMA LiftStep ==
  ASSUME AccessInv, NEW l \in Compilers, Access!Lift(l) PROVE AccessInv'
<1> USE PermissionAssumption DEF Access!PermissionAssumption, AccessInv, Access!Lift
<1>1. Access!TypeOK'
  BY DEF Access!Goto, Access!StillOver, Access!Over, Access!rows, Access!TypeOK,
     Access!Parties, Access!LoginPoints, Access!OperatorPoints
<1>2. LocksAreHeld'
  BY DEF Access!Goto, Access!StillOver, Access!Over, Access!rows, LocksAreHeld,
     Access!TypeOK, Access!Parties, Access!LoginPoints
<1>3. CompilationsSee'
  BY DEF Access!Goto, Access!StillOver, Access!Over, Access!rows, CompilationsSee,
     Access!FlagsAgree, LocksAreHeld, Access!TypeOK, Access!Parties, Access!Flag,
     Access!Running
<1>6. DenialsAreSeen'
  BY DEF Access!Goto, Access!StillOver, Access!Over, Access!rows, CompilationsSee,
     DenialsAreSeen, LocksAreHeld, Access!TypeOK, Access!Parties, Access!Flag,
     Access!Running
<1>7. LiftsAreDue'
  BY DEF Access!Goto, Access!StillOver, Access!Over, Access!rows, LiftsAreDue, LocksAreHeld,
     Access!TypeOK, Access!Parties, Access!Ends
<1>4. Access!FlagsAgree'
  BY DEF Access!Goto, Access!StillOver, Access!Over, Access!rows, LocksAreHeld,
     Access!TypeOK, Access!FlagsAgree, Access!Flag
<1>5. Access!CompiledWasTrue'
  BY DEF Access!Goto, Access!StillOver, Access!Over, Access!rows, Access!CompiledWasTrue,
     CompilationsSee, DenialsAreSeen, Access!TypeOK, Access!Parties, Access!Flag,
     LocksAreHeld, Access!Running
<1> QED
  BY <1>1, <1>2, <1>3, <1>4, <1>5, <1>6, <1>7

LEMMA AllowStep ==
  ASSUME AccessInv, NEW l \in Compilers, Access!Allow(l) PROVE AccessInv'
<1> USE PermissionAssumption DEF Access!PermissionAssumption, AccessInv, Access!Allow
<1>0. /\ Access!Show(TRUE) \in [Compilers -> SUBSET BOOLEAN]
      /\ Access!Show(FALSE) \in [Compilers -> SUBSET BOOLEAN]
      /\ \A k \in Compilers :
           /\ Access!Running(k) => TRUE \in Access!Show(TRUE)[k] /\ FALSE \in Access!Show(FALSE)[k]
           /\ \A f \in seen[k] : f \in Access!Show(TRUE)[k] /\ f \in Access!Show(FALSE)[k]
  BY Shown
<1>1. Access!TypeOK'
  BY <1>0 DEF Access!Goto, Access!TypeOK, Access!Parties, Access!LoginPoints,
     Access!OperatorPoints
<1>2. LocksAreHeld'
  BY <1>0 DEF Access!Goto, LocksAreHeld, Access!TypeOK, Access!Parties, Access!LoginPoints
<1>3. CompilationsSee'
  BY <1>0 DEF Access!Goto, CompilationsSee, Access!FlagsAgree, LocksAreHeld, Access!TypeOK,
     Access!Parties, Access!Flag, Access!Running
<1>6. DenialsAreSeen'
  BY <1>0 DEF Access!Goto, CompilationsSee, DenialsAreSeen, LocksAreHeld, Access!TypeOK,
     Access!Parties, Access!Flag, Access!Running
<1>7. LiftsAreDue'
  BY <1>0 DEF Access!Goto, LiftsAreDue, LocksAreHeld, Access!TypeOK, Access!Parties,
     Access!Over, Access!Ends
<1>4. Access!FlagsAgree'
  BY <1>0 DEF Access!Goto, LocksAreHeld, Access!TypeOK, Access!FlagsAgree, Access!Flag
<1>5. Access!CompiledWasTrue'
  BY <1>0 DEF Access!Goto, Access!CompiledWasTrue, CompilationsSee, DenialsAreSeen,
     Access!TypeOK, Access!Parties, Access!Flag, LocksAreHeld, Access!Running
<1> QED
  BY <1>1, <1>2, <1>3, <1>4, <1>5, <1>6, <1>7

LEMMA LeaveStep ==
  ASSUME AccessInv, NEW l \in Compilers, Access!Leave(l) PROVE AccessInv'
<1> USE PermissionAssumption DEF Access!PermissionAssumption, AccessInv, Access!Leave
<1>1. Access!TypeOK'
  BY DEF Access!Goto, Access!rows, Access!locks, Access!TypeOK, Access!Parties,
     Access!LoginPoints, Access!OperatorPoints
<1>2. LocksAreHeld'
  BY DEF Access!Goto, Access!rows, Access!locks, LocksAreHeld, Access!TypeOK,
     Access!Parties, Access!LoginPoints
<1>3. CompilationsSee'
  BY DEF Access!Goto, Access!rows, Access!locks, CompilationsSee, Access!FlagsAgree,
     LocksAreHeld, Access!TypeOK, Access!Parties, Access!Flag, Access!Running
<1>6. DenialsAreSeen'
  BY DEF Access!Goto, Access!rows, Access!locks, CompilationsSee, DenialsAreSeen,
     LocksAreHeld, Access!TypeOK, Access!Parties, Access!Flag, Access!Running
<1>7. LiftsAreDue'
  BY DEF Access!Goto, Access!rows, Access!locks, LiftsAreDue, LocksAreHeld, Access!TypeOK,
     Access!Parties, Access!Over, Access!Ends
<1>4. Access!FlagsAgree'
  BY DEF Access!Goto, Access!rows, Access!locks, LocksAreHeld, Access!TypeOK,
     Access!FlagsAgree, Access!Flag
<1>5. Access!CompiledWasTrue'
  BY DEF Access!Goto, Access!rows, Access!locks, Access!CompiledWasTrue, CompilationsSee,
     DenialsAreSeen, Access!TypeOK, Access!Parties, Access!Flag, LocksAreHeld,
     Access!Running
<1> QED
  BY <1>1, <1>2, <1>3, <1>4, <1>5, <1>6, <1>7

LEMMA OperatorAskStep ==
  ASSUME AccessInv, NEW o \in Operators, Access!Request(o) PROVE AccessInv'
<1> USE PermissionAssumption DEF Access!PermissionAssumption, AccessInv, Access!Request
<1>1. Access!TypeOK'
  BY DEF Access!Goto, Access!rows, Access!locks, Access!Asks, Access!Ends, Access!TypeOK,
     Access!Parties, Access!LoginPoints, Access!OperatorPoints
<1>2. LocksAreHeld'
  BY DEF Access!Goto, Access!rows, Access!locks, Access!Asks, Access!Ends, LocksAreHeld,
     Access!TypeOK, Access!Parties, Access!LoginPoints
<1>3. CompilationsSee'
  BY DEF Access!Goto, Access!rows, Access!locks, Access!Asks, Access!Ends, CompilationsSee,
     Access!FlagsAgree, LocksAreHeld, Access!TypeOK, Access!Parties, Access!Flag,
     Access!Running
<1>6. DenialsAreSeen'
  BY DEF Access!Goto, Access!rows, Access!locks, Access!Asks, Access!Ends, CompilationsSee,
     DenialsAreSeen, LocksAreHeld, Access!TypeOK, Access!Parties, Access!Flag,
     Access!Running
<1>7. LiftsAreDue'
  BY DEF Access!Goto, Access!rows, Access!locks, Access!Asks, Access!Ends, LiftsAreDue,
     LocksAreHeld, Access!TypeOK, Access!Parties, Access!Over
<1>4. Access!FlagsAgree'
  BY DEF Access!Goto, Access!rows, Access!locks, Access!Asks, Access!Ends, LocksAreHeld,
     Access!TypeOK, Access!FlagsAgree, Access!Flag
<1>5. Access!CompiledWasTrue'
  BY DEF Access!Goto, Access!rows, Access!locks, Access!Asks, Access!Ends,
     Access!CompiledWasTrue, CompilationsSee, DenialsAreSeen, Access!TypeOK, Access!Parties,
     Access!Flag, LocksAreHeld, Access!Running
<1> QED
  BY <1>1, <1>2, <1>3, <1>4, <1>5, <1>6, <1>7

LEMMA LoginBeginStep ==
  ASSUME AccessInv, NEW o \in Operators, Access!Begin(o) PROVE AccessInv'
<1> USE PermissionAssumption DEF Access!PermissionAssumption, AccessInv, Access!Begin
<1>1. Access!TypeOK'
  BY DEF Access!Goto, Access!rows, Access!locks, Access!Asks, Access!TypeOK, Access!Parties,
     Access!LoginPoints, Access!OperatorPoints
<1>2. LocksAreHeld'
  BY DEF Access!Goto, Access!rows, Access!locks, Access!Asks, LocksAreHeld, Access!TypeOK,
     Access!Parties, Access!LoginPoints
<1>3. CompilationsSee'
  BY DEF Access!Goto, Access!rows, Access!locks, Access!Asks, CompilationsSee,
     Access!FlagsAgree, LocksAreHeld, Access!TypeOK, Access!Parties, Access!Flag,
     Access!Running
<1>6. DenialsAreSeen'
  BY DEF Access!Goto, Access!rows, Access!locks, Access!Asks, CompilationsSee,
     DenialsAreSeen, LocksAreHeld, Access!TypeOK, Access!Parties, Access!Flag,
     Access!Running
<1>7. LiftsAreDue'
  BY DEF Access!Goto, Access!rows, Access!locks, Access!Asks, LiftsAreDue, LocksAreHeld,
     Access!TypeOK, Access!Parties, Access!Over, Access!Ends
<1>4. Access!FlagsAgree'
  BY DEF Access!Goto, Access!rows, Access!locks, Access!Asks, LocksAreHeld, Access!TypeOK,
     Access!FlagsAgree, Access!Flag
<1>5. Access!CompiledWasTrue'
  BY DEF Access!Goto, Access!rows, Access!locks, Access!Asks, Access!CompiledWasTrue,
     CompilationsSee, DenialsAreSeen, Access!TypeOK, Access!Parties, Access!Flag,
     LocksAreHeld, Access!Running
<1> QED
  BY <1>1, <1>2, <1>3, <1>4, <1>5, <1>6, <1>7

LEMMA LockAccessStep ==
  ASSUME AccessInv, NEW o \in Operators, Access!LockAccess(o) PROVE AccessInv'
<1> USE PermissionAssumption DEF Access!PermissionAssumption, AccessInv, Access!LockAccess
<1>1. Access!TypeOK'
  BY DEF Access!Goto, Access!rows, Access!TypeOK, Access!Parties, Access!LoginPoints,
     Access!OperatorPoints
<1>2. LocksAreHeld'
  BY DEF Access!Goto, Access!rows, LocksAreHeld, Access!TypeOK, Access!Parties,
     Access!LoginPoints
<1>3. CompilationsSee'
  BY DEF Access!Goto, Access!rows, CompilationsSee, Access!FlagsAgree, LocksAreHeld,
     Access!TypeOK, Access!Parties, Access!Flag, Access!Running
<1>6. DenialsAreSeen'
  BY DEF Access!Goto, Access!rows, CompilationsSee, DenialsAreSeen, LocksAreHeld,
     Access!TypeOK, Access!Parties, Access!Flag, Access!Running
<1>7. LiftsAreDue'
  BY DEF Access!Goto, Access!rows, LiftsAreDue, LocksAreHeld, Access!TypeOK, Access!Parties,
     Access!Over, Access!Ends
<1>4. Access!FlagsAgree'
  BY DEF Access!Goto, Access!rows, LocksAreHeld, Access!TypeOK, Access!FlagsAgree, Access!Flag
<1>5. Access!CompiledWasTrue'
  BY DEF Access!Goto, Access!rows, Access!CompiledWasTrue, CompilationsSee, DenialsAreSeen,
     Access!TypeOK, Access!Parties, Access!Flag, LocksAreHeld, Access!Running
<1> QED
  BY <1>1, <1>2, <1>3, <1>4, <1>5, <1>6, <1>7

LEMMA RestrictStep ==
  ASSUME AccessInv, NEW o \in Operators, Access!Restrict(o) PROVE AccessInv'
<1> USE PermissionAssumption DEF Access!PermissionAssumption, AccessInv, Access!Restrict
<1>0. /\ Access!Show(TRUE) \in [Compilers -> SUBSET BOOLEAN]
      /\ Access!Show(FALSE) \in [Compilers -> SUBSET BOOLEAN]
      /\ \A k \in Compilers :
           /\ Access!Running(k) => TRUE \in Access!Show(TRUE)[k] /\ FALSE \in Access!Show(FALSE)[k]
           /\ \A f \in seen[k] : f \in Access!Show(TRUE)[k] /\ f \in Access!Show(FALSE)[k]
  BY Shown
<1>1. Access!TypeOK'
  BY <1>0 DEF Access!Goto, Access!rows, Access!Set, Access!Clear, Access!Asks,
     Access!TypeOK, Access!Parties, Access!LoginPoints, Access!OperatorPoints
<1>2. LocksAreHeld'
  BY <1>0 DEF Access!Goto, Access!rows, Access!Set, Access!Clear, Access!Asks, LocksAreHeld,
     Access!TypeOK, Access!Parties, Access!LoginPoints
<1>3. CompilationsSee'
  <2>0. \A k \in Compilers : Access!Running(k)' => Access!Running(k)
    BY DEF Access!Goto, Access!Running, Access!TypeOK, Access!Parties
  <2>1. CASE ask[o].set /\ (ask[o].saw \/ ~known)
    <3>1. access' = FALSE /\ seen' = Access!Show(FALSE)
      BY <2>1, Zenon DEF Access!Set, Access!Clear
    <3>2. Access!Flag' = FALSE
      BY <3>1 DEF Access!Flag
    <3> QED
      BY <1>0, <2>0, <3>1, <3>2 DEF CompilationsSee
  <2>2. CASE ask[o].set /\ ~(ask[o].saw \/ ~known)
    <3>1. access' = access /\ seen' = seen
      BY <2>2, Zenon DEF Access!Set, Access!Clear, Access!rows
    <3> QED
      BY <2>0, <3>1 DEF CompilationsSee, Access!Flag
  <2>3. CASE ~ask[o].set
    <3>1. access' = TRUE /\ seen' = Access!Show(TRUE)
      BY <2>3, Zenon DEF Access!Set, Access!Clear
    <3>2. Access!Flag' = TRUE
      BY <3>1 DEF Access!Flag
    <3> QED
      BY <1>0, <2>0, <3>1, <3>2 DEF CompilationsSee
  <2> QED
    BY <2>1, <2>2, <2>3
<1>6. DenialsAreSeen'
  BY <1>0 DEF Access!Goto, Access!rows, Access!Set, Access!Clear, Access!Asks,
     CompilationsSee, DenialsAreSeen, LocksAreHeld, Access!TypeOK, Access!Parties,
     Access!Flag, Access!Running
<1>7. LiftsAreDue'
  BY <1>0 DEF Access!Goto, Access!rows, Access!Set, Access!Clear, Access!Asks, LiftsAreDue,
     LocksAreHeld, Access!TypeOK, Access!Parties, Access!Over, Access!Ends
<1>4. Access!FlagsAgree'
  <2>1. CASE ask[o].set /\ (ask[o].saw \/ ~known)
    <3>1. access' = FALSE /\ active' = TRUE
      BY <2>1, Zenon DEF Access!Set, Access!Clear
    <3> QED
      BY <3>1 DEF Access!FlagsAgree, Access!Flag
  <2>2. CASE ask[o].set /\ ~(ask[o].saw \/ ~known)
    <3>1. access' = access /\ active' = active
      BY <2>2, Zenon DEF Access!Set, Access!Clear, Access!rows
    <3> QED
      BY <3>1 DEF Access!FlagsAgree, Access!Flag
  <2>3. CASE ~ask[o].set
    <3>1. access' = TRUE /\ active' = FALSE
      BY <2>3, Zenon DEF Access!Set, Access!Clear
    <3> QED
      BY <3>1 DEF Access!FlagsAgree, Access!Flag
  <2> QED
    BY <2>1, <2>2, <2>3
<1>5. Access!CompiledWasTrue'
  BY <1>0 DEF Access!Goto, Access!rows, Access!Set, Access!Clear, Access!Asks,
     Access!CompiledWasTrue, CompilationsSee, DenialsAreSeen, Access!TypeOK, Access!Parties,
     Access!Flag, LocksAreHeld, Access!Running
<1> QED
  BY <1>1, <1>2, <1>3, <1>4, <1>5, <1>6, <1>7

LEMMA DeadlockStep ==
  ASSUME AccessInv, NEW l \in Compilers, NEW o \in Operators, Access!Deadlock(l, o)
  PROVE  AccessInv'
<1> USE PermissionAssumption
    DEF Access!PermissionAssumption, AccessInv, Access!Deadlock, Access!Circle,
        Access!AbortLogin, Access!AbortOperator, Access!rows
<1>1. Access!TypeOK'
  BY DEF Access!TypeOK, Access!Parties, Access!LoginPoints, Access!OperatorPoints
<1>2. LocksAreHeld'
  BY DEF LocksAreHeld, Access!TypeOK, Access!Parties, Access!LoginPoints
<1>3. CompilationsSee'
  BY DEF CompilationsSee, Access!TypeOK, Access!Parties, Access!Flag, Access!Running
<1>4. DenialsAreSeen'
  BY DEF DenialsAreSeen, Access!TypeOK, Access!Parties
<1>5. LiftsAreDue'
  BY DEF LiftsAreDue, Access!TypeOK, Access!Parties, Access!Over
<1>6. Access!FlagsAgree' /\ Access!CompiledWasTrue'
  BY DEF Access!FlagsAgree, Access!Flag, Access!CompiledWasTrue, Access!TypeOK, Access!Parties
<1> QED
  BY <1>1, <1>2, <1>3, <1>4, <1>5, <1>6

LEMMA TickStep == ASSUME AccessInv, Access!Tick \/ UNCHANGED accessVars PROVE AccessInv'
<1> USE PermissionAssumption
    DEF Access!PermissionAssumption, AccessInv, Access!Tick, accessVars, Access!rows,
        Access!locks
<1>1. Access!TypeOK'
  BY DEF Access!TypeOK
<1>2. LocksAreHeld' /\ CompilationsSee' /\ DenialsAreSeen'
  BY DEF LocksAreHeld, CompilationsSee, DenialsAreSeen, Access!Flag, Access!Running
<1>3. LiftsAreDue'
  BY DEF LiftsAreDue, Access!TypeOK, Access!Over
<1>4. UNCHANGED <<access, active, point, granted, seen>>
  OBVIOUS
<1>5. Access!FlagsAgree'
  BY <1>4 DEF Access!FlagsAgree, Access!Flag
<1>6. Access!CompiledWasTrue'
  BY <1>4 DEF Access!CompiledWasTrue
<1> QED
  BY <1>1, <1>2, <1>3, <1>5, <1>6

LEMMA AccessStep == ASSUME AccessInv, [Access!Next]_accessVars PROVE AccessInv'
<1>1. Compilers \subseteq Access!Parties /\ Operators \subseteq Access!Parties
  BY DEF Access!Parties
<1> QED
  BY <1>1, CompileStep, LoginLoadStep, CreateAccessStep, EvidenceStep, LiftStep, AllowStep,
     LeaveStep, OperatorAskStep, LoginBeginStep, LockAccessStep, RestrictStep, DeadlockStep, TickStep
     DEF Access!Next, Access!LoginStep, Access!OperatorStep

(* Flag and restriction agree whatever transactions overlap or are aborted *)
(* (models.go 57), and a login grants or denies what the flag said at some *)
(* time during its compilation (compilePermissions).                       *)
THEOREM Compilation == ComponentsSpec => []PermissionsAreTrue
<1>1. ComponentsInit => AccessInv
  BY AccessStart DEF ComponentsInit
<1>2. AccessInv /\ [ComponentsNext]_componentVars => AccessInv'
  BY AccessStep, AccessSteps
<1>3. AccessInv => PermissionsAreTrue
  BY DEF AccessInv, PermissionsAreTrue
<1> QED
  BY <1>1, <1>2, <1>3, PTL DEF ComponentsSpec

(* Which step ends a restriction before its time.                          *)
LEMMA EarlyEnd ==
  ASSUME AccessInv, [Access!Next]_accessVars,
         active, ~Access!Over(clock), ~active'
  PROVE  \E o \in Operators : accessLock = o
<1> USE PermissionAssumption DEF Access!PermissionAssumption, AccessInv
<1>1. ASSUME NEW l \in Compilers, Access!Allow(l) PROVE FALSE
  BY <1>1 DEF Access!Allow, Access!Goto, LiftsAreDue, Access!Over, Access!TypeOK, Access!Ends
<1>2. ASSUME NEW o \in Operators, Access!Restrict(o) PROVE accessLock = o
  BY <1>2 DEF Access!Restrict, Access!Goto, LocksAreHeld
<1>3. CASE UNCHANGED active
  BY <1>3
<1>4. \/ \E l \in Compilers : Access!Allow(l)
      \/ \E o \in Operators : Access!Restrict(o)
      \/ UNCHANGED active
  BY DEF Access!Next, Access!LoginStep, Access!OperatorStep, Access!Compile, Access!Load,
     Access!CreateAccess, Access!Evidence, Access!Lift, Access!Leave, Access!Request,
     Access!Begin, Access!LockAccess, Access!Deadlock, Access!Tick, Access!rows, accessVars
<1> QED
  BY <1>1, <1>2, <1>3, <1>4

(* Only an operator ends a restriction before its time: a login that lifts *)
(* one has found it over, and nobody renews it until the login commits     *)
(* (compilePermissions).                                                   *)
THEOREM Restrictions == ComponentsSpec => RestrictionsLast
<1>1. ComponentsInit => AccessInv
  BY AccessStart DEF ComponentsInit
<1>2. AccessInv /\ [ComponentsNext]_componentVars => AccessInv'
  BY AccessStep, AccessSteps
<1>3. AccessInv /\ [ComponentsNext]_componentVars
        => [active /\ ~Access!Over(clock) /\ ~active'
              => \E o \in Operators : accessLock = o]_Access!vars
  BY EarlyEnd, AccessSteps
<1> QED
  BY <1>1, <1>2, <1>3, PTL DEF ComponentsSpec, RestrictionsLast, Access!RestrictionsLast

-----------------------------------------------------------------------------
(* Codes sent by mail.                                                     *)

LEMMA EmailSteps ==
  ASSUME [ComponentsNext]_componentVars PROVE [Email!Next]_emailVars
  BY DEF ComponentsNext, componentVars, emailVars

(* Requests at each of their calls.                                        *)
Asked == HowMany(sender, Senders, {"daily"})
Storing == HowMany(sender, Senders, {"store"})
Resetting == HowMany(sender, Senders, {"reset"})
Mailing == HowMany(sender, Senders, {"mail"})
Undoing == HowMany(sender, Senders, {"undo"})
Clearing == HowMany(guesser, Guessers, {"clear"})
Counting == HowMany(guesser, Guessers, {"count"})
Voiding == HowMany(guesser, Guessers, {"void"})
AllGuessers == Cardinality(Guessers)
One(condition) == IF condition THEN 1 ELSE 0

LEMMA MailFacts ==
  /\ IsFiniteSet(Senders) /\ IsFiniteSet(Guessers)
  /\ AllGuessers \in Nat /\ Email!Cardinality(Guessers) = AllGuessers
  /\ verificationMaxAttempts \in Nat \ {0} /\ emailDailyLimit \in Nat
  /\ MaxCodes \in Nat /\ MaxFaults \in Nat
<1>1. IsFiniteSet(Senders) /\ IsFiniteSet(Guessers)
  BY CodeAssumption DEF Email!CodeAssumption, IsFiniteSet, Email!IsFiniteSet
<1>2. Email!Cardinality(Guessers) = Cardinality(Guessers)
  BY DEF Cardinality, Email!Cardinality
<1>3. Cardinality(Guessers) \in Nat
  BY <1>1, FS_CardinalityType
<1> QED
  BY <1>1, <1>2, <1>3, CodeAssumption DEF Email!CodeAssumption, AllGuessers

LEMMA MailCounts ==
  /\ Asked \in Nat /\ Storing \in Nat /\ Resetting \in Nat /\ Mailing \in Nat
  /\ Undoing \in Nat
  /\ Clearing \in Nat /\ Counting \in Nat /\ Voiding \in Nat
  /\ Clearing + Counting + Voiding <= AllGuessers
  /\ Clearing = AllGuessers => \A g \in Guessers : guesser[g] = "clear"
  /\ Asked = 0 => \A s \in Senders : sender[s] # "daily"
<1> USE MailFacts
<1>1. HowMany(guesser, Guessers, {"clear"} \union {"count"}) = Clearing + Counting
  BY CountSplit DEF Clearing, Counting
<1>2. HowMany(guesser, Guessers, ({"clear"} \union {"count"}) \union {"void"})
        = HowMany(guesser, Guessers, {"clear"} \union {"count"}) + Voiding
  BY CountSplit DEF Voiding
<1>3. HowMany(guesser, Guessers, ({"clear"} \union {"count"}) \union {"void"}) <= AllGuessers
  BY CountType DEF AllGuessers
<1>4. Clearing \in Nat /\ Counting \in Nat /\ Voiding \in Nat
  BY CountType DEF Clearing, Counting, Voiding
<1>5. /\ Asked \in Nat /\ Storing \in Nat /\ Resetting \in Nat /\ Mailing \in Nat
      /\ Undoing \in Nat
  BY CountType DEF Asked, Storing, Resetting, Mailing, Undoing
<1>6. Clearing = AllGuessers => \A g \in Guessers : guesser[g] \in {"clear"}
  BY CountType DEF Clearing, AllGuessers
<1>7. Asked = 0 => \A s \in Senders : sender[s] \notin {"daily"}
  BY CountType DEF Asked
<1> QED
  BY <1>1, <1>2, <1>3, <1>4, <1>5, <1>6, <1>7

LEMMA SenderMoves ==
  ASSUME Email!TypeOK, NEW s \in Senders, NEW from, NEW to, Email!Send(s, from, to)
  PROVE  /\ Asked' = Asked - One(from = "daily") + One(to = "daily")
         /\ Storing' = Storing - One(from = "store") + One(to = "store")
         /\ Resetting' = Resetting - One(from = "reset") + One(to = "reset")
         /\ Mailing' = Mailing - One(from = "mail") + One(to = "mail")
         /\ Undoing' = Undoing - One(from = "undo") + One(to = "undo")
         /\ Asked' \in Nat /\ Storing' \in Nat /\ Resetting' \in Nat /\ Mailing' \in Nat
         /\ Undoing' \in Nat
<1>1. sender[s] = from /\ sender' = [sender EXCEPT ![s] = to]
  BY DEF Email!Send
<1>2. sender \in [Senders -> {"idle", "daily", "store", "reset", "mail", "undo"}]
  BY DEF Email!TypeOK
<1>f. IsFiniteSet(Senders)
  BY MailFacts
<1>0. sender'[s] = to /\ OnlyMoves(s, sender, sender', Senders)
  BY <1>1, <1>2 DEF OnlyMoves
<1>3. ASSUME NEW c
      PROVE  HowMany(sender', Senders, {c})
               = HowMany(sender, Senders, {c}) - One(from = c) + One(to = c)
  <2>1. HowMany(sender', Senders, {c}) = HowMany(sender, Senders, {c})
          - (IF sender[s] \in {c} THEN 1 ELSE 0) + (IF sender'[s] \in {c} THEN 1 ELSE 0)
    BY <1>0, <1>f, CountMove
  <2> QED
    BY <1>0, <1>1, <2>1 DEF One
<1> QED
  BY <1>3, MailFacts, CountType DEF Asked, Storing, Resetting, Mailing, Undoing

LEMMA GuesserMoves ==
  ASSUME Email!TypeOK, NEW g \in Guessers, NEW from, NEW to, Email!Guess(g, from, to)
  PROVE  /\ Clearing' = Clearing - One(from = "clear") + One(to = "clear")
         /\ Counting' = Counting - One(from = "count") + One(to = "count")
         /\ Voiding' = Voiding - One(from = "void") + One(to = "void")
         /\ Clearing = AllGuessers => from = "clear"
         /\ Clearing' = AllGuessers => to = "clear"
         /\ AllGuessers >= 1
         /\ Clearing' \in Nat /\ Counting' \in Nat /\ Voiding' \in Nat
<1>1. guesser[g] = from /\ guesser' = [guesser EXCEPT ![g] = to]
  BY DEF Email!Guess
<1>2. guesser \in [Guessers -> {"idle", "clear", "count", "void"}]
  BY DEF Email!TypeOK
<1>f. IsFiniteSet(Guessers)
  BY MailFacts
<1>0. guesser'[g] = to /\ OnlyMoves(g, guesser, guesser', Guessers)
  BY <1>1, <1>2 DEF OnlyMoves
<1>3. ASSUME NEW c
      PROVE  HowMany(guesser', Guessers, {c})
               = HowMany(guesser, Guessers, {c}) - One(from = c) + One(to = c)
  <2>1. HowMany(guesser', Guessers, {c}) = HowMany(guesser, Guessers, {c})
          - (IF guesser[g] \in {c} THEN 1 ELSE 0) + (IF guesser'[g] \in {c} THEN 1 ELSE 0)
    BY <1>0, <1>f, CountMove
  <2> QED
    BY <1>0, <1>1, <2>1 DEF One
<1>4. Clearing = AllGuessers => guesser[g] \in {"clear"}
  BY MailFacts, CountType DEF Clearing, AllGuessers
<1>5. Clearing' = AllGuessers => guesser'[g] \in {"clear"}
  BY MailFacts, CountType DEF Clearing, AllGuessers
<1>6. AllGuessers # 0
  BY MailFacts, FS_EmptySet DEF AllGuessers
<1>7. /\ Clearing' = Clearing - One(from = "clear") + One(to = "clear")
      /\ Counting' = Counting - One(from = "count") + One(to = "count")
      /\ Voiding' = Voiding - One(from = "void") + One(to = "void")
  BY <1>3 DEF Clearing, Counting, Voiding
<1>8. Clearing' \in Nat /\ Counting' \in Nat /\ Voiding' \in Nat
  BY MailFacts, CountType DEF Clearing, Counting, Voiding
<1> QED
  BY <1>0, <1>1, <1>4, <1>5, <1>6, <1>7, <1>8, MailFacts

(* Who stays where it is.                                                  *)
LEMMA NobodyMoves ==
  /\ sender' = sender => /\ Asked' = Asked /\ Storing' = Storing /\ Resetting' = Resetting
                         /\ Mailing' = Mailing /\ Undoing' = Undoing
  /\ guesser' = guesser => Clearing' = Clearing /\ Counting' = Counting /\ Voiding' = Voiding
  BY DEF Asked, Storing, Resetting, Mailing, Undoing, Clearing, Counting, Voiding

-----------------------------------------------------------------------------
(* What is still to come at a code.  Its counter starts again when a       *)
(* sender resets it, when a guesser clears it late, and when it is older   *)
(* than the code; a fresh start allows Uncounted guesses, and every guess  *)
(* under way one more.                                                     *)
P == verificationMaxAttempts - 1
Clears == IF Clearing = AllGuessers /\ Clearing > 0 THEN Clearing - 1 ELSE Clearing
Renewals == Clears + Resetting + One(outdated /\ Clearing # AllGuessers)
Slack == IF Clearing = AllGuessers \/ attempts = 0 THEN P
         ELSE IF attempts < P THEN P - attempts ELSE 0
Due == P * Renewals + Slack + AllGuessers
Under == Counting + Voiding
Most == Email!GuessBound + Email!FaultCost * mailFaults

Owed == Email!Cardinality(owed)

LettersAreCounted == letters + Owed <= emailDailyLimit /\ letters + Owed <= daily

(* Only a failed call lets another sender in before its time.              *)
CooldownHolds ==
  /\ Undoing <= mailFaults
  /\ Asked + Storing + Resetting + Undoing <= One(cooldown) + mailFaults
  /\ daily + Asked <= emailDailyLimit + 1 + mailFaults

CodesAreFresh ==
  /\ stored + Asked + Storing <= MaxCodes
  /\ Clearing + One(code # Email!NoCode) <= stored
  /\ code <= stored
  /\ \A c \in Email!Codes : c > stored => refused[c] = 0 /\ accepted[c] = 0

StoredGaveNothing == code # Email!NoCode => accepted[code] = 0

CountIsBounded == attempts <= P + Voiding + mailFaults

Budget ==
  /\ code # Email!NoCode /\ AllGuessers > 0 => refused[code] + Due <= Most + Under
  /\ \A c \in Email!Codes : refused[c] <= Most

MailInv ==
  /\ Email!TypeOK /\ LettersAreCounted /\ CooldownHolds /\ CodesAreFresh
  /\ StoredGaveNothing /\ Email!SingleUse /\ CountIsBounded /\ Budget

LEMMA Linear ==
  ASSUME NEW p \in Nat, NEW a \in Nat, NEW b \in Nat
  PROVE  /\ p * a \in Nat /\ p * b \in Nat /\ (a <= b => p * a <= p * b)
         /\ p * (a + 1) = p * a + p /\ p * (a + b) = p * a + p * b
<1>1. /\ p * (a + b) = p * a + p * b /\ p * a \in Nat /\ p * b \in Nat
      /\ p * (a + 1) = p * a + p
  OBVIOUS
<1>2. ASSUME a <= b PROVE p * a <= p * b
  <2>1. PICK k \in Nat : b = a + k
    <3>1. b - a \in Nat /\ b = a + (b - a)
      BY <1>2
    <3> QED
      BY <3>1
  <2>2. p * (a + k) = p * a + p * k /\ p * k \in Nat
    OBVIOUS
  <2> QED
    BY <1>1, <2>1, <2>2
<1> QED
  BY <1>1, <1>2

LEMMA MailBounds ==
  /\ P \in Nat /\ Email!FaultCost \in Nat /\ Email!FaultCost >= 1 /\ P <= Email!FaultCost
  /\ Email!Restarts \in Nat /\ Email!Restarts >= 2
  /\ P * Email!Restarts \in Nat
  /\ Email!GuessBound \in Nat
  /\ Email!GuessBound + (IF P > 0 THEN 1 ELSE 0) = P * Email!Restarts + AllGuessers
<1> USE MailFacts
<1>1. P \in Nat /\ Email!FaultCost \in Nat /\ Email!FaultCost >= 1 /\ P <= Email!FaultCost
  BY DEF P, Email!FaultCost, Email!Uncounted
<1>2. Email!Restarts \in Nat /\ Email!Restarts >= 2
  BY DEF Email!Restarts
<1>3. P * Email!Restarts \in Nat /\ P * 2 <= P * Email!Restarts
  BY <1>1, <1>2, Linear
<1>4. Email!GuessBound = P * Email!Restarts + AllGuessers - (IF P > 0 THEN 1 ELSE 0)
  BY DEF Email!GuessBound, Email!Uncounted, P
<1> DEFINE x == P * Email!Restarts
<1>5. /\ x \in Nat /\ (P > 0 => x >= 1)
      /\ Email!GuessBound = x + AllGuessers - (IF P > 0 THEN 1 ELSE 0)
  BY <1>1, <1>3, <1>4
<1> HIDE DEF x
<1>6. Email!GuessBound \in Nat /\ Email!GuessBound + (IF P > 0 THEN 1 ELSE 0) = x + AllGuessers
  <2>1. CASE P > 0
    <3>1. Email!GuessBound = x + AllGuessers - 1
      BY <1>5, <2>1
    <3> QED
      BY <1>5, <2>1, <3>1
  <2>2. CASE P = 0
    BY <1>5, <2>2
  <2> QED
    BY <1>1, <2>1, <2>2
<1> USE DEF x
<1> QED
  BY <1>1, <1>2, <1>3, <1>6

LEMMA FaultsPay ==
  ASSUME NEW n \in Nat
  PROVE  /\ P * n \in Nat /\ Email!FaultCost * n \in Nat /\ P * n <= Email!FaultCost * n
<1>1. P \in Nat
  BY MailBounds
<1>2. CASE P = 0
  <2>1. Email!FaultCost = 1 /\ P * n = 0 /\ 1 * n = n
    BY <1>2, MailFacts DEF Email!FaultCost, Email!Uncounted, P
  <2> QED
    BY <2>1
<1>3. CASE P > 0
  <2>1. Email!FaultCost = P /\ P * n \in Nat
    BY <1>1, <1>3, MailFacts, Linear DEF Email!FaultCost, Email!Uncounted, P
  <2> QED
    BY <2>1
<1> QED
  BY <1>1, <1>2, <1>3

(* The parts of what is due, now and after a step.                         *)
LEMMA DueNow ==
  ASSUME Email!TypeOK
  PROVE  /\ Renewals \in Nat /\ Slack \in 0..P /\ P * Renewals \in Nat
         /\ Due \in Nat /\ Under \in Nat
<1>1. Renewals \in Nat /\ Slack \in 0..P
  <2>1. Clears \in Nat
    BY MailCounts, MailFacts DEF Clears
  <2> QED
    BY <2>1, MailBounds, MailCounts DEF Renewals, Slack, One, Email!TypeOK
<1>2. P * Renewals \in Nat
  BY <1>1, MailBounds, Linear
<1> QED
  BY <1>1, <1>2, MailCounts, MailFacts, MailBounds DEF Due, Under

LEMMA DueNext ==
  ASSUME Email!TypeOK'
  PROVE  /\ Renewals' \in Nat /\ Slack' \in 0..P /\ P * Renewals' \in Nat
         /\ Due' \in Nat /\ Under' \in Nat
         /\ Due' = P * Renewals' + Slack' + AllGuessers
<1>1. Clearing' \in Nat /\ Resetting' \in Nat /\ Counting' \in Nat /\ Voiding' \in Nat
  BY MailFacts, CountType DEF Clearing, Resetting, Counting, Voiding
<1>2. AllGuessers' = AllGuessers /\ P' = P
  BY DEF AllGuessers, P
<1>3. PICK c \in Nat, r \in Nat, k \in Nat, v \in Nat, t \in Nat :
        c = Clearing' /\ r = Resetting' /\ k = Counting' /\ v = Voiding' /\ t = attempts'
  BY <1>1 DEF Email!TypeOK
<1>4. /\ Clears' = IF c = AllGuessers /\ c > 0 THEN c - 1 ELSE c
      /\ Renewals' = Clears' + r + One(outdated' /\ c # AllGuessers)
      /\ Slack' = IF c = AllGuessers \/ t = 0 THEN P ELSE IF t < P THEN P - t ELSE 0
      /\ Under' = k + v
  BY <1>2, <1>3, Zenon DEF Clears, Renewals, Slack, Under, One
<1>5. PICK m \in Nat : m = Clears'
  <2>1. (IF c = AllGuessers /\ c > 0 THEN c - 1 ELSE c) \in Nat
    BY MailFacts
  <2> QED
    BY <1>4, <2>1, Zenon
<1>6. PICK s \in Nat : s = Renewals'
  <2>1. m + r + One(outdated' /\ c # AllGuessers) \in Nat
    BY DEF One
  <2> QED
    BY <1>4, <1>5, <2>1, Zenon
<1>7. PICK l \in 0..P : l = Slack'
  <2>1. (IF c = AllGuessers \/ t = 0 THEN P ELSE IF t < P THEN P - t ELSE 0) \in 0..P
    BY MailBounds
  <2> QED
    BY <1>4, <2>1, Zenon
<1>8. Due' = P * s + l + AllGuessers
  BY <1>2, <1>6, <1>7, Zenon DEF Due
<1>9. P * s \in Nat /\ P * s + l + AllGuessers \in Nat /\ k + v \in Nat
  BY MailBounds, MailFacts, Linear
<1> QED
  BY <1>4, <1>6, <1>7, <1>8, <1>9, Zenon

(* What a step does to what is due, from what it does to the parts.        *)
LEMMA DueChange ==
  ASSUME Email!TypeOK, Email!TypeOK', NEW e \in Nat
  PROVE  /\ Renewals' <= Renewals /\ Slack' + Under <= Slack + Under' + e
              => Due' + Under <= Due + Under' + e
         /\ Renewals' + 1 <= Renewals /\ Slack' + Under <= P + Slack + Under' + e
              => Due' + Under <= Due + Under' + e
         /\ Renewals' <= Renewals + 1 /\ Slack' + Under + P <= Slack + Under' + e
              => Due' + Under <= Due + Under' + e
<1>1. PICK s \in Nat, t \in Nat, l \in Nat, m \in Nat, u \in Nat, v \in Nat, p \in Nat, n \in Nat :
        /\ s = Renewals /\ t = Renewals' /\ l = Slack /\ m = Slack' /\ u = Under /\ v = Under'
        /\ p = P /\ n = AllGuessers
  <2>1. /\ Renewals \in Nat /\ Slack \in Nat /\ Under \in Nat
        /\ P \in Nat /\ AllGuessers \in Nat
    BY DueNow, MailBounds, MailFacts
  <2>2. Renewals' \in Nat /\ Slack' \in Nat /\ Under' \in Nat
    BY DueNext, MailBounds
  <2> QED
    BY <2>1, <2>2
<1>2. /\ Due = p * s + l + n
      /\ Due' = p * t + m + n
  BY <1>1, DueNext, Zenon DEF Due
<1>3. PICK x \in Nat, y \in Nat : x = p * s /\ y = p * t
  BY Linear
<1>4. /\ t <= s => y <= x
      /\ t + 1 <= s => y + p <= x
      /\ t <= s + 1 => y <= x + p
  <2>1. t <= s => p * t <= p * s
    BY Linear
  <2>2. t + 1 <= s => p * (t + 1) <= p * s
    BY Linear
  <2>3. t <= s + 1 => p * t <= p * (s + 1)
    BY Linear
  <2>4. p * (t + 1) = p * t + p /\ p * (s + 1) = p * s + p
    BY Linear
  <2> QED
    BY <1>3, <2>1, <2>2, <2>3, <2>4
<1>5. /\ t <= s /\ m + u <= l + v + e => (y + m + n) + u <= (x + l + n) + v + e
      /\ t + 1 <= s /\ m + u <= p + l + v + e => (y + m + n) + u <= (x + l + n) + v + e
      /\ t <= s + 1 /\ m + u + p <= l + v + e => (y + m + n) + u <= (x + l + n) + v + e
  BY <1>4
<1> QED
  BY <1>1, <1>2, <1>3, <1>5, Zenon

LEMMA MostGrows ==
  ASSUME mailFaults \in Nat, mailFaults' \in {mailFaults, mailFaults + 1}
  PROVE  /\ Most \in Nat /\ Most' \in Nat
         /\ mailFaults' = mailFaults => Most' = Most
         /\ mailFaults' # mailFaults => Most' = Most + Email!FaultCost
<1>1. /\ Email!FaultCost * mailFaults \in Nat
      /\ Email!FaultCost * (mailFaults + 1) = Email!FaultCost * mailFaults + Email!FaultCost
  BY MailBounds, Linear
<1>2. Email!GuessBound' = Email!GuessBound /\ Email!FaultCost' = Email!FaultCost
  BY DEF Email!GuessBound, Email!FaultCost, Email!Restarts, Email!Uncounted
<1>3. CASE mailFaults' = mailFaults
  <2>1. Most' = Most
    BY <1>2, <1>3, Zenon DEF Most
  <2>2. Most \in Nat
    BY <1>1, MailBounds DEF Most
  <2> QED
    BY <1>3, <2>1, <2>2, Zenon
<1>4. CASE mailFaults' = mailFaults + 1
  <2>1. Most' = Email!GuessBound + Email!FaultCost * (mailFaults + 1)
    BY <1>2, <1>4, Zenon DEF Most
  <2>2. /\ Most \in Nat /\ Most + Email!FaultCost \in Nat
        /\ Email!GuessBound + Email!FaultCost * (mailFaults + 1) = Most + Email!FaultCost
    BY <1>1, MailBounds DEF Most
  <2>3. Most' = Most + Email!FaultCost
    BY <2>1, <2>2, Zenon
  <2>4. mailFaults' # mailFaults
    BY <1>4
  <2> QED
    BY <2>2, <2>3, <2>4, Zenon
<1> QED
  BY <1>3, <1>4

(* A step that leaves the guesses compared so far alone.                   *)
Extra == IF mailFaults' = mailFaults THEN 0 ELSE Email!FaultCost

LEMMA BudgetKept ==
  ASSUME MailInv, Email!TypeOK', refused' = refused, code' \in {code, Email!NoCode},
         mailFaults' \in {mailFaults, mailFaults + 1},
         code' = Email!NoCode \/ AllGuessers = 0 \/ Due' + Under <= Due + Under' + Extra
  PROVE  Budget'
<1>0. Email!FaultCost \in Nat /\ mailFaults \in Nat
  BY MailBounds DEF MailInv, Email!TypeOK
<1>1. PICK m \in Nat, n \in Nat, e \in Nat : m = Most /\ n = Most' /\ e = Extra /\ n = m + e
  <2>1. CASE mailFaults' = mailFaults
    <3>1. Most' = Most /\ Most \in Nat /\ Extra = 0
      BY <1>0, <2>1, MostGrows DEF Extra
    <3>2. Most = Most + 0
      BY <3>1
    <3> QED
      BY <3>1, <3>2
  <2>2. CASE mailFaults' # mailFaults
    BY <1>0, <2>2, MostGrows DEF Extra
  <2> QED
    BY <2>1, <2>2
<1>2. \A c \in Email!Codes : refused[c] \in Nat /\ refused[c] <= Most
  BY DEF MailInv, Budget, Email!TypeOK
<1>3. PICK d \in Nat, f \in Nat, u \in Nat, v \in Nat :
        d = Due /\ f = Due' /\ u = Under /\ v = Under'
  <2>1. Due \in Nat /\ Due' \in Nat /\ Under \in Nat /\ Under' \in Nat
    BY DueNow, DueNext DEF MailInv
  <2> QED
    BY <2>1, Zenon
<1>4. \A c \in Email!Codes : refused'[c] <= Most'
  <2>1. \A c \in Email!Codes : refused[c] <= n
    BY <1>1, <1>2
  <2> QED
    BY <1>1, <2>1, Zenon
<1>5. ASSUME code' # Email!NoCode, AllGuessers > 0 PROVE refused'[code'] + Due' <= Most' + Under'
  <2>1. code' = code /\ code \in Email!Codes /\ refused[code] + Due <= Most + Under
    BY <1>5 DEF MailInv, Budget, Email!TypeOK
  <2>2. PICK r \in Nat : r = refused'[code'] /\ r = refused[code]
    BY <1>2, <2>1
  <2>3. AllGuessers # 0
    BY <1>5, MailFacts
  <2>4. r + d <= m + u /\ f + u <= d + v + e
    BY <1>1, <1>3, <1>5, <2>1, <2>2, <2>3, Zenon
  <2>5. r + f <= n + v
    BY <1>1, <2>4
  <2> QED
    BY <1>1, <1>3, <2>2, <2>5, Zenon
<1>6. AllGuessers' = AllGuessers
  BY DEF AllGuessers
<1> QED
  BY <1>4, <1>5, <1>6 DEF Budget

LEMMA Parts ==
  ASSUME MailInv, Email!TypeOK', mailFaults' \in {mailFaults, mailFaults + 1}
  PROVE  \E s \in Nat, t \in Nat, l \in 0..P, m \in 0..P, u \in Nat, v \in Nat, e \in Nat :
           /\ s = Renewals /\ t = Renewals' /\ l = Slack /\ m = Slack' /\ u = Under /\ v = Under'
           /\ e = Extra /\ e \in {0, Email!FaultCost}
           /\ (mailFaults' # mailFaults => e >= 1 /\ e >= P)
<1>1. /\ Renewals \in Nat /\ Slack \in 0..P /\ Under \in Nat
      /\ Renewals' \in Nat /\ Slack' \in 0..P /\ Under' \in Nat
  BY DueNow, DueNext DEF MailInv
<1>2. /\ Extra \in Nat /\ Extra \in {0, Email!FaultCost}
      /\ (mailFaults' # mailFaults => Extra >= 1 /\ Extra >= P)
  BY MailBounds DEF Extra
<1> QED
  BY <1>1, <1>2, Zenon

LEMMA BudgetMoves ==
  ASSUME MailInv, Email!TypeOK', refused' = refused, code' \in {code, Email!NoCode},
         mailFaults' \in {mailFaults, mailFaults + 1},
         NEW s \in Nat, NEW t \in Nat, NEW l \in 0..P, NEW m \in 0..P, NEW u \in Nat,
         NEW v \in Nat, NEW e \in Nat,
         s = Renewals /\ t = Renewals' /\ l = Slack /\ m = Slack' /\ u = Under /\ v = Under'
           /\ e = Extra,
         \/ t <= s /\ m + u <= l + v + e
         \/ t + 1 <= s /\ m + u <= P + l + v + e
         \/ t <= s + 1 /\ m + u + P <= l + v + e
  PROVE  Budget'
<1>1. /\ Renewals' <= Renewals /\ Slack' + Under <= Slack + Under' + e
           => Due' + Under <= Due + Under' + e
      /\ Renewals' + 1 <= Renewals /\ Slack' + Under <= P + Slack + Under' + e
           => Due' + Under <= Due + Under' + e
      /\ Renewals' <= Renewals + 1 /\ Slack' + Under + P <= Slack + Under' + e
           => Due' + Under <= Due + Under' + e
  BY DueChange DEF MailInv
<1>2. Due' + Under <= Due + Under' + e
  BY <1>1, Zenon
<1>3. Due' + Under <= Due + Under' + Extra
  BY <1>2, Zenon
<1> QED
  BY <1>3, BudgetKept

LEMMA BudgetSame ==
  ASSUME MailInv, Email!TypeOK', refused' = refused, code' \in {code, Email!NoCode},
         mailFaults' \in {mailFaults, mailFaults + 1},
         Renewals' = Renewals, Slack' = Slack, Under' = Under
  PROVE  Budget'
<1>1. PICK s \in Nat, t \in Nat, l \in 0..P, m \in 0..P, u \in Nat, v \in Nat, e \in Nat :
           /\ s = Renewals /\ t = Renewals' /\ l = Slack /\ m = Slack' /\ u = Under /\ v = Under'
           /\ e = Extra
  BY Parts
<1>2. t <= s /\ m + u <= l + v + e
  <2>1. t = s /\ m = l /\ u = v
    BY <1>1
  <2> QED
    BY <2>1, MailBounds
<1> QED
  BY <1>1, <1>2, BudgetMoves


(* Counts at none of a request's calls, and the guesses under way.         *)
LEMMA CountOfNone ==
  ASSUME NEW S, NEW pcs, NEW A, \A s \in S : pcs[s] \notin A PROVE HowMany(pcs, S, A) = 0
<1>1. At(pcs, S, A) = {}
  BY DEF At
<1> QED
  BY <1>1, FS_EmptySet DEF HowMany

LEMMA GuessersUnder ==
  ASSUME NEW pcs
  PROVE HowMany(pcs, Guessers, {"count"}) + HowMany(pcs, Guessers, {"void"}) <= AllGuessers
<1>1. HowMany(pcs, Guessers, {"count"} \union {"void"})
        = HowMany(pcs, Guessers, {"count"}) + HowMany(pcs, Guessers, {"void"})
  BY MailFacts, CountSplit
<1>2. HowMany(pcs, Guessers, {"count"} \union {"void"}) <= AllGuessers
  BY MailFacts, CountType DEF AllGuessers
<1> QED
  BY <1>1, <1>2

-----------------------------------------------------------------------------
(* The requests counted in the present life of the daily key.              *)

LEMMA LettersKept ==
  ASSUME LettersAreCounted, letters' = letters, owed' = owed, daily' = daily
  PROVE  LettersAreCounted'
  BY DEF LettersAreCounted, Owed

LEMMA OwedType ==
  ASSUME NEW S \in SUBSET Senders PROVE IsFiniteSet(S) /\ Cardinality(S) \in Nat
  BY MailFacts, FS_Subset, FS_CardinalityType

LEMMA OwedIsCardinality ==
  Owed = Cardinality(owed) /\ Owed' = Cardinality(owed')
  BY DEF Owed, Cardinality, Email!Cardinality

(* A mail handed over, or given up, was owed before.                       *)
LEMMA LettersSettled ==
  ASSUME Email!TypeOK, LettersAreCounted, NEW s \in Senders,
         owed' \in {owed, owed \ {s}}, daily' \in {daily, daily + 1},
         letters' = letters
           \/ (letters' = letters + (IF s \in owed THEN 1 ELSE 0) /\ owed' = owed \ {s})
  PROVE  LettersAreCounted'
<1>1. owed \in SUBSET Senders /\ letters \in Nat /\ daily \in Nat
  BY DEF Email!TypeOK
<1>2. Cardinality(owed) \in Nat /\ Cardinality(owed \ {s}) \in Nat
  BY <1>1, OwedType
<1>3. Cardinality(owed \ {s}) = IF s \in owed THEN Cardinality(owed) - 1 ELSE Cardinality(owed)
  BY <1>1, OwedType, FS_RemoveElement
<1>4. letters' + Cardinality(owed') <= letters + Cardinality(owed)
  <2>1. CASE owed' = owed \ {s}
    BY <1>1, <1>2, <1>3, <2>1
  <2>2. CASE owed' = owed /\ letters' = letters
    BY <1>1, <1>2, <2>2
  <2> QED
    BY <2>1, <2>2
<1>5. letters' + Cardinality(owed') \in Nat
  BY <1>1, <1>2
<1>6. /\ letters + Cardinality(owed) <= emailDailyLimit
      /\ letters + Cardinality(owed) <= daily
  BY OwedIsCardinality DEF LettersAreCounted
<1>7. /\ letters' + Cardinality(owed') <= emailDailyLimit
      /\ letters' + Cardinality(owed') <= daily'
  <2>1. PICK a \in Nat, b \in Nat : a = letters' + Cardinality(owed') /\ b = letters + Cardinality(owed)
    BY <1>1, <1>2, <1>5
  <2> QED
    BY <1>1, <1>4, <1>6, <2>1, MailFacts
<1> QED
  BY <1>7, OwedIsCardinality DEF LettersAreCounted

(* A request is owed a mail when its count is within the limit.            *)
LEMMA LettersOwed ==
  ASSUME Email!TypeOK, LettersAreCounted, NEW s \in Senders, letters' = letters,
         owed' \in {owed, owed \union {s}}, daily' = daily + 1,
         owed' # owed => daily + 1 <= emailDailyLimit
  PROVE  LettersAreCounted'
<1>1. owed \in SUBSET Senders /\ letters \in Nat /\ daily \in Nat
  BY DEF Email!TypeOK
<1>2. Cardinality(owed) \in Nat
  BY <1>1, OwedType
<1>3. Cardinality(owed \union {s}) = IF s \in owed THEN Cardinality(owed) ELSE Cardinality(owed) + 1
  BY <1>1, OwedType, FS_AddElement
<1>4. /\ letters + Cardinality(owed) <= emailDailyLimit
      /\ letters + Cardinality(owed) <= daily
  BY OwedIsCardinality DEF LettersAreCounted
<1>5. /\ letters' + Cardinality(owed') <= emailDailyLimit
      /\ letters' + Cardinality(owed') <= daily'
  <2>1. CASE owed' = owed
    BY <1>1, <1>2, <1>4, <2>1, MailFacts
  <2>2. CASE owed' # owed
    BY <1>1, <1>2, <1>3, <1>4, <2>2, MailFacts
  <2> QED
    BY <2>1, <2>2
<1> QED
  BY <1>5, OwedIsCardinality DEF LettersAreCounted

-----------------------------------------------------------------------------
(* The calls of the senders.                                               *)

(* Nobody enters, and faults only grow.                                    *)
LEMMA CooldownKept ==
  ASSUME MailInv, mailFaults' \in {mailFaults, mailFaults + 1}, cooldown' \in {cooldown, TRUE},
         Asked' \in Nat, Storing' \in Nat, Resetting' \in Nat, Undoing' \in Nat, daily' \in Nat,
         Asked' + Storing' + Resetting' <= Asked + Storing + Resetting, Undoing' <= Undoing,
         daily' + Asked' <= daily + Asked
  PROVE  CooldownHolds'
<1>1. PICK a \in Nat, b \in Nat, c \in Nat, d \in Nat, n \in Nat, e \in Nat, o \in 0..1 :
        /\ a = Asked /\ b = Storing /\ c = Resetting /\ d = Undoing /\ n = mailFaults /\ e = daily
        /\ o = One(cooldown)
  <2>1. One(cooldown) \in 0..1 /\ mailFaults \in Nat /\ daily \in Nat
    BY MailFacts DEF One, MailInv, Email!TypeOK
  <2> QED
    BY <2>1, MailCounts, Zenon
<1>2. PICK a1 \in Nat, b1 \in Nat, c1 \in Nat, d1 \in Nat, n1 \in Nat, e1 \in Nat, o1 \in 0..1 :
        /\ a1 = Asked' /\ b1 = Storing' /\ c1 = Resetting' /\ d1 = Undoing' /\ n1 = mailFaults'
        /\ e1 = daily' /\ o1 = One(cooldown')
  <2>1. One(cooldown') \in 0..1 /\ mailFaults' \in Nat
    BY <1>1 DEF One
  <2> QED
    BY <2>1, Zenon
<1>3. n <= n1 /\ o <= o1
  <2>1. n1 \in {n, n + 1}
    BY <1>1, <1>2, Zenon
  <2>2. o = 1 => o1 = 1
    <3>1. cooldown => cooldown' = TRUE
      BY DEF MailInv, Email!TypeOK
    <3>2. o = 1 <=> cooldown
      BY <1>1 DEF One
    <3>3. cooldown' = TRUE => One(cooldown') = 1
      BY DEF One
    <3> QED
      BY <1>2, <3>1, <3>2, <3>3
  <2> QED
    BY <2>1, <2>2
<1>4. /\ d <= n /\ a + b + c + d <= o + n /\ e + a <= emailDailyLimit + 1 + n
  BY <1>1, Zenon DEF MailInv, CooldownHolds
<1>5. /\ a1 + b1 + c1 <= a + b + c /\ d1 <= d /\ e1 + a1 <= e + a
  BY <1>1, <1>2, Zenon
<1>6. /\ d1 <= n1 /\ a1 + b1 + c1 + d1 <= o1 + n1 /\ e1 + a1 <= emailDailyLimit + 1 + n1
  BY <1>3, <1>4, <1>5, MailFacts
<1> QED
  BY <1>2, <1>6, Zenon DEF CooldownHolds

LEMMA CountKept ==
  ASSUME MailInv, mailFaults' \in {mailFaults, mailFaults + 1}, attempts' \in {attempts, 0},
         Voiding' = Voiding
  PROVE  CountIsBounded'
<1>1. PICK a \in Nat, v \in Nat, n \in Nat, p \in Nat :
        a = attempts /\ v = Voiding /\ n = mailFaults /\ p = P
  BY MailCounts, MailBounds, MailFacts DEF MailInv, Email!TypeOK
<1>2. a <= p + v + n
  BY <1>1, Zenon DEF MailInv, CountIsBounded
<1>3. PICK a1 \in {a, 0}, n1 \in {n, n + 1} : a1 = attempts' /\ n1 = mailFaults'
  BY <1>1
<1>4. a1 <= p + v + n1
  <2>1. a1 \in Nat /\ a1 <= a /\ n1 \in Nat /\ n <= n1
    BY <1>3
  <2> QED
    BY <1>2, <2>1
<1>5. P' = P
  BY DEF P
<1> QED
  BY <1>1, <1>3, <1>4, <1>5, Zenon DEF CountIsBounded

(* A call fails and the request is given up.                               *)
LEMMA SenderFailsMailed ==
  ASSUME MailInv, NEW s \in Senders, NEW from \in {"idle", "daily", "store", "reset", "undo"},
         Email!Send(s, from, "idle"),
         mailFaults < MaxFaults, mailFaults' = mailFaults + 1,
         cooldown' \in {cooldown, TRUE},
         daily' \in {daily, daily + 1}, from # "daily" => daily' = daily,
         owed' \in {owed, owed \ {s}},
         UNCHANGED <<code, attempts, outdated, guesser, stored, refused, accepted, letters>>
  PROVE  MailInv'
<1>0. /\ Asked' = Asked - One(from = "daily") /\ Storing' <= Storing /\ Resetting' <= Resetting
      /\ Undoing' <= Undoing
      /\ Asked' \in Nat /\ Storing' \in Nat /\ Resetting' \in Nat /\ Undoing' \in Nat
      /\ Clearing' = Clearing /\ Counting' = Counting /\ Voiding' = Voiding
  BY SenderMoves, NobodyMoves, MailCounts DEF MailInv, One
<1>1. Email!TypeOK'
  <2>1. sender' \in [Senders -> {"idle", "daily", "store", "reset", "mail", "undo"}]
    BY DEF MailInv, Email!TypeOK, Email!Send
  <2>2. mailFaults' \in 0..MaxFaults
    BY MailFacts DEF MailInv, Email!TypeOK
  <2>3. daily' \in 0..(emailDailyLimit + 1 + MaxFaults)
    BY <1>0, MailCounts, MailFacts DEF MailInv, CooldownHolds, Email!TypeOK, One
  <2>4. cooldown' \in BOOLEAN /\ owed' \in SUBSET Senders
    BY DEF MailInv, Email!TypeOK
  <2> QED
    BY <2>1, <2>2, <2>3, <2>4 DEF MailInv, Email!TypeOK
<1>2. LettersAreCounted'
  BY LettersSettled DEF MailInv
<1>3. CooldownHolds'
  <2>0. Asked \in Nat /\ Storing \in Nat /\ Resetting \in Nat /\ Undoing \in Nat
    BY MailCounts
  <2>1. Asked' + Storing' + Resetting' <= Asked + Storing + Resetting /\ Undoing' <= Undoing
    <3>1. Asked' \in Nat /\ Asked' <= Asked
      BY <1>0, <2>0 DEF One
    <3>2. Asked' <= Asked /\ Storing' <= Storing /\ Resetting' <= Resetting /\ Undoing' <= Undoing
      BY <1>0, <3>1
    <3> QED
      BY <1>0, <2>0, <3>2
  <2>2. daily \in Nat /\ daily' \in Nat /\ daily' + Asked' <= daily + Asked
    <3>1. daily \in Nat
      BY MailFacts DEF MailInv, Email!TypeOK
    <3>2. CASE from = "daily"
      <4>1. Asked' = Asked - 1
        BY <1>0, <3>2 DEF One
      <4>2. CASE daily' = daily
        BY <2>0, <3>1, <4>1, <4>2
      <4>3. CASE daily' = daily + 1
        BY <2>0, <3>1, <4>1, <4>3
      <4> QED
        BY <4>2, <4>3
    <3>3. CASE from # "daily"
      <4>1. One(from = "daily") = 0 /\ daily' = daily
        BY <3>3 DEF One
      <4>2. Asked' = Asked
        BY <1>0, <2>0, <4>1
      <4>3. daily + Asked <= daily + Asked
        BY <2>0, <3>1
      <4>4. daily' + Asked' <= daily + Asked
        BY <4>1, <4>2, <4>3
      <4>5. daily' \in Nat
        BY <3>1, <4>1
      <4> QED
        BY <3>1, <4>4, <4>5
    <3> QED
      BY <3>2, <3>3
  <2>3. Asked' \in Nat /\ Storing' \in Nat /\ Resetting' \in Nat /\ Undoing' \in Nat
    BY <1>0, MailCounts
  <2> QED
    BY <2>1, <2>2, <2>3, CooldownKept
<1>4. CodesAreFresh'
  <2>1. stored' + Asked' + Storing' <= MaxCodes
    <3>1. stored \in Nat /\ stored' = stored /\ stored + Asked + Storing <= MaxCodes
      BY DEF MailInv, CodesAreFresh, Email!TypeOK
    <3>2. Asked' <= Asked
      BY <1>0, MailCounts DEF One
    <3> QED
      BY <1>0, <3>1, <3>2, MailCounts, MailFacts
  <2>2. Clearing' + One(code' # Email!NoCode) <= stored'
    BY <1>0 DEF MailInv, CodesAreFresh, One
  <2> QED
    BY <2>1, <2>2 DEF MailInv, CodesAreFresh, Email!Codes
<1>5. StoredGaveNothing'
  BY DEF MailInv, StoredGaveNothing
<1>6. Email!SingleUse'
  BY DEF MailInv, Email!SingleUse, Email!Codes
<1>7. CountIsBounded'
  BY <1>0, CountKept
<1>8. Budget'
  <2>1. PICK s1 \in Nat, t \in Nat, l \in 0..P, m \in 0..P, u \in Nat, v \in Nat, e \in Nat :
           /\ s1 = Renewals /\ t = Renewals' /\ l = Slack /\ m = Slack' /\ u = Under /\ v = Under'
           /\ e = Extra /\ e \in {0, Email!FaultCost}
           /\ (mailFaults' # mailFaults => e >= 1 /\ e >= P)
    <3>1. mailFaults' \in {mailFaults, mailFaults + 1}
      OBVIOUS
    <3> QED
      BY <1>1, <3>1, Parts, Zenon
  <2>2. t <= s1 /\ m = l
    <3>1. Renewals' <= Renewals /\ Slack' = Slack
      <4>1. Clears' = Clears /\ Slack' = Slack
        BY <1>0 DEF Clears, Slack, P, AllGuessers
      <4>2. One(outdated' /\ Clearing' # AllGuessers') = One(outdated /\ Clearing # AllGuessers)
        BY <1>0 DEF AllGuessers
      <4>3. PICK o \in 0..1, c \in Nat :
              o = One(outdated /\ Clearing # AllGuessers) /\ c = Clears
        BY MailCounts DEF Clears, One
      <4>4. Renewals' = c + Resetting' + o /\ Renewals = c + Resetting + o
        BY <4>1, <4>2, <4>3, Zenon DEF Renewals
      <4> QED
        BY <1>0, <4>1, <4>3, <4>4, MailCounts
    <3> QED
      BY <2>1, <3>1, Zenon
  <2>3. u = v
    BY <1>0, <2>1 DEF Under
  <2>4. m + u <= l + v + e
    BY <2>2, <2>3, MailBounds
  <2> QED
    BY <1>1, <2>1, <2>2, <2>4, BudgetMoves
<1> QED
  BY <1>1, <1>2, <1>3, <1>4, <1>5, <1>6, <1>7, <1>8 DEF MailInv

LEMMA AskedMailed ==
  ASSUME MailInv, NEW s \in Senders, Email!Ask(s), Email!Send(s, "idle", "daily"),
         mailFaults' = mailFaults
  PROVE  MailInv'
<1>0. /\ Asked' = Asked + 1 /\ Storing' = Storing /\ Resetting' = Resetting
      /\ Mailing' = Mailing /\ Undoing' = Undoing
      /\ Clearing' = Clearing /\ Counting' = Counting /\ Voiding' = Voiding
  <2>1. Email!Send(s, "idle", "daily") /\ guesser' = guesser
    BY DEF Email!Ask
  <2> QED
    BY <2>1, SenderMoves, NobodyMoves, MailCounts DEF MailInv, One
<1>a. stored + Asked + Storing < MaxCodes
  <2>0. stored + Email!Cardinality({t \in Senders : sender[t] \in {"daily", "store"}}) < MaxCodes
    BY DEF Email!Ask
  <2>1. {t \in Senders : sender[t] \in {"daily", "store"}}
          = At(sender, Senders, {"daily"} \union {"store"})
    BY DEF At
  <2>2. HowMany(sender, Senders, {"daily"} \union {"store"}) = Asked + Storing
    BY MailFacts, CountSplit DEF Asked, Storing
  <2>3. Email!Cardinality(At(sender, Senders, {"daily"} \union {"store"}))
          = HowMany(sender, Senders, {"daily"} \union {"store"})
    BY DEF HowMany, Cardinality, Email!Cardinality
  <2>4. Email!Cardinality({t \in Senders : sender[t] \in {"daily", "store"}}) = Asked + Storing
    BY <2>1, <2>2, <2>3, Zenon
  <2> QED
    BY <2>0, <2>4, MailCounts DEF MailInv, Email!TypeOK
<1>1. Email!TypeOK'
  BY DEF MailInv, Email!TypeOK, Email!Ask, Email!Send, Email!keys, Email!histories
<1>2. LettersAreCounted'
  BY LettersKept DEF MailInv, Email!Ask, Email!keys, Email!histories
<1>3. CooldownHolds'
  BY <1>0, MailCounts, MailFacts DEF MailInv, Email!TypeOK, One, Email!Ask, Email!Send,
     Email!keys, Email!histories, CooldownHolds
<1>4. CodesAreFresh'
  BY <1>0, <1>a, MailCounts, MailFacts DEF MailInv, Email!TypeOK, One, Email!Ask,
     Email!keys, Email!histories, CodesAreFresh, Email!Codes, Email!NoCode
<1>5. StoredGaveNothing'
  BY <1>0, MailCounts, MailFacts DEF MailInv, Email!TypeOK, One, Email!Ask, Email!Send,
     Email!keys, Email!histories, StoredGaveNothing, Email!NoCode, Email!Codes,
     CodesAreFresh
<1>6. Email!SingleUse'
  BY <1>0, MailCounts, MailFacts DEF MailInv, Email!TypeOK, One, Email!Ask, Email!Send,
     Email!keys, Email!histories, Email!SingleUse, StoredGaveNothing, Email!Codes,
     Email!NoCode
<1>7. CountIsBounded'
  BY <1>0, MailCounts, MailFacts DEF MailInv, Email!TypeOK, One, Email!Ask, Email!Send,
     Email!keys, Email!histories, CountIsBounded, P
<1>8. Budget'
  <2>1. Renewals' = Renewals /\ Slack' = Slack /\ Under' = Under
    BY <1>0 DEF Email!Ask, Email!Send, Email!keys, Email!histories, Renewals, Clears, Slack,
       Under, One, P, AllGuessers
  <2> QED
    BY <1>1, <2>1, BudgetSame DEF Email!Ask, Email!Send, Email!keys, Email!histories,
       MailInv, Email!TypeOK
<1> QED
  BY <1>1, <1>2, <1>3, <1>4, <1>5, <1>6, <1>7, <1>8 DEF MailInv

LEMMA AskMailed ==
  ASSUME MailInv, NEW s \in Senders, Email!Ask(s) PROVE MailInv'
<1>1. CASE Email!Send(s, "idle", "daily") /\ mailFaults' = mailFaults
  BY <1>1, AskedMailed
<1>2. CASE Email!Send(s, "idle", "idle") /\ Email!Fault
  BY <1>2, SenderFailsMailed DEF Email!Ask, Email!Fault, Email!histories
<1> QED
  BY <1>1, <1>2 DEF Email!Ask

LEMMA CountedMailed ==
  ASSUME MailInv, NEW s \in Senders, daily' = daily + 1,
         Email!Send(s, "daily", IF Email!OverDaily THEN "idle" ELSE "store"),
         owed' = IF Email!OverDaily THEN owed ELSE owed \union {s},
         UNCHANGED <<code, cooldown, attempts, outdated, guesser, stored, refused, accepted,
                     letters, mailFaults>>
  PROVE  MailInv'
<1>0. /\ Asked' = Asked - 1 /\ Asked >= 1 /\ Storing' = Storing + One(~Email!OverDaily) /\ Resetting' = Resetting
      /\ Mailing' = Mailing /\ Undoing' = Undoing
      /\ Clearing' = Clearing /\ Counting' = Counting /\ Voiding' = Voiding
  <2>1. Email!Send(s, "daily", IF Email!OverDaily THEN "idle" ELSE "store") /\ guesser' = guesser
    OBVIOUS
  <2>2. CASE Email!OverDaily
    <3>1. Email!Send(s, "daily", "idle")
      BY <2>1, <2>2
    <3> QED
      BY <2>1, <2>2, <3>1, SenderMoves, NobodyMoves, MailCounts DEF MailInv, One
  <2>3. CASE ~Email!OverDaily
    <3>1. Email!Send(s, "daily", "store")
      BY <2>1, <2>3
    <3> QED
      BY <2>1, <2>3, <3>1, SenderMoves, NobodyMoves, MailCounts DEF MailInv, One
  <2> QED
    BY <2>2, <2>3
<1>1. Email!TypeOK'
  <2>1. daily + 1 \in 0..(emailDailyLimit + 1 + MaxFaults)
    BY <1>0, MailCounts, MailFacts DEF MailInv, CooldownHolds, Email!TypeOK
  <2>2. sender' \in [Senders -> {"idle", "daily", "store", "reset", "mail", "undo"}]
    BY DEF MailInv, Email!TypeOK, Email!Send
  <2>3. owed' \in SUBSET Senders
    BY DEF MailInv, Email!TypeOK
  <2> QED
    BY <2>1, <2>2, <2>3 DEF MailInv, Email!TypeOK
<1>2. LettersAreCounted'
  <2>1. daily \in Nat
    BY DEF MailInv, Email!TypeOK
  <2>2. owed' # owed => daily + 1 <= emailDailyLimit
    BY <2>1, MailFacts DEF Email!OverDaily
  <2> QED
    BY <2>2, LettersOwed DEF MailInv
<1>3. CooldownHolds'
  BY <1>0, MailCounts, MailFacts DEF MailInv, Email!TypeOK, One, Email!OverDaily, Email!Send, Email!keys, Email!histories, CooldownHolds
<1>4. CodesAreFresh'
  BY <1>0, MailCounts, MailFacts DEF MailInv, Email!TypeOK, One, Email!OverDaily, Email!Send, Email!keys, Email!histories, CodesAreFresh, Email!Codes,
     Email!NoCode
<1>5. StoredGaveNothing'
  BY <1>0, MailCounts, MailFacts DEF MailInv, Email!TypeOK, One, Email!OverDaily, Email!Send, Email!keys, Email!histories, StoredGaveNothing,
     Email!NoCode, Email!Codes, CodesAreFresh
<1>6. Email!SingleUse'
  BY <1>0, MailCounts, MailFacts DEF MailInv, Email!TypeOK, One, Email!OverDaily, Email!Send, Email!keys, Email!histories, Email!SingleUse,
     StoredGaveNothing, Email!Codes, Email!NoCode
<1>7. CountIsBounded'
  BY <1>0, MailCounts, MailFacts DEF MailInv, Email!TypeOK, One, Email!OverDaily, Email!Send, Email!keys, Email!histories, CountIsBounded, P
<1>8. Budget'
  <2>1. Renewals' = Renewals /\ Slack' = Slack /\ Under' = Under
    BY <1>0 DEF Email!OverDaily, Email!Send, Email!keys, Email!histories,
       Renewals, Clears, Slack, Under, One, P, AllGuessers
  <2> QED
    BY <1>1, <2>1, BudgetSame DEF Email!OverDaily, Email!Send, Email!keys,
       Email!histories, MailInv, Email!TypeOK
<1> QED
  BY <1>1, <1>2, <1>3, <1>4, <1>5, <1>6, <1>7, <1>8 DEF MailInv

LEMMA CountDailyMailed ==
  ASSUME MailInv, NEW s \in Senders, Email!CountDaily(s) PROVE MailInv'
<1>1. CASE mailFaults' = mailFaults
  BY <1>1, CountedMailed DEF Email!CountDaily, Email!Fault, MailInv, Email!TypeOK
<1>2. CASE Email!Send(s, "daily", "idle") /\ Email!Fault /\ daily' \in {daily, daily + 1} /\ owed' = owed
  BY <1>2, SenderFailsMailed DEF Email!CountDaily, Email!Fault
<1> QED
  BY <1>1, <1>2 DEF Email!CountDaily

LEMMA NewCodeMailed ==
  ASSUME MailInv, NEW s \in Senders, NEW to \in {"reset", "idle"}, Email!Send(s, "store", to),
         Email!NewCode,
         mailFaults' \in {mailFaults, mailFaults + 1}, mailFaults' <= MaxFaults,
         owed' \in {owed, owed \ {s}},
         UNCHANGED <<cooldown, attempts, daily, guesser, refused, accepted, letters>>
  PROVE  MailInv'
<1>0. /\ Asked' = Asked /\ Storing' = Storing - 1 /\ Storing >= 1 /\ Resetting' <= Resetting + 1
      /\ Resetting' \in Nat /\ Undoing' = Undoing
      /\ Clearing' = Clearing /\ Counting' = Counting /\ Voiding' = Voiding
  <2>1. Email!Send(s, "store", to) /\ guesser' = guesser
    OBVIOUS
  <2> QED
    BY <2>1, SenderMoves, NobodyMoves, MailCounts DEF MailInv, One
<1>s. /\ stored \in Nat /\ stored + 1 \in Email!Codes /\ stored + 1 # Email!NoCode
      /\ refused[stored + 1] = 0 /\ accepted[stored + 1] = 0
  <2>1. stored \in Nat /\ stored + Asked + Storing <= MaxCodes
    BY DEF MailInv, CodesAreFresh, Email!TypeOK
  <2>2. stored + 1 \in Email!Codes /\ stored + 1 # Email!NoCode /\ stored + 1 > stored
    BY <1>0, <2>1, MailCounts, MailFacts DEF Email!Codes, Email!NoCode
  <2> QED
    BY <2>1, <2>2 DEF MailInv, CodesAreFresh
<1>1. Email!TypeOK'
  <2>1. stored + 1 \in 0..MaxCodes
    BY <1>s, MailFacts DEF Email!Codes
  <2>2. sender' \in [Senders -> {"idle", "daily", "store", "reset", "mail", "undo"}]
    BY DEF MailInv, Email!TypeOK, Email!Send
  <2>3. owed' \in SUBSET Senders /\ mailFaults' \in 0..MaxFaults
    BY MailFacts DEF MailInv, Email!TypeOK
  <2> QED
    BY <1>s, <2>1, <2>2, <2>3 DEF MailInv, Email!TypeOK, Email!NewCode
<1>2. LettersAreCounted'
  BY LettersSettled DEF MailInv, Email!TypeOK
<1>3. CooldownHolds'
  <2>1. Asked' + Storing' + Resetting' <= Asked + Storing + Resetting /\ Undoing' <= Undoing
    <3>1. Asked \in Nat /\ Storing \in Nat /\ Resetting \in Nat /\ Undoing \in Nat
      BY MailCounts
    <3>2. ASSUME NEW a \in Nat, NEW b \in Nat, NEW c \in Nat, NEW c1 \in Nat, c1 <= c + 1, b >= 1
          PROVE  a + (b - 1) + c1 <= a + b + c
      BY <3>2
    <3>3. Asked + (Storing - 1) + Resetting' <= Asked + Storing + Resetting
      BY <1>0, <3>1, <3>2
    <3>4. Undoing <= Undoing
      BY <3>1
    <3> QED
      BY <1>0, <3>3, <3>4, Zenon
  <2>2. daily \in Nat /\ daily' \in Nat /\ daily' + Asked' <= daily + Asked
    BY <1>0, <1>1, MailCounts, MailFacts DEF MailInv, Email!TypeOK, One
  <2>3. Asked' \in Nat /\ Storing' \in Nat /\ Resetting' \in Nat /\ Undoing' \in Nat
    BY <1>0, MailCounts
  <2> QED
    BY <2>1, <2>2, <2>3, CooldownKept
<1>4. CodesAreFresh'
  BY <1>0, MailCounts, MailFacts DEF MailInv, Email!TypeOK, One, Email!NewCode, Email!Send,
     Email!keys, Email!histories, CodesAreFresh, Email!Codes, Email!NoCode
<1>5. StoredGaveNothing'
  BY <1>s DEF MailInv, Email!NewCode, StoredGaveNothing
<1>6. Email!SingleUse'
  BY <1>0, MailCounts, MailFacts DEF MailInv, Email!TypeOK, One, Email!NewCode, Email!Send,
     Email!keys, Email!histories, Email!SingleUse, StoredGaveNothing, Email!Codes,
     Email!NoCode
<1>7. CountIsBounded'
  BY <1>0, CountKept
<1>8. Budget'
  <2>0. mailFaults \in Nat /\ refused' = refused /\ code' = stored + 1
    BY DEF Email!NewCode, MailInv, Email!TypeOK
  <2>1. Most \in Nat /\ Most' \in Nat /\ Most <= Most'
    BY <2>0, MostGrows, MailBounds
  <2>2. AllGuessers' = AllGuessers
    BY DEF AllGuessers
  <2>3. \A c \in Email!Codes : refused'[c] <= Most'
    BY <2>0, <2>1 DEF Budget, MailInv, Email!TypeOK
  <2>4. ASSUME AllGuessers > 0 PROVE Due' <= Most' + Under'
    <3>1. PICK c \in Nat, r \in Nat, l \in Nat, n \in Nat, f \in Nat, u \in Nat, x \in Nat, z \in Nat, o \in 0..1 :
            /\ c = Clears /\ r = Resetting /\ l = Slack /\ n = AllGuessers /\ f = mailFaults /\ u = Under
            /\ x = Email!Restarts /\ z = Renewals' /\ o = One(attempts > 0 /\ Clearing # AllGuessers)
      <4>1. Clears \in Nat /\ Resetting \in Nat /\ AllGuessers \in Nat /\ Email!Restarts \in Nat
        BY MailCounts, MailFacts, MailBounds DEF Clears
      <4>2. Slack \in Nat /\ Under \in Nat /\ Renewals' \in Nat
        BY <1>1, DueNow, DueNext, MailBounds DEF MailInv
      <4>3. One(attempts > 0 /\ Clearing # AllGuessers) \in 0..1
        BY DEF One
      <4> QED
        BY <2>0, <4>1, <4>2, <4>3, Zenon
    <3>2. c + 3 <= x
      <4>1. Clearing + 1 <= MaxCodes
        BY <1>0, MailCounts, MailFacts DEF MailInv, CodesAreFresh, One, Email!TypeOK
      <4>2. Clearing <= AllGuessers
        BY MailCounts, MailFacts
      <4>3. Clears + 3 <= Email!Restarts
        BY <2>4, <4>1, <4>2, MailCounts, MailFacts DEF Email!Restarts, Clears
      <4> QED
        BY <3>1, <4>3, Zenon
    <3>3. r <= f
      <4>1. Resetting <= mailFaults
        BY <1>0, MailCounts DEF MailInv, CooldownHolds, One, Email!TypeOK
      <4> QED
        BY <3>1, <4>1, Zenon
    <3>4. /\ z <= c + (r + 1) + o /\ Under' = u /\ Slack' = l
          /\ Due' = P * z + l + n /\ Most = Email!GuessBound + Email!FaultCost * f
      <4>1. Clears' = Clears /\ Under' = Under /\ Slack' = Slack
        BY <1>0, <2>2 DEF Clears, Under, Slack, P
      <4>2. Resetting' <= Resetting + 1 /\ outdated' = (attempts > 0) /\ Clearing' = Clearing
        BY <1>0 DEF Email!NewCode
      <4>3. z <= c + (r + 1) + o
        <5>1. Renewals' = Clears + Resetting' + One(attempts > 0 /\ Clearing # AllGuessers)
          BY <2>2, <4>1, <4>2, Zenon DEF Renewals
        <5>2. PICK k \in Nat : k = Resetting'
          BY <1>0
        <5>3. z = c + k + o
          BY <3>1, <5>1, <5>2, Zenon
        <5>4. k <= r + 1
          BY <3>1, <4>2, <5>2, Zenon
        <5> QED
          BY <5>3, <5>4
      <4>4. Due' = P * Renewals' + Slack' + AllGuessers
        BY <1>1, DueNext
      <4>5. Most = Email!GuessBound + Email!FaultCost * mailFaults
        BY DEF Most
      <4> QED
        BY <3>1, <4>1, <4>3, <4>4, <4>5, Zenon
    <3>5. o = 1 /\ P > 0 => l + 1 <= P
      <4>1. ASSUME o = 1, P > 0 PROVE Slack + 1 <= P
        <5>1. attempts > 0 /\ Clearing # AllGuessers /\ attempts \in Nat
          BY <3>1, <4>1, MailFacts DEF One, MailInv, Email!TypeOK
        <5> QED
          BY <4>1, <5>1, MailBounds DEF Slack
      <4> QED
        BY <3>1, <4>1
    <3>6. PICK g \in Nat, b \in Nat, d \in Nat, p \in Nat :
            g = Email!GuessBound /\ b = P * x /\ d = Email!FaultCost * f /\ p = P
      <4>1. P * x \in Nat /\ Email!FaultCost * f \in Nat
        BY <3>1, FaultsPay, MailBounds, Linear
      <4> QED
        BY <4>1, MailBounds, Zenon
    <3>7. p * f <= d /\ p * f \in Nat /\ g + (IF p > 0 THEN 1 ELSE 0) = b + n /\ b = p * x
      <4>1. Email!GuessBound + (IF P > 0 THEN 1 ELSE 0) = P * Email!Restarts + AllGuessers
        BY MailBounds
      <4>2. P * f <= Email!FaultCost * f /\ P * f \in Nat
        BY FaultsPay
      <4> QED
        BY <3>1, <3>6, <4>1, <4>2, Zenon
    <3>8. p * z + p + p <= b + p * f + (IF o = 1 THEN p ELSE 0) /\ p * z \in Nat
      <4>2. CASE o = 0
        <5>1. z + 1 + 1 <= x + f
          BY <3>2, <3>3, <3>4, <4>2
        <5>2. p * (z + 1 + 1) <= p * (x + f)
          BY <5>1, Linear
        <5>3. p * (z + 1 + 1) = p * (z + 1) + p /\ p * (z + 1) = p * z + p /\ p * z \in Nat
          BY Linear
        <5>4. p * (x + f) = b + p * f
          BY <3>7, Linear
        <5> QED
          BY <3>7, <4>2, <5>2, <5>3, <5>4
      <4>3. CASE o = 1
        <5>1. z + 1 <= x + f
          BY <3>2, <3>3, <3>4, <4>3
        <5>2. p * (z + 1) <= p * (x + f)
          BY <5>1, Linear
        <5>3. p * (z + 1) = p * z + p /\ p * z \in Nat
          BY Linear
        <5>4. p * (x + f) = b + p * f
          BY <3>7, Linear
        <5> QED
          BY <3>7, <4>3, <5>2, <5>3, <5>4
      <4> QED
        BY <4>2, <4>3
    <3>9. p * z + l + n <= g + d + u
      <4>1. PICK y \in Nat, w \in Nat : y = p * z /\ w = p * f
        BY <3>7, <3>8
      <4>2. y + p + p <= b + w + (IF o = 1 THEN p ELSE 0) /\ w <= d /\ l <= p
        <5>1. Slack <= P
          BY DueNow, MailBounds DEF MailInv
        <5> QED
          BY <3>1, <3>6, <3>7, <3>8, <4>1, <5>1
      <4>3. ASSUME p = 0 PROVE y + l + n <= g + d + u
        <5>1. g = b + n
          BY <3>7, <4>3
        <5>2. y <= b + w /\ l = 0
          BY <4>2, <4>3
        <5> QED
          BY <4>2, <5>1, <5>2
      <4>4. ASSUME p > 0, o = 1 PROVE y + l + n <= g + d + u
        <5>1. l + 1 <= p /\ g + 1 = b + n
          BY <3>5, <3>6, <3>7, <4>4
        <5>2. y + p <= b + w
          BY <4>2, <4>4
        <5> QED
          BY <4>2, <5>1, <5>2
      <4>5. ASSUME p > 0, o = 0 PROVE y + l + n <= g + d + u
        <5>1. g + 1 = b + n
          BY <3>7, <4>5
        <5>2. y + p + p <= b + w
          BY <4>2, <4>5
        <5> QED
          BY <4>2, <4>5, <5>1, <5>2
      <4>6. y + l + n <= g + d + u
        BY <4>3, <4>4, <4>5
      <4> QED
        BY <4>1, <4>6, Zenon
    <3> QED
      <4>1. Due' <= Most + Under'
        BY <3>4, <3>6, <3>1, <3>9, Zenon
      <4>2. PICK k \in Nat, j \in Nat, a \in Nat, b1 \in Nat :
              k = Due' /\ j = Under' /\ a = Most /\ b1 = Most'
        BY <1>1, <2>1, <3>4, DueNext
      <4>3. k <= b1 + j
        <5>1. a <= b1 /\ k <= a + j
          BY <2>1, <4>1, <4>2, Zenon
        <5> QED
          BY <5>1
      <4> QED
        BY <4>2, <4>3, Zenon
  <2>5. ASSUME AllGuessers > 0 PROVE refused'[code'] + Due' <= Most' + Under'
    <3>1. refused'[code'] = 0
      BY <1>s, <2>0, Zenon
    <3>2. PICK k \in Nat : k = Due'
      BY <1>1, DueNext
    <3>3. 0 + k = k
      OBVIOUS
    <3> QED
      BY <2>4, <2>5, <3>1, <3>2, <3>3, Zenon
  <2> QED
    BY <2>2, <2>3, <2>5 DEF Budget
<1> QED
  BY <1>1, <1>2, <1>3, <1>4, <1>5, <1>6, <1>7, <1>8 DEF MailInv

LEMMA StoreMailed ==
  ASSUME MailInv, NEW s \in Senders, Email!Store(s) PROVE MailInv'
<1>1. CASE Email!Send(s, "store", "reset") /\ Email!NewCode /\ UNCHANGED <<owed, mailFaults>>
  <2>1. mailFaults' \in {mailFaults, mailFaults + 1} /\ mailFaults' <= MaxFaults
    BY <1>1, MailFacts DEF MailInv, Email!TypeOK
  <2> QED
    BY <1>1, <2>1, NewCodeMailed DEF Email!Store
<1>2. CASE Email!Send(s, "store", "idle") /\ Email!Fault /\ owed' = owed \ {s}
  <2>1. CASE Email!NewCode
    <3>1. mailFaults' \in {mailFaults, mailFaults + 1} /\ mailFaults' <= MaxFaults
      BY <1>2, MailFacts DEF Email!Fault, MailInv, Email!TypeOK
    <3> QED
      BY <1>2, <2>1, <3>1, NewCodeMailed DEF Email!Store
  <2>2. CASE UNCHANGED <<stored, code, outdated>>
    BY <1>2, <2>2, SenderFailsMailed DEF Email!Store, Email!Fault
  <2> QED
    BY <1>2, <2>1, <2>2 DEF Email!Store, Email!Send
<1> QED
  BY <1>1, <1>2 DEF Email!Store

LEMMA ResetDoneMailed ==
  ASSUME MailInv, NEW s \in Senders, NEW to \in {"mail", "idle"}, Email!Send(s, "reset", to),
         attempts' = 0, outdated' = FALSE, owed' \in {owed, owed \ {s}},
         mailFaults' \in {mailFaults, mailFaults + 1}, mailFaults' <= MaxFaults,
         UNCHANGED <<code, cooldown, daily, guesser, stored, refused, accepted, letters>>
  PROVE  MailInv'
<1>0. /\ Asked' = Asked /\ Storing' = Storing /\ Resetting' = Resetting - 1 /\ Resetting >= 1
      /\ Undoing' = Undoing
      /\ Clearing' = Clearing /\ Counting' = Counting /\ Voiding' = Voiding
  <2>1. Email!Send(s, "reset", to) /\ guesser' = guesser
    OBVIOUS
  <2> QED
    BY <2>1, SenderMoves, NobodyMoves, MailCounts DEF MailInv, One
<1>1. Email!TypeOK'
  <2>1. sender' \in [Senders -> {"idle", "daily", "store", "reset", "mail", "undo"}]
    BY DEF MailInv, Email!TypeOK, Email!Send
  <2>3. attempts' \in 0..(verificationMaxAttempts + Email!Cardinality(Guessers) - 1 + MaxFaults)
    BY MailFacts DEF MailInv, Email!TypeOK
  <2>4. owed' \in SUBSET Senders /\ mailFaults' \in 0..MaxFaults
    BY MailFacts DEF MailInv, Email!TypeOK
  <2> QED
    BY <2>1, <2>3, <2>4 DEF MailInv, Email!TypeOK
<1>2. LettersAreCounted'
  BY LettersSettled DEF MailInv, Email!TypeOK
<1>3. CooldownHolds'
  <2>1. Asked' + Storing' + Resetting' <= Asked + Storing + Resetting /\ Undoing' <= Undoing
    BY <1>0, MailCounts
  <2>2. daily \in Nat /\ daily' \in Nat /\ daily' + Asked' <= daily + Asked
    BY <1>0, <1>1, MailCounts, MailFacts DEF MailInv, Email!TypeOK, One
  <2>3. Asked' \in Nat /\ Storing' \in Nat /\ Resetting' \in Nat /\ Undoing' \in Nat
    BY <1>0, MailCounts
  <2> QED
    BY <2>1, <2>2, <2>3, CooldownKept
<1>4. CodesAreFresh'
  BY <1>0, MailCounts, MailFacts DEF MailInv, Email!TypeOK, One, Email!Send, CodesAreFresh,
     Email!Codes, Email!NoCode
<1>5. StoredGaveNothing'
  BY <1>0, MailCounts, MailFacts DEF MailInv, Email!TypeOK, One, Email!Send,
     StoredGaveNothing, Email!NoCode, Email!Codes, CodesAreFresh
<1>6. Email!SingleUse'
  BY <1>0, MailCounts, MailFacts DEF MailInv, Email!TypeOK, One, Email!Send,
     Email!SingleUse, StoredGaveNothing, Email!Codes, Email!NoCode
<1>7. CountIsBounded'
  BY <1>0, CountKept
<1>8. Budget'
  <2>1. PICK s1 \in Nat, t \in Nat, l \in 0..P, m \in 0..P, u \in Nat, v \in Nat, e \in Nat :
           /\ s1 = Renewals /\ t = Renewals' /\ l = Slack /\ m = Slack' /\ u = Under /\ v = Under'
           /\ e = Extra /\ e \in {0, Email!FaultCost}
           /\ (mailFaults' # mailFaults => e >= 1 /\ e >= P)
    <3>1. mailFaults' \in {mailFaults, mailFaults + 1}
      OBVIOUS
    <3> QED
      BY <1>1, <3>1, Parts, Zenon
  <2>2. t + 1 <= s1
    <3>1. Renewals' + 1 <= Renewals
      BY <1>0, MailCounts, MailFacts DEF Renewals, Clears, One, AllGuessers
    <3> QED
      BY <2>1, <3>1, Zenon
  <2>3. u = v
    BY <1>0, <2>1 DEF Under
  <2>4. m + u <= P + l + v + e
    BY <2>3, MailBounds
  <2> QED
    BY <1>1, <2>1, <2>2, <2>4, BudgetMoves
<1> QED
  BY <1>1, <1>2, <1>3, <1>4, <1>5, <1>6, <1>7, <1>8 DEF MailInv

LEMMA ResetMailed ==
  ASSUME MailInv, NEW s \in Senders, Email!Reset(s) PROVE MailInv'
<1>1. CASE Email!Send(s, "reset", "mail") /\ Email!Fresh /\ UNCHANGED <<owed, mailFaults>>
  <2>1. mailFaults' \in {mailFaults, mailFaults + 1} /\ mailFaults' <= MaxFaults
    BY <1>1, MailFacts DEF MailInv, Email!TypeOK
  <2> QED
    BY <1>1, <2>1, ResetDoneMailed DEF Email!Reset, Email!Fresh
<1>2. CASE Email!Send(s, "reset", "idle") /\ Email!Fault /\ owed' = owed \ {s}
  <2>1. CASE Email!Fresh
    <3>1. mailFaults' \in {mailFaults, mailFaults + 1} /\ mailFaults' <= MaxFaults
      BY <1>2, MailFacts DEF Email!Fault, MailInv, Email!TypeOK
    <3> QED
      BY <1>2, <2>1, <3>1, ResetDoneMailed DEF Email!Reset, Email!Fresh
  <2>2. CASE UNCHANGED <<attempts, outdated>>
    BY <1>2, <2>2, SenderFailsMailed DEF Email!Reset, Email!Fault
  <2> QED
    BY <1>2, <2>1, <2>2 DEF Email!Reset, Email!Send
<1> QED
  BY <1>1, <1>2 DEF Email!Reset

LEMMA MailDoneMailed ==
  ASSUME MailInv, NEW s \in Senders, Email!Send(s, "mail", "idle"),
         Email!HandOver(s), owed' = owed \ {s},
         UNCHANGED <<code, cooldown, attempts, daily, outdated, guesser, stored,
                     refused, accepted, mailFaults>>
  PROVE  MailInv'
<1>0. /\ Asked' = Asked /\ Storing' = Storing /\ Resetting' = Resetting
      /\ Undoing' = Undoing
      /\ Clearing' = Clearing /\ Counting' = Counting /\ Voiding' = Voiding
  <2>1. Email!Send(s, "mail", "idle") /\ guesser' = guesser
    OBVIOUS
  <2> QED
    BY <2>1, SenderMoves, NobodyMoves, MailCounts DEF MailInv, One
<1>1. Email!TypeOK'
  <2>1. sender' \in [Senders -> {"idle", "daily", "store", "reset", "mail", "undo"}]
    BY DEF MailInv, Email!TypeOK, Email!Send
  <2>2. letters' \in Nat /\ owed' \in SUBSET Senders
    BY DEF MailInv, Email!TypeOK, Email!HandOver
  <2> QED
    BY <2>1, <2>2 DEF MailInv, Email!TypeOK
<1>2. LettersAreCounted'
  BY LettersSettled DEF MailInv, Email!TypeOK, Email!HandOver
<1>3. CooldownHolds'
  BY <1>0, MailCounts, MailFacts DEF MailInv, Email!TypeOK, One, Email!Send, CooldownHolds
<1>4. CodesAreFresh'
  BY <1>0, MailCounts, MailFacts DEF MailInv, Email!TypeOK, One, Email!Send, CodesAreFresh,
     Email!Codes, Email!NoCode
<1>5. StoredGaveNothing'
  BY <1>0, MailCounts, MailFacts DEF MailInv, Email!TypeOK, One, Email!Send,
     StoredGaveNothing, Email!NoCode, Email!Codes, CodesAreFresh
<1>6. Email!SingleUse'
  BY <1>0, MailCounts, MailFacts DEF MailInv, Email!TypeOK, One, Email!Send,
     Email!SingleUse, StoredGaveNothing, Email!Codes, Email!NoCode
<1>7. CountIsBounded'
  BY <1>0, MailCounts, MailFacts DEF MailInv, Email!TypeOK, One, Email!Send, CountIsBounded, P
<1>8. Budget'
  <2>1. Renewals' = Renewals /\ Slack' = Slack /\ Under' = Under
    BY <1>0 DEF Renewals, Clears, Slack, Under, One, P, AllGuessers
  <2> QED
    BY <1>1, <2>1, BudgetSame DEF MailInv, Email!TypeOK
<1> QED
  BY <1>1, <1>2, <1>3, <1>4, <1>5, <1>6, <1>7, <1>8 DEF MailInv

LEMMA MailFailsMailed ==
  ASSUME MailInv, NEW s \in Senders, Email!Send(s, "mail", "undo"),
         Email!HandOver(s) \/ letters' = letters, owed' = owed \ {s},
         mailFaults < MaxFaults, mailFaults' = mailFaults + 1,
         UNCHANGED <<code, cooldown, attempts, daily, outdated, guesser, stored,
                     refused, accepted>>
  PROVE  MailInv'
<1>0. /\ Asked' = Asked /\ Storing' = Storing /\ Resetting' = Resetting
      /\ Undoing' = Undoing + 1
      /\ Clearing' = Clearing /\ Counting' = Counting /\ Voiding' = Voiding
  <2>1. Email!Send(s, "mail", "undo") /\ guesser' = guesser
    OBVIOUS
  <2> QED
    BY <2>1, SenderMoves, NobodyMoves, MailCounts DEF MailInv, One
<1>1. Email!TypeOK'
  <2>1. sender' \in [Senders -> {"idle", "daily", "store", "reset", "mail", "undo"}]
    BY DEF MailInv, Email!TypeOK, Email!Send
  <2>2. mailFaults' \in 0..MaxFaults
    BY MailFacts DEF MailInv, Email!TypeOK
  <2>4. letters' \in Nat /\ owed' \in SUBSET Senders
    BY DEF MailInv, Email!TypeOK, Email!HandOver
  <2> QED
    BY <2>1, <2>2, <2>4 DEF MailInv, Email!TypeOK
<1>2. LettersAreCounted'
  BY LettersSettled DEF MailInv, Email!TypeOK, Email!HandOver
<1>3. CooldownHolds'
  BY <1>0, MailCounts, MailFacts DEF MailInv, Email!TypeOK, One, Email!Send, CooldownHolds
<1>4. CodesAreFresh'
  BY <1>0, MailCounts, MailFacts DEF MailInv, Email!TypeOK, One, Email!Send, CodesAreFresh,
     Email!Codes, Email!NoCode
<1>5. StoredGaveNothing'
  BY <1>0, MailCounts, MailFacts DEF MailInv, Email!TypeOK, One, Email!Send,
     StoredGaveNothing, Email!NoCode, Email!Codes, CodesAreFresh
<1>6. Email!SingleUse'
  BY <1>0, MailCounts, MailFacts DEF MailInv, Email!TypeOK, One, Email!Send,
     Email!SingleUse, StoredGaveNothing, Email!Codes, Email!NoCode
<1>7. CountIsBounded'
  BY <1>0, MailCounts, MailFacts DEF MailInv, Email!TypeOK, One, Email!Send, CountIsBounded, P
<1>8. Budget'
  <2>1. Renewals' = Renewals /\ Slack' = Slack /\ Under' = Under
    BY <1>0 DEF Renewals, Clears, Slack, Under, One, P, AllGuessers
  <2> QED
    BY <1>1, <2>1, BudgetSame DEF MailInv, Email!TypeOK
<1> QED
  BY <1>1, <1>2, <1>3, <1>4, <1>5, <1>6, <1>7, <1>8 DEF MailInv

LEMMA MailMailed ==
  ASSUME MailInv, NEW s \in Senders, Email!Mail(s) PROVE MailInv'
  BY MailDoneMailed, MailFailsMailed DEF Email!Mail, Email!Fault, Email!keys

LEMMA UndoneMailed ==
  ASSUME MailInv, NEW s \in Senders, Email!Undo(s), code' = Email!NoCode, cooldown' = FALSE,
         mailFaults' = mailFaults
  PROVE  MailInv'
<1>0. /\ Asked' = Asked /\ Storing' = Storing /\ Resetting' = Resetting
      /\ Mailing' = Mailing /\ Undoing' = Undoing - 1 /\ Undoing >= 1
      /\ Clearing' = Clearing /\ Counting' = Counting /\ Voiding' = Voiding
  <2>1. Email!Send(s, "undo", "idle") /\ guesser' = guesser
    BY DEF Email!Undo
  <2> QED
    BY <2>1, SenderMoves, NobodyMoves, MailCounts DEF MailInv, One
<1>1. Email!TypeOK'
  BY DEF MailInv, Email!TypeOK, Email!Undo, Email!Send, Email!keys, Email!histories
<1>2. LettersAreCounted'
  BY LettersKept DEF MailInv, Email!Undo, Email!keys, Email!histories
<1>3. CooldownHolds'
  BY <1>0, MailCounts, MailFacts DEF MailInv, Email!TypeOK, One, Email!Undo, Email!Send,
     Email!keys, Email!histories, CooldownHolds
<1>4. CodesAreFresh'
  BY <1>0, MailCounts, MailFacts DEF MailInv, Email!TypeOK, One, Email!Undo, Email!Send,
     Email!keys, Email!histories, CodesAreFresh, Email!Codes, Email!NoCode
<1>5. StoredGaveNothing'
  BY <1>0, MailCounts, MailFacts DEF MailInv, Email!TypeOK, One, Email!Undo, Email!Send,
     Email!keys, Email!histories, StoredGaveNothing, Email!NoCode, Email!Codes,
     CodesAreFresh
<1>6. Email!SingleUse'
  BY <1>0, MailCounts, MailFacts DEF MailInv, Email!TypeOK, One, Email!Undo, Email!Send,
     Email!keys, Email!histories, Email!SingleUse, StoredGaveNothing, Email!Codes,
     Email!NoCode
<1>7. CountIsBounded'
  BY <1>0, MailCounts, MailFacts DEF MailInv, Email!TypeOK, One, Email!Undo, Email!Send,
     Email!keys, Email!histories, CountIsBounded, P
<1>8. Budget'
  BY <1>1, BudgetKept DEF Email!Undo, Email!Send, Email!keys, Email!histories, MailInv,
     Email!TypeOK
<1> QED
  BY <1>1, <1>2, <1>3, <1>4, <1>5, <1>6, <1>7, <1>8 DEF MailInv

LEMMA UndoMailed ==
  ASSUME MailInv, NEW s \in Senders, Email!Undo(s) PROVE MailInv'
<1>1. CASE Email!Fault /\ UNCHANGED <<code, cooldown>>
  BY <1>1, SenderFailsMailed DEF Email!Undo, Email!Fault, Email!histories
<1> QED
  BY <1>1, UndoneMailed DEF Email!Undo

-----------------------------------------------------------------------------
(* The calls of the guessers.                                              *)

LEMMA ConsumeMailed ==
  ASSUME MailInv, NEW g \in Guessers, Email!Guess(g, "idle", "clear"),
         code # Email!NoCode, code' = Email!NoCode,
         accepted' = [accepted EXCEPT ![code] = @ + 1],
         UNCHANGED <<cooldown, attempts, daily, outdated, sender, stored, refused,
                     letters, owed, mailFaults>>
  PROVE  MailInv'
<1>0. /\ Clearing' = Clearing + 1 /\ Counting' = Counting /\ Voiding' = Voiding
      /\ Asked' = Asked /\ Storing' = Storing /\ Resetting' = Resetting
      /\ Mailing' = Mailing /\ Undoing' = Undoing
      /\ AllGuessers >= 1
      /\ Clearing' = AllGuessers => "clear" = "clear"
      /\ Clearing = AllGuessers => "idle" = "clear"
  BY GuesserMoves, NobodyMoves, MailCounts DEF MailInv, One
<1>1. Email!TypeOK'
  BY DEF MailInv, Email!TypeOK, Email!Guess
<1>2. LettersAreCounted'
  BY LettersKept DEF MailInv
<1>3. CooldownHolds'
  BY <1>0, MailCounts, MailFacts DEF MailInv, Email!TypeOK, One, Email!Guess, CooldownHolds
<1>4. CodesAreFresh'
  BY <1>0, MailCounts, MailFacts DEF MailInv, Email!TypeOK, One, Email!Guess, CodesAreFresh,
     Email!Codes, Email!NoCode
<1>5. StoredGaveNothing'
  BY <1>0, MailCounts, MailFacts DEF MailInv, Email!TypeOK, One, Email!Guess,
     StoredGaveNothing, Email!NoCode, Email!Codes, CodesAreFresh
<1>6. Email!SingleUse'
  BY <1>0, MailCounts, MailFacts DEF MailInv, Email!TypeOK, One, Email!Guess,
     Email!SingleUse, StoredGaveNothing, Email!Codes, Email!NoCode
<1>7. CountIsBounded'
  BY <1>0, MailCounts, MailFacts DEF MailInv, Email!TypeOK, One, Email!Guess, CountIsBounded, P
<1>8. Budget'
  BY <1>1, BudgetKept DEF MailInv, Email!TypeOK
<1> QED
  BY <1>1, <1>2, <1>3, <1>4, <1>5, <1>6, <1>7, <1>8 DEF MailInv

LEMMA RefuseMailed ==
  ASSUME MailInv, NEW g \in Guessers, Email!Guess(g, "idle", "count"),
         code # Email!NoCode,
         refused' = [refused EXCEPT ![code] = @ + 1],
         UNCHANGED <<code, cooldown, attempts, daily, outdated, sender, stored,
                     accepted, letters, owed, mailFaults>>
  PROVE  MailInv'
<1>0. /\ Clearing' = Clearing /\ Counting' = Counting + 1 /\ Voiding' = Voiding
      /\ Asked' = Asked /\ Storing' = Storing /\ Resetting' = Resetting
      /\ Mailing' = Mailing /\ Undoing' = Undoing
      /\ AllGuessers >= 1
      /\ Clearing' = AllGuessers => "count" = "clear"
      /\ Clearing = AllGuessers => "idle" = "clear"
  BY GuesserMoves, NobodyMoves, MailCounts DEF MailInv, One
<1>1. Email!TypeOK'
  BY DEF MailInv, Email!TypeOK, Email!Guess
<1>2. LettersAreCounted'
  BY LettersKept DEF MailInv
<1>3. CooldownHolds'
  BY <1>0, MailCounts, MailFacts DEF MailInv, Email!TypeOK, One, Email!Guess, CooldownHolds
<1>4. CodesAreFresh'
  BY <1>0, MailCounts, MailFacts DEF MailInv, Email!TypeOK, One, Email!Guess, CodesAreFresh,
     Email!Codes, Email!NoCode
<1>5. StoredGaveNothing'
  BY <1>0, MailCounts, MailFacts DEF MailInv, Email!TypeOK, One, Email!Guess,
     StoredGaveNothing, Email!NoCode, Email!Codes, CodesAreFresh
<1>6. Email!SingleUse'
  BY <1>0, MailCounts, MailFacts DEF MailInv, Email!TypeOK, One, Email!Guess,
     Email!SingleUse, StoredGaveNothing, Email!Codes, Email!NoCode
<1>7. CountIsBounded'
  BY <1>0, MailCounts, MailFacts DEF MailInv, Email!TypeOK, One, Email!Guess, CountIsBounded, P
<1>8. Budget'
  <2>0. code \in Email!Codes /\ mailFaults \in Nat /\ refused[code] \in Nat /\ AllGuessers' = AllGuessers
    BY DEF MailInv, Email!TypeOK, Email!NoCode, AllGuessers
  <2>1. Most \in Nat /\ Most' = Most
    BY <2>0, MostGrows
  <2>2. Due' = Due /\ Due \in Nat /\ Under' = Under + 1 /\ Under \in Nat
    <3>1. Under' = Under + 1
      BY <1>0, MailCounts DEF Under
    <3>2. Renewals' = Renewals /\ Slack' = Slack /\ P' = P
      BY <1>0, <2>0 DEF Renewals, Clears, Slack, One, P
    <3> QED
      BY <2>0, <3>1, <3>2, DueNow DEF MailInv, Due
  <2>3. refused[code] + Due <= Most + Under
    BY <1>0, <2>0, MailFacts DEF MailInv, Budget
  <2>4. Under' <= Due
    <3>1. Under' <= AllGuessers
      BY GuessersUnder DEF Under, Counting, Voiding
    <3>2. AllGuessers <= Due
      BY DueNow, MailBounds, MailFacts DEF MailInv, Due
    <3> QED
      BY <2>2, <3>1, <3>2, MailFacts
  <2>5. refused[code] + 1 <= Most /\ (refused[code] + 1) + Due <= Most + (Under + 1)
    BY <2>0, <2>1, <2>2, <2>3, <2>4
  <2>6. \A c \in Email!Codes : refused'[c] <= Most'
    BY <2>0, <2>1, <2>5 DEF MailInv, Budget, Email!TypeOK
  <2>7. refused'[code'] = refused[code] + 1
    BY <2>0 DEF MailInv, Email!TypeOK
  <2>8. refused'[code'] + Due' <= Most' + Under'
    BY <2>1, <2>2, <2>5, <2>7, Zenon
  <2> QED
    BY <2>6, <2>8 DEF Budget
<1> QED
  BY <1>1, <1>2, <1>3, <1>4, <1>5, <1>6, <1>7, <1>8 DEF MailInv

LEMMA NothingThereMailed ==
  ASSUME MailInv, NEW g \in Guessers, Email!Guess(g, "idle", "count"),
         UNCHANGED <<code, cooldown, attempts, daily, outdated, sender, stored,
                     refused, accepted, letters, owed, mailFaults>>
  PROVE  MailInv'
<1>0. /\ Clearing' = Clearing /\ Counting' = Counting + 1 /\ Voiding' = Voiding
      /\ Asked' = Asked /\ Storing' = Storing /\ Resetting' = Resetting
      /\ Mailing' = Mailing /\ Undoing' = Undoing
      /\ AllGuessers >= 1
      /\ Clearing' = AllGuessers => "count" = "clear"
      /\ Clearing = AllGuessers => "idle" = "clear"
  BY GuesserMoves, NobodyMoves, MailCounts DEF MailInv, One
<1>1. Email!TypeOK'
  BY DEF MailInv, Email!TypeOK, Email!Guess
<1>2. LettersAreCounted'
  BY LettersKept DEF MailInv
<1>3. CooldownHolds'
  BY <1>0, MailCounts, MailFacts DEF MailInv, Email!TypeOK, One, Email!Guess, CooldownHolds
<1>4. CodesAreFresh'
  BY <1>0, MailCounts, MailFacts DEF MailInv, Email!TypeOK, One, Email!Guess, CodesAreFresh,
     Email!Codes, Email!NoCode
<1>5. StoredGaveNothing'
  BY <1>0, MailCounts, MailFacts DEF MailInv, Email!TypeOK, One, Email!Guess,
     StoredGaveNothing, Email!NoCode, Email!Codes, CodesAreFresh
<1>6. Email!SingleUse'
  BY <1>0, MailCounts, MailFacts DEF MailInv, Email!TypeOK, One, Email!Guess,
     Email!SingleUse, StoredGaveNothing, Email!Codes, Email!NoCode
<1>7. CountIsBounded'
  BY <1>0, MailCounts, MailFacts DEF MailInv, Email!TypeOK, One, Email!Guess, CountIsBounded, P
<1>8. Budget'
  <2>1. PICK s1 \in Nat, t \in Nat, l \in 0..P, m \in 0..P, u \in Nat, v \in Nat, e \in Nat :
           /\ s1 = Renewals /\ t = Renewals' /\ l = Slack /\ m = Slack' /\ u = Under /\ v = Under'
           /\ e = Extra /\ e \in {0, Email!FaultCost}
           /\ (mailFaults' # mailFaults => e >= 1 /\ e >= P)
    <3>1. mailFaults' \in {mailFaults, mailFaults + 1}
      OBVIOUS
    <3> QED
      BY <1>1, <3>1, Parts, Zenon
  <2>2. t <= s1 /\ m = l
    BY <1>0, <2>1, MailFacts DEF Renewals, Slack, Clears, One, AllGuessers, P
  <2>3. v = u + 1
    <3>1. Under' = Under + 1
      BY <1>0, MailCounts DEF Under
    <3> QED
      BY <2>1, <3>1, Zenon
  <2>4. m + u <= l + v + e
    BY <2>1, <2>2, <2>3, MailBounds
  <2> QED
    BY <1>1, <2>1, <2>2, <2>4, BudgetMoves
<1> QED
  BY <1>1, <1>2, <1>3, <1>4, <1>5, <1>6, <1>7, <1>8 DEF MailInv

LEMMA UnansweredMailed ==
  ASSUME MailInv, NEW g \in Guessers, Email!Guess(g, "idle", "count"),
         code' \in {code, Email!NoCode}, mailFaults < MaxFaults, mailFaults' = mailFaults + 1,
         UNCHANGED <<cooldown, attempts, daily, outdated, sender, stored, refused,
                     accepted, letters, owed>>
  PROVE  MailInv'
<1>0. /\ Clearing' = Clearing /\ Counting' = Counting + 1 /\ Voiding' = Voiding
      /\ Asked' = Asked /\ Storing' = Storing /\ Resetting' = Resetting
      /\ Mailing' = Mailing /\ Undoing' = Undoing
      /\ AllGuessers >= 1
      /\ Clearing' = AllGuessers => "count" = "clear"
      /\ Clearing = AllGuessers => "idle" = "clear"
  BY GuesserMoves, NobodyMoves, MailCounts DEF MailInv, One
<1>1. Email!TypeOK'
  <2>1. guesser' \in [Guessers -> {"idle", "clear", "count", "void"}]
    BY DEF MailInv, Email!TypeOK, Email!Guess
  <2>2. mailFaults' \in 0..MaxFaults
    BY MailFacts DEF MailInv, Email!TypeOK
  <2> QED
    BY <2>1, <2>2 DEF MailInv, Email!TypeOK, Email!NoCode
<1>2. LettersAreCounted'
  BY LettersKept DEF MailInv
<1>3. CooldownHolds'
  BY <1>0, MailCounts, MailFacts DEF MailInv, Email!TypeOK, One, Email!Guess, CooldownHolds
<1>4. CodesAreFresh'
  BY <1>0, MailCounts, MailFacts DEF MailInv, Email!TypeOK, One, Email!Guess, CodesAreFresh,
     Email!Codes, Email!NoCode
<1>5. StoredGaveNothing'
  BY <1>0, MailCounts, MailFacts DEF MailInv, Email!TypeOK, One, Email!Guess,
     StoredGaveNothing, Email!NoCode, Email!Codes, CodesAreFresh
<1>6. Email!SingleUse'
  BY <1>0, MailCounts, MailFacts DEF MailInv, Email!TypeOK, One, Email!Guess,
     Email!SingleUse, StoredGaveNothing, Email!Codes, Email!NoCode
<1>7. CountIsBounded'
  BY <1>0, MailCounts, MailFacts DEF MailInv, Email!TypeOK, One, Email!Guess, CountIsBounded, P
<1>8. Budget'
  <2>1. PICK s1 \in Nat, t \in Nat, l \in 0..P, m \in 0..P, u \in Nat, v \in Nat, e \in Nat :
           /\ s1 = Renewals /\ t = Renewals' /\ l = Slack /\ m = Slack' /\ u = Under /\ v = Under'
           /\ e = Extra /\ e \in {0, Email!FaultCost}
           /\ (mailFaults' # mailFaults => e >= 1 /\ e >= P)
    <3>1. mailFaults' \in {mailFaults, mailFaults + 1}
      OBVIOUS
    <3> QED
      BY <1>1, <3>1, Parts, Zenon
  <2>2. t <= s1 /\ m = l
    BY <1>0, <2>1, MailFacts DEF Renewals, Slack, Clears, One, AllGuessers, P
  <2>3. v = u + 1
    <3>1. Under' = Under + 1
      BY <1>0, MailCounts DEF Under
    <3> QED
      BY <2>1, <3>1, Zenon
  <2>4. m + u <= l + v + e
    BY <2>1, <2>2, <2>3, MailBounds
  <2> QED
    BY <1>1, <2>1, <2>2, <2>4, BudgetMoves
<1> QED
  BY <1>1, <1>2, <1>3, <1>4, <1>5, <1>6, <1>7, <1>8 DEF MailInv

LEMMA RefuseUnseenMailed ==
  ASSUME MailInv, NEW g \in Guessers, Email!RefuseUnseen(g) PROVE MailInv'
  BY NothingThereMailed, UnansweredMailed DEF Email!RefuseUnseen, Email!Fault, Email!histories

LEMMA ClearMailed ==
  ASSUME MailInv, NEW g \in Guessers, Email!Guess(g, "clear", "idle"),
         attempts' = 0, outdated' = FALSE,
         mailFaults' \in {mailFaults, mailFaults + 1}, mailFaults' <= MaxFaults,
         UNCHANGED <<code, cooldown, daily, sender, stored, refused, accepted, letters,
                     owed>>
  PROVE  MailInv'
<1>0. /\ Clearing' = Clearing - 1 /\ Clearing >= 1 /\ Counting' = Counting /\ Voiding' = Voiding
      /\ Asked' = Asked /\ Storing' = Storing /\ Resetting' = Resetting
      /\ Mailing' = Mailing /\ Undoing' = Undoing
      /\ AllGuessers >= 1
      /\ Clearing' = AllGuessers => "idle" = "clear"
      /\ Clearing = AllGuessers => "clear" = "clear"
  BY GuesserMoves, NobodyMoves, MailCounts DEF MailInv, One
<1>1. Email!TypeOK'
  <2>1. guesser' \in [Guessers -> {"idle", "clear", "count", "void"}]
    BY DEF MailInv, Email!TypeOK, Email!Guess
  <2>3. attempts' \in 0..(verificationMaxAttempts + Email!Cardinality(Guessers) - 1 + MaxFaults)
    BY MailFacts DEF MailInv, Email!TypeOK
  <2>4. mailFaults' \in 0..MaxFaults
    BY MailFacts DEF MailInv, Email!TypeOK
  <2> QED
    BY <2>1, <2>3, <2>4 DEF MailInv, Email!TypeOK
<1>2. LettersAreCounted'
  BY LettersKept DEF MailInv
<1>3. CooldownHolds'
  <2>1. Asked' + Storing' + Resetting' <= Asked + Storing + Resetting /\ Undoing' <= Undoing
    BY <1>0, MailCounts
  <2>2. daily \in Nat /\ daily' \in Nat /\ daily' + Asked' <= daily + Asked
    BY <1>0, <1>1, MailCounts, MailFacts DEF MailInv, Email!TypeOK, One
  <2>3. Asked' \in Nat /\ Storing' \in Nat /\ Resetting' \in Nat /\ Undoing' \in Nat
    BY <1>0, MailCounts
  <2> QED
    BY <2>1, <2>2, <2>3, CooldownKept
<1>4. CodesAreFresh'
  BY <1>0, MailCounts, MailFacts DEF MailInv, Email!TypeOK, One, Email!Guess, CodesAreFresh,
     Email!Codes, Email!NoCode
<1>5. StoredGaveNothing'
  BY <1>0, MailCounts, MailFacts DEF MailInv, Email!TypeOK, One, Email!Guess,
     StoredGaveNothing, Email!NoCode, Email!Codes, CodesAreFresh
<1>6. Email!SingleUse'
  BY <1>0, MailCounts, MailFacts DEF MailInv, Email!TypeOK, One, Email!Guess,
     Email!SingleUse, StoredGaveNothing, Email!Codes, Email!NoCode
<1>7. CountIsBounded'
  BY <1>0, CountKept
<1>8. Budget'
  <2>1. PICK s1 \in Nat, t \in Nat, l \in 0..P, m \in 0..P, u \in Nat, v \in Nat, e \in Nat :
           /\ s1 = Renewals /\ t = Renewals' /\ l = Slack /\ m = Slack' /\ u = Under /\ v = Under'
           /\ e = Extra /\ e \in {0, Email!FaultCost}
           /\ (mailFaults' # mailFaults => e >= 1 /\ e >= P)
    <3>1. mailFaults' \in {mailFaults, mailFaults + 1}
      OBVIOUS
    <3> QED
      BY <1>1, <3>1, Parts, Zenon
  <2>2. u = v
    BY <1>0, <2>1 DEF Under
  <2>3. \/ t <= s1 /\ m = l
        \/ t + 1 <= s1
    <3>1. CASE Clearing = AllGuessers
      <4>1. Renewals' = Renewals /\ Slack' = Slack
        BY <1>0, <3>1, MailCounts, MailFacts DEF Renewals, Slack, Clears, One, AllGuessers, P
      <4>2. t = s1 /\ m = l
        BY <2>1, <4>1, Zenon
      <4> QED
        BY <4>2
    <3>2. CASE Clearing # AllGuessers
      <4>1. Renewals' + 1 <= Renewals
        BY <1>0, <3>2, MailCounts, MailFacts DEF Renewals, Clears, One, AllGuessers
      <4> QED
        BY <2>1, <4>1, Zenon
    <3> QED
      BY <3>1, <3>2
  <2>4. /\ m = l => m + u <= l + v + e
        /\ m + u <= P + l + v + e
    BY <2>2, MailBounds
  <2> QED
    BY <1>1, <2>1, <2>3, <2>4, BudgetMoves
<1> QED
  BY <1>1, <1>2, <1>3, <1>4, <1>5, <1>6, <1>7, <1>8 DEF MailInv

LEMMA ClearFailsMailed ==
  ASSUME MailInv, NEW g \in Guessers, Email!Guess(g, "clear", "idle"),
         mailFaults < MaxFaults, mailFaults' = mailFaults + 1,
         UNCHANGED <<code, cooldown, attempts, daily, outdated, sender, stored,
                     refused, accepted, letters, owed>>
  PROVE  MailInv'
<1>0. /\ Clearing' = Clearing - 1 /\ Clearing >= 1 /\ Counting' = Counting /\ Voiding' = Voiding
      /\ Asked' = Asked /\ Storing' = Storing /\ Resetting' = Resetting
      /\ Mailing' = Mailing /\ Undoing' = Undoing
      /\ AllGuessers >= 1
      /\ Clearing' = AllGuessers => "idle" = "clear"
      /\ Clearing = AllGuessers => "clear" = "clear"
  BY GuesserMoves, NobodyMoves, MailCounts DEF MailInv, One
<1>1. Email!TypeOK'
  <2>1. guesser' \in [Guessers -> {"idle", "clear", "count", "void"}]
    BY DEF MailInv, Email!TypeOK, Email!Guess
  <2>2. mailFaults' \in 0..MaxFaults
    BY MailFacts DEF MailInv, Email!TypeOK
  <2> QED
    BY <2>1, <2>2 DEF MailInv, Email!TypeOK
<1>2. LettersAreCounted'
  BY LettersKept DEF MailInv
<1>3. CooldownHolds'
  BY <1>0, MailCounts, MailFacts DEF MailInv, Email!TypeOK, One, Email!Guess, CooldownHolds
<1>4. CodesAreFresh'
  BY <1>0, MailCounts, MailFacts DEF MailInv, Email!TypeOK, One, Email!Guess, CodesAreFresh,
     Email!Codes, Email!NoCode
<1>5. StoredGaveNothing'
  BY <1>0, MailCounts, MailFacts DEF MailInv, Email!TypeOK, One, Email!Guess,
     StoredGaveNothing, Email!NoCode, Email!Codes, CodesAreFresh
<1>6. Email!SingleUse'
  BY <1>0, MailCounts, MailFacts DEF MailInv, Email!TypeOK, One, Email!Guess,
     Email!SingleUse, StoredGaveNothing, Email!Codes, Email!NoCode
<1>7. CountIsBounded'
  BY <1>0, MailCounts, MailFacts DEF MailInv, Email!TypeOK, One, Email!Guess, CountIsBounded, P
<1>8. Budget'
  <2>1. PICK s1 \in Nat, t \in Nat, l \in 0..P, m \in 0..P, u \in Nat, v \in Nat, e \in Nat :
           /\ s1 = Renewals /\ t = Renewals' /\ l = Slack /\ m = Slack' /\ u = Under /\ v = Under'
           /\ e = Extra /\ e \in {0, Email!FaultCost}
           /\ (mailFaults' # mailFaults => e >= 1 /\ e >= P)
    <3>1. mailFaults' \in {mailFaults, mailFaults + 1}
      OBVIOUS
    <3> QED
      BY <1>1, <3>1, Parts, Zenon
  <2>2. u = v
    BY <1>0, <2>1 DEF Under
  <2>3. \/ t <= s1 /\ m = l
        \/ t <= s1 + 1 /\ l = P
    <3>1. CASE Clearing = AllGuessers
      <4>1. Renewals' <= Renewals + 1 /\ Slack = P
        BY <1>0, <3>1, MailCounts, MailFacts DEF Renewals, Slack, Clears, One, AllGuessers, P
      <4> QED
        BY <2>1, <4>1, Zenon
    <3>2. CASE Clearing # AllGuessers
      <4>1. Renewals' <= Renewals /\ Slack' = Slack
        BY <1>0, <3>2, MailCounts, MailFacts DEF Renewals, Slack, Clears, One, AllGuessers, P
      <4> QED
        BY <2>1, <4>1, Zenon
    <3> QED
      BY <3>1, <3>2
  <2>4. /\ m = l => m + u <= l + v + e
        /\ l = P => m + u + P <= l + v + e
    <3>1. e >= P
      BY <2>1, MailFacts DEF MailInv, Email!TypeOK
    <3>2. PICK p \in Nat : p = P
      BY MailBounds
    <3>3. l \in Nat /\ m \in Nat /\ l <= p /\ m <= p /\ e >= p
      BY <3>1, <3>2
    <3>4. m + u + p <= p + v + e
      BY <2>2, <3>3
    <3>5. m = l => m + u <= l + v + e
      BY <2>2, <3>3
    <3> QED
      BY <3>2, <3>4, <3>5, Zenon
  <2> QED
    BY <1>1, <2>1, <2>3, <2>4, BudgetMoves
<1> QED
  BY <1>1, <1>2, <1>3, <1>4, <1>5, <1>6, <1>7, <1>8 DEF MailInv

LEMMA ClearAttemptsMailed ==
  ASSUME MailInv, NEW g \in Guessers, Email!ClearAttempts(g) PROVE MailInv'
<1>1. ASSUME Email!Fresh, mailFaults' \in {mailFaults, mailFaults + 1}, mailFaults' <= MaxFaults
      PROVE  MailInv'
  BY <1>1, ClearMailed DEF Email!ClearAttempts, Email!Fresh, Email!histories
<1>2. mailFaults' = mailFaults \/ Email!Fault
        => mailFaults' \in {mailFaults, mailFaults + 1} /\ mailFaults' <= MaxFaults
  BY MailFacts DEF Email!Fault, MailInv, Email!TypeOK
<1>3. CASE Email!Fault /\ UNCHANGED <<attempts, outdated>>
  BY <1>3, ClearFailsMailed DEF Email!ClearAttempts, Email!Fault, Email!histories
<1> QED
  BY <1>1, <1>2, <1>3 DEF Email!ClearAttempts

LEMMA LastCountMailed ==
  ASSUME MailInv, NEW g \in Guessers, Email!Guess(g, "count", "void"),
         Email!TooMany, attempts' = attempts + 1,
         UNCHANGED <<code, cooldown, daily, outdated, sender, stored, refused,
                     accepted, letters, owed, mailFaults>>
  PROVE  MailInv'
<1>0. /\ Clearing' = Clearing /\ Counting' = Counting - 1 /\ Counting >= 1 /\ Voiding' = Voiding + 1
      /\ Asked' = Asked /\ Storing' = Storing /\ Resetting' = Resetting
      /\ Mailing' = Mailing /\ Undoing' = Undoing
      /\ AllGuessers >= 1
      /\ Clearing' = AllGuessers => "void" = "clear"
      /\ Clearing = AllGuessers => "count" = "clear"
  BY GuesserMoves, NobodyMoves, MailCounts DEF MailInv, One
<1>1. Email!TypeOK'
  <2>1. guesser' \in [Guessers -> {"idle", "clear", "count", "void"}]
    BY DEF MailInv, Email!TypeOK, Email!Guess
  <2>3. attempts' \in 0..(verificationMaxAttempts + Email!Cardinality(Guessers) - 1 + MaxFaults)
    <3>1. Counting + Voiding <= AllGuessers
      BY MailCounts, MailFacts
    <3>2. attempts \in Nat /\ attempts + 1 <= P + Voiding + mailFaults + 1
      BY MailCounts, MailBounds DEF MailInv, CountIsBounded, Email!TypeOK
    <3>3. mailFaults \in Nat /\ mailFaults <= MaxFaults
      BY MailFacts DEF MailInv, Email!TypeOK
    <3> QED
      BY <1>0, <3>1, <3>2, <3>3, MailFacts, MailCounts DEF P
  <2> QED
    BY <2>1, <2>3 DEF MailInv, Email!TypeOK
<1>2. LettersAreCounted'
  BY LettersKept DEF MailInv
<1>3. CooldownHolds'
  BY <1>0, MailCounts, MailFacts DEF MailInv, Email!TypeOK, One, Email!Guess, CooldownHolds
<1>4. CodesAreFresh'
  BY <1>0, MailCounts, MailFacts DEF MailInv, Email!TypeOK, One, Email!Guess, CodesAreFresh,
     Email!Codes, Email!NoCode
<1>5. StoredGaveNothing'
  BY <1>0, MailCounts, MailFacts DEF MailInv, Email!TypeOK, One, Email!Guess,
     StoredGaveNothing, Email!NoCode, Email!Codes, CodesAreFresh
<1>6. Email!SingleUse'
  BY <1>0, MailCounts, MailFacts DEF MailInv, Email!TypeOK, One, Email!Guess,
     Email!SingleUse, StoredGaveNothing, Email!Codes, Email!NoCode
<1>7. CountIsBounded'
  BY <1>0, MailCounts, MailFacts DEF MailInv, Email!TypeOK, Email!TooMany, CountIsBounded, P
<1>8. Budget'
  <2>1. PICK s1 \in Nat, t \in Nat, l \in 0..P, m \in 0..P, u \in Nat, v \in Nat, e \in Nat :
           /\ s1 = Renewals /\ t = Renewals' /\ l = Slack /\ m = Slack' /\ u = Under /\ v = Under'
           /\ e = Extra /\ e \in {0, Email!FaultCost}
           /\ (mailFaults' # mailFaults => e >= 1 /\ e >= P)
    <3>1. mailFaults' \in {mailFaults, mailFaults + 1}
      OBVIOUS
    <3> QED
      BY <1>1, <3>1, Parts, Zenon
  <2>2. t = s1 /\ m <= l
    <3>1. Renewals' = Renewals
      BY <1>0, MailFacts DEF Renewals, Clears, One, AllGuessers
    <3>2. Slack' <= Slack
      BY <1>0, <1>1, MailFacts, MailBounds DEF Slack, P, AllGuessers, Email!TooMany,
         MailInv, Email!TypeOK
    <3> QED
      BY <2>1, <3>1, <3>2, Zenon
  <2>3. u = v
    BY <1>0, <2>1, MailCounts DEF Under
  <2>4. t <= s1 /\ m + u <= l + v + e
    BY <2>2, <2>3, MailBounds
  <2> QED
    BY <1>1, <2>1, <2>4, BudgetMoves
<1> QED
  BY <1>1, <1>2, <1>3, <1>4, <1>5, <1>6, <1>7, <1>8 DEF MailInv

LEMMA CountMailed ==
  ASSUME MailInv, NEW g \in Guessers, Email!Guess(g, "count", "idle"),
         ~Email!TooMany, attempts' = attempts + 1,
         UNCHANGED <<code, cooldown, daily, outdated, sender, stored, refused,
                     accepted, letters, owed, mailFaults>>
  PROVE  MailInv'
<1>0. /\ Clearing' = Clearing /\ Counting' = Counting - 1 /\ Counting >= 1 /\ Voiding' = Voiding
      /\ Asked' = Asked /\ Storing' = Storing /\ Resetting' = Resetting
      /\ Mailing' = Mailing /\ Undoing' = Undoing
      /\ AllGuessers >= 1
      /\ Clearing' = AllGuessers => "idle" = "clear"
      /\ Clearing = AllGuessers => "count" = "clear"
  BY GuesserMoves, NobodyMoves, MailCounts DEF MailInv, One
<1>1. Email!TypeOK'
  <2>1. guesser' \in [Guessers -> {"idle", "clear", "count", "void"}]
    BY DEF MailInv, Email!TypeOK, Email!Guess
  <2>3. attempts' \in 0..(verificationMaxAttempts + Email!Cardinality(Guessers) - 1 + MaxFaults)
    <3>1. Counting + Voiding <= AllGuessers
      BY MailCounts, MailFacts
    <3>2. attempts \in Nat /\ attempts + 1 <= P + Voiding + mailFaults + 1
      BY MailCounts, MailBounds DEF MailInv, CountIsBounded, Email!TypeOK
    <3>3. mailFaults \in Nat /\ mailFaults <= MaxFaults
      BY MailFacts DEF MailInv, Email!TypeOK
    <3> QED
      BY <1>0, <3>1, <3>2, <3>3, MailFacts, MailCounts DEF P
  <2> QED
    BY <2>1, <2>3 DEF MailInv, Email!TypeOK
<1>2. LettersAreCounted'
  BY LettersKept DEF MailInv
<1>3. CooldownHolds'
  BY <1>0, MailCounts, MailFacts DEF MailInv, Email!TypeOK, One, Email!Guess, CooldownHolds
<1>4. CodesAreFresh'
  BY <1>0, MailCounts, MailFacts DEF MailInv, Email!TypeOK, One, Email!Guess, CodesAreFresh,
     Email!Codes, Email!NoCode
<1>5. StoredGaveNothing'
  BY <1>0, MailCounts, MailFacts DEF MailInv, Email!TypeOK, One, Email!Guess,
     StoredGaveNothing, Email!NoCode, Email!Codes, CodesAreFresh
<1>6. Email!SingleUse'
  BY <1>0, MailCounts, MailFacts DEF MailInv, Email!TypeOK, One, Email!Guess,
     Email!SingleUse, StoredGaveNothing, Email!Codes, Email!NoCode
<1>7. CountIsBounded'
  BY <1>0, MailCounts, MailFacts DEF MailInv, Email!TypeOK, Email!TooMany, CountIsBounded, P
<1>8. Budget'
  <2>1. PICK s1 \in Nat, t \in Nat, l \in 0..P, m \in 0..P, u \in Nat, v \in Nat, e \in Nat :
           /\ s1 = Renewals /\ t = Renewals' /\ l = Slack /\ m = Slack' /\ u = Under /\ v = Under'
           /\ e = Extra /\ e \in {0, Email!FaultCost}
           /\ (mailFaults' # mailFaults => e >= 1 /\ e >= P)
    <3>1. mailFaults' \in {mailFaults, mailFaults + 1}
      OBVIOUS
    <3> QED
      BY <1>1, <3>1, Parts, Zenon
  <2>2. t = s1 /\ m + 1 = l
    <3>1. Renewals' = Renewals
      BY <1>0, MailFacts DEF Renewals, Clears, One, AllGuessers
    <3>2. Slack' + 1 = Slack
      BY <1>0, <1>1, MailFacts, MailBounds DEF Slack, P, AllGuessers, Email!TooMany,
         MailInv, Email!TypeOK
    <3> QED
      BY <2>1, <3>1, <3>2, Zenon
  <2>3. u = v + 1
    <3>1. Under = Under' + 1
      BY <1>0, MailCounts DEF Under
    <3> QED
      BY <2>1, <3>1, Zenon
  <2>4. t <= s1 /\ m + u <= l + v + e
    BY <2>2, <2>3, MailBounds
  <2> QED
    BY <1>1, <2>1, <2>4, BudgetMoves
<1> QED
  BY <1>1, <1>2, <1>3, <1>4, <1>5, <1>6, <1>7, <1>8 DEF MailInv

LEMMA CountFailsMailed ==
  ASSUME MailInv, NEW g \in Guessers, Email!Guess(g, "count", "idle"),
         mailFaults < MaxFaults, mailFaults' = mailFaults + 1,
         attempts' \in {attempts, attempts + 1},
         UNCHANGED <<code, cooldown, daily, outdated, sender, stored,
                     refused, accepted, letters, owed>>
  PROVE  MailInv'
<1>0. /\ Clearing' = Clearing /\ Counting' = Counting - 1 /\ Counting >= 1 /\ Voiding' = Voiding
      /\ Asked' = Asked /\ Storing' = Storing /\ Resetting' = Resetting
      /\ Mailing' = Mailing /\ Undoing' = Undoing
      /\ AllGuessers >= 1
      /\ Clearing' = AllGuessers => "idle" = "clear"
      /\ Clearing = AllGuessers => "count" = "clear"
  BY GuesserMoves, NobodyMoves, MailCounts DEF MailInv, One
<1>1. Email!TypeOK'
  <2>1. guesser' \in [Guessers -> {"idle", "clear", "count", "void"}]
    BY DEF MailInv, Email!TypeOK, Email!Guess
  <2>2. mailFaults' \in 0..MaxFaults
    BY MailFacts DEF MailInv, Email!TypeOK
  <2>3. attempts' \in 0..(verificationMaxAttempts + Email!Cardinality(Guessers) - 1 + MaxFaults)
    <3>1. Counting + Voiding <= AllGuessers
      BY MailCounts, MailFacts
    <3>2. attempts \in Nat /\ attempts + 1 <= P + Voiding + mailFaults + 1
      BY MailCounts, MailBounds DEF MailInv, CountIsBounded, Email!TypeOK
    <3>3. mailFaults \in Nat /\ mailFaults <= MaxFaults
      BY MailFacts DEF MailInv, Email!TypeOK
    <3> QED
      BY <1>0, <3>1, <3>2, <3>3, MailFacts, MailCounts DEF P
  <2> QED
    BY <2>1, <2>2, <2>3 DEF MailInv, Email!TypeOK
<1>2. LettersAreCounted'
  BY LettersKept DEF MailInv
<1>3. CooldownHolds'
  BY <1>0, MailCounts, MailFacts DEF MailInv, Email!TypeOK, One, Email!Guess, CooldownHolds
<1>4. CodesAreFresh'
  BY <1>0, MailCounts, MailFacts DEF MailInv, Email!TypeOK, One, Email!Guess, CodesAreFresh,
     Email!Codes, Email!NoCode
<1>5. StoredGaveNothing'
  BY <1>0, MailCounts, MailFacts DEF MailInv, Email!TypeOK, One, Email!Guess,
     StoredGaveNothing, Email!NoCode, Email!Codes, CodesAreFresh
<1>6. Email!SingleUse'
  BY <1>0, MailCounts, MailFacts DEF MailInv, Email!TypeOK, One, Email!Guess,
     Email!SingleUse, StoredGaveNothing, Email!Codes, Email!NoCode
<1>7. CountIsBounded'
  BY <1>0, MailCounts, MailFacts DEF MailInv, Email!TypeOK, One, Email!Guess, CountIsBounded, P
<1>8. Budget'
  <2>1. PICK s1 \in Nat, t \in Nat, l \in 0..P, m \in 0..P, u \in Nat, v \in Nat, e \in Nat :
           /\ s1 = Renewals /\ t = Renewals' /\ l = Slack /\ m = Slack' /\ u = Under /\ v = Under'
           /\ e = Extra /\ e \in {0, Email!FaultCost}
           /\ (mailFaults' # mailFaults => e >= 1 /\ e >= P)
    <3>1. mailFaults' \in {mailFaults, mailFaults + 1}
      OBVIOUS
    <3> QED
      BY <1>1, <3>1, Parts, Zenon
  <2>2. t = s1 /\ m <= l
    <3>1. Renewals' = Renewals
      BY <1>0, MailFacts DEF Renewals, Clears, One, AllGuessers
    <3>2. Slack' <= Slack
      <4>1. PICK a \in Nat, p \in Nat : a = attempts /\ p = P
        BY MailBounds DEF MailInv, Email!TypeOK
      <4>2. P' = P /\ (Clearing' = AllGuessers' <=> Clearing = AllGuessers)
        BY <1>0 DEF P, AllGuessers
      <4>3. Slack = IF Clearing = AllGuessers \/ a = 0 THEN p ELSE IF a < p THEN p - a ELSE 0
        BY <4>1, Zenon DEF Slack
      <4>4. CASE attempts' = attempts
        <5>1. Slack' = Slack
          BY <4>2, <4>4, Zenon DEF Slack
        <5> QED
          BY <4>3, <5>1
      <4>5. CASE attempts' = attempts + 1
        <5>1. attempts' = a + 1
          BY <4>1, <4>5, Zenon
        <5>2. Slack' = IF Clearing = AllGuessers \/ a + 1 = 0 THEN p
                       ELSE IF a + 1 < p THEN p - (a + 1) ELSE 0
          BY <4>1, <4>2, <5>1, Zenon DEF Slack
        <5> QED
          BY <4>3, <5>2
      <4> QED
        BY <4>4, <4>5
    <3> QED
      BY <2>1, <3>1, <3>2, Zenon
  <2>3. u = v + 1
    <3>1. Under = Under' + 1
      BY <1>0, MailCounts DEF Under
    <3> QED
      BY <2>1, <3>1, Zenon
  <2>4. m + u <= l + v + e
    <3>1. e >= 1
      BY <2>1, MailFacts DEF MailInv, Email!TypeOK
    <3> QED
      BY <2>2, <2>3, <3>1, MailBounds
  <2>5. t <= s1
    BY <2>2
  <2> QED
    BY <1>1, <2>1, <2>4, <2>5, BudgetMoves
<1> QED
  BY <1>1, <1>2, <1>3, <1>4, <1>5, <1>6, <1>7, <1>8 DEF MailInv

LEMMA CountAttemptMailed ==
  ASSUME MailInv, NEW g \in Guessers, Email!CountAttempt(g) PROVE MailInv'
  BY LastCountMailed, CountMailed, CountFailsMailed
     DEF Email!CountAttempt, Email!Fault, Email!histories

LEMMA VoidedMailed ==
  ASSUME MailInv, NEW g \in Guessers, Email!Guess(g, "void", "idle"),
         code' = Email!NoCode, attempts' = 0, outdated' = FALSE,
         UNCHANGED <<cooldown, daily, sender, stored, refused, accepted, letters, owed, mailFaults>>
  PROVE  MailInv'
<1>0. /\ Clearing' = Clearing /\ Counting' = Counting /\ Voiding' = Voiding - 1 /\ Voiding >= 1
      /\ Asked' = Asked /\ Storing' = Storing /\ Resetting' = Resetting
      /\ Mailing' = Mailing /\ Undoing' = Undoing
      /\ AllGuessers >= 1
      /\ Clearing' = AllGuessers => "idle" = "clear"
      /\ Clearing = AllGuessers => "void" = "clear"
  BY GuesserMoves, NobodyMoves, MailCounts DEF MailInv, One
<1>1. Email!TypeOK'
  <2>1. guesser' \in [Guessers -> {"idle", "clear", "count", "void"}]
    BY DEF MailInv, Email!TypeOK, Email!Guess
  <2>3. attempts' \in 0..(verificationMaxAttempts + Email!Cardinality(Guessers) - 1 + MaxFaults)
    BY MailFacts DEF MailInv, Email!TypeOK
  <2> QED
    BY <2>1, <2>3 DEF MailInv, Email!TypeOK, Email!NoCode
<1>2. LettersAreCounted'
  BY LettersKept DEF MailInv
<1>3. CooldownHolds'
  BY <1>0, MailCounts, MailFacts DEF MailInv, Email!TypeOK, One, Email!Guess, CooldownHolds
<1>4. CodesAreFresh'
  BY <1>0, MailCounts, MailFacts DEF MailInv, Email!TypeOK, One, Email!Guess, CodesAreFresh,
     Email!Codes, Email!NoCode
<1>5. StoredGaveNothing'
  BY <1>0, MailCounts, MailFacts DEF MailInv, Email!TypeOK, One, Email!Guess,
     StoredGaveNothing, Email!NoCode, Email!Codes, CodesAreFresh
<1>6. Email!SingleUse'
  BY <1>0, MailCounts, MailFacts DEF MailInv, Email!TypeOK, One, Email!Guess,
     Email!SingleUse, StoredGaveNothing, Email!Codes, Email!NoCode
<1>7. CountIsBounded'
  BY <1>0, MailCounts, MailFacts DEF MailInv, Email!TypeOK, One, Email!Guess, CountIsBounded, P
<1>8. Budget'
  BY <1>1, BudgetKept DEF MailInv, Email!TypeOK
<1> QED
  BY <1>1, <1>2, <1>3, <1>4, <1>5, <1>6, <1>7, <1>8 DEF MailInv

LEMMA VoidFailsMailed ==
  ASSUME MailInv, NEW g \in Guessers, Email!Guess(g, "void", "idle"),
         mailFaults < MaxFaults, mailFaults' = mailFaults + 1,
         UNCHANGED <<code, cooldown, attempts, daily, outdated, sender, stored,
                     refused, accepted, letters, owed>>
  PROVE  MailInv'
<1>0. /\ Clearing' = Clearing /\ Counting' = Counting /\ Voiding' = Voiding - 1 /\ Voiding >= 1
      /\ Asked' = Asked /\ Storing' = Storing /\ Resetting' = Resetting
      /\ Mailing' = Mailing /\ Undoing' = Undoing
      /\ AllGuessers >= 1
      /\ Clearing' = AllGuessers => "idle" = "clear"
      /\ Clearing = AllGuessers => "void" = "clear"
  BY GuesserMoves, NobodyMoves, MailCounts DEF MailInv, One
<1>1. Email!TypeOK'
  <2>1. guesser' \in [Guessers -> {"idle", "clear", "count", "void"}]
    BY DEF MailInv, Email!TypeOK, Email!Guess
  <2>2. mailFaults' \in 0..MaxFaults
    BY MailFacts DEF MailInv, Email!TypeOK
  <2> QED
    BY <2>1, <2>2 DEF MailInv, Email!TypeOK
<1>2. LettersAreCounted'
  BY LettersKept DEF MailInv
<1>3. CooldownHolds'
  BY <1>0, MailCounts, MailFacts DEF MailInv, Email!TypeOK, One, Email!Guess, CooldownHolds
<1>4. CodesAreFresh'
  BY <1>0, MailCounts, MailFacts DEF MailInv, Email!TypeOK, One, Email!Guess, CodesAreFresh,
     Email!Codes, Email!NoCode
<1>5. StoredGaveNothing'
  BY <1>0, MailCounts, MailFacts DEF MailInv, Email!TypeOK, One, Email!Guess,
     StoredGaveNothing, Email!NoCode, Email!Codes, CodesAreFresh
<1>6. Email!SingleUse'
  BY <1>0, MailCounts, MailFacts DEF MailInv, Email!TypeOK, One, Email!Guess,
     Email!SingleUse, StoredGaveNothing, Email!Codes, Email!NoCode
<1>7. CountIsBounded'
  BY <1>0, MailCounts, MailFacts DEF MailInv, Email!TypeOK, One, Email!Guess, CountIsBounded, P
<1>8. Budget'
  <2>1. PICK s1 \in Nat, t \in Nat, l \in 0..P, m \in 0..P, u \in Nat, v \in Nat, e \in Nat :
           /\ s1 = Renewals /\ t = Renewals' /\ l = Slack /\ m = Slack' /\ u = Under /\ v = Under'
           /\ e = Extra /\ e \in {0, Email!FaultCost}
           /\ (mailFaults' # mailFaults => e >= 1 /\ e >= P)
    <3>1. mailFaults' \in {mailFaults, mailFaults + 1}
      OBVIOUS
    <3> QED
      BY <1>1, <3>1, Parts, Zenon
  <2>2. t <= s1 /\ m = l
    BY <1>0, <2>1, MailFacts DEF Renewals, Slack, Clears, One, AllGuessers, P
  <2>3. u = v + 1
    <3>1. Under = Under' + 1
      BY <1>0, MailCounts DEF Under
    <3> QED
      BY <2>1, <3>1, Zenon
  <2>4. m + u <= l + v + e
    <3>1. e >= 1
      BY <2>1, MailFacts DEF MailInv, Email!TypeOK
    <3> QED
      BY <2>2, <2>3, <3>1, MailBounds
  <2> QED
    BY <1>1, <2>1, <2>2, <2>4, BudgetMoves
<1> QED
  BY <1>1, <1>2, <1>3, <1>4, <1>5, <1>6, <1>7, <1>8 DEF MailInv

LEMMA VoidMailed ==
  ASSUME MailInv, NEW g \in Guessers, Email!Void(g) PROVE MailInv'
  BY VoidedMailed, VoidFailsMailed DEF Email!Void, Email!Fresh, Email!Fault, Email!histories

-----------------------------------------------------------------------------
(* The lives of the keys.                                                  *)

LEMMA CodeLapsesMailed ==
  ASSUME MailInv, code' = Email!NoCode,
         UNCHANGED <<cooldown, attempts, daily, outdated, sender, guesser, stored,
                     refused, accepted, letters, owed, mailFaults>>
  PROVE  MailInv'
<1>0. /\ Clearing' = Clearing /\ Counting' = Counting /\ Voiding' = Voiding
      /\ Asked' = Asked /\ Storing' = Storing /\ Resetting' = Resetting
      /\ Mailing' = Mailing /\ Undoing' = Undoing
  BY NobodyMoves
<1>1. Email!TypeOK'
  BY DEF MailInv, Email!TypeOK, AllGuessers
<1>2. LettersAreCounted'
  BY LettersKept DEF MailInv
<1>3. CooldownHolds'
  BY <1>0, MailCounts, MailFacts DEF MailInv, Email!TypeOK, One, AllGuessers, CooldownHolds
<1>4. CodesAreFresh'
  BY <1>0, MailCounts, MailFacts DEF MailInv, Email!TypeOK, One, AllGuessers, CodesAreFresh,
     Email!Codes, Email!NoCode
<1>5. StoredGaveNothing'
  BY <1>0, MailCounts, MailFacts DEF MailInv, Email!TypeOK, One, AllGuessers,
     StoredGaveNothing, Email!NoCode, Email!Codes, CodesAreFresh
<1>6. Email!SingleUse'
  BY <1>0, MailCounts, MailFacts DEF MailInv, Email!TypeOK, One, AllGuessers,
     Email!SingleUse, StoredGaveNothing, Email!Codes, Email!NoCode
<1>7. CountIsBounded'
  BY <1>0, MailCounts, MailFacts DEF MailInv, Email!TypeOK, One, AllGuessers, CountIsBounded, P
<1>8. Budget'
  BY <1>1, BudgetKept DEF MailInv, Email!TypeOK
<1> QED
  BY <1>1, <1>2, <1>3, <1>4, <1>5, <1>6, <1>7, <1>8 DEF MailInv

LEMMA CooldownLapsesMailed ==
  ASSUME MailInv, \A s \in Senders : sender[s] \notin {"daily", "store", "reset"},
         cooldown' = FALSE,
         UNCHANGED <<code, attempts, daily, outdated, sender, guesser, stored, refused,
                     accepted, letters, owed, mailFaults>>
  PROVE  MailInv'
<1>0. /\ Clearing' = Clearing /\ Counting' = Counting /\ Voiding' = Voiding
      /\ Asked' = Asked /\ Storing' = Storing /\ Resetting' = Resetting
      /\ Mailing' = Mailing /\ Undoing' = Undoing
  BY NobodyMoves
<1>a. Asked = 0 /\ Storing = 0 /\ Resetting = 0
  BY CountOfNone DEF Asked, Storing, Resetting
<1>1. Email!TypeOK'
  BY DEF MailInv, Email!TypeOK, AllGuessers
<1>2. LettersAreCounted'
  BY LettersKept DEF MailInv
<1>3. CooldownHolds'
  BY <1>0, <1>a, MailCounts, MailFacts DEF MailInv, Email!TypeOK, One, CooldownHolds
<1>4. CodesAreFresh'
  BY <1>0, MailCounts, MailFacts DEF MailInv, Email!TypeOK, One, AllGuessers, CodesAreFresh,
     Email!Codes, Email!NoCode
<1>5. StoredGaveNothing'
  BY <1>0, MailCounts, MailFacts DEF MailInv, Email!TypeOK, One, AllGuessers,
     StoredGaveNothing, Email!NoCode, Email!Codes, CodesAreFresh
<1>6. Email!SingleUse'
  BY <1>0, MailCounts, MailFacts DEF MailInv, Email!TypeOK, One, AllGuessers,
     Email!SingleUse, StoredGaveNothing, Email!Codes, Email!NoCode
<1>7. CountIsBounded'
  BY <1>0, MailCounts, MailFacts DEF MailInv, Email!TypeOK, One, AllGuessers, CountIsBounded, P
<1>8. Budget'
  <2>1. Renewals' = Renewals /\ Slack' = Slack /\ Under' = Under
    BY <1>0 DEF Renewals, Clears, Slack, Under, One, P, AllGuessers
  <2> QED
    BY <1>1, <2>1, BudgetSame DEF MailInv, Email!TypeOK
<1> QED
  BY <1>1, <1>2, <1>3, <1>4, <1>5, <1>6, <1>7, <1>8 DEF MailInv

LEMMA AttemptsLapseMailed ==
  ASSUME MailInv, code = Email!NoCode \/ outdated, attempts' = 0, outdated' = FALSE,
         UNCHANGED <<code, cooldown, daily, sender, guesser, stored, refused, accepted,
                     letters, owed, mailFaults>>
  PROVE  MailInv'
<1>0. /\ Clearing' = Clearing /\ Counting' = Counting /\ Voiding' = Voiding
      /\ Asked' = Asked /\ Storing' = Storing /\ Resetting' = Resetting
      /\ Mailing' = Mailing /\ Undoing' = Undoing
  BY NobodyMoves
<1>1. Email!TypeOK'
  <2>3. attempts' \in 0..(verificationMaxAttempts + Email!Cardinality(Guessers) - 1 + MaxFaults)
    BY MailFacts DEF MailInv, Email!TypeOK
  <2> QED
    BY <2>3 DEF MailInv, Email!TypeOK
<1>2. LettersAreCounted'
  BY LettersKept DEF MailInv
<1>3. CooldownHolds'
  BY <1>0, MailCounts, MailFacts DEF MailInv, Email!TypeOK, One, AllGuessers, CooldownHolds
<1>4. CodesAreFresh'
  BY <1>0, MailCounts, MailFacts DEF MailInv, Email!TypeOK, One, AllGuessers, CodesAreFresh,
     Email!Codes, Email!NoCode
<1>5. StoredGaveNothing'
  BY <1>0, MailCounts, MailFacts DEF MailInv, Email!TypeOK, One, AllGuessers,
     StoredGaveNothing, Email!NoCode, Email!Codes, CodesAreFresh
<1>6. Email!SingleUse'
  BY <1>0, MailCounts, MailFacts DEF MailInv, Email!TypeOK, One, AllGuessers,
     Email!SingleUse, StoredGaveNothing, Email!Codes, Email!NoCode
<1>7. CountIsBounded'
  BY <1>0, MailCounts, MailFacts DEF MailInv, Email!TypeOK, One, AllGuessers, CountIsBounded, P
<1>8. Budget'
  <2>0. CASE code = Email!NoCode
    BY <1>1, <2>0, BudgetKept DEF MailInv, Email!TypeOK
  <2>a. CASE outdated
    <3>1. PICK s1 \in Nat, t \in Nat, l \in 0..P, m \in 0..P, u \in Nat, v \in Nat, e \in Nat :
                     /\ s1 = Renewals /\ t = Renewals' /\ l = Slack /\ m = Slack' /\ u = Under /\ v = Under'
                     /\ e = Extra /\ e \in {0, Email!FaultCost}
                     /\ (mailFaults' # mailFaults => e >= 1 /\ e >= P)
        <4>1. mailFaults' \in {mailFaults, mailFaults + 1}
            OBVIOUS
        <4> QED
            BY <1>1, <4>1, Parts, Zenon
    <3>2. u = v
      BY <1>0, <3>1 DEF Under
    <3>3. \/ t <= s1 /\ m = l
          \/ t + 1 <= s1
      <4>1. CASE Clearing = AllGuessers
        <5>1. Renewals' = Renewals /\ Slack' = Slack
          BY <1>0, <4>1, MailFacts DEF Renewals, Slack, Clears, One, AllGuessers, P
        <5>2. t = s1 /\ m = l
          BY <3>1, <5>1, Zenon
        <5> QED
          BY <5>2
      <4>2. CASE Clearing # AllGuessers
        <5>1. Renewals' + 1 <= Renewals
          BY <1>0, <2>a, <4>2, MailCounts, MailFacts DEF Renewals, Clears, One, AllGuessers
        <5> QED
          BY <3>1, <5>1, Zenon
      <4> QED
        BY <4>1, <4>2
    <3>4. /\ m = l => m + u <= l + v + e
          /\ m + u <= P + l + v + e
      BY <3>2, MailBounds
    <3> QED
      BY <1>1, <3>1, <3>3, <3>4, BudgetMoves
  <2> QED
    BY <2>0, <2>a
<1> QED
  BY <1>1, <1>2, <1>3, <1>4, <1>5, <1>6, <1>7, <1>8 DEF MailInv

LEMMA DayEndsMailed ==
  ASSUME MailInv, daily' = 0, letters' = 0, owed' = {},
         UNCHANGED <<code, cooldown, attempts, outdated, sender, guesser, stored,
                     refused, accepted, mailFaults>>
  PROVE  MailInv'
<1>0. /\ Clearing' = Clearing /\ Counting' = Counting /\ Voiding' = Voiding
      /\ Asked' = Asked /\ Storing' = Storing /\ Resetting' = Resetting
      /\ Mailing' = Mailing /\ Undoing' = Undoing
  BY NobodyMoves
<1>1. Email!TypeOK'
  BY MailFacts DEF MailInv, Email!TypeOK
<1>2. LettersAreCounted'
  BY FS_EmptySet, OwedIsCardinality, MailFacts DEF LettersAreCounted
<1>3. CooldownHolds'
  BY <1>0, MailCounts, MailFacts DEF MailInv, Email!TypeOK, One, CooldownHolds
<1>4. CodesAreFresh'
  BY <1>0, MailCounts, MailFacts DEF MailInv, Email!TypeOK, One, AllGuessers, CodesAreFresh,
     Email!Codes, Email!NoCode
<1>5. StoredGaveNothing'
  BY <1>0, MailCounts, MailFacts DEF MailInv, Email!TypeOK, One, AllGuessers,
     StoredGaveNothing, Email!NoCode, Email!Codes, CodesAreFresh
<1>6. Email!SingleUse'
  BY <1>0, MailCounts, MailFacts DEF MailInv, Email!TypeOK, One, AllGuessers,
     Email!SingleUse, StoredGaveNothing, Email!Codes, Email!NoCode
<1>7. CountIsBounded'
  BY <1>0, MailCounts, MailFacts DEF MailInv, Email!TypeOK, One, AllGuessers, CountIsBounded, P
<1>8. Budget'
  <2>1. Renewals' = Renewals /\ Slack' = Slack /\ Under' = Under
    BY <1>0 DEF Renewals, Clears, Slack, Under, One, P, AllGuessers
  <2> QED
    BY <1>1, <2>1, BudgetSame DEF MailInv, Email!TypeOK
<1> QED
  BY <1>1, <1>2, <1>3, <1>4, <1>5, <1>6, <1>7, <1>8 DEF MailInv

LEMMA StillMailed ==
  ASSUME MailInv, UNCHANGED <<code, cooldown, attempts, daily, outdated, sender, guesser, stored, refused, accepted, letters, owed, mailFaults>> PROVE MailInv'
<1>0. /\ Clearing' = Clearing /\ Counting' = Counting /\ Voiding' = Voiding
      /\ Asked' = Asked /\ Storing' = Storing /\ Resetting' = Resetting
      /\ Mailing' = Mailing /\ Undoing' = Undoing
  BY NobodyMoves
<1>1. Email!TypeOK'
  BY DEF MailInv, Email!TypeOK, AllGuessers
<1>2. LettersAreCounted'
  BY LettersKept DEF MailInv
<1>3. CooldownHolds'
  BY <1>0, MailCounts, MailFacts DEF MailInv, Email!TypeOK, One, AllGuessers, CooldownHolds
<1>4. CodesAreFresh'
  BY <1>0, MailCounts, MailFacts DEF MailInv, Email!TypeOK, One, AllGuessers, CodesAreFresh,
     Email!Codes, Email!NoCode
<1>5. StoredGaveNothing'
  BY <1>0, MailCounts, MailFacts DEF MailInv, Email!TypeOK, One, AllGuessers,
     StoredGaveNothing, Email!NoCode, Email!Codes, CodesAreFresh
<1>6. Email!SingleUse'
  BY <1>0, MailCounts, MailFacts DEF MailInv, Email!TypeOK, One, AllGuessers,
     Email!SingleUse, StoredGaveNothing, Email!Codes, Email!NoCode
<1>7. CountIsBounded'
  BY <1>0, MailCounts, MailFacts DEF MailInv, Email!TypeOK, One, AllGuessers, CountIsBounded, P
<1>8. Budget'
  <2>1. Renewals' = Renewals /\ Slack' = Slack /\ Under' = Under
    BY <1>0 DEF Renewals, Clears, Slack, Under, One, P, AllGuessers
  <2> QED
    BY <1>1, <2>1, BudgetSame DEF MailInv, Email!TypeOK
<1> QED
  BY <1>1, <1>2, <1>3, <1>4, <1>5, <1>6, <1>7, <1>8 DEF MailInv

LEMMA MailStart == ASSUME Email!Init PROVE MailInv
<1>1. /\ Asked = 0 /\ Storing = 0 /\ Resetting = 0 /\ Mailing = 0 /\ Undoing = 0
      /\ Clearing = 0 /\ Counting = 0 /\ Voiding = 0
  BY CountOfNone
     DEF Email!Init, Asked, Storing, Resetting, Mailing, Undoing, Clearing, Counting, Voiding
<1>2. Email!TypeOK
  <2>1. /\ 0 \in 0..(verificationMaxAttempts + Email!Cardinality(Guessers) - 1 + MaxFaults)
        /\ 0 \in 0..(emailDailyLimit + 1 + MaxFaults) /\ 0 \in 0..MaxCodes
        /\ 0 \in 0..MaxFaults
    BY MailFacts
  <2> QED
    BY <2>1 DEF Email!Init, Email!TypeOK, Email!NoCode
<1>3. LettersAreCounted
  BY FS_EmptySet, OwedIsCardinality, MailFacts DEF Email!Init, LettersAreCounted
<1>a. CooldownHolds /\ CodesAreFresh /\ CountIsBounded
  BY <1>1, MailFacts
     DEF Email!Init, CooldownHolds, CodesAreFresh, CountIsBounded, One, P,
         Email!Codes, Email!NoCode
<1>4. StoredGaveNothing /\ Email!SingleUse
  BY DEF Email!Init, StoredGaveNothing, Email!SingleUse, Email!Codes, Email!NoCode
<1>5. Budget
  <2>1. Most \in Nat
    BY <1>2, MailBounds, FaultsPay DEF Most, Email!TypeOK
  <2> QED
    BY <2>1 DEF Email!Init, Budget, Email!Codes, Email!NoCode
<1> QED
  BY <1>2, <1>3, <1>a, <1>4, <1>5 DEF MailInv

LEMMA MailStep == ASSUME MailInv, [Email!Next]_emailVars PROVE MailInv'
<1>1. ASSUME NEW s \in Senders, Email!SenderStep(s) PROVE MailInv'
  BY <1>1, AskMailed, CountDailyMailed, StoreMailed, ResetMailed, MailMailed, UndoMailed
     DEF Email!SenderStep
<1>2. ASSUME NEW g \in Guessers, Email!GuesserStep(g) PROVE MailInv'
  <2>1. CASE Email!Consume(g)
    BY <2>1, ConsumeMailed DEF Email!Consume
  <2>2. CASE Email!Refuse(g)
    BY <2>2, RefuseMailed DEF Email!Refuse, Email!keys
  <2> QED
    BY <1>2, <2>1, <2>2, VoidMailed, RefuseUnseenMailed, ClearAttemptsMailed, CountAttemptMailed
       DEF Email!GuesserStep
<1>3. CASE Email!Lapse
  <2>1. CASE Email!CodeLapses
    BY <2>1, CodeLapsesMailed DEF Email!CodeLapses, Email!histories
  <2>2. CASE Email!CooldownLapses
    BY <2>2, CooldownLapsesMailed DEF Email!CooldownLapses, Email!histories
  <2>3. CASE Email!AttemptsLapse
    BY <2>3, AttemptsLapseMailed DEF Email!AttemptsLapse, Email!histories
  <2>4. CASE Email!DayEnds
    BY <2>4, DayEndsMailed DEF Email!DayEnds
  <2> QED
    BY <1>3, <2>1, <2>2, <2>3, <2>4 DEF Email!Lapse
<1>4. CASE UNCHANGED emailVars
  BY <1>4, StillMailed DEF emailVars
<1> QED
  BY <1>1, <1>2, <1>3, <1>4 DEF Email!Next

(* A code that one login used is gone: no second request compares it, not  *)
(* when several present it at once.                                        *)
THEOREM OneLogin == ComponentsSpec => []SingleUse
<1>1. ComponentsInit => MailInv
  BY MailStart DEF ComponentsInit
<1>2. MailInv /\ [ComponentsNext]_componentVars => MailInv'
  BY EmailSteps, MailStep
<1>3. MailInv => SingleUse
  BY DEF MailInv, SingleUse
<1> QED
  BY <1>1, <1>2, <1>3, PTL DEF ComponentsSpec

-----------------------------------------------------------------------------
(* The lock against wrong passwords.                                       *)

LEMMA PasswordSteps ==
  ASSUME [ComponentsNext]_componentVars PROVE [Password!Next]_passwordVars
  BY DEF ComponentsNext, componentVars, passwordVars

ToCompare == HowMany(pc, Logins, {"compare"})
ToCount == HowMany(pc, Logins, {"count"})
ToLock == HowMany(pc, Logins, {"lock"})
AllLogins == Cardinality(Logins)
Counted == IF failures < passwordMaxFailures THEN failures ELSE passwordMaxFailures - 1

(* While there is no lock, every wrong password was counted, is about to   *)
(* be counted or to lock, or met a failed call; the count that matters     *)
(* ends below the limit.  Once there is a lock, only the logins that       *)
(* looked before can still compare a password.                             *)
WrongAreCounted == ~lock => round <= Counted + ToCount + ToLock + lockFaults
LockedIsFinal == lock => round + ToCompare + 1 <= passwordMaxFailures + AllLogins + lockFaults

LockInv == Password!TypeOK /\ round <= guesses /\ WrongAreCounted /\ LockedIsFinal

LEMMA LockFacts ==
  /\ IsFiniteSet(Logins) /\ AllLogins \in Nat
  /\ Password!Cardinality(Logins) = AllLogins
  /\ passwordMaxFailures \in Nat \ {0} /\ MaxGuesses \in Nat /\ MaxFaults \in Nat
<1>1. IsFiniteSet(Logins)
  BY LockAssumption DEF Password!LockAssumption, IsFiniteSet, Password!IsFiniteSet
<1>2. Password!Cardinality(Logins) = Cardinality(Logins)
  BY DEF Cardinality, Password!Cardinality
<1>3. Cardinality(Logins) \in Nat
  BY <1>1, FS_CardinalityType
<1> QED
  BY <1>1, <1>2, <1>3, LockAssumption DEF Password!LockAssumption, AllLogins

LEMMA LoginCounts ==
  ASSUME NEW f
  PROVE  /\ HowMany(f, Logins, {"compare"}) \in Nat
         /\ HowMany(f, Logins, {"count"}) \in Nat
         /\ HowMany(f, Logins, {"lock"}) \in Nat
         /\ HowMany(f, Logins, {"compare"}) + HowMany(f, Logins, {"count"})
              + HowMany(f, Logins, {"lock"}) <= AllLogins
<1> USE LockFacts
<1>1. HowMany(f, Logins, {"compare"} \union {"count"})
        = HowMany(f, Logins, {"compare"}) + HowMany(f, Logins, {"count"})
  BY CountSplit
<1>2. HowMany(f, Logins, ({"compare"} \union {"count"}) \union {"lock"})
        = HowMany(f, Logins, {"compare"} \union {"count"}) + HowMany(f, Logins, {"lock"})
  BY CountSplit
<1>3. HowMany(f, Logins, ({"compare"} \union {"count"}) \union {"lock"}) <= AllLogins
  BY CountType DEF AllLogins
<1>4. /\ HowMany(f, Logins, {"compare"}) \in Nat /\ HowMany(f, Logins, {"count"}) \in Nat
      /\ HowMany(f, Logins, {"lock"}) \in Nat
  BY CountType
<1> QED
  BY <1>1, <1>2, <1>3, <1>4

LEMMA LoginMoves ==
  ASSUME Password!TypeOK, NEW l \in Logins, NEW from, NEW to \in {"idle", "compare", "count", "lock", "clear"},
         Password!Goto(l, from, to)
  PROVE  /\ pc' \in [Logins -> {"idle", "compare", "count", "lock", "clear"}]
         /\ ToCompare' = ToCompare - One(from = "compare") + One(to = "compare")
         /\ ToCount' = ToCount - One(from = "count") + One(to = "count")
         /\ ToLock' = ToLock - One(from = "lock") + One(to = "lock")
         /\ ToCompare \in Nat /\ ToCount \in Nat /\ ToLock \in Nat
         /\ ToCompare' \in Nat /\ ToCount' \in Nat /\ ToLock' \in Nat
         /\ ToCompare + ToCount + ToLock <= AllLogins
         /\ ToCompare' + ToCount' + ToLock' <= AllLogins
<1>1. pc[l] = from /\ pc' = [pc EXCEPT ![l] = to]
  BY DEF Password!Goto
<1>2. pc \in [Logins -> {"idle", "compare", "count", "lock", "clear"}]
  BY DEF Password!TypeOK
<1>3. pc'[l] = to /\ OnlyMoves(l, pc, pc', Logins)
  BY <1>1, <1>2 DEF OnlyMoves
<1>4. ASSUME NEW c
      PROVE  HowMany(pc', Logins, {c})
               = HowMany(pc, Logins, {c}) - One(from = c) + One(to = c)
  <2>1. HowMany(pc', Logins, {c}) = HowMany(pc, Logins, {c})
          - (IF pc[l] \in {c} THEN 1 ELSE 0) + (IF pc'[l] \in {c} THEN 1 ELSE 0)
    BY <1>3, LockFacts, CountMove
  <2> QED
    BY <1>1, <1>3, <2>1 DEF One
<1>5. /\ ToCompare' = ToCompare - One(from = "compare") + One(to = "compare")
      /\ ToCount' = ToCount - One(from = "count") + One(to = "count")
      /\ ToLock' = ToLock - One(from = "lock") + One(to = "lock")
  BY <1>4 DEF ToCompare, ToCount, ToLock
<1>6. /\ ToCompare \in Nat /\ ToCount \in Nat /\ ToLock \in Nat
      /\ ToCompare + ToCount + ToLock <= AllLogins
  BY LoginCounts DEF ToCompare, ToCount, ToLock
<1>7. /\ ToCompare' \in Nat /\ ToCount' \in Nat /\ ToLock' \in Nat
      /\ ToCompare' + ToCount' + ToLock' <= AllLogins
  BY LoginCounts DEF ToCompare, ToCount, ToLock
<1> QED
  BY <1>1, <1>2, <1>5, <1>6, <1>7

(* A fresh start.                                                          *)
LEMMA FreshStart ==
  ASSUME Password!TypeOK', round' <= guesses', round' = 0, lock' = FALSE PROVE LockInv'
<1>1. ToCount' \in Nat /\ ToLock' \in Nat
  BY LoginCounts DEF ToCount, ToLock
<1>2. Counted' \in Nat
  BY LockFacts DEF Counted, Password!TypeOK
<1>3. lockFaults' \in Nat
  BY DEF Password!TypeOK
<1>4. PICK a \in Nat, b \in Nat, c \in Nat, d \in Nat :
        a = Counted' /\ b = ToCount' /\ c = ToLock' /\ d = lockFaults'
  BY <1>1, <1>2, <1>3, Zenon
<1>5. 0 <= a + b + c + d
  OBVIOUS
<1>6. round' <= Counted' + ToCount' + ToLock' + lockFaults'
  BY <1>4, <1>5, Zenon
<1> QED
  BY <1>6 DEF LockInv, WrongAreCounted, LockedIsFinal

LEMMA LockStep == ASSUME LockInv, [Password!Next]_passwordVars PROVE LockInv'
<1> USE LockFacts
<1> USE DEF LockInv, Password!TypeOK, WrongAreCounted, LockedIsFinal, Counted, AllLogins, One
<1>1. ASSUME NEW l \in Logins, Password!Enter(l) PROVE LockInv'
  <2>1. /\ ToCompare' = ToCompare + 1 /\ ToCount' = ToCount /\ ToLock' = ToLock
        /\ pc' \in [Logins -> {"idle", "compare", "count", "lock", "clear"}]
    BY <1>1, LoginMoves DEF Password!Enter
  <2> QED
    BY <1>1, <2>1 DEF Password!Enter, Password!Unlocked
<1>2. ASSUME NEW l \in Logins, Password!Wrong(l) PROVE LockInv'
  <2>1. /\ ToCompare' = ToCompare - 1 /\ ToCount' = ToCount + 1 /\ ToLock' = ToLock
        /\ ToCompare \in Nat /\ ToCount \in Nat /\ ToLock \in Nat
        /\ pc' \in [Logins -> {"idle", "compare", "count", "lock", "clear"}]
    BY <1>2, LoginMoves DEF Password!Wrong
  <2>2. Password!TypeOK' /\ round' <= guesses'
    BY <1>2, <2>1 DEF Password!Wrong
  <2> QED
    BY <1>2, <2>1, <2>2 DEF Password!Wrong
<1>3. ASSUME NEW l \in Logins, Password!Right(l) PROVE LockInv'
  <2>1. /\ ToCompare' = ToCompare - 1 /\ ToCount' = ToCount /\ ToLock' = ToLock
        /\ ToCompare \in Nat /\ ToCount \in Nat /\ ToLock \in Nat
        /\ pc' \in [Logins -> {"idle", "compare", "count", "lock", "clear"}]
    BY <1>3, LoginMoves DEF Password!Right
  <2> QED
    BY <1>3, <2>1 DEF Password!Right
<1>4. ASSUME NEW l \in Logins, Password!Count(l) PROVE LockInv'
  <2>1. ASSUME Password!Reached, Password!Goto(l, "count", "lock"), failures' = failures + 1,
               young' = (young \/ failures = 0),
               UNCHANGED <<lock, guesses, round, lockFaults>>
        PROVE LockInv'
    <3>1. /\ ToCompare' = ToCompare /\ ToCount' = ToCount - 1 /\ ToLock' = ToLock + 1
          /\ ToCompare \in Nat /\ ToCount \in Nat /\ ToLock \in Nat
          /\ pc' \in [Logins -> {"idle", "compare", "count", "lock", "clear"}]
      BY <2>1, LoginMoves
    <3>2. Password!TypeOK' /\ round' <= guesses' /\ LockedIsFinal'
      BY <2>1, <3>1
    <3>3. WrongAreCounted'
      BY <2>1, <3>1 DEF Password!Reached
    <3> QED
      BY <3>2, <3>3
  <2>2. ASSUME ~Password!Reached, Password!Goto(l, "count", "idle"), failures' = failures + 1,
               young' = (young \/ failures = 0),
               UNCHANGED <<lock, guesses, round, lockFaults>>
        PROVE LockInv'
    <3>1. /\ ToCompare' = ToCompare /\ ToCount' = ToCount - 1 /\ ToLock' = ToLock
          /\ ToCompare \in Nat /\ ToCount \in Nat /\ ToLock \in Nat
          /\ pc' \in [Logins -> {"idle", "compare", "count", "lock", "clear"}]
      BY <2>2, LoginMoves
    <3>2. Password!TypeOK' /\ round' <= guesses' /\ LockedIsFinal'
      BY <2>2, <3>1
    <3>3. WrongAreCounted'
      BY <2>2, <3>1 DEF Password!Reached
    <3> QED
      BY <3>2, <3>3
  <2>3. ASSUME Password!Goto(l, "count", "idle"), Password!Fault,
               UNCHANGED <<lock, guesses, round, failures, young>>
        PROVE LockInv'
    <3>1. /\ ToCompare' = ToCompare /\ ToCount' = ToCount - 1 /\ ToLock' = ToLock
          /\ ToCompare \in Nat /\ ToCount \in Nat /\ ToLock \in Nat
          /\ pc' \in [Logins -> {"idle", "compare", "count", "lock", "clear"}]
      BY <2>3, LoginMoves
    <3> QED
      BY <2>3, <3>1 DEF Password!Fault
  <2> QED
    BY <1>4, <2>1, <2>2, <2>3 DEF Password!Count
<1>5. ASSUME NEW l \in Logins, Password!Lock(l) PROVE LockInv'
  <2>0. /\ ToCompare' = ToCompare /\ ToCount' = ToCount /\ ToLock' = ToLock - 1
        /\ ToCompare \in Nat /\ ToCount \in Nat /\ ToLock \in Nat
        /\ ToCompare + ToCount + ToLock <= AllLogins
        /\ pc' \in [Logins -> {"idle", "compare", "count", "lock", "clear"}]
        /\ UNCHANGED <<failures, guesses, round>>
    BY <1>5, LoginMoves DEF Password!Lock
  <2>1. CASE lock' = TRUE /\ young' = (failures = 0) /\ UNCHANGED lockFaults
    BY <2>0, <2>1
  <2>2. CASE Password!Fault /\ UNCHANGED <<lock, young>>
    BY <2>0, <2>2 DEF Password!Fault
  <2> QED
    BY <1>5, <2>1, <2>2 DEF Password!Lock
<1>6. ASSUME NEW l \in Logins, Password!Clear(l) PROVE LockInv'
  <2>0. /\ ToCompare' = ToCompare /\ ToCount' = ToCount /\ ToLock' = ToLock
        /\ ToCompare \in Nat /\ ToCount \in Nat /\ ToLock \in Nat
        /\ pc' \in [Logins -> {"idle", "compare", "count", "lock", "clear"}]
        /\ UNCHANGED guesses
    BY <1>6, LoginMoves DEF Password!Clear
  <2>1. CASE failures' = 0 /\ lock' = FALSE /\ young' = TRUE /\ round' = 0 /\ UNCHANGED lockFaults
    <3>0. round' \in 0..MaxGuesses
      BY <2>1
    <3>1. Password!TypeOK'
      BY <2>0, <2>1, <3>0
    <3>2. round' <= guesses'
      BY <2>0, <2>1
    <3> QED
      BY <2>1, <3>1, <3>2, FreshStart
  <2>2. CASE Password!Fault /\ UNCHANGED <<failures, lock, young, round>>
    BY <2>0, <2>2 DEF Password!Fault
  <2> QED
    BY <1>6, <2>1, <2>2 DEF Password!Clear
<1>7. ASSUME pc' = pc
      PROVE  /\ ToCompare' = ToCompare /\ ToCount' = ToCount /\ ToLock' = ToLock
             /\ ToCompare \in Nat /\ ToCount \in Nat /\ ToLock \in Nat
  BY <1>7, LoginCounts DEF ToCompare, ToCount, ToLock
<1>8. CASE Password!FailuresLapse
  BY <1>7, <1>8 DEF Password!FailuresLapse
<1>9. CASE Password!LockLapses
  <2>0. round' \in 0..MaxGuesses
    BY <1>9 DEF Password!LockLapses
  <2>1. Password!TypeOK'
    BY <1>9, <2>0 DEF Password!LockLapses
  <2>2. round' <= guesses'
    BY <1>9 DEF Password!LockLapses
  <2> QED
    BY <1>9, <2>1, <2>2, FreshStart DEF Password!LockLapses
<1>10. CASE UNCHANGED passwordVars
  BY <1>7, <1>10 DEF passwordVars
<1> QED
  BY <1>1, <1>2, <1>3, <1>4, <1>5, <1>6, <1>8, <1>9, <1>10
     DEF Password!Next, Password!LoginStep, Password!Lapse

LEMMA LockStart == ASSUME Password!Init PROVE LockInv
<1>1. ToCompare \in Nat /\ ToCount \in Nat /\ ToLock \in Nat
  BY LoginCounts DEF ToCompare, ToCount, ToLock
<1>2. Password!TypeOK
  <2>1. 0 \in 0..MaxGuesses /\ 0 \in 0..MaxFaults
    BY LockFacts
  <2> QED
    BY <2>1 DEF Password!Init, Password!TypeOK
<1>3. WrongAreCounted /\ LockedIsFinal
  BY <1>1, LockFacts DEF Password!Init, WrongAreCounted, LockedIsFinal, Counted
<1> QED
  BY <1>2, <1>3 DEF LockInv, Password!Init

LEMMA LockBounds == ASSUME LockInv PROVE Password!GuessesAreBounded
<1>1. /\ ToCompare \in Nat /\ ToCount \in Nat /\ ToLock \in Nat
      /\ ToCompare + ToCount + ToLock <= AllLogins
  BY LoginCounts DEF ToCompare, ToCount, ToLock
<1>2. round <= passwordMaxFailures + AllLogins - 1 + lockFaults
  BY <1>1, LockFacts DEF LockInv, Password!TypeOK, WrongAreCounted, LockedIsFinal, Counted
<1> QED
  BY <1>2, LockFacts DEF Password!GuessesAreBounded

(* The mails for the requests that one life of the daily key counted, the  *)
(* wrong guesses at a code and the wrong passwords between two fresh       *)
(* starts stay within their limits, whatever the number of requests, the   *)
(* order of their calls, the calls that fail and the lives that end.       *)
THEOREM Attempts == ComponentsSpec => []AttemptsAreBounded
<1>1. ComponentsInit => MailInv /\ LockInv
  BY MailStart, LockStart DEF ComponentsInit
<1>2. MailInv /\ LockInv /\ [ComponentsNext]_componentVars => MailInv' /\ LockInv'
  BY EmailSteps, MailStep, PasswordSteps, LockStep
<1>3. MailInv /\ LockInv => AttemptsAreBounded
  <2>1. ASSUME MailInv PROVE Email!MailsAreLimited
    BY <2>1 DEF MailInv, LettersAreCounted, Owed, Email!MailsAreLimited
  <2>2. ASSUME MailInv PROVE Email!GuessesAreBounded
    BY <2>2 DEF MailInv, Budget, Most, Email!GuessesAreBounded
  <2> QED
    BY <2>1, <2>2, LockBounds DEF AttemptsAreBounded
<1> QED
  BY <1>1, <1>2, <1>3, PTL DEF ComponentsSpec

-----------------------------------------------------------------------------
(* The two checks of a request.                                            *)

LEMMA CheckSteps ==
  ASSUME [ComponentsNext]_componentVars PROVE [Checks!Next]_checkVars
  BY DEF ComponentsNext, componentVars, checkVars

(* Principals that Require makes of sessions.                              *)
Identities ==
  {p \in Checks!Sessions : p.user \in Accounts /\ p.role # Checks!Blank
                             /\ Checks!Blank \notin p.permissions}

(* Where a request is: what its checks have answered so far.               *)
CheckInv ==
  /\ record \in Checks!Sessions
  /\ stage \in {"require", "endpoint", "service", "served", "denied"}
  /\ stage = "require" => rule = None /\ request = None
  /\ stage = "endpoint" =>
       principal = record /\ record \in Identities /\ rule = None /\ request = None
  /\ stage = "service" =>
       /\ principal = record /\ record \in Identities /\ request = None
       /\ rule \in Checks!Rules /\ Checks!AuthorizeEndpoint(record, rule)
  /\ stage = "served" =>
       /\ principal = record /\ record \in Identities
       /\ \E place \in Checks!Places, policy \in Checks!Policies, q \in Checks!Requests :
            /\ entry = <<place, policy>> /\ request = q
            /\ constraint = Checks!AuthorizeService(record, place, policy, q)
            /\ constraint # None
  /\ stage = "denied" /\ rule # None =>
       /\ record \in Identities /\ rule \in Checks!Rules
       /\ ~Checks!AuthorizeEndpoint(record, rule)

LEMMA CheckStart == ASSUME Checks!Init PROVE CheckInv
  BY DEF Checks!Init, CheckInv

LEMMA IsIdentity ==
  ASSUME record \in Checks!Sessions, Checks!newPrincipal(record) # None
  PROVE  Checks!newPrincipal(record) = record /\ record \in Identities
<1>1. Checks!Blank \notin {record.user, record.role} \union record.permissions
  BY DEF Checks!newPrincipal
<1>2. record.user \in Accounts \union {Checks!Blank}
  BY DEF Checks!Sessions
<1> QED
  BY <1>1, <1>2 DEF Checks!newPrincipal, Identities

LEMMA CheckStep == ASSUME CheckInv, [Checks!Next]_checkVars PROVE CheckInv'
<1>1. CASE UNCHANGED checkVars
  BY <1>1 DEF CheckInv, checkVars
<1>2. CASE Checks!Require
  <2>1. principal' = Checks!newPrincipal(record) /\ record' = record
        /\ rule' = None /\ request' = None
        /\ stage' = (IF principal' = None THEN "denied" ELSE "endpoint")
    BY <1>2 DEF Checks!Require, CheckInv
  <2>2. CASE principal' = None
    BY <2>1, <2>2 DEF CheckInv
  <2>3. CASE principal' # None
    <3>1. principal' = record /\ record \in Identities
      BY <2>1, <2>3, IsIdentity DEF CheckInv
    <3> QED
      BY <2>1, <2>3, <3>1 DEF CheckInv
  <2> QED
    BY <2>2, <2>3
<1>3. ASSUME NEW r \in Checks!Rules, Checks!RequireEndpoint(r) PROVE CheckInv'
  <2>1. /\ principal = record /\ record \in Identities /\ request = None
        /\ UNCHANGED <<record, principal, request>> /\ rule' = r
        /\ stage' = (IF Checks!AuthorizeEndpoint(record, r) THEN "service" ELSE "denied")
    BY <1>3 DEF Checks!RequireEndpoint, CheckInv
  <2>2. CASE Checks!AuthorizeEndpoint(record, r)
    BY <2>1, <2>2 DEF CheckInv, Checks!AuthorizeEndpoint, Checks!HasPermission,
       Checks!KnownPrincipal
  <2>3. CASE ~Checks!AuthorizeEndpoint(record, r)
    BY <2>1, <2>3 DEF CheckInv, Checks!AuthorizeEndpoint, Checks!HasPermission,
       Checks!KnownPrincipal
  <2> QED
    BY <2>2, <2>3
<1>4. ASSUME NEW place \in Checks!Places, NEW policy \in Checks!Policies,
             NEW q \in Checks!Requests, Checks!Serve(place, policy, q)
      PROVE  CheckInv'
  <2>1. /\ principal = record /\ record \in Identities
        /\ UNCHANGED <<record, principal>> /\ rule' = None
        /\ entry' = <<place, policy>> /\ request' = q
        /\ constraint' = Checks!AuthorizeService(record, place, policy, q)
        /\ stage' = (IF constraint' = None THEN "denied" ELSE "served")
    BY <1>4 DEF Checks!Serve, CheckInv
  <2>2. CASE constraint' = None
    BY <2>1, <2>2 DEF CheckInv
  <2>3. CASE constraint' # None
    <3>1. Checks!AuthorizeService(record, place, policy, q)'
            = Checks!AuthorizeService(record, place, policy, q)
      BY <2>1 DEF Checks!AuthorizeService, Checks!KnownPrincipal, Checks!HasPermission,
         Checks!checkFields, Checks!deriveConstraint
    <3>2. stage' = "served"
      BY <2>1, <2>3
    <3>3. \E place_1 \in Checks!Places, policy_1 \in Checks!Policies, q_1 \in Checks!Requests :
             /\ entry' = <<place_1, policy_1>> /\ request' = q_1
             /\ constraint' = Checks!AuthorizeService(record', place_1, policy_1, q_1)
             /\ constraint' # None
      BY <2>1, <2>3, Zenon
    <3> QED
      BY <2>1, <3>2, <3>3, Zenon DEF CheckInv
  <2> QED
    BY <2>2, <2>3
<1> QED
  BY <1>1, <1>2, <1>3, <1>4 DEF Checks!Next

(* One more known permission.                                              *)
Wider(p, k) == [p EXCEPT !.permissions = @ \union {k}]

LEMMA WiderIsSomebody ==
  ASSUME record \in Identities, Checks!KnownPrincipal(record),
         NEW k \in Checks!KnownPermissions
  PROVE  LET p == Wider(record, k)
         IN /\ record # None /\ p # None
            /\ p.user = record.user /\ p.role = record.role
            /\ p.permissions = record.permissions \union {k}
            /\ Checks!KnownPrincipal(p)
<1>1. /\ record \in [user : Accounts \union {Checks!Blank},
                     role : Checks!KnownRoles \union {Strange, Checks!Blank},
                     permissions : SUBSET (Checks!KnownPermissions \union {Strange, Checks!Blank})]
      /\ record.role \in Checks!KnownRoles /\ record.permissions \subseteq Checks!KnownPermissions
  <2>1. record \in Checks!Sessions
    BY DEF Identities
  <2>2. record = [user |-> record.user, role |-> record.role, permissions |-> record.permissions]
    BY <2>1 DEF Checks!Sessions
  <2>3. record.user \in Accounts
    BY DEF Identities
  <2>4. record.role \in Checks!KnownRoles /\ record.permissions \subseteq Checks!KnownPermissions
    BY DEF Checks!KnownPrincipal
  <2> QED
    BY <2>2, <2>3, <2>4
<1>2. Wider(record, k) \in [user : Accounts \union {Checks!Blank},
         role : Checks!KnownRoles \union {Strange, Checks!Blank},
         permissions : SUBSET (Checks!KnownPermissions \union {Strange, Checks!Blank})]
  BY <1>1 DEF Wider
<1>3. record # None /\ Wider(record, k) # None
  BY <1>1, <1>2, AuthorizationAssumption DEF Checks!AuthorizationAssumption
<1> QED
  BY <1>1, <1>3 DEF Wider, Checks!KnownPrincipal

LEMMA EndpointsAreJustified ==
  ASSUME CheckInv, stage = "service"
  PROVE  LET meets(r) == (r.role # Checks!Blank => r.role = record.role)
                           /\ r.permission \in record.permissions \union {Checks!Blank}
         IN /\ meets(rule) /\ rule # [role |-> Checks!Blank, permission |-> Checks!Blank]
            /\ record.role \in Checks!KnownRoles
            /\ record.permissions \subseteq Checks!KnownPermissions
            /\ \A k \in Checks!KnownPermissions :
                 Checks!AuthorizeEndpoint(Wider(principal, k), rule)
<1>1. /\ principal = record /\ record \in Identities /\ rule \in Checks!Rules
      /\ Checks!AuthorizeEndpoint(record, rule)
  BY DEF CheckInv
<1>2. Checks!KnownPrincipal(record)
  BY <1>1 DEF Checks!AuthorizeEndpoint
<1>3. ASSUME NEW k \in Checks!KnownPermissions
      PROVE  Checks!AuthorizeEndpoint(Wider(principal, k), rule)
  <2> DEFINE p == Wider(record, k)
  <2>1. /\ p # None /\ p.role = record.role
        /\ p.permissions = record.permissions \union {k} /\ Checks!KnownPrincipal(p)
    BY <1>1, <1>2, WiderIsSomebody
  <2> HIDE DEF p
  <2>2. Checks!AuthorizeEndpoint(p, rule)
    BY <1>1, <2>1 DEF Checks!AuthorizeEndpoint, Checks!HasPermission
  <2> QED
    BY <1>1, <2>2 DEF p
<1>4. rule # [role |-> Checks!Blank, permission |-> Checks!Blank]
  BY <1>1 DEF Checks!AuthorizeEndpoint
<1> QED
  BY <1>1, <1>2, <1>3, <1>4 DEF Checks!AuthorizeEndpoint, Checks!HasPermission,
     Checks!KnownPrincipal

LEMMA ServiceIsJustified ==
  ASSUME CheckInv, stage = "served"
  PROVE  LET place == entry[1]  policy == entry[2]
         IN /\ place[2] # Checks!Blank => place[2] = record.role
            /\ policy.RequiredPermission \in record.permissions \union {Checks!Blank}
            /\ constraint.Kind = policy.Scope
            /\ (policy.Scope # "global") = (constraint.UserID = record.user)
            /\ \A kind \in Kinds : request.Fields[kind] \subseteq policy.Fields[kind]
            /\ \A k \in Checks!KnownPermissions :
                 Checks!AuthorizeService(Wider(principal, k), place, policy, request)
                   = constraint
<1>1. PICK place \in Checks!Places, policy \in Checks!Policies, q \in Checks!Requests :
         /\ entry = <<place, policy>> /\ request = q
         /\ constraint = Checks!AuthorizeService(record, place, policy, q)
         /\ constraint # None
  BY DEF CheckInv
<1>0. principal = record /\ record \in Identities
  BY DEF CheckInv
<1>2. entry[1] = place /\ entry[2] = policy
  BY <1>1
<1>3. /\ record # None /\ Checks!KnownPrincipal(record)
      /\ place = <<q.Resource, record.role, q.Operation>> /\ policy.Allowed
      /\ policy.RequiredPermission \in Checks!KnownPermissions
      /\ Checks!HasPermission(record, policy.RequiredPermission)
      /\ \A kind \in Kinds : Checks!checkFields(q.Fields[kind], policy.Fields[kind])
      /\ constraint = Checks!deriveConstraint(record, policy)
  BY <1>1 DEF Checks!AuthorizeService
<1>4. place[2] = record.role
  BY <1>3
<1>5. constraint.Kind = policy.Scope
      /\ (policy.Scope # "global") = (constraint.UserID = record.user)
  <2>1. record.user \in Accounts /\ None \notin Accounts
    BY <1>0, AuthorizationAssumption DEF Identities, Checks!AuthorizationAssumption
  <2>2. CASE policy.Scope = "global"
    <3>1. constraint = [Kind |-> "global", UserID |-> None]
      BY <1>3, <2>2 DEF Checks!deriveConstraint
    <3> QED
      BY <2>1, <2>2, <3>1
  <2>3. CASE policy.Scope # "global"
    <3>1. constraint = [Kind |-> policy.Scope, UserID |-> record.user]
      BY <1>1, <1>3, <2>3 DEF Checks!deriveConstraint
    <3> QED
      BY <2>3, <3>1
  <2> QED
    BY <2>2, <2>3
<1>6. ASSUME NEW k \in Checks!KnownPermissions
      PROVE  Checks!AuthorizeService(Wider(principal, k), place, policy, q) = constraint
  <2> DEFINE p == Wider(record, k)
  <2>1. /\ p # None /\ p.user = record.user /\ p.role = record.role
        /\ p.permissions = record.permissions \union {k} /\ Checks!KnownPrincipal(p)
    BY <1>0, <1>3, WiderIsSomebody
  <2> HIDE DEF p
  <2>2. Checks!HasPermission(p, policy.RequiredPermission)
    BY <1>3, <2>1 DEF Checks!HasPermission
  <2>3. place = <<q.Resource, p.role, q.Operation>>
    BY <1>3, <2>1
  <2>4. Checks!AuthorizeService(p, place, policy, q) = Checks!deriveConstraint(p, policy)
    BY <1>3, <2>1, <2>2, <2>3, Zenon DEF Checks!AuthorizeService
  <2>5. Checks!deriveConstraint(p, policy) = Checks!deriveConstraint(record, policy)
    BY <2>1 DEF Checks!deriveConstraint
  <2> QED
    BY <1>0, <1>3, <2>4, <2>5 DEF p
<1>7. \A kind \in Kinds : q.Fields[kind] \subseteq policy.Fields[kind]
  BY <1>3 DEF Checks!checkFields
<1> QED
  BY <1>1, <1>2, <1>3, <1>4, <1>5, <1>6, <1>7 DEF Checks!HasPermission

LEMMA DenialsAreJustified ==
  ASSUME CheckInv, stage = "denied", rule # None, rule.role # Checks!Blank,
         rule.role = record.role,
         rule.permission \in record.permissions \union {Checks!Blank},
         Checks!KnownPrincipal(record)
  PROVE  FALSE
<1>1. record \in Identities /\ ~Checks!AuthorizeEndpoint(record, rule)
  BY DEF CheckInv
<1>2. "chat" \in Checks!KnownPermissions
  BY DEF Checks!KnownPermissions, Checks!KnownRoles, Checks!rolePermissions
<1>3. record # None
  BY <1>1, <1>2, WiderIsSomebody
<1> QED
  BY <1>1, <1>3 DEF Checks!AuthorizeEndpoint, Checks!HasPermission, Checks!KnownPrincipal

(* What the two checks let through is justified by the session, a query is *)
(* limited to its own account unless the policy is global, and one more    *)
(* known permission closes no door (EndpointAuthorizer, ServiceAuthorizer). *)
THEOREM Grants == ComponentsSpec => []GrantsAreJustified
<1>1. ComponentsInit => CheckInv
  BY CheckStart DEF ComponentsInit
<1>2. CheckInv /\ [ComponentsNext]_componentVars => CheckInv'
  BY CheckSteps, CheckStep
<1>3. CheckInv => GrantsAreJustified
  BY EndpointsAreJustified, ServiceIsJustified, DenialsAreJustified
     DEF GrantsAreJustified, Checks!GrantsAreJustified, Wider
<1> QED
  BY <1>1, <1>2, <1>3, PTL DEF ComponentsSpec
=============================================================================
