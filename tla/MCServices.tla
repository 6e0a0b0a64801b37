----------------------------- MODULE MCServices -----------------------------
(***************************************************************************)
(* Parts of the system that share no state: ids, alerts, the cache of a    *)
(* listing's stock, the restriction of a permission, and a load test.  One *)
(* of them at a time is explored: part says which.                         *)
(***************************************************************************)
EXTENDS Snowflake

CONSTANTS ConsecutiveSamples, Cooldown, MaxSamples,
          Readers, MaxStock, MaxLapses,
          Logins, Operators, Never, MaxTime,
          None, MaxChanges, MaxFaults,
          Orders, Payments, MaxInflight

VARIABLES
  part,
  consecutive, active, sentAgo, holds, run, mail, told, sure, heardAgo, samples,
  stock, cache, expires, lock, pc, counted, overdue, decrements, deletes, lapses,
  time, access, known, restricted, until, accessLock, restrictionLock, point,
  ask, now, granted, seen,
  step, failing, late, call, before, after, created, rejected, found, latest, peak,
  atEnd, sampler, loop, order, submitted, committed, codes, paid,
  changes, faults

Alerts == INSTANCE AlertManager
Cache == INSTANCE InventoryCache WITH count <- counted
Access == INSTANCE Permissions WITH clock <- time, active <- restricted, pc <- point
Load == INSTANCE LoadTest
  WITH counted <- submitted, stock <- codes, failures <- faults

ASSUME AlertAssumption == Alerts!AlertAssumption
ASSUME CacheAssumption == Cache!CacheAssumption
ASSUME PermissionAssumption == Access!PermissionAssumption
ASSUME LoadAssumption == Load!LoadAssumption

alertVars == <<consecutive, active, sentAgo, holds, run, mail, told, sure, heardAgo, samples>>
cacheVars == <<stock, cache, expires, lock, pc, counted, overdue, decrements,
               deletes, lapses>>
accessVars == <<time, access, known, restricted, until, accessLock, restrictionLock,
                point, ask, now, granted, seen>>
loadVars == <<step, failing, late, call, before, after, created, rejected, found, latest,
              peak, atEnd, sampler, loop, order, submitted, committed, codes, paid>>
serviceVars == <<part, vars, alertVars, cacheVars, accessVars, loadVars, changes, faults>>

ServicesInit ==
  /\ part \in {"ids", "alerts", "cache", "permissions", "load"}
  /\ Init /\ Alerts!Init /\ Cache!Init /\ Access!Init
  /\ Load!InitAt(IF part = "load" THEN "counter" ELSE "done")
  /\ part # "ids" => clock = 0
  /\ part # "permissions" => access = None
  /\ part # "load" => codes = 0

ServicesNext ==
  /\ \/ /\ part = "ids" /\ Next
        /\ UNCHANGED <<alertVars, cacheVars, accessVars, loadVars, changes, faults>>
     \/ /\ part = "alerts" /\ Alerts!Next
        /\ UNCHANGED <<vars, cacheVars, accessVars, loadVars, changes>>
     \/ /\ part = "cache" /\ Cache!Next
        /\ UNCHANGED <<vars, alertVars, accessVars, loadVars>>
     \/ /\ part = "permissions" /\ Access!Next
        /\ UNCHANGED <<vars, alertVars, cacheVars, loadVars, faults>>
     \/ /\ part = "load" /\ Load!Next
        /\ UNCHANGED <<vars, alertVars, cacheVars, accessVars, changes>>
  /\ UNCHANGED part

(* Only the sampling of alerts is always under way.                        *)
ServicesSpec ==
  /\ ServicesInit /\ [][ServicesNext]_serviceVars
  /\ (part = "alerts") => Alerts!Fairness
  /\ Cache!Fairness /\ Access!Fairness /\ Load!Fairness

-----------------------------------------------------------------------------
(* Alerts about a rule keep the cooldown (Evaluate).                       *)
AlertsKeepTheirDistance == Alerts!AlertsKeepTheirDistance

(* A recovery is told in the end (Evaluate).                               *)
RecoveryIsTold == Alerts!RecoveryIsTold

(* A reader that rebuilds the cache holds the lock, and the number that is *)
(* kept stays a number of codes (Available, DecrementIfExists).            *)
CacheIsSound == Cache!TypeOK /\ Cache!RebuildersHoldTheLock

(* A stale number in the cache ends (Available, DecrementIfExists).        *)
StaleViewEnds == Cache!StaleViewEnds

(* Calls that set, clear and compile restrictions end.                     *)
CallsEnd == Access!CallsEnd

(* A load test ends (cmd/loadtest run).                                    *)
RunEnds == Load!RunEnds
=============================================================================
