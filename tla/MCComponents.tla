---------------------------- MODULE MCComponents ----------------------------
(***************************************************************************)
(* The parts of the system whose questions are all about safety.  They     *)
(* share no rows, no keys of Redis and no memory - a session keeps what a  *)
(* compilation found - so that one of them at a time is explored: part     *)
(* says which.  Sessions are explored twice, with three tokens, and with a *)
(* change of the account.  Calls of a kind are interchangeable.            *)
(***************************************************************************)
EXTENDS Sessions, TLC

CONSTANTS Senders, Guessers, verificationMaxAttempts, emailDailyLimit, MaxCodes,
          Logins, passwordMaxFailures, MaxGuesses,
          Compilers, Operators, Never, MaxTime, MaxRestrictions,
          Accounts, Strange, Kinds,
          Clients, Limit, Window, MaxClock,
          Servers, Seeders, Messages, Demo, Batch, MaxDeaths,
          Partitions, Workers, MaxOffset,
          Orders, Payments, MaxInflight, MaxStock,
          MaxListings, CodesOfProfile, Percents, Durations, Tallies,
          MaxSubmits, MaxSockets, MaxTimers

VARIABLES
  part, mailFaults, lockFaults, lagFaults, runFaults,
  code, cooldown, attempts, daily, outdated, sender, guesser, stored, refused,
  accepted, letters, owed,
  failures, lock, young, pc, guesses, round,
  clock, access, known, active, until, accessLock, restrictionLock, point, ask,
  now, granted, seen, changes,
  record, principal, stage, rule, entry, request, constraint,
  ticks, came, started, count, windows, admitted,
  start, batch, author, recipient, partitions, seeded, deaths,
  first, end, old, committed, running, activeConsumers, at, observed, position, low,
  high, todo, snapshot, raised, backlog, waited, overdue, excuse,
  step, failing, late, submission, before, after, created, rejected, found, latest,
  peak, atEnd, sampler, loop, order, counted, settled, stock, paid,
  profile, phase, turn, shelf, hits, times,
  outcome, requestId, status, orderNo, calling, timer,
  connectionState, asking, socket, ready, pollingTimer, timers

Email == INSTANCE EmailCode WITH faults <- mailFaults
Password == INSTANCE PasswordLock WITH faults <- lockFaults
Access == INSTANCE Permissions
  WITH Logins <- Compilers, MaxChanges <- MaxRestrictions, pc <- point
Checks == INSTANCE Authorization WITH session <- record
Limits == INSTANCE Limiter WITH Requests <- Calls, clock <- ticks, now <- came
Starts == INSTANCE Startup
  WITH OrderTopicPartitions <- [s \in Servers |-> IF s = CHOOSE t \in Servers : TRUE
                                                  THEN 2 ELSE 3],
       at <- start, sender <- author
Lag == INSTANCE KafkaLag WITH faults <- lagFaults
Load == INSTANCE LoadTest
  WITH call <- submission, committed <- settled, failures <- runFaults
Profile == INSTANCE LoadProfile WITH MaxCodes <- CodesOfProfile, index <- turn
Page == INSTANCE OrderPage WITH call <- calling
Client == INSTANCE ChatClient

ASSUME CodeAssumption == Email!CodeAssumption
ASSUME LockAssumption == Password!LockAssumption
ASSUME PermissionAssumption == Access!PermissionAssumption
ASSUME AuthorizationAssumption == Checks!AuthorizationAssumption
ASSUME LimiterAssumption == Limits!LimiterAssumption
ASSUME StartupAssumption == Starts!StartupAssumption
ASSUME LagAssumption == Lag!LagAssumption
ASSUME LoadAssumption == Load!LoadAssumption
ASSUME ProfileAssumption == Profile!ProfileAssumption
ASSUME PageAssumption == Page!PageAssumption
ASSUME ClientAssumption == Client!ClientAssumption

emailVars == <<code, cooldown, attempts, daily, outdated, sender, guesser, stored,
               refused, accepted, letters, owed, mailFaults>>
passwordVars == <<failures, lock, young, pc, guesses, round, lockFaults>>
accessVars == <<clock, access, known, active, until, accessLock, restrictionLock, point,
                ask, now, granted, seen, changes>>
checkVars == <<record, principal, stage, rule, entry, request, constraint>>
limitVars == <<ticks, came, started, count, windows, admitted>>
startVars == <<start, batch, author, recipient, partitions, seeded, deaths>>
lagVars == <<first, end, old, committed, running, activeConsumers, at, observed, position,
             low, high, todo, snapshot, raised, backlog, waited, overdue, excuse,
             lagFaults>>
loadVars == <<step, failing, late, submission, before, after, created, rejected, found,
              latest, peak, atEnd, sampler, loop, order, counted, settled, stock, paid,
              runFaults>>
profileVars == <<profile, phase, turn, shelf, hits, times>>
pageVars == <<outcome, requestId, status, orderNo, calling, timer>>
clientVars == <<connectionState, asking, socket, ready, pollingTimer, timers>>
componentVars == <<part, vars, emailVars, passwordVars, accessVars, checkVars, limitVars,
                   startVars, lagVars, loadVars, profileVars, pageVars, clientVars>>

ComponentsTypeOK ==
  CASE part \in {"tokens", "changes"} -> TypeOK
    [] part = "codes" -> Email!TypeOK
    [] part = "passwords" -> Password!TypeOK
    [] part = "permissions" -> Access!TypeOK
    [] part = "checks" -> Checks!TypeOK
    [] part = "limits" -> Limits!TypeOK
    [] part = "starts" -> Starts!TypeOK
    [] part = "lag" -> Lag!TypeOK
    [] part = "load" -> Load!TypeOK
    [] part = "profile" -> Profile!TypeOK
    [] part = "page" -> Page!TypeOK
    [] part = "client" -> Client!TypeOK

(* A part that is not explored waits in one of its initial states.         *)
ComponentsInit ==
  /\ part \in {"tokens", "changes", "codes", "passwords", "permissions", "checks",
               "limits", "starts", "lag", "load", "profile", "page", "client"}
  /\ part # "permissions" => access = None
  /\ part # "checks" => record = CHOOSE r \in Checks!Sessions : TRUE
  /\ part # "starts" => partitions = 0 /\ author = [m \in Messages \union {Demo} |-> "initiator"]
  /\ part # "load" => stock = 0
  /\ part # "profile" => profile = CHOOSE p \in Profile!Profiles : TRUE
  /\ Init /\ Email!Init /\ Password!Init /\ Access!Init /\ Checks!Init /\ Limits!Init
  /\ Starts!Init /\ Lag!Init /\ Load!Init /\ Profile!Init
  /\ Page!Init /\ Client!Init

ComponentsNext ==
  /\ UNCHANGED part
  /\ CASE part = "tokens" -> Next /\ account' = account
       [] part = "changes" -> Next /\ tokens' < MaxTokens
       [] OTHER -> UNCHANGED vars
  /\ IF part = "codes" THEN Email!Next ELSE UNCHANGED emailVars
  /\ IF part = "passwords" THEN Password!Next ELSE UNCHANGED passwordVars
  /\ IF part = "permissions" THEN Access!Next ELSE UNCHANGED accessVars
  /\ IF part = "checks" THEN Checks!Next ELSE UNCHANGED checkVars
  /\ IF part = "limits" THEN Limits!Next ELSE UNCHANGED limitVars
  /\ IF part = "starts" THEN Starts!Next ELSE UNCHANGED startVars
  /\ IF part = "lag" THEN Lag!Next ELSE UNCHANGED lagVars
  /\ IF part = "load" THEN Load!Next ELSE UNCHANGED loadVars
  /\ IF part = "profile" THEN Profile!Next ELSE UNCHANGED profileVars
  /\ IF part = "page" THEN Page!Next ELSE UNCHANGED pageVars
  /\ IF part = "client" THEN Client!Next ELSE UNCHANGED clientVars

ComponentsSpec == ComponentsInit /\ [][ComponentsNext]_componentVars

(* The .cfg makes calls of all parts the members of the same two sets.     *)
Symmetry == Permutations(Calls) \union Permutations(Guessers)

-----------------------------------------------------------------------------
(* A code sent by mail gives one login (consumeCode).                      *)
SingleUse == Email!SingleUse

(* The mails for the requests that one life of the daily key counted, the  *)
(* wrong guesses at a code and the wrong passwords between two fresh       *)
(* starts stay within their limits, however calls overlap or fail          *)
(* (SendEmailCode, recordInvalidCode, LoginByPassword).                    *)
AttemptsAreBounded ==
  Email!MailsAreLimited /\ Email!GuessesAreBounded /\ Password!GuessesAreBounded

(* Flag and restriction of a permission agree (models.go 57), and a login  *)
(* compiles what was true at some time during the compilation.             *)
PermissionsAreTrue == Access!FlagsAgree /\ Access!CompiledWasTrue

(* Only operators end a restriction early (compilePermissions).            *)
RestrictionsLast == Access!RestrictionsLast

(* A request passes exactly the checks it is entitled to pass              *)
(* (EndpointAuthorizer, ServiceAuthorizer).                                *)
GrantsAreJustified == Checks!GrantsAreJustified

(* A client is let in at most limit times a window (Allow).                *)
AdmissionsAreBounded == Limits!AdmissionsAreBounded

(* A process that has started finds what it needs (cmd/api main).          *)
StartedIsReady == Starts!StartedIsReady

(* A sample of the queue is never less than what was waiting, and the      *)
(* sampler never finds a group ahead of its log (SampleKafkaLag).          *)
SamplesAreSound == Lag!SamplesAreSound

(* The alarms about the queue are about what was so (conditions).          *)
AlarmsAreReal == Lag!AlarmsAreReal

(* The report of a finished load test adds up (cmd/loadtest run).          *)
TheReportAddsUp == Load!TheReportAddsUp

(* The mix is even, the codes of a profile last for as many orders, and    *)
(* the percentiles agree (cmd/loadtest seed, listingIDForRequest).         *)
ProfileIsSound == Profile!TheMixIsEven /\ Profile!TheStockLasts /\ Profile!PercentilesAgree

(* What the order page shows the server has decided, and the chat page has *)
(* something to hear from (useOrderCreation.ts, useRealtimeChat.ts).       *)
PagesTellTheTruth == Page!ShownIsTrue /\ Client!TheClientHears
=============================================================================
