# A verification of GoBlog

GoBlog sells licence codes and lets its users talk to each other: a Go backend
over MySQL, Redis and Kafka, and a Vue frontend. This directory holds TLA+
modules of the parts of it where order, failure and concurrency decide, the TLC
configurations that check them on small instances, and proofs of the results
that matter most for every instance. Paths below are relative to `src/backend`
unless they begin with `frontend`.

`PROJECT.json` maps every definition to the lines it models and lists the runs,
the hazards, the findings and the theorems.

## 1. The system

| Component | State | Operations | Modules |
|---|---|---|---|
| Order creation (`internal/order/order.go`, `cmd/api/main.go`) | Kafka topic and offsets; requests, orders, codes in MySQL | Submit, Consume, Process, createOrder, reject | `OrderCreation` |
| Order expiration (same files) | orders, codes | ExpirePending, expireOne | `OrderExpiration` |
| Balance payment (`internal/payment`) | attempts, balances, ledger, bindings | Create, Balance | `Payment` |
| Inventory cache (`Available`) | one Redis number and a rebuild lock | Available, decrement, delete | `InventoryCache` |
| Sessions (`internal/auth/auth.go`) | accounts in MySQL; session, slot, index, replay keys in Redis | login, refresh, logout, account changes, BootstrapAdmin | `Sessions` |
| Permissions (same file) | access flags, restrictions | compilePermissions, Set/ClearPermissionRestriction | `Permissions` |
| Email codes | four Redis keys | SendEmailCode, consumeCode | `EmailCode` |
| Password lock | two Redis keys | LoginByPassword | `PasswordLock` |
| Request authorization (`internal/auth/authorization.go`) | none | Require, RequireEndpoint, Authorize | `Authorization` |
| User ids (`internal/auth/snowflake.go`) | last time and sequence of a generator | NextID | `Snowflake` |
| Protection (`internal/protection`) | windows of clients | Allow, Middleware | `Limiter` |
| Realtime hub (`internal/realtime/hub.go`) | seats, cooldowns, queues | ServeHTTP, sendMessage, acknowledge | `Realtime` |
| Chat messages (same file) | conversation_messages | persistMessage | `MessageStore` |
| Queue sampling (`internal/monitoring/kafka_lag.go`, `metrics.go`, `internal/app`) | the latest sample, the number of workers | SampleKafkaLag, ConsumerAlive, conditions | `KafkaLag` |
| Alerts (`internal/monitoring/alerts.go`) | one state per rule | Evaluate | `AlertManager` |
| Start of a process (`cmd/api`, `cmd/dbtool`, `internal/store`, `EnsureOrderTopic`) | recipients of old messages, partitions, seeded rows | migrate, backfill, create topic, seed | `Startup` |
| Load generator (`cmd/loadtest`) | phases, calls in flight, lag observer, report | run, seed, percentiles | `LoadTest`, `LoadProfile` |
| Order page (`frontend/src/composables/useOrderCreation.ts`) | request, status, order, a timer | submit, poll, pay | `OrderPage` |
| Chat page (`frontend/src/composables/useRealtimeChat.ts`) | connection state, socket, polling timer | connect, close, fall back | `ChatClient` |
| API client, monitoring page, overview queries, mail sender | — | — | not modelled (section 6) |

How they interact. `Submit` publishes to a topic; workers of one consumer group
in any number of API processes take the messages and write MySQL; every process
also sweeps overdue orders and serves payments, so the three meet only at row
locks. After a commit, order creation lowers the Redis number that `Available`
fills. Authentication compiles account facts from MySQL into a Redis session at
login, and requests look at the session alone, so every change of an account
has to hunt down the sessions made before it. The hub keeps messages in MySQL
and seats in the memory of one process. A loop samples the consumer group's lag
and hands each sample to the alert manager. The pages talk to all of this over
HTTP and a socket; the load generator acts as many pages at once and compares
what it was told with what the server's counters and tables say.

What is hard in it:

* Messages are delivered at least once, to whichever worker owns the partition
  at that moment; a worker may finish a message that was already given to
  another (creation).
* Transactions read rows they have not locked before rows they have, at InnoDB's
  repeatable read: what was read may be stale when it is acted on (creation,
  payment, messages, permissions), and lock orders differ (permissions,
  messages).
* MySQL commits and then Redis is called, with nothing that ties the two
  together: a crash or a failed call between them, and calls that arrive late or
  in another order (cache, sessions, promotion at start).
* Lives of Redis keys end in the middle of an operation (rebuild lock, cooldown,
  counters, sessions).
* A connection may lose its seat between any two steps of those that serve it,
  and a queue may be full (hub).
* Facts are gathered by several calls while what they describe moves on
  (sampling, load report, the start of several processes).
* Answers are lost or late, and what was asked happened all the same (pages,
  load generator).
* Clocks move backwards (ids), and times are read before the lock under which
  they are used (limiter).

What makes each correct is stated by the properties of its module, listed with
the runs in section 4.

## 2. Modules

An action is what the code does between two points at which another process can
see or disturb it: a transaction's reads of rows it locked, its writes and its
commit are one step; a wait for a row lock, a Redis call, a Lua script, what
runs under a mutex, a send on a channel are each a step. In the pages, what runs
between two awaits or callbacks is one step.

### Orders

`OrderTables` holds the MySQL rows creation, expiration and payment share and
the row lock of an order. `OrderCreation`, `OrderExpiration` and `Payment` are
the three components; `OrderSystem` is their composition with the fairness, the
properties and the refinement mapping; `Marketplace` is what the shop promises:
a request is decided once, an order holds exactly the codes it asks for until it
is paid, when they are its own and its buyer is charged once, or expires, when
all come back. `MCOrderSystem` gives small shops.

| Module | Action | Code |
|---|---|---|
| OrderCreation | Submit | `Submit`: one message, on any partition (the writer has no balancer) |
| | Assign, Rebalance, Fetch | the consumer group; a partition is read from its committed offset |
| | Begin, LockListing, … | `Process` and `createOrder`: the read of the request row, the listings locked in ascending order, codes picked with SKIP LOCKED, the inserts and the commit |
| | Reject | `reject`, in a transaction of its own after the rollback |
| | Ack, Close | `CommitMessages`; an error ends `Consume` and `consumeOrders` starts it again |
| OrderExpiration | ListOverdue, ExpireOne | `ExpirePending` reads ids without locks; `expireOne` locks one order and looks again |
| Payment | Start, LockBalance, PayCommit | `Create`: the order's row lock, the balance, attempts, ledger and bindings |

Abstractions: order items are a field of their order (every transaction gives
both one status); a request id is storable or too long; time is a flag `overdue`
that only turns on; amounts are bounded by `MaxFen`. `normalizeItems` is left
out: a published cart is already normal.

`InventoryCache` models one listing's number. Every decrement and deletion that
a commit owes is on its way until it arrives or is lost; the count, the write and
the unlock of a rebuild are separate steps, and the lock may lapse under them.

`OrderPage` is the page against a server that decides as `Marketplace` promises:
a submission or a payment may happen although its answer never comes, a poll may
answer late, and a new submission is a new request.

### Accounts

`Sessions` models an account as role, status and a version that counts commits;
tokens are numbers in the order they are made, and a session is named by its
first token. `ReplaceSession`, `RotateRefreshHash` and `DeleteSessionIfCurrent`
are the three Lua scripts, one step each. The scan of `revokeUserSessions` over
both devices is step by step (`ScanHas`, `ScanGet`, `ScanDelete`). `Crash` ends
a call anywhere. History variables say which tokens were exchanged, which
sessions a call has reported as revoked, and which change was reported as done.

`Permissions` models one permission of one user with the two rows and their
locks: a login reads the flag, then the restriction, and lifts it if its end has
come (restriction locked before flag); operators lock the flag before the
restriction. Writes appear at the commit. A circle of waits is resolved by
aborting either side, as InnoDB does.

`Authorization` takes a session record, a rule of an endpoint and a policy with
a request of a service, each of them possibly naming a role or a permission
nobody knows or leaving one blank, through `Require`, `AuthorizeEndpoint` and
`AuthorizeService`; what they let through is compared with what a principal is
entitled to.

`EmailCode` and `PasswordLock` take every Redis call of a request as a step, and
let lives of keys end where their lengths allow: a cooldown may end while a mail
is still being sent, since the mail has no deadline, but not between the few
Redis calls before it; the daily key may end at any moment, also under a mail; a
counter of a code's own guesses outlives the code; a failure count from before a
lock ends before it. A call that fails may have done its work, and a mail may
have been accepted although its sending reports an error. `owed` and `letters`
follow the requests that one life of the daily key counted until their mail is
handed over or given up.

`Snowflake` has one generator per node, a clock that moves both ways, and
restarts; the widths of the id's fields are parameters.

`Limiter` is the fixed window of one client address: `Arrive` reads the time and
`Admit` or `Refuse` counts the request under the mutex, later and out of order.

### Realtime

`Realtime` models the seats (`peers`, `pending`, `cooldowns`) under the hub's
mutex, the handler of each connection (reserve, evict, upgrade, snapshot, read),
its write pump with a queue of `QueueSize`, and the goroutine that sends a
message to the peers of its two users one after the other. A snapshot is read by
two queries (`ReadSent`, `ReadReceived`) and holds the newest
`recentMessageLimit` messages; `stored` is in the order of created_at, which need
not be that of the commits; `passed` remembers what a snapshot left out, because
newer messages filled it or because it could not be read. A commit whose answer is
lost stores the message and sends it to nobody (`LosePersist`) until the client
tries again; `accepted` holds the messages whose sender was told they are stored.
What follows the mutex in `detachSlowPeer` is a step of its own. `MessageStore` is the
transaction that stores a message, with the snapshot its reads use, the unique
key its insert meets, and the shared and exclusive locks on the conversation.
`ChatClient` is the page's side: a request before each socket, sockets whose
close event comes later, and the timer of the fallback.

### Monitoring and tools

`KafkaLag` takes one round of the sampling loop call by call - the committed
offsets, the ends of the log, the first record of each partition that is behind
- while records are produced, committed, grow old and expire, and evaluates the
rules about the queue. `AlertManager` is `Evaluate` for one rule (rules share
nothing); a sample says whether the rule's condition holds. The sending of a mail
may fail with the mail lost or with the mail on its way, since the SMTP dialogue
may break after the text was handed over (`internal/auth/email.go` 95-103): `told`
and `heardAgo` are what the recipient knows, `sentAgo` what the manager knows, and
`sure` says that the two agree on the last mail.

`Startup` runs servers and `dbtool` at once against one database and one broker:
the batches of the recipient backfill, the creation and growth of the topic by
servers that are configured differently, and the transaction that seeds rows. A
process that fails or dies starts again from the beginning.

`LoadTest` is a run of the load generator: the counter before, a warm-up, an
empty queue, submissions and payments under a bound on calls in flight, the wait
for the queue to drain, the counter after, the look-up and the report, with the
observer's goroutine beside it and a server that may answer late or never.
`LoadProfile` is its arithmetic: which listing a request hits, which listing a
seeded code belongs to, and the percentiles from samples and from a histogram.

## 3. Fairness

Safety runs assume none. Where a run needs progress:

* `OrderSystem!FairSpec`: weak fairness of assignment and of a worker's steps
  (goroutines in a loop, restarted a second after an error), strong fairness of
  the steps that wait for a row lock, because InnoDB grants a lock in the order
  of the requests, and of the sweep's visits to an overdue order. Nothing is
  assumed of clients, and a failure is never fair; failures are bounded.
* `Realtime`: weak fairness of handlers, write pumps (each write has a deadline)
  and senders. Nothing of clients, acknowledgements or the clock.
* `InventoryCache`: weak fairness of a reader that runs and of the lives of the
  keys, which Redis ends whatever happens.
* `MessageStore`: weak fairness of the steps of an attempt under way and of the
  database's deadlock detection.
* `Permissions`: strong fairness of the steps of a call under way, since they
  wait for row locks that others take again and again and InnoDB grants a lock in
  the order it was asked for; weak fairness of the deadlock detection. With weak
  fairness alone a login that is chosen as the victim for ever and tries again
  holds up everybody else.
* `LoadTest`: weak fairness of the run, its calls, its observer and its
  deadlines (every HTTP call and Kafka call has one); nothing of the server's
  consumers, which may stop deciding for ever.
* `AlertManager`: weak fairness of sampling, a ticker in the process.

## 4. Runs

| Run | Module | Bounds | What it shows |
|---|---|---|---|
| creation | MCOrderSystem | 2 workers, 2 partitions, 3 publishes of 3 requests, 1 failure; a listing not for sale, too little stock, a key too long | OneOrderPerRequest, AckedIsDecided, RejectsOnlyTheUnfillable; refinement of Marketplace (KeepsThePromise) |
| settlement | MCOrderSystem | 2 payments, 2 sweeps, 3 orders of one buyer who can afford some | ReservationsMatchOrders, SoldCodesArePaidFor, MoneyIsConserved; KeepsThePromise |
| progress | MCOrderSystem | 2 workers that want the same listings, a sweep, a payment, 1 failure | NoLockCycle; under fairness PublishedIsDecided, OverdueIsResolved |
| components | MCComponents | thirteen parts, below | one question about each: what must never happen |
| services | MCServices | 2 nodes with fields of one bit, also past the last timestamp; 6 samples, 1 mail lost or accepted with an error; 2 readers, 2 changes of stock, 1 lapsed lock, 1 failure; 1 login, 2 operators; a load test of one order and one payment | IdsAreSortedAndUnique; AlertsKeepTheirDistance, RecoveryIsTold; CacheIsSound, StaleViewEnds; CallsEnd; RunEnds |
| chat | MCChat | 3 connections of 2 users, 1 seat, a clock; or, with queues of 1, one connection, 2 messages, 2 tries and 1 more after a lost answer, a snapshot of 1 message, or 2 connections and a message; 3 attempts at 2 messages, 1 failure | SeatsAreBounded, UnseatedIsClosed, NothingIsMissed; StoredMeansStored, EveryAttemptIsAnswered |

The parts of `components`:

| Part | Bounds | Property |
|---|---|---|
| tokens, changes | 1 user, 2 devices, 2 calls; 3 tokens, or 2 tokens and a change of the account; 1 failure | SlotsNameTheSessions, TokensRotateOnce, RevokedSessionsStayGone |
| codes | 2 senders, 2 guessers, 2 codes, 2 guesses a code, 1 mail a day | SingleUse, AttemptsAreBounded |
| passwords | 3 logins, a lock after 3 failures | AttemptsAreBounded |
| permissions | 2 logins, 2 operators, 2 changes of a restriction, a clock | PermissionsAreTrue, RestrictionsLast |
| checks | every session, rule, policy and request over small sets with unknown and blank names | GrantsAreJustified |
| limits | 2 requests at a time, 2 a window, a window of 2 ticks, 5 ticks | AdmissionsAreBounded |
| starts | 2 servers that want 2 and 3 partitions, dbtool, 2 old messages in batches of 1, 1 death | StartedIsReady |
| lag | 2 partitions, 2 records each, 1 worker, 1 failure | SamplesAreSound, AlarmsAreReal |
| load | 2 orders, 1 payment, 2 calls in flight, up to 2 codes, 1 failure | TheReportAddsUp |
| profile | up to 4 listings, up to 104 codes, shares of 25, 30 and 99 %; up to 197 requests of each of 3 durations | ProfileIsSound |
| page | 3 submissions | PagesTellTheTruth |
| client | 3 sockets, 4 timers | PagesTellTheTruth |

`MCComponents`, `MCChat` and `MCServices` put side by side components that share
no state. Interleaving such components shows nothing that each alone does not,
so a variable `part`, chosen at the start, says which of them moves; the others
stay in their initial states, where their properties hold trivially. A component
explored with two sets of bounds has two values of `part`. The assumption on the
constants of an instance is a definition of its module, which the MC module
assumes; the properties of an instance appear there under a name of their own.

Why the bounds are enough to be interesting: two workers and two partitions are
what a rebalance in the middle of a message needs, and one repeated publish is a
duplicate; two sweeps and two payments meet at one order in every order of
arrival; a third code lets a failed allocation have been partly done. Two calls
at once give every race of two requests, which is what each of the Lua scripts
and of the compare-and-delete steps is there for; three tokens give a rotation of
a rotated token. One failure at any point covers each error path, and bounded
failures are what the liveness results assume. One seat for three connections
forces eviction of an evictor. Five ticks let a request that read the time in one window be counted two windows
later. Two partitions of two records let one be behind, expired or empty while
the other is not. Two servers and a death let a process find any half of another's
work. In the load test two codes for two orders and the warm-up let a run both
succeed and find its stock gone. A window of a hundred requests is where the mix
of `LoadProfile` repeats, so 104 codes are one window and the start of the next.
Three submissions let the page go on after a request that was decided and after
one whose answer was lost; three sockets let one close while a second is replaced.
Two messages and a snapshot of one let a message be left out, or be stored between
the queries of a snapshot or after them; three tries are a lost commit, its retry
and the other message. Messages for two connections of one seat are explored
without failures, which the part with one connection has.
Two logins matter to what a compilation grants; for CallsEnd one login and two
operators already make both kinds of waits, for a lock of the own kind of call
and in a circle with the other kind.

`CHECK_DEADLOCK FALSE` stands where a bounded behaviour may stop because there
is nothing left to do: all messages decided, all tokens made, all changes spent.
Where a wait for each other is possible, a property says that it ends
(NoLockCycle, EveryAttemptIsAnswered, CallsEnd, RunEnds).

### What does not hold

Each of these runs checks one statement of the repository and finds a behaviour
of the code that breaks it; `PROJECT.json` quotes the statements.

* `poison` — an idempotency key longer than the primary key column can be
  submitted and never be stored; its message fails at every delivery and the
  partition behind it stands still.
* `samekey` — a request is known by its key alone, although keys are declared
  unique per buyer: the second buyer's message is acknowledged as a duplicate.
* `stalesession` — a login that read the account before a change stores its
  session after the change has scanned the devices.
* `bootstrap` — if the process dies between the promotion and the revocation,
  the next start sees the role already set and revokes nothing.
* `messageretry` — a retry that races the first attempt meets a duplicate that
  its snapshot cannot show, and fails.
* `alertsamples` — good samples do not reset the count of consecutive bad ones.

### Noticed while modelling

Behaviour that no statement of the repository rules out, and that the properties
above therefore allow; whoever changes this code should know of it.

* A mail has no deadline, and the daily key may end while it is under way: it then
  reaches the address in the next life of the key, besides the mails that this
  one allows. `MailsAreLimited` (a part of AttemptsAreBounded) is therefore about
  the requests that one life counted, not about the mails that arrive in it.
* An alert that is accepted although its sending reports an error leaves the rule
  inactive: it is sent again at the next bad sample, however soon, and if the
  condition ends first, `alerts.go` 131 skips the rule and the recipient never
  hears of the recovery. AlertsKeepTheirDistance and RecoveryIsTold make an
  exception of an alert whose sending reported an error, and of that alone.
* A message whose commit succeeds while its answer is lost is in the table and
  sent to nobody (`hub.go` 302): its users see it in a later snapshot, or when the
  client tries again. A snapshot holds the newest 15 messages (`hub.go` 25); older
  ones are not sent again on the socket. NothingIsMissed speaks of messages whose
  sender was told they are stored, and excepts from a connection those its snapshot
  left out.
* A submission that timed out and is published after the counters were read makes
  the load generator's look-up of created orders disagree with its count, and the
  run stops with an error although the server did nothing wrong.
* The load generator's wait for an empty queue may be over because the last
  sample is old. TheReportAddsUp therefore speaks of decided orders only when
  every submission was answered, and the counts are then read from the tables.
* The warm-up takes a code: a profile with exactly as many codes as measured
  orders has one order rejected.
* The text of a recovery mail (`alerts.go` 186) says that the condition has been
  met continuously; one clear sample is enough. A sample that fails while the
  queue is overdue also counts as clear for that rule (`alerts.go` 131).
* `firstRecordAge` reads at most 256 records of a batch: if the group's offset is
  further into it, the sample fails.
* The gauge of running workers is set after the mutex is released
  (`metrics.go` 213), so it may keep the older of two numbers. The alarm reads
  the counter instead.
* The order page says that a request may be sent again with the same identifier
  (`useOrderCreation.ts` 75) but makes a new one at every submission: the first
  request may become an order the page never shows, which expires.
* `useRealtimeChat` can run two polling timers of which it remembers one, and a
  page that is left while `/auth/me` is under way opens its socket afterwards.
  PagesTellTheTruth asks that something brings messages, not that only one does.

## 5. Proofs

Proofs are about every value of the constants, from the named assumptions on
them in the modules that declare them, which TLC evaluates in the runs. Every
safety property of a run - invariant or action property - is a theorem, and so is
the refinement of `Marketplace`; what is left to TLC is named at the end.

Where a component is only used through an instance of an MC module, its theorem
is about the specification of that module, and speaks of the instance: in
`ComponentsSpec` one part moves and the others wait, so each theorem first
projects a step to its part (the lemmas named `…Steps`). Then it is the usual
argument: an inductive invariant (`…Inv`), one lemma per action, and the property
as a consequence.

### Orders

`OrderSystemProofs` — any numbers of buyers, listings, codes, orders, workers,
partitions, sweeps, payments and failures:

* `Types` — `Spec => []TypeOK`;
* `Reservations` — `Spec => []ReservationsMatchOrders`;
* `Sales` — `Spec => []SoldCodesArePaidFor`;

all from `Invariant`. Neither property is inductive. A payment reads the codes
of its order in one step and sells them in a later one, and a worker reserves
codes it picked in an earlier one. The inductive invariant therefore adds what
open transactions rely on: the codes a worker has picked are available and
nobody else's picks (SKIP LOCKED), and match its event listing by listing for
the listings it has locked; and a payment past its first step holds its order's
row lock, so that its order stays pending and the codes it read stay reserved for
it. There is one step per action, and under it one per conjunct the action can
disturb. Lemmas about `Fills` and about the cardinalities of the sets of codes
carry the counting.

* `OneOrder` — `Spec => []OneOrderPerRequest`: an order exists exactly for the
  requests recorded as created, since the two are written by one transaction and
  a decided request is never written again;
* `Acked` — `Spec => []AckedIsDecided`: a worker that is about to acknowledge has
  a decided message in hand, all before a message in hand is decided, and so is
  all before the position of a partition's reader, but for the message it has in
  hand; so what an ousted worker still commits is behind decided requests too;
* `LockOrder` — `Spec => []NoLockCycle`: a worker waits for a listing above all
  it holds, so that in a circle of waits nobody could hold the largest of the
  listings waited for;
* `Rejections` — `Spec => RejectsOnlyTheUnfillable`: codes picked by others are
  under listings this worker does not hold.

`MarketplaceProofs`:

* `Implements` — `Spec => KeepsThePromise`: `OrderSystem` implements
  `Marketplace`. One lemma per transaction maps its commit to one step of the
  promise (`CreateIs`, `ExpireIs`, `PayIs` say what changes, `Creates`, `Expires`,
  `Pays`, `Rejects`, `Ages` that the promise allows it), and every other step to a
  stutter, from the invariants above.
* `Money` — `Spec => []MoneyIsConserved`: the ledger has one entry and one
  successful attempt for each paid order and none for the others (`ChargedOnce`),
  so that what a payment adds to what its buyer has spent is its order's total,
  which it takes from the balance in the same commit.

`SumProofs` is what these and later theorems need of sums: `SumFunctionOnSet` of
the community modules, defined by a fold over a recursive function, is 0 for
nothing, takes and gives up one element, does not depend on other elements, grows
with its terms, and moves by one with a count (`HowMany`). It also says that a set
of numbers has a least one and a finite one a greatest.

### Accounts

`SessionProofs` — `Slots`, `Revoked` and `Rotations`, for any number of users,
calls, tokens, changes and failures. Every step makes a session, rotates one or
removes one with its slot (`SessionKinds`). `Slots` then follows, because a new
session is given a number nobody knows and takes the place of the slot's old one.
`Revoked` needs what a scan has established: the targets still alive on a device
it has passed are none, and at the moment of the deletion the only target left on
that device is the one it read from the slot; no number below the newest ever
becomes live again (`NoneReturns`), so a refresh or a login under way cannot undo
a revocation. `Rotations` adds that nothing is known of a token before it is made
and that whatever was exchanged is in the replay keys.

`AccountProofs`:

* `Compilation` — `PermissionsAreTrue`, and `Restrictions` — `RestrictionsLast`:
  who holds a row's lock is where it needs it and the other way round
  (`LocksAreHeld`); a compilation under way has seen what the flag says now, and a
  login that lifts a restriction found it over and keeps its lock until the commit.
* `Grants` — `GrantsAreJustified`: a stage of the request implies which checks the
  session's record has passed (`CheckInv`); the rest is about the operators
  `AuthorizeEndpoint` and `AuthorizeService`, for every rule, policy and request.
* `OneLogin` — `SingleUse`, and `Attempts` — `AttemptsAreBounded`, for any number
  of senders, guessers, codes, guesses and failures. The argument counts what is
  still to come: the guesses refused at the stored code and those the counter will
  still let through (`Due`: the restarts that are under way, what is left of the
  present count, and one for each guesser) never exceed the bound and the guesses
  that are about to be counted (`Budget`). A restart is paid for by the reset of a
  sender, a late clearing or a lapse, a failed call by `FaultCost`. The mails sent
  and owed for the requests of one life of the daily key are at most its count
  (`LettersAreCounted`): a request is owed a mail from its count until that is
  handed over or given up, and the end of the life ends both accounts. Passwords are
  counted likewise (`WrongAreCounted`, `LockedIsFinal`).

### Services, chat, tools and pages

`ComponentProofs`:

* `Admissions` — a client is let in at most `limit` times for each window of time
  that has begun, whatever the order in which requests are counted: each of its
  windows admits at most `limit`, and they begin at least a window apart, so that
  no more of them fit than the clock allows.
* `Readiness` — `StartedIsReady`: a message has no recipient or the right one, so a
  process that finds none without has found all right, whoever filled them; a
  topic only grows.
* `Samples` — `SamplesAreSound`, and `Alarms` — `AlarmsAreReal`, for any
  partitions, workers and records. Stage by stage the invariant says what the
  answers so far are worth (`AtOffsets` … `AtEvaluate`): each is either about a
  partition with nothing to do or has its reason in the history - records waited,
  were overdue, or expired. The backlog is at most the lag of the partitions
  looked at and the sum of those left.
* `Report` — `TheReportAddsUp`, for any number of orders, payments and calls in
  flight. Terminal orders never change back, so that counts read at different
  times are never too high; the warm-up was counted before the input began; and if
  all orders launched were answered and are terminal, there is no room for another.
* `Shape` — `ProfileIsSound`, for any listings, hot ones, share and number of
  codes. The number of hot requests among the first n is what `HotBefore` says,
  since of every hundred exactly `percent` are; hot and cold requests each go
  round their listings (`Spread`), so hits of a kind differ by one; the shelf is
  what seed gave less what was asked for, in one order (`HitsOf`), and these counts
  only grow. The percentiles agree because `Upto` is monotone.
* `Pages` — `PagesTellTheTruth`: the page waits for one answer or one timer, about
  its newest request, and its status says what the server has decided of it; a
  chat page's sockets are numbered as they are made.
* `Types` — `ComponentsTypeOK`, of all parts. Beyond types it bounds the calls in
  flight of a load test, offsets by the length of the logs, and what a listing has
  and gives by the number of codes.

`ServiceProofs`:

* `UniqueIds` — for any set of nodes, any restarts and any movement of the clock,
  ids are positive, unique, and increase at each node. The invariant says that each
  generator's last time and sequence bound what its node has issued, or that the
  clock has left the range of ids, since an overflow replaces the sequence number
  before it is reported; and that a generator waits for a later millisecond only
  after the epoch. Uniqueness across nodes is arithmetic of the encoding, in
  lemmas. Two things are assumed of the environment, as guards of the model: a
  restarted process finds the clock at or after its newest id (the comment at
  `snowflake.go` 17 leaves that to deployment), and a clock that has passed the
  last of the 41 bits is not set back.
* `Distance` — `AlertsKeepTheirDistance`: while the recipient's last mail is an
  alert whose sending reported no error the rule is active, and was since that mail
  at the latest; an active rule sends only after its cooldown.
* `Rebuilding` — `CacheIsSound`: a reader between count and write holds the lock
  or has outlived it; no more updates are on their way than orders have made.

`ChatProofs`:

* `Seats` — `Spec => []SeatsAreBounded` for any limit and any number of
  connections: a promise is held by exactly one handler, of a user without a seat,
  and giving the seat turns the one into the other.
* `Stored` — `StoredMeansStored`: rows only come, a transaction's snapshot is of
  rows that are committed, and an attempt is told "stored" at its own commit or
  from such a row.

### What proving changed in the model

* The bounds on guesses were too low. `EmailCode` was given a bound that holds for
  a limit of two guesses and fails for three; `Restarts`, `GuessBound` and
  `FaultCost` now say where a count can start again. The failure count of
  `PasswordLock` was typed by the limit, which more logins at once than the limit
  exceed.
* `Authorization` assumes that `None` is no account and no principal: without it a
  principal could be taken for a denial.
* Sums are the library's `SumFunctionOnSet`, of which lemmas can be proved, and
  `LoadProfile` states what its constants are.

### Only model-checked

* Liveness, which under fairness is beyond this prover: PublishedIsDecided,
  OverdueIsResolved (progress); UnseatedIsClosed, NothingIsMissed,
  EveryAttemptIsAnswered (chat); RecoveryIsTold, StaleViewEnds, CallsEnd, RunEnds
  (services).
* The six statements that do not hold, by their counterexamples.

## 6. Not modelled

* The cart's normalisation and its limits, the texts and HTTP codes of answers,
  hashing and signing of tokens, thresholds of the alerts about MySQL and HTTP:
  data that the properties do not tell apart.
* Isolation anomalies other than the ones named: a plain read inside a
  transaction sees the snapshot, a locking read and a write see the newest rows.
* A mail server, Kafka's replication and Redis persistence: their calls may fail,
  their committed data is not lost.
* `guard.go` (a bulkhead and a circuit breaker) and `RequireRole`: no code calls
  them.
* The monitoring overview and its page: queries of Prometheus laid out for
  display, with no state of their own. The mail sender: one SMTP dialogue, of
  which `EmailCode` and `AlertManager` keep that it may fail, before the mail is
  accepted or after.
* The API client: it renews its token a little before the end; what a repeated
  renewal does is in `Sessions`.
* Merging of chat messages by id on the page, the map of Kafka writers, the
  validation of the configuration, routes, flags and files of the tools.

## 7. Plan

What is left, in order of weight:

1. The API client's renewals composed with `Sessions`: two tabs that share the
   stored token.
2. `OrderPage` composed with `Marketplace` itself, instead of a server that
   decides freely.
3. normalizeItems against a reference definition, so that the order in which
   carts lock listings is derived instead of assumed.
4. Proofs: an inductive invariant of `Permissions` from which CallsEnd would
   follow under fairness (nobody waits for a lock of a call that has ended), and
   the same for the locks of `MessageStore`.
