# Specifications of the Matrix federation tester

TLA+ models of `rust-federation-tester`, the TLC runs that check them on small
instances, and TLAPS proofs of what matters most for every instance. Paths are
relative to `src/crates/server/src/` unless they start with `src/`.

## 1. The system

The server checks whether a Matrix homeserver federates, on request and
periodically. A user registers an alert for a server; background loops check
it, confirm a failure over several checks, notify by email and webhook, and
announce the recovery. The process may run in several instances that share one
SQL database and, optionally, one Redis (or Valkey).

### Components, their state and operations

| Component | State | Operations | Hard part | What makes it correct |
|---|---|---|---|---|
| Loop lock (`distributed/lock.rs`) | one Redis key per loop; the loop's local `holding_lock` | `try_acquire` (SET NX PX), `try_renew` (compare and PEXPIRE), fail-open | crash of the holder, iterations longer than the TTL, Redis outages | one iteration at a time; a holder keeps the key; bounded takeover; recovery after an outage |
| Email outbox (`email_outbox.rs`) | table `email_outbox` | `enqueue`, `enqueue_at`, the worker's batch (select, claim, expire, deliver, record), `requeue_failed` | two workers after a lost lock, crash between SMTP and the database, lost replies, stale `now`, unconditional writes by id | a row is delivered by one worker at a time; duplicates only after an unrecorded delivery; bounded retries; every row is settled |
| Alert state machine (`alerts/checks.rs`) | alert rows, the Registry, two loops with concurrent tasks | healthy and active cycle, confirmation, promotion, reminder, recovery | the two loops read rows and registry at different times; crash between the registry and the row | failures are confirmed by a streak; notifications agree with the row; nothing is forgotten |
| Registry (`distributed/registry.rs`) | failure count per alert, in memory or in Redis | `get`, `set`, `remove`, `all_ids` (`increment` has no caller) | Redis errors answer "nothing" | part of the state machine |
| Email guard (`distributed/email_guard.rs`) | claimed (alert, kind, bucket) keys | `try_claim` | overlapping instances | one email per kind and bucket |
| Webhook outbox (`alerts/webhook.rs`) | table `webhook_outbox`, webhook configurations | `enqueue_for_alert`, `enqueue_ping`, the worker's batch | as the email outbox, without a lock that lasts as long as a batch, and endpoints deleted meanwhile | duplicates only after an unrecorded delivery; order; an endpoint that accepts is served |
| Alerts API, legacy (`api/alerts.rs`) and v2 (`api/alerts_v2.rs`) | alerts, notification addresses and webhooks; stateless magic links | register, verify, list, delete; create, settings, addresses, webhooks; housekeeping | handlers of both interfaces and housekeeping write the same rows, one call at a time, with almost no transaction | an address is subscribed once; verified means confirmed; a verified alert stays |
| User authentication and Account API (`oauth2/register.rs`, `magic_link.rs`, `password_reset.rs`, `api/account.rs`) | users, additional addresses, tokens in both | register, sign in, reset; add, verify, resend, remove, promote, delete account | links followed late or twice, handlers that overlap, calls that fail in the middle | verified means followed; a reset link works once; no verified address is lost |
| OAuth2 server and API authentication (`oauth2/*`) | clients, authorization codes, token rows | consent, exchange, refresh, revoke, userinfo, delete account | two exchanges of one code, two refreshes of one token, a deletion under way | a grant is used once but for counted races; a deleted account stays closed |
| Connection pool (`connection_pool.rs`) | idle connections and one counter per server and client | get, return, clean up, evict | check-then-act on atomics, connections that are dropped | nobody is refused below the limit |
| Database migrations (`src/crates/migration`) | schema, recorded migrations, alert rows | 26 migrations up and down on SQLite and PostgreSQL | statements that autocommit, crashes, partial rollbacks, rows a rebuild copies | no alert is lost; a server that starts finds its schema complete |
| Change detection (`alerts/change_checks.rs`) | last observed version, keys, certificates per alert | compare, notify, replace | the observation is replaced whatever became of the emails sent before | not modelled |
| Federation checks (`federation/*`, `response.rs`), client API resolution | none (a DNS cache) | resolve, fetch keys and versions, report | precedence of resolution steps | only their use of the pool is modelled |
| Alert emails, statistics, release notes, retention, configuration, stateless routes, input validation, load tests | - | - | - | not modelled, see section 5 |

### How they interact

`main.rs` starts one task per loop: the healthy loop (5 min), the active loop
(1 min), the email and the webhook worker (10 s), retention and pool clean-up,
and the web server. The first four take the same kind of lock with different
names and TTLs. The two check loops share the Registry and the alert rows; the
active loop sends mail directly through SMTP, through `email_outbox` in a
recipient's quiet hours, and enqueues webhook rows; the healthy loop also runs
the housekeeping that deletes unverified alerts. Request handlers enqueue
magic-link emails with a deadline. The checks of the loops and of the web routes
share the connection pool. The operator's `requeue-failed` subcommand is a process
of its own that writes the outbox beside the workers; `migration up` runs before
each start of the container's server (`src/Dockerfile:101`).

The hazards these interactions expose are listed in `PROJECT.json`, each at
its line with the properties that cover it or the reason why none does.

## 2. The modules

| Module | Models | Used by |
|---|---|---|
| `RedisLease` | the lock's key: `SetNX`, `RenewIfOwned`, `Elapsed`, `Orphaned` | `LoopLock`, `EmailOutbox` |
| `LoopLock` | one background loop of several instances under one lock | run `LoopLock_faults` |
| `OutboxPromise` | abstract specification: what an outbox promises of a row | refined by `EmailOutbox` |
| `EmailOutbox`, `MCEmailOutbox` | the email outbox with workers, operators and faults | runs `EmailOutbox_*` |
| `AlertChecks`, `MCAlertChecks` | both check loops, Registry, guard, notifications | runs `AlertChecks_*` |
| `WebhookOutbox`, `MCWebhookOutbox` | the webhook outbox with workers, endpoints and their deletion | run `WebhookOutbox_core` |
| `Accounts` | user rows: registration, login, magic links, password resets | `AccountEmails` |
| `AccountEmails`, `MCAccountEmails` | a signed-in user's addresses and the end of the account | run `AccountEmails_core` |
| `OAuthSessions`, `MCOAuthSessions` | codes, tokens, API calls and account deletion | run `OAuthSessions_core` |
| `AlertsApi`, `MCAlertsApi` | both alert interfaces, housekeeping, what `delete_account` does to alerts | run `AlertsApi_core` |
| `Migrations`, `MCMigrations` | the migrations and the program that runs them | run `Migrations_core` |
| `ConnectionPool` | the pool, its counter and its two callers | run `ConnectionPool_refuses` |
| `LoopLock_proofs` | types, mutual exclusion, lease continuity, bounded takeover | - |
| `EmailOutbox_proofs` | types, the retry budget, exclusive rows, accounted duplicates, the refinement of `OutboxPromise` | - |
| `WebhookOutbox_proofs` | types, order, accounted duplicates | - |
| `AlertChecks_proofs` | types, one email per bucket, announcements, confirmation | - |
| `AccountEmails_proofs` | types, verification, reset links, promotions, removals | - |
| `OAuthSessions_proofs` | types, single use, deletion | - |
| `AlertsApi_proofs` | types, verification, webhooks | - |
| `Migrations_proofs` | types, no alert is lost, the served schema is complete | - |

Operators commented "Mutant:" are bugs the code might have; they are used in no
specification and exist to show that the property they are listed with in
`PROJECT.json` would notice.

### LoopLock

State: the Redis key with the time it has left, and of each instance the flag
`holding_lock`, whether it is inside an iteration and for how long, and its
tokio interval (time to the next tick, ticks that fired and were not consumed:
the default behaviour of `interval` is to burst them). One `Tick*` action per
answer of the Redis command: renewed, lost, acquired, held by another, no
answer. The code never releases a lock, so neither does the model; a crash
leaves the key to its TTL, and a restarted process has a new `instance_id`
(`Orphaned`). Time is a set of countdowns; `Elapse` lets a fired tick be served
first and bounds an iteration by `MaxWork`, which may exceed the TTL.

### EmailOutbox

Each await of `process_batch` and `deliver_item` is an action: `TickAdmitted`
(the lock's answer and `now`), `SelectRows`/`SelectNothing`, `Claim`/`ClaimRace`
(the conditional UPDATE), `MarkExpired`, `SendOk`/`SendRefused`/`BuildFails`,
`Record` (the unconditional column updates by id of `mark_sent`, `mark_failed`
and `schedule_retry_or_fail`, computed from the row as it was *selected*).
Faults are actions of a common budget: a database error before or after the
write took effect (`BatchError`, `RecordLost`), an SMTP answer that is lost
(`SendReplyLost`), a crash. `requeue_failed` is `RequeueSelect` followed by one
`RequeueRow` per row, with its own `now`. `sent_at`, `last_error` and the texts
are left out; `max_attempts` is the same for all rows, as in the code. Without a
mailer the worker does nothing and is not modelled.

`TimelySpec` adds the assumption behind the claim: a batch is over before the
window that its `now` opened closes (20 rows in 5 minutes in the code).

### AlertChecks

An alert row keeps `is_currently_failing` and the age of `last_email_sent_at`;
the registry keeps a count, 0 meaning no entry. A cycle of the healthy loop is
`HealthyLoad` (the query), `HealthySkip` (`registry.all_ids`), one task per
remaining alert (`HealthyReport`, `HealthySet`) and `HealthyJoin`; a cycle of the
active loop is `ActiveLoad`, `ActiveIds`, `ActiveExtras`, one task per alert and
`ActiveJoin`. A task carries the row its cycle loaded and the state it resolved
before the report, as in the code, and its steps are the awaits of the handlers:
registry before row (`LeaveConfirmation`, `Promote`), guard (`Claim`), emails
(`Mail`), `last_email_sent_at` (`Stamp`), webhook (`Hook`).

A report is the state of the monitored server (`online`, changed by `Flap`) or an
error (`HealthyError`, `ActiveError`). Constants choose the deployment: whether
the loop locks exclude other instances, which Registry and guard, whether
Redis, the database or SMTP fail or are absent; without the shared registry there is
one instance. History variables: the streak of failed reports, the last webhook event,
the emails sent with the claims of the current bucket. A task that claimed its email in
a bucket and has not sent it when the bucket ends is `late` (`NextBucket`): its email
counts for neither bucket.
Left out: status-history rows, `failure_count` and the timestamps that only
reports show, housekeeping, the recipients (one email stands for all).

### WebhookOutbox

The awaits of `enqueue_for_alert` (the list of endpoints, then one insert each;
the first error ends it) and of `process_batch` and `deliver_item` are actions, as
in `EmailOutbox`. Time is abstract here: a row is *due* or not. A claim or a retry
makes it not due until `Wake`, which also marks the row `late` in the batches that
selected it earlier: their `now` may lie before the new `next_attempt_at`, so that
their claim may succeed or fail. `ORDER BY next_attempt_at` is kept for rows that
were never claimed (`fresh`), whose `next_attempt_at` is the event's `now`.
Deleting an endpoint deletes its rows (foreign key); a worker that has such a row in
its batch finds nothing to claim, no endpoint, or no row to update. The loop lock is
left out because its TTL (20 s) is shorter than a batch may last (20 deliveries of
up to 10 s), so it promises nothing here. `Timely` is the assumption that a batch
ends within the claim window of 5 minutes. `Reliable` names the events that their
endpoint accepts whenever it is asked.

### Accounts and AccountEmails

The two modules share one set of variables: `Accounts` declares them and models the
handlers that need no session, `AccountEmails` those of `api/account.rs`, and the
composed `Next`. Each database call of a handler is a step of its request `req[r]`,
which carries what it read before; a call that fails (`CallFails`,
`VerifyByMagicLinkFails`) ends the handler where it is. An email is a link in
`mail` that whoever reads the mailbox may follow, at any time and more than once.
`register_submit` is `Register` for a new address and otherwise one step for what it
read of the user: verified without a password (`Upgrade`), unverified with a token that
is still valid (`SendAgain`) or not (`Reregister`). `MakePrimary` is the sequence of
`make_primary_email`: the old primary is inserted as an additional address (`Demote`), the user row updated
(`Promote`), the additional row dropped (`DropPromoted`); any number of promotions of a
user may run. `InsertEmail` is `add_email` from its insert on: when the mail is not
enqueued the handler goes on to delete the row (`Discard`), which may fail too.
`DeleteAccount` is its sequence of deletions. Left out: names, time zones,
`receives_alerts`, the values of passwords and `change_password`.
`PromotionKeepsAddresses` and `RemovalKeepsVerified` are statements about single steps
(`Promotes`, `Removing`): a removal carries in `beside` whether another removal or a
discard of the same user overlapped it. `MCAccountEmails` has two initial states: a user
who has just signed in, and one with three addresses.

### OAuthSessions

A handler is again a request whose database calls are steps: find the code or the
token row, spend it (a DELETE or a revocation, whose result `exchange_code` ignores),
insert the new token row; `FindToken` and `FindUser` are the two reads of
`OAuth2Auth`. Pages, codes and the two halves of a token row expire at any time.
`delete_account` is `SweepTokens`, `SweepCodes`, `SweepUser`; rows inserted for a user
while that runs are marked `late`. History: the token rows each grant has produced
(`uses`) and how often its single use could not be enforced (`excused`): a second
handler found it before the first had spent it, or the call that spends it failed.
Left out: scopes, PKCE, redirect URIs, client secrets (guards on the request's own
text) and `last_login_at`. A consent token is `ConsentData` in base64, not signed, so
`SignIn` may bring up any page at any time.

### AlertsApi

Handlers of both interfaces work on one alert table with its unique index on
address and server, its cascades (`DeleteRows`) and sea-orm's update, which changes
only the columns that were set (`Update`). A register or delete link is a signed
token that nobody stores: it works any number of times until it expires
(`LinkExpires`). Only `update_notify_emails` uses a transaction (`ReplaceNotify`).
`ChangeAccount` stands for everything `AccountEmails` does to the addresses of a
caller between two requests; that `delete_account` deletes the caller's alerts is
`DeleteAccount` and `DeleteOwned` here. `Housekeep` is `run_housekeeping`; `GrowOld` is the day
after which it may delete an unverified row. History: the register links that were
followed and the addresses accounts had verified.

### Migrations

Each migration is two lists of statements (`Up[n]`, `Down[n]`) in the order of
`Migrator::migrations`; statements create, drop and rename tables, add and remove parts
(columns, indexes, constraints) or move rows, and `Works` says when one fails.
The program (`Start`, `Execute`, `Fails`, `Record`, `Crash`) runs them as
sea-orm-migration does: PostgreSQL in one transaction (`saved`, `RollBack`), SQLite
with autocommit, so that a crash leaves a migration half done. The rows of `alert` and
of the copy that a rebuild makes are modelled with what the constraints tell apart;
rows change between two commands only, as the server is not up while one runs.

### ConnectionPool

The two callers, `fetch_keys` and the version query, ask for a connection, use a
pooled or a fresh one, fall back to a fresh one on an error or a refusal, and give
back what worked. The counter `usage` has the width of the atomic (as a small modulus:
`Width`), so that subtracting from zero wraps. Idle connections may die and are
cleaned up.

## 3. What is checked

| Run | Checks | Instance |
|---|---|---|
| `LoopLock_faults` | `OneIterationAtATime`, `HolderKeepsKey`, `TakeoverInTime`; `SettlesOnOneHolder`, `LoopNeverStops` under fairness | 3 instances, TTL 3, period 2, iterations up to 4, 1 crash, 1 outage; 159 465 states |
| `EmailOutbox_timely` | `RowExclusive`, `DeliveredOnce`, refinement of `OutboxPromise` (`KeepsPromise`) | 2 rows (one malformed), 2 workers that may both fail open, 1 operator, 1 fault; 1.2 M states |
| `EmailOutbox_free` | `PendingHasAttemptsLeft`, `Settles` under fairness, no timing assumption | 1 row, 2 workers, window and TTL 1, 1 fault, 1 requeue; 273 054 states |
| `AlertChecks_core` | `ConfirmedAfterStreak`, `AnnouncementsMatchRow`; `DownIsConfirmed`, `UpIsCleared` under fairness | 1 alert, 1 instance, threshold 3, 5 flaps, 1 crash, no Redis; 242 698 states |
| `AlertChecks_overlap` | `OneMailPerBucket` | 1 alert, 2 instances without exclusion, registry errors, 1 end of a bucket; 1 342 952 states |
| `WebhookOutbox_core` | `DeliveredOnce`, `NoSilentOvertaking`; `ReliableIsServed` under fairness | 1 endpoint, 2 events, 2 workers, batches of 2, 3 attempts, 2 faults, 1 deletion, `Timely`; 535 445 states |
| `AccountEmails_core` | `VerifiedWasFollowed`, `ResetsAreSingleUse`, `PromotionKeepsAddresses`, `RemovalKeepsVerified` | 3 addresses, 2 users, 3 additional rows, 2 tokens, 2 handlers, 3 requests, 1 fault, from two starting points; 1 208 190 states |
| `OAuthSessions_core` | `GrantsAreSingleUse`, `DeletionSweeps`, `ClosedAccountIsClosed` | 1 user, 1 client, 2 handlers, 1 code, 3 token rows, 1 fault; 508 674 states |
| `AlertsApi_core` | `VerifiedWasConfirmed`, `HooksBounded`, `VerifiedStays`; `UnconfirmedIsSwept` under fairness | 1 user, 2 addresses, 1 server, 2 handlers, 3 alert rows, 3 webhooks (at most 1 per alert), 3 requests, 1 account change, 1 fault; 156 550 states |
| `Migrations_core` | `AlertsSurvive`, `ServedSchemaIsComplete`, `CommandsFailOnlyAsKnown` | both databases, all 26 migrations, 2 addresses, 2 servers, 2 rows, 1 crash; 1 088 492 states |
| `AlertChecks_race` | `ConfirmedOnlyRecovers` is violated | see findings |
| `ConnectionPool_refuses` | `RefusedOnlyAtLimit` is violated | 2 servers, 3 checks, a counter of width 4; see findings |

Every module's type invariant (`TypeOK`) is checked in one of its runs; for
`ConnectionPool` it was checked beside the run, over 80 871 states.

**Why the bounds are enough.** In `LoopLock` two periods fit into a lease and an
iteration may outlive it; three instances are a holder, a waiter and a third that
sees both. In `EmailOutbox` the batch holds two rows, so that an item can be late;
two workers and an operator are every pair of writers; two attempts separate
"retry" from "last attempt"; one fault at any point reaches each single-fault
state, and delays of 1 and 2 lie on both sides of the window. In `AlertChecks` a
threshold of 3 separates the first failure (healthy loop), an accumulated one
and the last; alerts do not share state except the lists the loops load, so one
alert with all its interleavings shows the races; five flaps give two rounds of
failure and recovery. In `WebhookOutbox` two events of one endpoint show its order and
whether the one that is refused starves the other; three attempts outlast the two
faults of `ReliableIsServed`.

In the three modules of request handlers two handlers are a race, and what a third
request left behind is in the tables. `AccountEmails_core` starts after a first sign-in
by magic link and `AlertsApi_core` after a first `create_alert_v2`, states the program
reaches and every behaviour of interest begins with; two addresses are a primary and an
additional one, or one that two users want. In `AccountEmails_core` either a call fails
or a second token is issued after that, not both. The other starting point of
`AccountEmails_core` (`WithRows`) is a user who has added two more addresses and
followed the link of one or both, the primary one being verified or not, so that a
removal that was allowed because of another additional address is overlapped by a
promotion, a discard or a second removal of that address, and two promotions overlap;
without any one of the cases that the properties exclude, or when the promoted row is
removed first, the run finds a violation. Three token rows are a row, its successor, and
the successor a second refresh of the same row inserts. In `AlertsApi_core` a maximum of
one webhook is exceeded by two racing requests. In `Migrations_core` nothing is cut but
the rows: two alerts are two that a unique index tells apart or refuses.

Budgets (`Horizon`, `MaxFaults`, `MaxRequeues`, `MaxDue`, `MaxCrashes`, `MaxOutages`,
`MaxFlaps`, `MaxBuckets`, `MaxEvents`, `MaxDeletions`, `MaxStarts`,
`MaxAccountChanges`) appear only in guards; `MaxCodes`, `MaxTokens`, `MaxUsers`,
`MaxRows` and `MaxHooks` are the ids a behaviour may ever use, each once. Symmetry is used for
handlers, workers, addresses and servers, and only in runs without a liveness
property.

**Fairness.** Weak fairness of what the tokio runtime and timers guarantee: a
spawned loop is polled, an interval fires, an awaited call returns (SMTP, HTTP and
Redis clients have timeouts), time goes on, a Redis outage ends. Nothing makes
faults, crashes, operators, users or flaps happen. `AlertChecks` assumes strong
fairness of the two report actions: a check that returns an *error* rather than a
report every time for ever is excluded, because the code then learns nothing. In
`AlertsApi` only housekeeping and the passing of the day are fair, no request is:
the housekeeping runs at the end of each healthy cycle, which `LoopNeverStops` keeps
going.

**Deadlock** is not checked in `EmailOutbox`, `WebhookOutbox`, `OAuthSessions`,
`AccountEmails` and `AlertsApi`: when all rows are settled and the budgets are used up
nothing is left to happen.

### Findings

- `AlertChecks_race`: the healthy loop reads rows first and the registry second.
  When the active loop confirms an alert in between, it is checked as healthy once
  more and a confirmed alert re-enters confirmation, an arrow the documented state
  machine does not have. It is then confirmed (and announced) a second time, or
  its recovery takes two checks.
- `ConnectionPool_refuses`: only `return_connection` decrements the counter. A
  connection that is dropped (a failed send, a timeout) stays counted for ever; a
  fresh connection that was never counted is subtracted when it is given back, from
  zero if need be, where the counter wraps. So a check can be refused with fewer
  connections than the limit under way, against the comments of the struct.

Smaller disagreements between text and code, met while modelling and true in the
models, but without a run of their own:

- `process_batch` reads `now` once, so a row of `email_outbox` whose deadline passes
  during the batch is still attempted (`email_outbox.rs:263` against 28-30).
- The recovery webhook is inside the mailer's condition (`alerts/checks.rs:948`)
  against the comment at 987: without SMTP subscribers never hear of a recovery.
- `create_alert_v2` says one alert per server and user, but asks and indexes by
  address: after a change of the primary address a user can subscribe again.
- An interrupted rollback leaves its migration recorded with parts missing, and the
  next `up` succeeds over an incomplete schema; the rollback of `account_features`
  leaves a column behind that makes the next `up` fail
  (`m20260307_000001_account_features.rs:99`); a rebuild that fails on the rows leaves
  `alert_new`, which blocks every later one. On a fresh PostgreSQL database `up` stops
  at `fix_uniqueness`, because the index of the constraint's name exists already
  (`src/README.md:26` offers PostgreSQL). `CommandsFailOnlyAsKnown` says that these
  are all the failures without a crash.

Met while surveying what is not modelled: `stats::record_event` turns the row it has
changed into an `ActiveModel` without setting a column (`stats/mod.rs:133`), so its
`update` writes nothing; the exported totals (README, Statistics) stay at a server's
first check, and `prune_old_entries` deletes the row by the age of that check.

The proofs showed two statements about addresses to be false beyond the bounds of
their run, and the properties say now what holds. A promotion inserts the old address as
a row with the mark it read; when the user is verified after that, or a racing
`add_email` had inserted the row unverified, the promotion leaves the old address
without the mark that the user row had (`KeptAsVerified`). And a removal whose counted
address is taken by a second removal, or by the discard of its row, removes the last
verified address. Of two promotions that overlap the later one writes over the result of
the earlier one, and the address that had just become primary is lost: each has demoted
the one it read at its start. No address is ever verified by that, which the proof shows
for any number of promotions.

Statements weaker than one might expect, and why. `ConfirmedAfterStreak` asks
for `CONFIRMATION_THRESHOLD - 1` failures in a row, because a healthy check that
overlaps a success may write its entry after it; and it is checked without Redis,
because with a shared registry a crash between a successful check and
`registry.remove` carries the old count over. `AnnouncementsMatchRow` needs the
no-op guard: the Redis guard suppresses the webhook together with the email when
a second failure falls into the same bucket. `GrantsAreSingleUse` and
`ResetsAreSingleUse` count the overlaps the code permits, `HooksBounded` allows one
webhook per racing request, `OneMailPerBucket` counts an email for the bucket of its
claim, `PromotionKeepsAddresses` leaves out the step of a promotion that writes over
another's result (`Promotes`: the user's address is no longer the one it demoted, the row
that keeps that one is gone, or the address it drops is no longer the primary one), and `ServedSchemaIsComplete` leaves out databases
whose rollback was interrupted (`torn`).

## 4. What is proved

For every value of the constants (`LoopLockAssumption`, `OutboxAssumption`,
`SessionsAssumption`, `AlertsAssumption`, `WebhookAssumption`, `AccountsAssumption`,
`AlertAssumption`):

- `LoopLock_proofs`: `TypeCorrect` (with outages), and for every period shorter
  than the TTL (`TTLExceedsPoll`, true of all four loops' defaults)
  `MutualExclusion`, `LeaseContinuity`, `BoundedTakeover`. The properties
  themselves speak of the time before the first Redis outage and of iterations
  younger than the TTL. The inductive invariant `LeaseInv` says that a young
  iteration's key is at most as old as the iteration and that a waiting holder's key
  outlives the wait; mutual exclusion alone is not inductive, since it does not
  say whose key it is. `GapInv` relates the silence to the age of a dead holder's
  key and, once the key is gone, to every live instance's next tick.
- `EmailOutbox_proofs`: `TypeCorrect` and `RetryBudget` (`PendingHasAttemptsLeft`)
  for `Spec`. The invariant adds that a worker has a current item exactly in the
  places that use it.
- The same module: `RowsAreExclusive` and `DuplicatesAreAccounted` for
  `TimelySpec`, with one operator (`OneOperator`) and without the lock. The
  invariant says that a worker that delivers a row finds it pending, claimed up to
  at least its own `now` plus the window and not due for anybody else, and counts
  each acceptance as the one being recorded, an unrecorded one or the final one.
  `OneOperator` is needed: of two concurrent `requeue-failed` runs the slower one
  resets a row that was sent meanwhile. `OutboxKeepsPromise`: `TimelySpec` implements
  `OutboxPromise` (`KeepsPromise`). Each step of a worker, an operator or the clock is
  a step of the abstract row or a stutter; what the claim invariant lacked is
  `SentWasAccepted`: a worker that is about to write `sent` holds a row that the SMTP
  server has accepted.
- `OAuthSessions_proofs`: `TypeCorrect`, `NothingIsLeft` (`DeletionSweeps`),
  `ClosedStaysClosed` (`ClosedAccountIsClosed`) and `OneRowPerGrant`
  (`GrantsAreSingleUse`). `SweepInv` says that behind the point a deletion has reached
  only late rows of its user are left, since rows only keep their mark or get the one
  they deserve (`RowsKeepMarks`). `CountInv` is the strengthening of single use: a grant's token
  rows and the handlers that hold it are together at most one more than its excuses, and
  at most the excuses while it can be found and nobody is about to spend it. The bound
  alone is not inductive: it does not say that a grant that can still be found has given
  nothing that is not excused (`RowsMove`: no grant is good again).
- `AlertsApi_proofs`: `TypeCorrect`, `VerifiedMeansConfirmed`
  (`VerifiedWasConfirmed`), `VerifiedAlertsStay` (`VerifiedStays`) and `HooksStayBounded`
  (`HooksBounded`). `TypeInv` adds to `TypeOK` what each handler knows at its step.
  `ConfirmInv` adds that a handler about to verify a row is justified (its link was
  followed or its account's address proven) and that what accounts hold as verified was
  proven. `HooksInv` counts, for each alert, its webhooks and the handlers that have
  passed the count: every one of them was below the maximum when it counted.
- `WebhookOutbox_proofs`: `TypeCorrect`, `OrderIsKept` (`NoSilentOvertaking`), both
  without a timing assumption, and `DuplicatesAreAccounted` (`DeliveredOnce`) under
  `Timely`, where a worker that posts a row is the only one that can have claimed it.
  `OrderInv` says of every batch that a row nobody has claimed stands behind all older
  ones of its endpoint that nobody has claimed; the property alone says nothing of what
  a batch holds. The endpoints are finitely many (`WebhookAssumption`).
- `AccountEmails_proofs`: `TypeCorrect`, `AddressesAreFollowed`
  (`VerifiedWasFollowed`), `LinksAreSingleUse` (`ResetsAreSingleUse`),
  `PromotionsKeepAddresses` and `RemovalsKeepOne` (`RemovalKeepsVerified`), for `Spec`
  from its own initial state; the run starts a sign-in later, or more. The thirty actions are
  cut down once to what a step may do to a user row, an additional row, a link and a
  handler (`Moves`), under `Basic`, which adds to the types what a handler knows of
  the rows it works on; the other invariants are preserved by `Moves`. `TokenInv`
  says that tokens are issued once and name one row, `FollowedInv` that a link leads to the
  address it was sent to or to one that was followed already, `ResetInv` counts the handlers that
  hold a reset token, and `RemovalInv` says that what a removal counted is still there
  unless it knows better. `SessionsKnow` says that the primary address of a user who has
  a session was followed, so that the address a promotion has read, and marks
  when it demotes it, is one that was followed, whatever other promotions have made of
  the user's row since. None of these theorems assumes anything but `AccountsAssumption`.
- `AlertChecks_proofs`: `TypeCorrect`; `GuardAllowsOne` (`OneMailPerBucket`) for any
  number of instances if Redis answers the guard, where `MailInv` says that of the tasks
  that are about to send an email of this bucket one has the claim and nobody has
  sent it; `SubscribersKnowTheRow` (`AnnouncementsMatchRow`) with a mailer, the no-op
  guard, a database that answers and a loop lock that holds, where `AnnounceInv` says that
  at most one active loop is not idle, that a task decides on the row as it is, and that
  the last event or the task under way is about the row; and `ConfirmationTakesAStreak`
  (`ConfirmedAfterStreak`) without Redis, where `Entry` relates a registry entry to the
  tasks of both loops that have read it. `Resting` is what they share: a loop that loads
  a cycle has no task of the last one. These assumptions are the deployments in which the
  properties hold (section 3 says what happens in the others).

- `Migrations_proofs`: `NoAlertIsLost` (`AlertsSurvive`) for any number of alerts and
  crashes. `AllMigrations` goes through the 52 lists of statements: all are `Calm` (they
  neither drop nor rename `alert`), but for the rollback of the first migration and the
  six rebuilds on SQLite, whose third statement is the drop and whose second is the copy.
  `CopiedInv` says that between the two every row stands in both tables. `AlertsSurvive`
  says nothing of a rollback of the first migration that died; `LostInv` does: the table
  is gone then, and no command gets past its second statement. On PostgreSQL `SavedInv` keeps the
  alerts of the state a transaction would restore.
- The same module: `TypesAreCorrect` (`TypeOK`), whose part about constraints needs
  `SoundInv`: a rollback that restores addresses checks no constraint on the address alone,
  and `LateInv` says that none is left by then, since fix_oauth_alert_magic_token rebuilds
  the table without it (`MagicInv`); PostgreSQL never gets that far (`PostgresInv`). Copies
  accumulate in `rows`, whose ids `MaxRows` bounds (`MigrationsAssumption`: a natural number).
- `SchemaIsComplete` (`ServedSchemaIsComplete`), from `CompleteInv`. `Made` is the table of
  what the statements of each `Up` make for the server and which statement of the `Down`
  takes it away, checked against the lists statement by statement (the `Facts` lemmas).
  `DueAt` tells from the version and the place in a running migration whether a row of the
  table is due, `PlaceAt` what the table is called before and after rename_oauth_tables.
  The property speaks only of a finished `up`; inductive is that at every point all that is
  due is there (`FineIn`), or an earlier failure left `alert_new` or a half-done renaming
  behind, so that no later `up` finishes (`DoomedIn`), or a rollback died under way (`torn`).
  Failures keep it because a command that fails has changed nothing the table names:
  it fails at its first such statement (`UpEndsEarly`, `DownEndsEarly`), or at a rebuild.

Only model-checked: the liveness properties (fairness is out of the prover's reach);
`CommandsFailOnlyAsKnown`, which needs the exact schema after each of the 52 lists, with
what is not there as well as what is, where `Made` is only a lower bound; the type
invariant of `ConnectionPool`.

## 5. Not modelled

- Change detection: one task compares, notifies and overwrites in one pass. That the
  observation is replaced even when an email has failed or was not claimed is what the
  code does, and nothing in the repository promises otherwise.
- Alert emails: rendering and one SMTP call, an answer in `AlertChecks`.
- Statistics, retention, release notes: an insert or update per check, periodic DELETEs
  and a cache that no other component depends on.
- Federation checks and client API resolution: sockets, DNS, TLS and parsing without
  shared state except the connection pool; to `AlertChecks` a report is the server's
  state or an error. The rules of name resolution are a pure function over formats.
- Input validation, address filter, stateless routes, configuration, load tests: no
  state. Configuration values are the models' constants.
- In modelled components: `increment` of the registry has no production caller, and of
  `identity.rs` only `get_user_alerts` has one (`api/alerts_v2.rs:413`), which reads;
  what `delete_account` deletes of histories, logs and identities, nothing here reads;
  `list_alerts` only mails a link; `patch_webhook`, the test
  endpoints, `change_password` and `enqueue_ping` write what nothing else depends on;
  the status history and quiet hours of an alert change no other state.

## 6. Plan

1. Proofs: `CommandsFailOnlyAsKnown`, with `Made` extended to all that the migrations make
   and its converse, and the type invariant of `ConnectionPool`.
2. The end of quiet hours and the precedence of name resolution as operators against
   reference definitions.
3. Deleting an alert under a running check: `AlertsApi` composed with `AlertChecks`.
