---------------------------- MODULE EmailOutbox ----------------------------
(***************************************************************************)
(* The transactional email outbox (email_outbox.rs): request handlers and  *)
(* the alert checks insert rows, one worker per server instance polls the  *)
(* table under the "email_outbox_worker" lock, claims each due row by      *)
(* pushing its next_attempt_at CLAIM_WINDOW ahead, delivers it over SMTP   *)
(* and writes the outcome back; an operator may run `requeue-failed`.      *)
(*                                                                         *)
(* Every await of process_batch is a step of its own, so workers,          *)
(* operators, crashes and time interleave between any two of them.  `now`  *)
(* is read once per batch, and every write after it uses that value.       *)
(***************************************************************************)
EXTENDS RedisLease, Integers, Sequences

CONSTANTS
  Emails,        \* the rows of email_outbox
  Malformed,     \* the rows whose address or body build_message rejects
  Workers,       \* server instances, each with one worker
  Operators,     \* concurrent `requeue-failed` invocations
  BatchSize,     \* BATCH_SIZE
  MaxAttempts,   \* max_attempts of every row
  ClaimWindow,   \* CLAIM_WINDOW
  LockTTL,       \* LOCK_TTL_MS
  LinkLifetime,  \* life of the token in a magic-link email
  QuietDelays,   \* how much later quiet hours may postpone an email
  Backoff,       \* backoff_secs
  RedisOutages,  \* may Redis be unreachable?
  Horizon,       \* bound: no row is inserted and no idle time passes after it
  MaxFaults,     \* bound: crashes, database errors and lost SMTP replies
  MaxRequeues    \* bound: requeue-failed runs

ASSUME OutboxAssumption ==
  /\ Nobody \notin Workers
  /\ Malformed \subseteq Emails
  /\ BatchSize \in Nat \ {0}
  /\ MaxAttempts \in Nat \ {0}
  /\ ClaimWindow \in Nat \ {0}
  /\ LockTTL \in Nat \ {0}
  /\ LinkLifetime \in Nat \ {0}
  /\ QuietDelays \subseteq Nat
  /\ Backoff \in [1 .. MaxAttempts -> Nat]
  /\ RedisOutages \in BOOLEAN
  /\ Horizon \in Nat
  /\ MaxFaults \in Nat
  /\ MaxRequeues \in Nat

VARIABLES
  clock,         \* the database's and the instances' (synchronised) time
  rows,          \* the table
  lock,          \* the key of "email_outbox_worker"
  holding,       \* holding_lock of each worker
  pc,            \* where each worker is in process_batch
  now,           \* `now` of each worker's batch
  batch,         \* what is left of the SELECT's result, head first
  outcome,       \* what build_message and mailer.send answered for the head
  todo,          \* rows an operator's requeue-failed still has to reset
  asof,          \* `now` of each operator's run
  delivered,     \* history: how often the SMTP server accepted each email
  unrecorded,    \* history: how many of those never reached mark_sent's write
  faults, requeues   \* budgets left

vars == <<clock, rows, lock, holding, pc, now, batch, outcome,
          todo, asof, delivered, unrecorded, faults, requeues>>

operatorVars == <<todo, asof, requeues>>
historyVars  == <<delivered, unrecorded>>
workerVars   == <<holding, pc, now, batch, outcome>>

NoExpiry == -1

Statuses == {"absent", "pending", "sent", "failed", "expired"}
Settled  == {"sent", "failed", "expired"}

Row == [status : Statuses, attempts : Nat, next : Nat,
        expires : Nat \cup {NoExpiry}]

Item == [id : Emails, attempts : Nat]   \* a row as SELECT read it

Places   == {"idle", "select", "claim", "expire", "send", "record"}
Outcomes == {"none", "sent", "error", "unbuildable"}

\* Every variable is in its range.
TypeOK ==
  /\ clock \in Nat
  /\ rows \in [Emails -> Row]
  /\ lock \in Keys(Workers, LockTTL)
  /\ holding \in [Workers -> BOOLEAN]
  /\ pc \in [Workers -> Places]
  /\ now \in [Workers -> Nat]
  /\ batch \in [Workers -> Seq(Item)]
  /\ outcome \in [Workers -> Outcomes]
  /\ todo \in [Operators -> SUBSET Emails]
  /\ asof \in [Operators -> Nat]
  /\ delivered \in [Emails -> Nat]
  /\ unrecorded \in [Emails -> Nat]
  /\ faults \in 0 .. MaxFaults
  /\ requeues \in 0 .. MaxRequeues

Init ==
  /\ clock = 0
  /\ rows = [e \in Emails |-> [status |-> "absent", attempts |-> 0, next |-> 0,
                               expires |-> NoExpiry]]
  /\ lock = NoKey
  /\ holding = [w \in Workers |-> FALSE]
  /\ pc = [w \in Workers |-> "idle"]
  /\ now = [w \in Workers |-> 0]
  /\ batch = [w \in Workers |-> << >>]
  /\ outcome = [w \in Workers |-> "none"]
  /\ todo = [o \in Operators |-> {}]
  /\ asof = [o \in Operators |-> 0]
  /\ delivered = [e \in Emails |-> 0]
  /\ unrecorded = [e \in Emails |-> 0]
  /\ faults = MaxFaults
  /\ requeues = MaxRequeues

-----------------------------------------------------------------------------
\* The guard `exp <= now` on a row that carries a deadline.
ExpiredAt(e, t) == rows[e].expires # NoExpiry /\ rows[e].expires <= t

\* Mutant: the WHERE clause forgets next_attempt_at.
DueAnyTime(e, t) == rows[e].status = "pending"

\* The WHERE clause of both the SELECT and the claiming UPDATE.
Due(e, t) == rows[e].status = "pending" /\ rows[e].next <= t

SpendFault == faults > 0 /\ faults' = faults - 1

\* enqueue and enqueue_at: magic-link emails carry their token's deadline, alert
\* emails may be postponed to the end of the recipient's quiet hours.
Enqueue(e) ==
  /\ rows[e].status = "absent" /\ clock < Horizon
  /\ \E expires \in {NoExpiry, clock + LinkLifetime}, delay \in QuietDelays \cup {0} :
       /\ expires # NoExpiry => delay = 0
       /\ rows' = [rows EXCEPT ![e] = [status |-> "pending", attempts |-> 0,
                                       next |-> clock + delay, expires |-> expires]]
  /\ UNCHANGED <<clock, lock, workerVars, operatorVars, historyVars, faults>>

-----------------------------------------------------------------------------
\* tick_lock said yes: process_batch reads `now`.
EnterBatch(w) ==
  /\ pc' = [pc EXCEPT ![w] = "select"]
  /\ now' = [now EXCEPT ![w] = clock]
  /\ UNCHANGED <<clock, rows, batch, outcome, operatorVars, historyVars, faults>>

\* try_renew by a worker that still owns the key, or try_acquire of a free key.
TickAdmitted(w) ==
  /\ pc[w] = "idle"
  /\ \/ /\ holding[w] /\ OwnedBy(lock, w)
        /\ lock' = RenewIfOwned(lock, w, LockTTL)
     \/ /\ ~holding[w] /\ Acquirable(lock)
        /\ lock' = SetNX(lock, w, LockTTL)
  /\ holding' = [holding EXCEPT ![w] = TRUE]
  /\ EnterBatch(w)

\* Mutant: the tick is skipped without `holding_lock = false`.
TickLockLostKeepsHolding(w) ==
  /\ pc[w] = "idle" /\ holding[w] /\ ~OwnedBy(lock, w)
  /\ UNCHANGED vars

\* try_renew by a worker whose key is gone.  (try_acquire while another worker
\* has the key changes nothing.)
TickLockLost(w) ==
  /\ pc[w] = "idle" /\ holding[w] /\ ~OwnedBy(lock, w)
  /\ holding' = [holding EXCEPT ![w] = FALSE]
  /\ UNCHANGED <<clock, rows, lock, pc, now, batch, outcome, operatorVars,
                 historyVars, faults>>

\* Redis does not answer: both calls return true (fail-open).
TickFailOpen(w) ==
  /\ RedisOutages /\ pc[w] = "idle"
  /\ holding' = [holding EXCEPT ![w] = TRUE]
  /\ EnterBatch(w)
  /\ UNCHANGED lock

\* s is a possible answer of the SELECT: due rows, each once, earliest first,
\* as many as there are up to BATCH_SIZE.
IsAnswer(s, n, t) ==
  /\ \A k \in 1 .. n : Due(s[k], t)
  /\ \A j, k \in 1 .. n : j < k => s[j] # s[k] /\ rows[s[j]].next <= rows[s[k]].next
  /\ \A e \in Emails : Due(e, t) /\ (\A k \in 1 .. n : s[k] # e)
       => n = BatchSize /\ \A k \in 1 .. n : rows[s[k]].next <= rows[e].next

SelectRows(w) ==
  /\ pc[w] = "select"
  /\ \E n \in 1 .. BatchSize : \E s \in [1 .. n -> Emails] :
       /\ IsAnswer(s, n, now[w])
       /\ batch' = [batch EXCEPT ![w] =
                      [k \in 1 .. n |-> [id |-> s[k], attempts |-> rows[s[k]].attempts]]]
  /\ pc' = [pc EXCEPT ![w] = "claim"]
  /\ UNCHANGED <<clock, rows, lock, holding, now, outcome, operatorVars,
                 historyVars, faults>>

Item1(w) == Head(batch[w])

\* process_batch returns, or its process dies: its locals are gone.
Leave(w) ==
  /\ pc' = [pc EXCEPT ![w] = "idle"]
  /\ now' = [now EXCEPT ![w] = 0]
  /\ batch' = [batch EXCEPT ![w] = << >>]
  /\ outcome' = [outcome EXCEPT ![w] = "none"]

\* The for loop goes to the next item; after the last one process_batch returns.
NextItem(w) ==
  IF Len(batch[w]) = 1
  THEN Leave(w)
  ELSE /\ batch' = [batch EXCEPT ![w] = Tail(@)]
       /\ pc' = [pc EXCEPT ![w] = "claim"]
       /\ outcome' = [outcome EXCEPT ![w] = "none"]
       /\ UNCHANGED now

ClaimRow(e, t) == rows' = [rows EXCEPT ![e].next = t + ClaimWindow]

\* Nothing is due: the for loop has no iteration.
SelectNothing(w) ==
  /\ pc[w] = "select"
  /\ \A e \in Emails : ~Due(e, now[w])
  /\ Leave(w)
  /\ UNCHANGED <<clock, rows, lock, holding, operatorVars, historyVars, faults>>

\* The claiming UPDATE changed the row; the deadline is compared with `now`.
Claim(w) ==
  /\ pc[w] = "claim"
  /\ Due(Item1(w).id, now[w])
  /\ ClaimRow(Item1(w).id, now[w])
  /\ pc' = [pc EXCEPT ![w] = IF ExpiredAt(Item1(w).id, now[w]) THEN "expire" ELSE "send"]
  /\ UNCHANGED <<clock, lock, holding, now, batch, outcome, operatorVars, historyVars, faults>>

\* rows_affected = 0: another instance was faster.
ClaimRace(w) ==
  /\ pc[w] = "claim"
  /\ ~Due(Item1(w).id, now[w])
  /\ NextItem(w)
  /\ UNCHANGED <<clock, rows, lock, holding, operatorVars, historyVars, faults>>

\* A database error in the SELECT or in the claim (applied or not) ends the
\* batch by `?`.
BatchError(w) ==
  /\ pc[w] \in {"select", "claim"} /\ SpendFault
  /\ \/ UNCHANGED rows
     \/ /\ pc[w] = "claim" /\ Due(Item1(w).id, now[w])
        /\ ClaimRow(Item1(w).id, now[w])
  /\ Leave(w)
  /\ UNCHANGED <<clock, lock, holding, operatorVars, historyVars>>

\* The item's token is stale: status = "expired", unless the write fails.
MarkExpired(w) ==
  /\ pc[w] = "expire"
  /\ \/ /\ rows' = [rows EXCEPT ![Item1(w).id].status = "expired"]
        /\ UNCHANGED faults
     \/ SpendFault /\ UNCHANGED rows
  /\ NextItem(w)
  /\ UNCHANGED <<clock, lock, holding, operatorVars, historyVars>>

-----------------------------------------------------------------------------
\* deliver_item: build_message, then mailer.send.
Answer(w, result) ==
  /\ pc' = [pc EXCEPT ![w] = "record"]
  /\ outcome' = [outcome EXCEPT ![w] = result]
  /\ UNCHANGED <<clock, rows, lock, holding, now, batch, operatorVars>>

BuildFails(w) ==
  /\ pc[w] = "send" /\ Item1(w).id \in Malformed
  /\ Answer(w, "unbuildable")
  /\ UNCHANGED <<historyVars, faults>>

Delivered(e) == delivered' = [delivered EXCEPT ![e] = @ + 1]

Unrecorded(e) == unrecorded' = [unrecorded EXCEPT ![e] = @ + 1]

SendOk(w) ==
  /\ pc[w] = "send" /\ Item1(w).id \notin Malformed
  /\ Delivered(Item1(w).id)
  /\ Answer(w, "sent")
  /\ UNCHANGED <<unrecorded, faults>>

\* The server refuses, or cannot be reached.
SendRefused(w) ==
  /\ pc[w] = "send" /\ Item1(w).id \notin Malformed
  /\ Answer(w, "error")
  /\ UNCHANGED <<historyVars, faults>>

\* The server accepted the email but its reply is lost: send returns an error.
SendReplyLost(w) ==
  /\ pc[w] = "send" /\ Item1(w).id \notin Malformed
  /\ SpendFault
  /\ Delivered(Item1(w).id)
  /\ Unrecorded(Item1(w).id)
  /\ Answer(w, "error")

\* Mutant: the retry is scheduled before `now`.
RecordedBackwards(w) ==
  [rows EXCEPT ![Item1(w).id].status = CASE outcome[w] = "sent" -> "sent"
                                         [] outcome[w] = "unbuildable" -> "failed"
                                         [] OTHER -> @,
               ![Item1(w).id].next = now[w] - Backoff[1]]

\* Mutant: a delivered row is left as it is.
RecordedNotSent(w) ==
  IF outcome[w] = "sent" THEN rows ELSE [rows EXCEPT ![Item1(w).id].status = "failed"]

\* Mutant: off by one in the comparison with max_attempts.
RecordedOneMore(w) ==
  LET e == Item1(w).id
      tried == Item1(w).attempts + 1
  IN CASE outcome[w] = "sent" -> [rows EXCEPT ![e].status = "sent"]
       [] outcome[w] = "error" /\ tried <= MaxAttempts ->
            [rows EXCEPT ![e].attempts = tried, ![e].next = now[w] + Backoff[tried]]
       [] OTHER -> [rows EXCEPT ![e].attempts = tried, ![e].status = "failed"]

\* mark_sent, mark_failed and schedule_retry_or_fail: column updates by id,
\* whatever the row's status is by now, from the item as it was selected.
Recorded(w) ==
  LET e == Item1(w).id
      tried == Item1(w).attempts + 1
  IN CASE outcome[w] = "sent" ->
            [rows EXCEPT ![e].status = "sent"]
       [] outcome[w] = "unbuildable" ->
            [rows EXCEPT ![e].status = "failed"]
       [] outcome[w] = "error" /\ tried >= MaxAttempts ->
            [rows EXCEPT ![e].attempts = tried, ![e].status = "failed"]
       [] OTHER ->
            [rows EXCEPT ![e].attempts = tried, ![e].next = now[w] + Backoff[tried]]

Record(w) ==
  /\ pc[w] = "record"
  /\ rows' = Recorded(w)
  /\ NextItem(w)
  /\ UNCHANGED <<clock, lock, holding, operatorVars, historyVars, faults>>

\* The write's error is ignored (`let _ =`).
RecordLost(w) ==
  /\ pc[w] = "record" /\ SpendFault
  /\ IF outcome[w] = "sent" THEN Unrecorded(Item1(w).id) ELSE UNCHANGED unrecorded
  /\ NextItem(w)
  /\ UNCHANGED <<clock, rows, lock, holding, operatorVars, delivered>>

\* The instance dies and restarts with a new instance id.
Crash(w) ==
  /\ SpendFault
  /\ pc[w] # "idle" \/ holding[w]
  /\ IF outcome[w] = "sent" THEN Unrecorded(Item1(w).id) ELSE UNCHANGED unrecorded
  /\ Leave(w)
  /\ holding' = [holding EXCEPT ![w] = FALSE]
  /\ lock' = Orphaned(lock, w)
  /\ UNCHANGED <<clock, rows, operatorVars, delivered>>

-----------------------------------------------------------------------------
\* Mutant: every settled row is requeued, not only the failed ones.
RequeueSelectSettled(o) ==
  /\ todo[o] = {} /\ requeues > 0
  /\ requeues' = requeues - 1
  /\ asof' = [asof EXCEPT ![o] = clock]
  /\ todo' = [todo EXCEPT ![o] =
                {e \in Emails : rows[e].status \in Settled /\ ~ExpiredAt(e, clock)}]
  /\ UNCHANGED <<clock, rows, lock, workerVars, historyVars, faults>>

\* requeue_failed reads `now` and every failed row, and skips the expired ones ...
RequeueSelect(o) ==
  /\ todo[o] = {} /\ requeues > 0
  /\ requeues' = requeues - 1
  /\ asof' = [asof EXCEPT ![o] = clock]
  /\ todo' = [todo EXCEPT ![o] =
                {e \in Emails : rows[e].status = "failed" /\ ~ExpiredAt(e, clock)}]
  /\ UNCHANGED <<clock, rows, lock, workerVars, historyVars, faults>>

\* ... then resets the others one by one, by id.
RequeueRow(o) ==
  /\ \E e \in todo[o] :
       /\ rows' = [rows EXCEPT ![e].status = "pending", ![e].attempts = 0,
                               ![e].next = asof[o]]
       /\ todo' = [todo EXCEPT ![o] = @ \ {e}]
  /\ UNCHANGED <<clock, lock, workerVars, asof, requeues, historyVars, faults>>

\* A database error or a Ctrl-C ends the run early.
RequeueAborts(o) ==
  /\ todo[o] # {} /\ SpendFault
  /\ todo' = [todo EXCEPT ![o] = {}]
  /\ UNCHANGED <<clock, rows, lock, workerVars, asof, requeues, historyVars>>

-----------------------------------------------------------------------------
\* Time goes on up to the horizon, and beyond it as long as somebody waits for
\* it: a pending row that is not due, or the key of a dead worker.
Awaited ==
  \/ clock < Horizon
  \/ \E e \in Emails : rows[e].status = "pending" /\ rows[e].next > clock
  \/ Present(lock) /\ lock.owner = Nobody

Elapse ==
  /\ Awaited
  /\ clock' = clock + 1
  /\ lock' = Elapsed(lock)
  /\ UNCHANGED <<rows, workerVars, operatorVars, historyVars, faults>>

Work(w) ==
  \/ SelectRows(w) \/ SelectNothing(w) \/ Claim(w) \/ ClaimRace(w) \/ MarkExpired(w)
  \/ BuildFails(w) \/ SendOk(w) \/ SendRefused(w) \/ Record(w)

Tick(w) == TickAdmitted(w) \/ TickLockLost(w) \/ TickFailOpen(w)

Fault(w) == BatchError(w) \/ SendReplyLost(w) \/ RecordLost(w) \/ Crash(w)

Act ==
  \/ \E e \in Emails : Enqueue(e)
  \/ \E w \in Workers : Tick(w) \/ Work(w) \/ Fault(w)
  \/ \E o \in Operators : RequeueSelect(o) \/ RequeueRow(o) \/ RequeueAborts(o)

Next == Act \/ Elapse

Spec == Init /\ [][Next]_vars

\* The assumption the claim rests on (the comment above CLAIM_WINDOW): nobody is
\* still in a batch when the claim window opened by its `now` closes.
InBatch(w) == pc[w] # "idle"

OnTime == \A w \in Workers : InBatch(w) => clock + 1 < now[w] + ClaimWindow

TimelyNext == Act \/ (OnTime /\ Elapse)

TimelySpec == Init /\ [][TimelyNext]_vars

\* The runtime keeps polling the tasks it was given, SMTP and the database answer
\* in the end, and time goes on.
FairSpec ==
  /\ Spec
  /\ \A w \in Workers : WF_vars(Work(w)) /\ WF_vars(TickAdmitted(w)) /\ WF_vars(TickLockLost(w))
  /\ WF_vars(Elapse)

-----------------------------------------------------------------------------
\* w claimed e and has not written the outcome yet.
Delivering(w, e) == pc[w] \in {"expire", "send", "record"} /\ Item1(w).id = e

\* Under TimelySpec: no two instances deliver the same row, whatever the lock does
\* (email_outbox.rs, "Row-level claim").
RowExclusive ==
  \A e \in Emails : \A v, w \in Workers :
    Delivering(v, e) /\ Delivering(w, e) => v = w

\* Under TimelySpec: an email reaches the SMTP server a second time only after a
\* crash, a database error or a lost reply kept an earlier delivery from being
\* recorded - not by overlapping batches, retries or requeue-failed.
DeliveredOnce ==
  \A e \in Emails : delivered[e] <= 1 + unrecorded[e]

\* A pending row has an attempt left, so the retry that reaches max_attempts always
\* settles it - also when stale writes of several instances cross.
PendingHasAttemptsLeft ==
  \A e \in Emails : rows[e].status = "pending" => rows[e].attempts < MaxAttempts

\* Under TimelySpec the table is what the outbox promises of it.
Promise == INSTANCE OutboxPromise WITH status <- [e \in Emails |-> rows[e].status]

KeepsPromise == Promise!Spec

\* Every row is settled in the end: no claim, crash, lost lock or stale write hides
\* a pending row for ever.
Settles ==
  \A e \in Emails : (rows[e].status = "pending") ~> (rows[e].status \in Settled)
=============================================================================
