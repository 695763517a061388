--------------------------- MODULE WebhookOutbox ---------------------------
(***************************************************************************)
(* Webhook notifications of one alert (alerts/webhook.rs): the check loops *)
(* insert one webhook_outbox row per configured endpoint, a worker in each *)
(* server instance claims due rows, looks the endpoint up, posts the event *)
(* and writes the outcome back, while the owner of the alert may delete    *)
(* endpoints (api/alerts_v2.rs).                                           *)
(*                                                                         *)
(* Time is abstract: a row is due or not.  An inserted row is due at once, *)
(* a claim or a retry makes it not due until Wake.  The loop lock is left  *)
(* out: any number of workers may be in a batch at a time.                 *)
(***************************************************************************)
EXTENDS Naturals, Sequences, FiniteSets

CONSTANTS
  Hooks,         \* endpoints configured for the alert
  Reliable,      \* the deliveries (event, endpoint) that are answered 2xx whenever they are tried
  Workers,       \* server instances, each with one worker
  MaxEvents,     \* bound: events enqueued
  BatchSize,     \* BATCH_SIZE
  MaxAttempts,   \* max_attempts of every row
  Timely,        \* batches end before their CLAIM_WINDOW closes
  MaxFaults,     \* bound: crashes, database errors and lost answers
  MaxDeletions   \* bound: endpoints deleted

Events == 1 .. MaxEvents
Ids    == Events \X Hooks        \* a row: event id[1] for endpoint id[2]

ASSUME WebhookAssumption ==
  /\ IsFiniteSet(Hooks)
  /\ Reliable \subseteq Ids
  /\ BatchSize \in Nat \ {0} /\ MaxAttempts \in Nat \ {0}
  /\ Timely \in BOOLEAN
  /\ MaxEvents \in Nat /\ MaxFaults \in Nat /\ MaxDeletions \in Nat

VARIABLES
  configured,   \* alert_notification_webhook
  rows,         \* webhook_outbox
  events,       \* events that were started, in the order of their `now`
  inserting,    \* endpoints an enqueue_for_alert still has to insert a row for
  preceded,     \* history: the events that were all inserted when this one began
  pc, batch, answer,       \* each worker: its step, its remaining rows, the outcome
  accepted,     \* history: how often the endpoint accepted the event
  unrecorded,   \* history: how many of these were not written back
  faults, deletions        \* budgets left

workerVars  == <<pc, batch, answer>>
historyVars == <<accepted, unrecorded>>
enqueueVars == <<events, inserting, preceded>>
tableVars   == <<configured, rows, enqueueVars>>
vars == <<tableVars, workerVars, historyVars, faults, deletions>>

\* due: next_attempt_at has passed; fresh: never claimed.
Row == [status : {"absent", "pending", "delivered", "failed"},
        attempts : 0 .. MaxAttempts, due : BOOLEAN, fresh : BOOLEAN]

NoRow  == [status |-> "absent", attempts |-> 0, due |-> FALSE, fresh |-> TRUE]
NewRow == [status |-> "pending", attempts |-> 0, due |-> TRUE, fresh |-> TRUE]

\* A row as SELECT read it, with an attempt left; late: it became due again only
\* after that.
Item == [id : Ids, attempts : 0 .. MaxAttempts - 1, late : BOOLEAN]

\* Every variable is in its range.
TypeOK ==
  /\ configured \subseteq Hooks
  /\ rows \in [Ids -> Row]
  /\ events \in 0 .. MaxEvents
  /\ inserting \in [Events -> SUBSET Hooks]
  /\ preceded \in [Events -> SUBSET Events]
  /\ pc \in [Workers -> {"idle", "claim", "lookup", "send", "record"}]
  /\ batch \in [Workers -> Seq(Item)]
  /\ \A w \in Workers : Len(batch[w]) <= BatchSize
  /\ answer \in [Workers -> {"none", "success", "error"}]
  /\ accepted \in [Ids -> Nat] /\ unrecorded \in [Ids -> Nat]
  /\ faults \in 0 .. MaxFaults /\ deletions \in 0 .. MaxDeletions

Init ==
  /\ configured = Hooks
  /\ rows = [id \in Ids |-> NoRow]
  /\ events = 0
  /\ inserting = [n \in Events |-> {}]
  /\ preceded = [n \in Events |-> {}]
  /\ pc = [w \in Workers |-> "idle"]
  /\ batch = [w \in Workers |-> << >>]
  /\ answer = [w \in Workers |-> "none"]
  /\ accepted = [id \in Ids |-> 0]
  /\ unrecorded = [id \in Ids |-> 0]
  /\ faults = MaxFaults
  /\ deletions = MaxDeletions

SpendFault == faults > 0 /\ faults' = faults - 1

-----------------------------------------------------------------------------
\* enqueue_for_alert reads the configured endpoints and then `now` ...
EnqueueForAlert ==
  /\ events < MaxEvents
  /\ events' = events + 1
  /\ inserting' = [inserting EXCEPT ![events + 1] = configured]
  /\ preceded' = [preceded EXCEPT ![events + 1] = {n \in 1 .. events : inserting[n] = {}}]
  /\ UNCHANGED <<configured, rows, workerVars, historyVars, faults, deletions>>

\* ... and inserts one row per endpoint; the first error (a database error, or
\* the foreign key of an endpoint that was deleted meanwhile) ends it by `?`.
InsertRow(n) ==
  /\ \E h \in inserting[n] :
       IF h \in configured
       THEN /\ rows' = [rows EXCEPT ![<<n, h>>] = NewRow]
            /\ inserting' = [inserting EXCEPT ![n] = @ \ {h}]
       ELSE /\ inserting' = [inserting EXCEPT ![n] = {}]
            /\ UNCHANGED rows
  /\ UNCHANGED <<configured, events, preceded, workerVars, historyVars, faults, deletions>>

InsertError(n) ==
  /\ inserting[n] # {} /\ SpendFault
  /\ inserting' = [inserting EXCEPT ![n] = {}]
  /\ UNCHANGED <<configured, rows, events, preceded, workerVars, historyVars, deletions>>

\* delete_webhook; the foreign key deletes the endpoint's rows with it.
DeleteWebhook(h) ==
  /\ h \in configured /\ deletions > 0
  /\ deletions' = deletions - 1
  /\ configured' = configured \ {h}
  /\ rows' = [id \in Ids |-> IF id[2] = h THEN NoRow ELSE rows[id]]
  /\ UNCHANGED <<enqueueVars, workerVars, historyVars, faults>>

-----------------------------------------------------------------------------
Due(id) == rows[id].status = "pending" /\ rows[id].due

\* Mutant: the SELECT has no ORDER BY.
InOrderUnsorted(s, n) == TRUE

\* ORDER BY next_attempt_at, LIMIT BATCH_SIZE: of two rows that were never claimed
\* the one whose event is older comes first, and is not cut off before the other.
InOrder(s, n) ==
  \A k \in 1 .. n : rows[s[k]].fresh =>
    \A id \in Ids : Due(id) /\ rows[id].fresh /\ id[1] < s[k][1]
      => \E j \in 1 .. k - 1 : s[j] = id

\* process_batch reads `now` and the due rows.
SelectRows(w) ==
  /\ pc[w] = "idle"
  /\ LET due == {id \in Ids : Due(id)}
         n   == IF Cardinality(due) < BatchSize THEN Cardinality(due) ELSE BatchSize
     IN /\ n > 0
        /\ \E s \in [1 .. n -> due] :
             /\ \A j, k \in 1 .. n : j # k => s[j] # s[k]
             /\ InOrder(s, n)
             /\ batch' = [batch EXCEPT ![w] =
                  [k \in 1 .. n |-> [id |-> s[k], attempts |-> rows[s[k]].attempts, late |-> FALSE]]]
  /\ pc' = [pc EXCEPT ![w] = "claim"]
  /\ UNCHANGED <<tableVars, answer, historyVars, faults, deletions>>

This(w) == Head(batch[w]).id

At(w, step) == pc[w] = step

Goto(w, step) == pc' = [pc EXCEPT ![w] = step]

\* process_batch ends, by `?` or with its process.
Leave(w) ==
  /\ Goto(w, "idle")
  /\ batch' = [batch EXCEPT ![w] = << >>]
  /\ answer' = [answer EXCEPT ![w] = "none"]

NextItem(w) ==
  /\ Goto(w, IF Len(batch[w]) = 1 THEN "idle" ELSE "claim")
  /\ batch' = [batch EXCEPT ![w] = Tail(@)]
  /\ answer' = [answer EXCEPT ![w] = "none"]

\* Mutant: the claim does not move next_attempt_at.
ClaimedNotMoved(id) == [rows EXCEPT ![id].fresh = FALSE]

Claimed(id) == [rows EXCEPT ![id].due = FALSE, ![id].fresh = FALSE]

\* The conditional UPDATE.
Claim(w) ==
  /\ At(w, "claim") /\ Due(This(w))
  /\ rows' = Claimed(This(w))
  /\ Goto(w, "lookup")
  /\ UNCHANGED <<configured, enqueueVars, batch, answer, historyVars, faults, deletions>>

\* rows_affected = 0: the row is gone, claimed or settled, or it became due again
\* since it was selected, perhaps only after this batch's `now`.
ClaimRace(w) ==
  /\ At(w, "claim")
  /\ ~Due(This(w)) \/ Head(batch[w]).late
  /\ NextItem(w)
  /\ UNCHANGED <<tableVars, historyVars, faults, deletions>>

\* find_by_id(webhook_id).  A deleted endpoint's row is gone as well, so that the
\* update to "failed" finds no row and its error is ignored.
Lookup(w) ==
  /\ At(w, "lookup")
  /\ \/ /\ This(w)[2] \in configured
        /\ Goto(w, "send")
        /\ UNCHANGED <<batch, answer>>
     \/ /\ This(w)[2] \notin configured
        /\ NextItem(w)
  /\ UNCHANGED <<tableVars, historyVars, faults, deletions>>

\* A database error in the SELECT, the claim (applied or not) or the lookup ends the
\* batch; a claimed row stays claimed.
BatchError(w) ==
  /\ pc[w] \in {"claim", "lookup"} /\ SpendFault
  /\ Leave(w)
  /\ \/ UNCHANGED rows
     \/ At(w, "claim") /\ Due(This(w)) /\ rows' = Claimed(This(w))
  /\ UNCHANGED <<configured, enqueueVars, historyVars, deletions>>

-----------------------------------------------------------------------------
Answered(w, result) ==
  /\ At(w, "send")
  /\ Goto(w, "record")
  /\ answer' = [answer EXCEPT ![w] = result]
  /\ UNCHANGED <<tableVars, batch, deletions>>

Accept(id) == accepted' = [accepted EXCEPT ![id] = @ + 1]

Forget(id) == unrecorded' = [unrecorded EXCEPT ![id] = @ + 1]

PostAccepted(w) ==
  /\ Answered(w, "success")
  /\ Accept(This(w))
  /\ UNCHANGED <<unrecorded, faults>>

\* A status other than 2xx, or no connection.
PostRefused(w) ==
  /\ At(w, "send") /\ This(w) \notin Reliable
  /\ Answered(w, "error")
  /\ UNCHANGED <<historyVars, faults>>

\* The endpoint accepted the event and the answer is lost or late (DELIVERY_TIMEOUT).
AnswerLost(w) ==
  /\ SpendFault
  /\ Answered(w, "error")
  /\ Accept(This(w)) /\ Forget(This(w))

\* Mutant: the first error settles the row.
RecordedGivesUp(w) ==
  IF answer[w] = "success"
  THEN [rows EXCEPT ![This(w)].status = "delivered"]
  ELSE [rows EXCEPT ![This(w)].status = "failed"]

\* Mutant: the attempts are counted before and after the delivery.
RecordedTwice(w) ==
  IF answer[w] = "success" \/ rows[This(w)].status = "absent"
  THEN rows
  ELSE [rows EXCEPT ![This(w)].attempts = Head(batch[w]).attempts + 2]

\* mark_delivered and schedule_retry_or_fail: an update by id from the row as it
\* was selected, which fails on a row that was deleted.
Recorded(w) ==
  LET id    == This(w)
      tried == Head(batch[w]).attempts + 1
  IN CASE rows[id].status = "absent" -> rows
       [] rows[id].status # "absent" /\ answer[w] = "success" ->
            [rows EXCEPT ![id].status = "delivered"]
       [] rows[id].status # "absent" /\ answer[w] = "error" /\ tried >= MaxAttempts ->
            [rows EXCEPT ![id].attempts = tried, ![id].status = "failed"]
       [] OTHER ->
            [rows EXCEPT ![id].attempts = tried]

Record(w) ==
  /\ At(w, "record")
  /\ rows' = Recorded(w)
  /\ NextItem(w)
  /\ UNCHANGED <<configured, enqueueVars, historyVars, faults, deletions>>

ForgetAnswer(w) ==
  IF answer[w] = "success" THEN Forget(This(w)) ELSE UNCHANGED unrecorded

\* The write's error is ignored (`let _ =`).
RecordLost(w) ==
  /\ At(w, "record") /\ SpendFault
  /\ ForgetAnswer(w)
  /\ NextItem(w)
  /\ UNCHANGED <<tableVars, accepted, deletions>>

Crash(w) ==
  /\ ~At(w, "idle") /\ SpendFault
  /\ ForgetAnswer(w)
  /\ Leave(w)
  /\ UNCHANGED <<tableVars, accepted, deletions>>

\* w claimed the row and has not written the outcome yet.
Delivering(w, id) == pc[w] \in {"lookup", "send", "record"} /\ This(w) = id

\* next_attempt_at passes: of a retry, or of a claim whose worker is gone (or, when
\* batches are not timely, slow).
Wake(id) ==
  /\ rows[id].status = "pending" /\ ~rows[id].due
  /\ Timely => \A w \in Workers : ~Delivering(w, id)
  /\ rows' = [rows EXCEPT ![id].due = TRUE]
  /\ batch' = [w \in Workers |-> [k \in DOMAIN batch[w] |->
                 IF batch[w][k].id = id THEN [batch[w][k] EXCEPT !.late = TRUE] ELSE batch[w][k]]]
  /\ UNCHANGED <<configured, enqueueVars, pc, answer, historyVars, faults, deletions>>

Work(w) ==
  \/ SelectRows(w) \/ Claim(w) \/ ClaimRace(w) \/ Lookup(w)
  \/ PostAccepted(w) \/ PostRefused(w) \/ Record(w)

Fault(w) == BatchError(w) \/ AnswerLost(w) \/ RecordLost(w) \/ Crash(w)

Next ==
  \/ EnqueueForAlert
  \/ \E n \in Events : InsertRow(n) \/ InsertError(n)
  \/ \E h \in Hooks : DeleteWebhook(h)
  \/ \E w \in Workers : Work(w) \/ Fault(w)
  \/ \E id \in Ids : Wake(id)

Spec == Init /\ [][Next]_vars

\* The runtime polls its tasks, requests end by DELIVERY_TIMEOUT, time goes on.
FairSpec ==
  /\ Spec
  /\ \A w \in Workers : WF_vars(Work(w))
  /\ \A n \in Events : WF_vars(InsertRow(n))
  /\ \A id \in Ids : WF_vars(Wake(id))

-----------------------------------------------------------------------------
\* With timely batches, without any lock: an endpoint receives an event a second time
\* only after a crash, a database error or a lost answer kept an earlier delivery
\* from being written back.
DeliveredOnce == \A id \in Ids : accepted[id] <= 1 + unrecorded[id]

\* An event never overtakes an older one that nobody has tried: when an endpoint is
\* asked, each event that was enqueued before this one began has been claimed, be it
\* by another instance, in another batch, or in a batch that broke off.
NoSilentOvertaking ==
  \A w \in Workers : At(w, "send") =>
    \A n \in preceded[This(w)[1]] :
      LET older == rows[<<n, This(w)[2]>>]
      IN ~(older.status = "pending" /\ older.fresh)

\* A refused event, a broken-off batch or a crash never starves another event: as long
\* as the endpoint is configured, an event that it would accept is recorded as
\* delivered there.  (Fewer faults than attempts: MaxFaults < MaxAttempts.)
ReliableIsServed ==
  \A id \in Reliable :
    (rows[id].status = "pending") ~> (rows[id].status \in {"delivered", "absent"})
=============================================================================
