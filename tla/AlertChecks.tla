---------------------------- MODULE AlertChecks ----------------------------
(***************************************************************************)
(* The alert state machine (alerts/checks.rs): two background loops that   *)
(* share the alert table and the confirmation Registry.                    *)
(*   - healthy_check_loop checks alerts that are neither confirmed failing *)
(*     nor in the registry; a first failure puts the alert there.          *)
(*   - active_check_loop checks the alerts in the registry and the         *)
(*     confirmed failing ones, confirms, reminds and announces recovery.   *)
(* In one cycle all alerts of a loop are checked concurrently and the loop *)
(* waits for all of them.  Every await between two accesses to shared      *)
(* state is a step boundary; a task works on the row its cycle loaded.     *)
(***************************************************************************)
EXTENDS Naturals, FiniteSets

CONSTANTS
  Alerts,          \* verified alerts
  Instances,       \* server processes, each with both loops
  Threshold,       \* CONFIRMATION_THRESHOLD
  LocksHold,       \* LoopLock!OneIterationAtATime holds of both locks
  SharedRegistry,  \* Registry::Redis rather than Registry::InMemory
  RegistryErrors,  \* may Redis fail under the registry?
  RedisGuard,      \* EmailGuard::Redis rather than EmailGuard::Noop
  GuardErrors,     \* may Redis fail under the guard?
  Mailer,          \* is SMTP configured?
  DbErrors,        \* may a database query fail?
  MaxFlaps,        \* bound: how often a server goes up or down
  MaxCrashes,      \* bound: process crashes
  MaxBuckets       \* bound: passages of time that matter (bucket, 12 h)

ASSUME AlertAssumption ==
  /\ Threshold \in Nat /\ Threshold >= 2
  /\ {LocksHold, SharedRegistry, RegistryErrors, RedisGuard, GuardErrors, Mailer, DbErrors}
       \subseteq BOOLEAN
  /\ ~SharedRegistry => \A i, j \in Instances : i = j
  /\ MaxFlaps \in Nat /\ MaxCrashes \in Nat /\ MaxBuckets \in Nat

VARIABLES
  failing,    \* alert.is_currently_failing
  emailed,    \* age of alert.last_email_sent_at against REMINDER_EMAIL_INTERVAL
  registry,   \* consecutive failures in confirmation; 0 = no entry
  guard,      \* <<alert, kind>> claimed in the current time bucket
  hcycle, hrows, htask,     \* the healthy loop of each instance
  acycle, arows, atask,     \* the active loop of each instance
  online,     \* environment: would a check of the server succeed?
  streak,     \* history: consecutive failed reports of the alert, capped
  announced,  \* history: last webhook event enqueued for the alert
  mailed,     \* history: emails sent per kind with a claim of this bucket, capped
  flaps, crashes, buckets   \* budgets left

dbVars      == <<failing, emailed>>
healthyVars == <<hcycle, hrows, htask>>
activeVars  == <<acycle, arows, atask>>
envVars     == <<online, flaps, crashes, buckets>>
historyVars == <<streak, announced, mailed>>
vars == <<dbVars, registry, guard, healthyVars, activeVars, envVars, historyVars>>

Kinds == {"failure", "reminder", "recovery"}
Ages  == {"never", "fresh", "due"}      \* "due": at least 12 h old

\* A row as the active loop loaded it.
Rows == [failing : BOOLEAN, emailed : Ages]
RowOf(a) == [failing |-> failing[a], emailed |-> emailed[a]]

\* A check task of the active loop: its step, the loaded row, the count it read
\* from the registry, the notification it is about, and (history) whether the bucket
\* of its claim is over.
Steps == {"none", "get", "report", "set", "remove", "promote", "drop", "count",
          "recover", "claim", "mail", "stamp", "hook"}
Task  == [at : Steps, row : Rows, count : 0 .. Threshold, kind : Kinds, late : BOOLEAN]

NoTask == [at |-> "none", row |-> [failing |-> FALSE, emailed |-> "never"],
           count |-> 0, kind |-> "failure", late |-> FALSE]
NewTask(row) == [NoTask EXCEPT !.at = "get", !.row = row]

\* Every variable is in its range.
TypeOK ==
  /\ failing \in [Alerts -> BOOLEAN]
  /\ emailed \in [Alerts -> Ages]
  /\ registry \in [Alerts -> 0 .. Threshold - 1]
  /\ guard \subseteq Alerts \X Kinds
  /\ hcycle \in [Instances -> {"idle", "loaded", "running"}]
  /\ hrows \in [Instances -> SUBSET Alerts]
  /\ htask \in [Instances -> [Alerts -> {"none", "report", "set"}]]
  /\ acycle \in [Instances -> {"idle", "loaded", "joined", "running"}]
  /\ arows \in [Instances -> SUBSET Alerts]
  /\ atask \in [Instances -> [Alerts -> Task]]
  /\ online \in [Alerts -> BOOLEAN]
  /\ streak \in [Alerts -> 0 .. Threshold]
  /\ announced \in [Alerts -> {"none", "down", "reminder", "up"}]
  /\ mailed \in [Alerts \X Kinds -> 0 .. 2]
  /\ flaps \in 0 .. MaxFlaps
  /\ crashes \in 0 .. MaxCrashes
  /\ buckets \in 0 .. MaxBuckets

Init ==
  /\ failing = [a \in Alerts |-> FALSE]
  /\ emailed = [a \in Alerts |-> "never"]
  /\ registry = [a \in Alerts |-> 0]
  /\ guard = {}
  /\ hcycle = [i \in Instances |-> "idle"]
  /\ hrows = [i \in Instances |-> {}]
  /\ htask = [i \in Instances |-> [a \in Alerts |-> "none"]]
  /\ acycle = [i \in Instances |-> "idle"]
  /\ arows = [i \in Instances |-> {}]
  /\ atask = [i \in Instances |-> [a \in Alerts |-> NoTask]]
  /\ online = [a \in Alerts |-> TRUE]
  /\ streak = [a \in Alerts |-> 0]
  /\ announced = [a \in Alerts |-> "none"]
  /\ mailed = [slot \in Alerts \X Kinds |-> 0]
  /\ flaps = MaxFlaps
  /\ crashes = MaxCrashes
  /\ buckets = MaxBuckets

-----------------------------------------------------------------------------
\* Registry: a Redis error makes get and all_ids answer "nothing", and set and
\* remove do nothing.
InRegistry == {a \in Alerts : registry[a] > 0}

AllIds == {InRegistry} \cup (IF RegistryErrors THEN {{}} ELSE {})

Counts(a) == {registry[a]} \cup (IF RegistryErrors THEN {0} ELSE {})

PutRegistry(a, n) ==
  \/ registry' = [registry EXCEPT ![a] = n]
  \/ RegistryErrors /\ UNCHANGED registry

Reported(a) ==
  streak' = [streak EXCEPT ![a] = IF online[a] THEN 0
                                  ELSE IF @ < Threshold THEN @ + 1 ELSE @]

-----------------------------------------------------------------------------
\* A query that fails counts as an empty answer (unwrap_or_default).
Loaded(answer) == {answer} \cup (IF DbErrors THEN {{}} ELSE {})

\* healthy_check_loop.  Its lock admits one cycle at a time.
HealthyLoad(i) ==
  /\ hcycle[i] = "idle"
  /\ LocksHold => \A j \in Instances : hcycle[j] = "idle"
  /\ hcycle' = [hcycle EXCEPT ![i] = "loaded"]
  /\ \E rows \in Loaded({a \in Alerts : ~failing[a]}) : hrows' = [hrows EXCEPT ![i] = rows]
  /\ UNCHANGED <<dbVars, registry, guard, htask, activeVars, envVars, historyVars>>

\* registry.all_ids() after the rows were read; a task for every other alert.
HealthySkip(i) ==
  /\ hcycle[i] = "loaded"
  /\ \E ids \in AllIds :
       htask' = [htask EXCEPT ![i] =
                   [a \in Alerts |-> IF a \in hrows[i] \ ids THEN "report" ELSE "none"]]
  /\ hcycle' = [hcycle EXCEPT ![i] = "running"]
  /\ hrows' = [hrows EXCEPT ![i] = {}]
  /\ UNCHANGED <<dbVars, registry, guard, activeVars, envVars, historyVars>>

HealthyStep(i, a, from, to) ==
  /\ htask[i][a] = from
  /\ htask' = [htask EXCEPT ![i][a] = to]

\* generate_json_report answers; a success only stamps the row.
HealthyReport(i, a) ==
  /\ HealthyStep(i, a, "report", IF online[a] THEN "none" ELSE "set")
  /\ Reported(a)
  /\ UNCHANGED <<dbVars, registry, guard, hcycle, hrows, activeVars, envVars, announced, mailed>>

\* generate_json_report returns an error: the check is given up.
HealthyError(i, a) ==
  /\ HealthyStep(i, a, "report", "none")
  /\ UNCHANGED <<dbVars, registry, guard, hcycle, hrows, activeVars, envVars, historyVars>>

\* registry.set(id, 1): the active loop takes over.
HealthySet(i, a) ==
  /\ HealthyStep(i, a, "set", "none")
  /\ PutRegistry(a, 1)
  /\ UNCHANGED <<dbVars, guard, hcycle, hrows, activeVars, envVars, historyVars>>

HealthyJoin(i) ==
  /\ hcycle[i] = "running"
  /\ \A a \in Alerts : htask[i][a] = "none"
  /\ hcycle' = [hcycle EXCEPT ![i] = "idle"]
  /\ UNCHANGED <<dbVars, registry, guard, hrows, htask, activeVars, envVars, historyVars>>

-----------------------------------------------------------------------------
\* active_check_loop: rows that are confirmed failing ...
ActiveLoad(i) ==
  /\ acycle[i] = "idle"
  /\ LocksHold => \A j \in Instances : acycle[j] = "idle"
  /\ acycle' = [acycle EXCEPT ![i] = "loaded"]
  /\ \E rows \in Loaded({a \in Alerts : failing[a]}) :
       atask' = [atask EXCEPT ![i] =
                   [a \in Alerts |-> IF a \in rows THEN NewTask(RowOf(a)) ELSE NoTask]]
  /\ UNCHANGED <<dbVars, registry, guard, healthyVars, arows, envVars, historyVars>>

\* ... the ids in the registry that are not among them ...
ActiveIds(i) ==
  /\ acycle[i] = "loaded"
  /\ \E ids \in AllIds :
       arows' = [arows EXCEPT ![i] = {a \in ids : atask[i][a].at = "none"}]
  /\ acycle' = [acycle EXCEPT ![i] = "joined"]
  /\ UNCHANGED <<dbVars, registry, guard, healthyVars, atask, envVars, historyVars>>

\* ... and the rows of those ids.
ActiveExtras(i) ==
  /\ acycle[i] = "joined"
  /\ \E rows \in Loaded(arows[i]) :
       atask' = [atask EXCEPT ![i] =
                   [a \in Alerts |-> IF a \in rows THEN NewTask(RowOf(a)) ELSE @[a]]]
  /\ acycle' = [acycle EXCEPT ![i] = "running"]
  /\ arows' = [arows EXCEPT ![i] = {}]
  /\ UNCHANGED <<dbVars, registry, guard, healthyVars, envVars, historyVars>>

ActiveJoin(i) ==
  /\ acycle[i] = "running"
  /\ \A a \in Alerts : atask[i][a].at = "none"
  /\ acycle' = [acycle EXCEPT ![i] = "idle"]
  /\ UNCHANGED <<dbVars, registry, guard, healthyVars, arows, atask, envVars, historyVars>>

\* One task's step: from `from` to the task t.
Step(i, a, from, t) ==
  /\ acycle[i] = "running"
  /\ atask[i][a].at = from
  /\ atask' = [atask EXCEPT ![i][a] = t]
  /\ UNCHANGED <<healthyVars, acycle, arows, envVars>>

T(i, a) == atask[i][a]

GoTo(i, a, step) == [T(i, a) EXCEPT !.at = step]

Notify(i, a, kind) == [T(i, a) EXCEPT !.at = "claim", !.kind = kind]

\* run_active_check resolves the AlertState before the report: an entry in the
\* registry takes precedence over the row's flag, and neither of them is Healthy.
ActiveGet(i, a) ==
  /\ \E n \in Counts(a) : Step(i, a, "get", [GoTo(i, a, "report") EXCEPT !.count = n])
  /\ UNCHANGED <<dbVars, registry, guard, historyVars>>

\* Mutant: off by one in the comparison with CONFIRMATION_THRESHOLD.
DispatchOneMore(i, a) ==
  CASE T(i, a).count > 0 /\ online[a] -> GoTo(i, a, "drop")
    [] T(i, a).count > 0 /\ ~online[a] ->
         [GoTo(i, a, IF T(i, a).count >= Threshold THEN "remove" ELSE "set")
            EXCEPT !.count = @ + 1]
    [] T(i, a).count = 0 /\ T(i, a).row.failing ->
         GoTo(i, a, IF online[a] THEN "recover" ELSE "count")
    [] OTHER -> NoTask

\* dispatch_active_result on the state resolved before the report.
Dispatch(i, a) ==
  CASE T(i, a).count > 0 /\ online[a] -> GoTo(i, a, "drop")
    [] T(i, a).count > 0 /\ ~online[a] ->
         [GoTo(i, a, IF T(i, a).count + 1 >= Threshold THEN "remove" ELSE "set")
            EXCEPT !.count = @ + 1]
    [] T(i, a).count = 0 /\ T(i, a).row.failing ->
         GoTo(i, a, IF online[a] THEN "recover" ELSE "count")
    [] OTHER -> NoTask

ActiveReport(i, a) ==
  /\ Step(i, a, "report", Dispatch(i, a))
  /\ Reported(a)
  /\ UNCHANGED <<dbVars, registry, guard, announced, mailed>>

ActiveError(i, a) ==
  /\ Step(i, a, "report", NoTask)
  /\ UNCHANGED <<dbVars, registry, guard, historyVars>>

\* Mutant: the old count is stored, not the new one.
AccumulateOldCount(i, a) ==
  /\ Step(i, a, "set", NoTask)
  /\ PutRegistry(a, T(i, a).count - 1)
  /\ UNCHANGED <<dbVars, guard, historyVars>>

\* handle_confirmation_failure below the threshold.
Accumulate(i, a) ==
  /\ Step(i, a, "set", NoTask)
  /\ PutRegistry(a, T(i, a).count)
  /\ UNCHANGED <<dbVars, guard, historyVars>>

\* handle_confirmation_failure at the threshold: first the registry ...
LeaveConfirmation(i, a) ==
  /\ Step(i, a, "remove", GoTo(i, a, "promote"))
  /\ PutRegistry(a, 0)
  /\ UNCHANGED <<dbVars, guard, historyVars>>

\* ... then promote_to_confirmed_failing writes the row; an error ends it there.
Promote(i, a) ==
  /\ \/ /\ Step(i, a, "promote", Notify(i, a, "failure"))
        /\ failing' = [failing EXCEPT ![a] = TRUE]
     \/ DbErrors /\ Step(i, a, "promote", NoTask) /\ UNCHANGED failing
  /\ UNCHANGED <<emailed, registry, guard, historyVars>>

\* Mutant: a recovery does not remove the entry.
CancelNothing(i, a) ==
  /\ Step(i, a, "drop", NoTask)
  /\ UNCHANGED <<dbVars, registry, guard, historyVars>>

\* handle_confirmation_recovery.
CancelConfirmation(i, a) ==
  /\ Step(i, a, "drop", NoTask)
  /\ PutRegistry(a, 0)
  /\ UNCHANGED <<dbVars, guard, historyVars>>

\* handle_confirmed_failure: should_send_reminder_email looks at the loaded row.
ReminderDue(i, a) == T(i, a).row.emailed # "fresh"

CountFailure(i, a) ==
  /\ \/ /\ ReminderDue(i, a) /\ Mailer
        /\ Step(i, a, "count", Notify(i, a, "reminder"))
     \/ /\ DbErrors \/ ~ReminderDue(i, a) \/ ~Mailer
        /\ Step(i, a, "count", NoTask)
  /\ UNCHANGED <<dbVars, registry, guard, historyVars>>

\* Mutant: a recovery does not reset is_currently_failing.
RecoverKeepsFlag(i, a) ==
  /\ Step(i, a, "recover", IF Mailer THEN Notify(i, a, "recovery") ELSE NoTask)
  /\ UNCHANGED <<dbVars, registry, guard, historyVars>>

\* handle_confirmed_recovery: notifies only when a mailer is configured.
Recover(i, a) ==
  /\ \/ /\ Step(i, a, "recover", IF Mailer THEN Notify(i, a, "recovery") ELSE NoTask)
        /\ failing' = [failing EXCEPT ![a] = FALSE]
     \/ DbErrors /\ Step(i, a, "recover", NoTask) /\ UNCHANGED failing
  /\ UNCHANGED <<emailed, registry, guard, historyVars>>

\* Mutant: the slot is looked up but not claimed (GET for SET NX).
ClaimNothing(i, a) ==
  /\ Step(i, a, "claim",
          IF RedisGuard /\ <<a, T(i, a).kind>> \in guard THEN NoTask ELSE GoTo(i, a, "mail"))
  /\ UNCHANGED <<dbVars, registry, guard, historyVars>>

\* email_guard.try_claim: without the claim neither email nor webhook; no Redis,
\* and a Redis that fails, let everything pass.
Claim(i, a) ==
  /\ \/ /\ RedisGuard /\ <<a, T(i, a).kind>> \in guard
        /\ Step(i, a, "claim", NoTask)
        /\ UNCHANGED guard
     \/ /\ RedisGuard /\ <<a, T(i, a).kind>> \notin guard
        /\ Step(i, a, "claim", GoTo(i, a, "mail"))
        /\ guard' = guard \cup {<<a, T(i, a).kind>>}
     \/ /\ ~RedisGuard \/ GuardErrors
        /\ Step(i, a, "claim", GoTo(i, a, "mail"))
        /\ UNCHANGED guard
  /\ UNCHANGED <<dbVars, registry, historyVars>>

Mailed(i, a, step) == [GoTo(i, a, step) EXCEPT !.late = FALSE]
Counted(i, a) ==
  IF T(i, a).late THEN mailed
  ELSE [mailed EXCEPT ![<<a, T(i, a).kind>>] = IF @ < 2 THEN @ + 1 ELSE @]

\* Mutant: no webhook when no email could be sent.
MailOrNothing(i, a) ==
  /\ \/ /\ Mailer \/ T(i, a).kind = "failure"
        /\ Step(i, a, "mail", Mailed(i, a, "stamp"))
        /\ mailed' = Counted(i, a)
     \/ Step(i, a, "mail", NoTask) /\ UNCHANGED mailed
  /\ UNCHANGED <<dbVars, registry, guard, streak, announced>>

\* The emails to the recipients: any_sent, or SMTP refused all of them (or there
\* was nobody to send to).  In a recipient's quiet hours a failure email is queued
\* for their end, with or without a mailer.
Mail(i, a) ==
  /\ \/ /\ Mailer \/ T(i, a).kind = "failure"
        /\ Step(i, a, "mail", Mailed(i, a, "stamp"))
        /\ mailed' = Counted(i, a)
     \/ Step(i, a, "mail", Mailed(i, a, "hook")) /\ UNCHANGED mailed
  /\ UNCHANGED <<dbVars, registry, guard, streak, announced>>

\* update_email_sent_at; its error is ignored.
Stamp(i, a) ==
  /\ Step(i, a, "stamp", GoTo(i, a, "hook"))
  /\ \/ emailed' = [emailed EXCEPT ![a] = "fresh"]
     \/ DbErrors /\ UNCHANGED emailed
  /\ UNCHANGED <<failing, registry, guard, historyVars>>

Event == [failure |-> "down", reminder |-> "reminder", recovery |-> "up"]

\* enqueue_for_alert; its error is ignored.
Hook(i, a) ==
  /\ Step(i, a, "hook", NoTask)
  /\ \/ announced' = [announced EXCEPT ![a] = Event[T(i, a).kind]]
     \/ DbErrors /\ UNCHANGED announced
  /\ UNCHANGED <<dbVars, registry, guard, streak, mailed>>

ActiveStep(i, a) ==
  \/ ActiveGet(i, a) \/ ActiveReport(i, a) \/ Accumulate(i, a) \/ LeaveConfirmation(i, a)
  \/ Promote(i, a) \/ CancelConfirmation(i, a) \/ CountFailure(i, a) \/ Recover(i, a)
  \/ Claim(i, a) \/ Mail(i, a) \/ Stamp(i, a) \/ Hook(i, a)

-----------------------------------------------------------------------------
\* The monitored server goes down or comes back.
Flap(a) ==
  /\ flaps > 0
  /\ flaps' = flaps - 1
  /\ online' = [online EXCEPT ![a] = ~@]
  /\ UNCHANGED <<dbVars, registry, guard, healthyVars, activeVars, crashes, buckets,
                 historyVars>>

\* A process dies with its tasks; an in-memory registry dies with it.
Crash(i) ==
  /\ crashes > 0
  /\ crashes' = crashes - 1
  /\ hcycle' = [hcycle EXCEPT ![i] = "idle"]
  /\ hrows' = [hrows EXCEPT ![i] = {}]
  /\ htask' = [htask EXCEPT ![i] = [a \in Alerts |-> "none"]]
  /\ acycle' = [acycle EXCEPT ![i] = "idle"]
  /\ arows' = [arows EXCEPT ![i] = {}]
  /\ atask' = [atask EXCEPT ![i] = [a \in Alerts |-> NoTask]]
  /\ registry' = IF SharedRegistry THEN registry ELSE [a \in Alerts |-> 0]
  /\ UNCHANGED <<dbVars, guard, online, flaps, buckets, historyVars>>

\* The next bucket of the email guard, possibly with 12 h gone since an email.
NextBucket ==
  /\ buckets > 0
  /\ buckets' = buckets - 1
  /\ guard' = {}
  /\ mailed' = [slot \in Alerts \X Kinds |-> 0]
  /\ emailed' \in {emailed, [a \in Alerts |-> IF emailed[a] = "fresh" THEN "due" ELSE emailed[a]]}
  /\ atask' = [i \in Instances |-> [a \in Alerts |->
                 IF T(i, a).at = "mail" THEN [T(i, a) EXCEPT !.late = TRUE] ELSE T(i, a)]]
  /\ UNCHANGED <<failing, registry, healthyVars, acycle, arows, online, flaps, crashes,
                 streak, announced>>

HealthyLoop(i) ==
  \/ HealthyLoad(i) \/ HealthySkip(i) \/ HealthyJoin(i)
  \/ \E a \in Alerts : HealthyReport(i, a) \/ HealthySet(i, a)

ActiveLoop(i) ==
  \/ ActiveLoad(i) \/ ActiveIds(i) \/ ActiveExtras(i) \/ ActiveJoin(i)
  \/ \E a \in Alerts : ActiveStep(i, a)

Next ==
  \/ \E i \in Instances : HealthyLoop(i) \/ ActiveLoop(i) \/ Crash(i)
  \/ \E i \in Instances, a \in Alerts : HealthyError(i, a) \/ ActiveError(i, a)
  \/ \E a \in Alerts : Flap(a)
  \/ NextBucket

Spec == Init /\ [][Next]_vars

\* Intervals keep firing and awaited calls return; a report that is an error again
\* and again is excluded by the strong fairness of the reports.
FairSpec ==
  /\ Spec
  /\ \A i \in Instances : WF_vars(HealthyLoop(i)) /\ WF_vars(ActiveLoop(i))
  /\ \A i \in Instances, a \in Alerts :
       SF_vars(HealthyReport(i, a)) /\ SF_vars(ActiveReport(i, a))

-----------------------------------------------------------------------------
\* The state drawn in the module comment, from the registry and the row.
StateOf(a) ==
  IF registry[a] > 0 THEN "InConfirmation"
  ELSE IF failing[a] THEN "ConfirmedFailing" ELSE "Healthy"

\* Without Redis: whatever the loops do to each other's registry entries, an alert is
\* confirmed only by the last of at least CONFIRMATION_THRESHOLD - 1 failed reports in
\* a row, counting the reports of both loops.  (The entry of a healthy check that
\* overlapped a success can stand for the missing one: see ConfirmedOnlyRecovers.)
ConfirmedAfterStreak ==
  [][\A i \in Instances, a \in Alerts :
       atask[i][a].at = "report" /\ atask'[i][a].at = "remove"
         => streak'[a] >= Threshold - 1]_vars

\* While the Redis guard answers each email is sent at most once with the claims of a
\* bucket, even if the registry and the loop locks fail and several instances work on
\* the alert (email_guard.rs:3-6); one that was claimed before the bucket ended may
\* still be under way when the next one is sent.
OneMailPerBucket == \A slot \in Alerts \X Kinds : mailed[slot] <= 1

\* Nobody works on an alert's notifications or state.
Quiet(a) == \A i \in Instances : atask[i][a].at = "none"

\* With a mailer and the no-op guard, until the first crash: subscribers of an alert's
\* webhooks are never left believing the wrong thing - the last event says "up"
\* or nothing was said exactly when the row says that the server does not fail.
AnnouncementsMatchRow ==
  crashes = MaxCrashes =>
    \A a \in Alerts : Quiet(a) => (failing[a] <=> announced[a] \in {"down", "reminder"})

\* A server that stays down is confirmed failing in the end and stays so, and one
\* that stays up is cleared in the end: no interleaving of the two loops, crash or
\* lost registry entry makes the monitor forget an alert.
DownIsConfirmed == \A a \in Alerts : <>[](~online[a]) => <>[](failing[a])

UpIsCleared == \A a \in Alerts : <>[](online[a]) => <>[](StateOf(a) = "Healthy")

\* The arrows of the module comment (checks.rs:11-19); a confirmed failing alert
\* only ever becomes Healthy.
ConfirmedOnlyRecovers ==
  [][\A a \in Alerts : StateOf(a) = "ConfirmedFailing"
       => StateOf(a)' \in {"ConfirmedFailing", "Healthy"}]_vars
=============================================================================
