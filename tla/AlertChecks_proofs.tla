------------------------- MODULE AlertChecks_proofs -------------------------
(***************************************************************************)
(* Proofs about the alert state machine of module AlertChecks.             *)
(***************************************************************************)
EXTENDS AlertChecks, TLAPS

-----------------------------------------------------------------------------
(* Tasks *)

LEMMA TaskFields ==
  ASSUME NEW t \in Task
  PROVE /\ t.at \in Steps /\ t.row \in Rows /\ t.count \in 0 .. Threshold /\ t.kind \in Kinds
        /\ t.late \in BOOLEAN /\ t.row.failing \in BOOLEAN /\ t.row.emailed \in Ages
  BY DEF Task, Rows

LEMMA TaskUpdates ==
  ASSUME NEW t \in Task
  PROVE /\ \A s \in Steps : [t EXCEPT !.at = s] \in Task
        /\ \A s \in Steps, n \in 0 .. Threshold : [t EXCEPT !.at = s, !.count = n] \in Task
        /\ \A s \in Steps, k \in Kinds : [t EXCEPT !.at = s, !.kind = k] \in Task
        /\ \A s \in Steps, b \in BOOLEAN : [t EXCEPT !.at = s, !.late = b] \in Task
        /\ \A b \in BOOLEAN : [t EXCEPT !.late = b] \in Task
  BY DEF Task

LEMMA NewTasks ==
  /\ NoTask \in Task /\ NoTask.at = "none" /\ ~NoTask.late
  /\ \A row \in Rows : /\ NewTask(row) \in Task /\ NewTask(row).at = "get"
                       /\ NewTask(row).row = row /\ ~NewTask(row).late
<1>1. 0 \in 0 .. Threshold
  BY AlertAssumption
<1>2. NoTask \in Task
  BY <1>1 DEF NoTask, Task, Steps, Rows, Ages, Kinds
<1>3. NoTask.at = "none" /\ ~NoTask.late
  BY DEF NoTask
<1>4. ASSUME NEW row \in Rows
      PROVE /\ NewTask(row) \in Task /\ NewTask(row).at = "get" /\ NewTask(row).row = row
            /\ ~NewTask(row).late
  BY <1>2, <1>3 DEF NewTask, Task, Steps
<1> QED BY <1>2, <1>3, <1>4

LEMMA LoadedRows ==
  ASSUME TypeOK, NEW a \in Alerts
  PROVE RowOf(a) \in Rows /\ RowOf(a).failing = failing[a]
  BY DEF TypeOK, RowOf, Rows

\* The task of alert a in instance i moves from step `from`, and nothing else of a loop.
Moved(i, a, from) ==
  /\ atask' \in [Instances -> [Alerts -> Task]]
  /\ T(i, a).at = from /\ acycle[i] = "running" /\ acycle' = acycle
  /\ \A j \in Instances, b \in Alerts : j # i \/ b # a => atask'[j][b] = atask[j][b]
  /\ UNCHANGED <<healthyVars, arows, envVars>>

LEMMA StepMoves ==
  ASSUME TypeOK, NEW i \in Instances, NEW a \in Alerts, NEW from, NEW t \in Task, Step(i, a, from, t)
  PROVE Moved(i, a, from) /\ atask'[i][a] = t
  BY DEF TypeOK, Step, Moved, T

\* ... keeping the row it loaded and the notification it is about.
Goes(i, a, from, to) ==
  /\ Moved(i, a, from)
  /\ atask'[i][a].at = to
  /\ atask'[i][a].row = T(i, a).row /\ atask'[i][a].kind = T(i, a).kind
  /\ atask'[i][a].late = T(i, a).late

Finishes(i, a, from) == Moved(i, a, from) /\ atask'[i][a] = NoTask

Notifies(i, a, from, kind) ==
  /\ Moved(i, a, from)
  /\ atask'[i][a].at = "claim" /\ atask'[i][a].kind = kind
  /\ atask'[i][a].late = T(i, a).late

LEMMA StepGoes ==
  ASSUME TypeOK, NEW i \in Instances, NEW a \in Alerts, NEW from, NEW to \in Steps,
         Step(i, a, from, GoTo(i, a, to))
  PROVE Goes(i, a, from, to) /\ atask'[i][a].count = T(i, a).count
<1>1. T(i, a) \in Task
  BY DEF TypeOK, T
<1>2. GoTo(i, a, to) \in Task
  BY <1>1, TaskUpdates DEF GoTo
<1>3. Moved(i, a, from) /\ atask'[i][a] = [T(i, a) EXCEPT !.at = to]
  BY <1>2, StepMoves DEF GoTo
<1> QED BY <1>1, <1>3 DEF Goes, Task

LEMMA StepCounts ==
  ASSUME TypeOK, NEW i \in Instances, NEW a \in Alerts, NEW from, NEW to \in Steps,
         NEW n \in 0 .. Threshold, Step(i, a, from, [GoTo(i, a, to) EXCEPT !.count = n])
  PROVE Goes(i, a, from, to) /\ atask'[i][a].count = n
<1>1. T(i, a) \in Task
  BY DEF TypeOK, T
<1>2. [GoTo(i, a, to) EXCEPT !.count = n] \in Task
  BY <1>1, TaskUpdates DEF GoTo, Task
<1>3. Moved(i, a, from) /\ atask'[i][a] = [[T(i, a) EXCEPT !.at = to] EXCEPT !.count = n]
  BY <1>2, StepMoves DEF GoTo
<1> QED BY <1>1, <1>3 DEF Goes, Task

LEMMA StepNotifies ==
  ASSUME TypeOK, NEW i \in Instances, NEW a \in Alerts, NEW from, NEW kind \in Kinds,
         Step(i, a, from, Notify(i, a, kind))
  PROVE Notifies(i, a, from, kind)
<1>1. T(i, a) \in Task
  BY DEF TypeOK, T
<1>2. Notify(i, a, kind) \in Task
  BY <1>1, TaskUpdates DEF Notify, Steps
<1>3. Moved(i, a, from) /\ atask'[i][a] = [T(i, a) EXCEPT !.at = "claim", !.kind = kind]
  BY <1>2, StepMoves DEF Notify
<1> QED BY <1>1, <1>3 DEF Notifies, Task

LEMMA StepFinishes ==
  ASSUME TypeOK, NEW i \in Instances, NEW a \in Alerts, NEW from, Step(i, a, from, NoTask)
  PROVE Finishes(i, a, from)
  BY NewTasks, StepMoves DEF Finishes

-----------------------------------------------------------------------------
(* The types and the counts *)

\* A count below the threshold is reported on and stored.
CountsBelow ==
  \A i \in Instances, a \in Alerts : T(i, a).at \in {"report", "set"} => T(i, a).count < Threshold

TypeInv == TypeOK /\ CountsBelow

LEMMA GetMoves ==
  ASSUME TypeOK, NEW i \in Instances, NEW a \in Alerts, ActiveGet(i, a)
  PROVE \E n \in Counts(a) : /\ n \in 0 .. Threshold - 1
                             /\ Goes(i, a, "get", "report") /\ atask'[i][a].count = n
<1>1. PICK n \in Counts(a) : Step(i, a, "get", [GoTo(i, a, "report") EXCEPT !.count = n])
  BY DEF ActiveGet
<1>2. n \in 0 .. Threshold - 1 /\ n \in 0 .. Threshold
  BY AlertAssumption DEF Counts, TypeOK
<1> QED BY <1>1, <1>2, StepCounts DEF Steps

LEMMA ReportMoves ==
  ASSUME TypeInv, NEW i \in Instances, NEW a \in Alerts, ActiveReport(i, a)
  PROVE \/ T(i, a).count > 0 /\ online[a] /\ Goes(i, a, "report", "drop")
        \/ /\ T(i, a).count > 0 /\ ~online[a] /\ atask'[i][a].count = T(i, a).count + 1
           /\ \/ T(i, a).count + 1 >= Threshold /\ Goes(i, a, "report", "remove")
              \/ T(i, a).count + 1 < Threshold /\ Goes(i, a, "report", "set")
        \/ T(i, a).count = 0 /\ T(i, a).row.failing /\ Goes(i, a, "report", "recover")
        \/ T(i, a).count = 0 /\ T(i, a).row.failing /\ Goes(i, a, "report", "count")
        \/ T(i, a).count = 0 /\ Finishes(i, a, "report")
<1>1. TypeOK /\ T(i, a) \in Task /\ T(i, a).at = "report" /\ T(i, a).count \in Nat /\ T(i, a).count < Threshold
  BY AlertAssumption DEF TypeInv, TypeOK, CountsBelow, T, Task, ActiveReport, Step
<1>2. Step(i, a, "report", Dispatch(i, a))
  BY DEF ActiveReport
<1>3. CASE T(i, a).count > 0 /\ online[a]
  BY <1>1, <1>2, <1>3, StepGoes DEF Dispatch, Steps
<1>4. CASE T(i, a).count > 0 /\ ~online[a]
  <2>1. PICK n \in 0 .. Threshold : n = T(i, a).count + 1
    BY <1>1, AlertAssumption
  <2>2. Threshold \in Nat
    BY AlertAssumption
  <2>3. CASE n >= Threshold
    <3>1. Dispatch(i, a) = [GoTo(i, a, "remove") EXCEPT !.count = n]
      BY <1>1, <1>4, <2>1, <2>3 DEF Dispatch, GoTo, Task
    <3> QED BY <1>1, <1>2, <1>4, <2>1, <2>3, <3>1, StepCounts DEF Steps
  <2>4. CASE n < Threshold
    <3>0. ~(T(i, a).count + 1 >= Threshold)
      BY <2>1, <2>2, <2>4
    <3>1. Dispatch(i, a) = [GoTo(i, a, "set") EXCEPT !.count = n]
      BY <1>1, <1>4, <2>1, <3>0 DEF Dispatch, GoTo, Task
    <3> QED BY <1>1, <1>2, <1>4, <2>1, <2>4, <3>1, StepCounts DEF Steps
  <2> QED BY <2>1, <2>2, <2>3, <2>4
<1>5. CASE T(i, a).count = 0 /\ T(i, a).row.failing
  <2>1. Dispatch(i, a) = GoTo(i, a, IF online[a] THEN "recover" ELSE "count")
    BY <1>5 DEF Dispatch
  <2> QED BY <1>1, <1>2, <1>5, <2>1, StepGoes DEF Steps
<1>6. CASE T(i, a).count = 0 /\ ~T(i, a).row.failing
  <2>1. Dispatch(i, a) = NoTask
    BY <1>6 DEF Dispatch
  <2> QED BY <1>1, <1>2, <1>6, <2>1, StepFinishes
<1> QED BY <1>1, <1>3, <1>4, <1>5, <1>6

LEMMA MailMoves ==
  ASSUME TypeOK, NEW i \in Instances, NEW a \in Alerts, Mail(i, a)
  PROVE /\ Moved(i, a, "mail")
        /\ atask'[i][a].at \in {"stamp", "hook"} /\ ~atask'[i][a].late
        /\ atask'[i][a].row = T(i, a).row /\ atask'[i][a].kind = T(i, a).kind
        /\ mailed' = mailed \/ mailed' = Counted(i, a)
<1>1. T(i, a) \in Task
  BY DEF TypeOK, T
<1>2. ASSUME NEW s \in {"stamp", "hook"}, Step(i, a, "mail", Mailed(i, a, s))
      PROVE /\ Moved(i, a, "mail") /\ atask'[i][a].at = s /\ ~atask'[i][a].late
            /\ atask'[i][a].row = T(i, a).row /\ atask'[i][a].kind = T(i, a).kind
  <2>0. GoTo(i, a, s) \in Task
    BY <1>1, TaskUpdates DEF GoTo, Steps
  <2>1. Mailed(i, a, s) \in Task
    BY <2>0, TaskUpdates DEF Mailed
  <2>2. Moved(i, a, "mail") /\ atask'[i][a] = [[T(i, a) EXCEPT !.at = s] EXCEPT !.late = FALSE]
    BY <1>2, <2>1, StepMoves DEF Mailed, GoTo
  <2> QED BY <1>1, <2>2 DEF Task
<1>3. \/ Step(i, a, "mail", Mailed(i, a, "stamp")) /\ mailed' = Counted(i, a)
      \/ Step(i, a, "mail", Mailed(i, a, "hook")) /\ mailed' = mailed
  BY DEF Mail
<1> QED BY <1>2, <1>3

\* What a task's step may be; the counts stay below the threshold.
LEMMA TaskStep ==
  ASSUME TypeInv, NEW i \in Instances, NEW a \in Alerts, ActiveStep(i, a) \/ ActiveError(i, a)
  PROVE /\ \E from \in Steps : Moved(i, a, from)
        /\ atask'[i][a].at \in {"report", "set"} => atask'[i][a].count < Threshold
<1>1. TypeOK /\ T(i, a) \in Task /\ Threshold \in Nat
  BY AlertAssumption DEF TypeInv, TypeOK, T
<1>2. CASE ActiveGet(i, a)
  BY <1>1, <1>2, GetMoves DEF Goes, Steps
<1>3. CASE ActiveReport(i, a)
  BY <1>1, <1>3, ReportMoves, NewTasks DEF Goes, Finishes, Steps
<1>4. CASE Accumulate(i, a) \/ CancelConfirmation(i, a) \/ ActiveError(i, a) \/ Hook(i, a)
  BY <1>1, <1>4, StepFinishes, NewTasks DEF Accumulate, CancelConfirmation, ActiveError, Hook, Finishes, Steps
<1>5. CASE LeaveConfirmation(i, a)
  BY <1>1, <1>5, StepGoes DEF LeaveConfirmation, Goes, Steps
<1>6. CASE Promote(i, a)
  BY <1>1, <1>6, StepNotifies, StepFinishes, NewTasks DEF Promote, Finishes, Notifies, Kinds, Steps
<1>7. CASE CountFailure(i, a)
  BY <1>1, <1>7, StepNotifies, StepFinishes, NewTasks DEF CountFailure, Finishes, Notifies, Kinds, Steps
<1>8. CASE Recover(i, a)
  BY <1>1, <1>8, StepNotifies, StepFinishes, NewTasks DEF Recover, Finishes, Notifies, Kinds, Steps
<1>9. CASE Claim(i, a)
  BY <1>1, <1>9, StepGoes, StepFinishes, NewTasks DEF Claim, Goes, Finishes, Steps
<1>10. CASE Mail(i, a)
  BY <1>1, <1>10, MailMoves DEF Steps
<1>11. CASE Stamp(i, a)
  BY <1>1, <1>11, StepGoes DEF Stamp, Goes, Steps
<1> QED BY <1>2, <1>3, <1>4, <1>5, <1>6, <1>7, <1>8, <1>9, <1>10, <1>11 DEF ActiveStep

LEMMA PutTypes ==
  ASSUME TypeOK, NEW a \in Alerts, NEW n \in 0 .. Threshold - 1, PutRegistry(a, n)
  PROVE registry' \in [Alerts -> 0 .. Threshold - 1]
  BY DEF TypeOK, PutRegistry

LEMMA ReportTypes ==
  ASSUME TypeOK, NEW a \in Alerts, Reported(a)
  PROVE streak' \in [Alerts -> 0 .. Threshold]
<1>1. Threshold \in Nat /\ streak[a] \in 0 .. Threshold
  BY AlertAssumption DEF TypeOK
<1>2. (IF online[a] THEN 0 ELSE IF streak[a] < Threshold THEN streak[a] + 1 ELSE streak[a]) \in 0 .. Threshold
  BY <1>1
<1> QED BY <1>2 DEF TypeOK, Reported

LEMMA MailTypes ==
  ASSUME TypeOK, NEW i \in Instances, NEW a \in Alerts
  PROVE Counted(i, a) \in [Alerts \X Kinds -> 0 .. 2]
<1>1. <<a, T(i, a).kind>> \in Alerts \X Kinds
  BY DEF TypeOK, T, Task
<1>2. \A n \in 0 .. 2 : (IF n < 2 THEN n + 1 ELSE n) \in 0 .. 2
  OBVIOUS
<1> QED BY <1>1, <1>2 DEF TypeOK, Counted

\* The part of TypeOK that the tasks of the active loop change.
TaskTypes ==
  /\ failing \in [Alerts -> BOOLEAN] /\ emailed \in [Alerts -> Ages]
  /\ registry \in [Alerts -> 0 .. Threshold - 1] /\ guard \subseteq Alerts \X Kinds
  /\ streak \in [Alerts -> 0 .. Threshold]
  /\ announced \in [Alerts -> {"none", "down", "reminder", "up"}]
  /\ mailed \in [Alerts \X Kinds -> 0 .. 2]

LEMMA TaskStepTypes ==
  ASSUME TypeInv, NEW i \in Instances, NEW a \in Alerts, ActiveStep(i, a) \/ ActiveError(i, a)
  PROVE TaskTypes'
<1>1. TypeOK /\ TaskTypes /\ T(i, a) \in Task /\ Threshold \in Nat /\ Threshold >= 2
  BY AlertAssumption DEF TypeInv, TypeOK, TaskTypes, T
<1>2. CASE ActiveGet(i, a) \/ ActiveError(i, a)
  BY <1>1, <1>2 DEF ActiveGet, ActiveError, TaskTypes, dbVars, historyVars
<1>3. CASE ActiveReport(i, a)
  BY <1>1, <1>3, ReportTypes DEF ActiveReport, TaskTypes, dbVars
<1>4. CASE Accumulate(i, a)
  <2>1. T(i, a).count \in 0 .. Threshold - 1
    BY <1>1, <1>4 DEF TypeInv, CountsBelow, Accumulate, Step, T, Task
  <2> QED BY <1>1, <1>4, <2>1, PutTypes DEF Accumulate, TaskTypes, dbVars, historyVars
<1>5. CASE LeaveConfirmation(i, a) \/ CancelConfirmation(i, a)
  <2>1. 0 \in 0 .. Threshold - 1
    BY <1>1
  <2> QED BY <1>1, <1>5, <2>1, PutTypes DEF LeaveConfirmation, CancelConfirmation, TaskTypes, dbVars, historyVars
<1>6. CASE Promote(i, a) \/ Recover(i, a)
  BY <1>1, <1>6 DEF Promote, Recover, TaskTypes, historyVars
<1>7. CASE CountFailure(i, a)
  BY <1>1, <1>7 DEF CountFailure, TaskTypes, dbVars, historyVars
<1>8. CASE Claim(i, a)
  <2>1. guard' \subseteq guard \cup {<<a, T(i, a).kind>>}
    BY <1>8 DEF Claim
  <2>2. T(i, a).kind \in Kinds
    BY <1>1, TaskFields
  <2> QED BY <1>1, <1>8, <2>1, <2>2 DEF Claim, TaskTypes, dbVars, historyVars
<1>9. CASE Mail(i, a)
  BY <1>1, <1>9, MailMoves, MailTypes DEF Mail, TaskTypes, dbVars
<1>10. CASE Stamp(i, a)
  BY <1>1, <1>10 DEF Stamp, TaskTypes, historyVars, Ages
<1>11. CASE Hook(i, a)
  <2>1. Event[T(i, a).kind] \in {"none", "down", "reminder", "up"}
    BY <1>1, TaskFields DEF Event, Kinds
  <2> QED BY <1>1, <1>11, <2>1 DEF Hook, TaskTypes, dbVars
<1> QED BY <1>2, <1>3, <1>4, <1>5, <1>6, <1>7, <1>8, <1>9, <1>10, <1>11 DEF ActiveStep

LEMMA TaskStepKeepsTypes ==
  ASSUME TypeInv, NEW i \in Instances, NEW a \in Alerts, ActiveStep(i, a) \/ ActiveError(i, a)
  PROVE TypeInv'
<1>1. PICK from \in Steps : Moved(i, a, from)
  BY TaskStep
<1>2. TaskTypes'
  BY TaskStepTypes
<1>3. TypeOK'
  BY <1>1, <1>2 DEF TypeInv, TypeOK, TaskTypes, Moved, healthyVars, envVars
<1>4. CountsBelow'
  <2>1. ASSUME NEW j \in Instances, NEW b \in Alerts, atask'[j][b].at \in {"report", "set"}
        PROVE atask'[j][b].count < Threshold
    <3>1. CASE j = i /\ b = a
      BY <2>1, <3>1, TaskStep
    <3>2. CASE j # i \/ b # a
      BY <1>1, <2>1, <3>2 DEF Moved, TypeInv, CountsBelow, T
    <3> QED BY <3>1, <3>2
  <2> QED BY <2>1 DEF CountsBelow, T
<1> QED BY <1>3, <1>4 DEF TypeInv

\* Every task after the step was there before it, has just been loaded or is gone.
TasksLoad ==
  /\ atask' \in [Instances -> [Alerts -> Task]]
  /\ \A i \in Instances, a \in Alerts :
       \/ atask'[i][a] = T(i, a) \/ atask'[i][a] = NoTask
       \/ atask'[i][a] = NewTask(RowOf(a))

LEMMA LoadsKeepCounts ==
  ASSUME TypeInv, TasksLoad
  PROVE CountsBelow'
<1>1. ASSUME NEW i \in Instances, NEW a \in Alerts
      PROVE atask'[i][a].at \in {"report", "set"} => atask'[i][a].count < Threshold
  <2>1. RowOf(a) \in Rows
    BY LoadedRows DEF TypeInv
  <2> QED BY <2>1, NewTasks DEF TypeInv, CountsBelow, TasksLoad
<1> QED BY <1>1 DEF CountsBelow, T

LEMMA ActiveLoadLoads ==
  ASSUME TypeOK, NEW i \in Instances, ActiveLoad(i)
  PROVE TasksLoad /\ \A j \in Instances \ {i} : atask'[j] = atask[j]
<1>1. PICK rows \in Loaded({a \in Alerts : failing[a]}) :
        atask' = [atask EXCEPT ![i] = [a \in Alerts |-> IF a \in rows THEN NewTask(RowOf(a)) ELSE NoTask]]
  BY DEF ActiveLoad
<1>2. \A a \in Alerts : NewTask(RowOf(a)) \in Task
  BY LoadedRows, NewTasks
<1> QED BY <1>1, <1>2, NewTasks DEF TypeOK, TasksLoad, T

LEMMA ActiveExtrasLoads ==
  ASSUME TypeOK, NEW i \in Instances, ActiveExtras(i)
  PROVE /\ TasksLoad /\ \A j \in Instances \ {i} : atask'[j] = atask[j]
        /\ \A a \in Alerts : atask'[i][a] = T(i, a) \/ (a \in arows[i] /\ atask'[i][a] = NewTask(RowOf(a)))
<1>1. PICK rows \in Loaded(arows[i]) :
        atask' = [atask EXCEPT ![i] = [a \in Alerts |-> IF a \in rows THEN NewTask(RowOf(a)) ELSE atask[i][a]]]
  BY DEF ActiveExtras
<1>2. \A a \in Alerts : NewTask(RowOf(a)) \in Task
  BY LoadedRows, NewTasks
<1>3. rows \subseteq arows[i]
  BY DEF Loaded
<1> QED BY <1>1, <1>2, <1>3 DEF TypeOK, TasksLoad, T

LEMMA CrashLoads ==
  ASSUME TypeOK, NEW i \in Instances, Crash(i)
  PROVE /\ TasksLoad /\ \A j \in Instances \ {i} : atask'[j] = atask[j]
        /\ \A a \in Alerts : atask'[i][a] = NoTask
  BY NewTasks DEF TypeOK, TasksLoad, T, Crash

LEMMA LateTasks ==
  ASSUME TypeOK, NextBucket
  PROVE /\ atask' \in [Instances -> [Alerts -> Task]]
        /\ \A i \in Instances, a \in Alerts :
             /\ atask'[i][a].at = T(i, a).at /\ atask'[i][a].row = T(i, a).row
             /\ atask'[i][a].count = T(i, a).count /\ atask'[i][a].kind = T(i, a).kind
             /\ T(i, a).at = "mail" => atask'[i][a].late
             /\ T(i, a).at # "mail" => atask'[i][a] = T(i, a)
<1>1. \A i \in Instances, a \in Alerts : T(i, a) \in Task
  BY DEF TypeOK, T
<1>2. \A i \in Instances, a \in Alerts : [T(i, a) EXCEPT !.late = TRUE] \in Task
  BY <1>1, TaskUpdates
<1>3. ASSUME NEW i \in Instances, NEW a \in Alerts
      PROVE /\ atask'[i][a].at = T(i, a).at /\ atask'[i][a].row = T(i, a).row
            /\ atask'[i][a].count = T(i, a).count /\ atask'[i][a].kind = T(i, a).kind
            /\ T(i, a).at = "mail" => atask'[i][a].late
            /\ T(i, a).at # "mail" => atask'[i][a] = T(i, a)
  <2>1. atask'[i][a] = IF T(i, a).at = "mail" THEN [T(i, a) EXCEPT !.late = TRUE] ELSE T(i, a)
    BY DEF NextBucket
  <2>2. T(i, a) \in Task
    BY <1>1
  <2> QED BY <2>1, <2>2 DEF Task
<1>4. atask' \in [Instances -> [Alerts -> Task]]
  BY <1>1, <1>2 DEF NextBucket
<1> QED BY <1>3, <1>4

LEMMA TypeStep ==
  ASSUME TypeInv, [Next]_vars
  PROVE TypeInv'
<1>1. TypeOK /\ CountsBelow /\ Threshold \in Nat /\ Threshold >= 2
  BY AlertAssumption DEF TypeInv
<1>2. CASE UNCHANGED vars
  BY <1>1, <1>2 DEF vars, TypeInv, TypeOK, CountsBelow, T, dbVars, healthyVars, activeVars, envVars, historyVars
<1>3. ASSUME NEW i \in Instances, HealthyLoop(i) \/ \E a \in Alerts : HealthyError(i, a)
      PROVE TypeInv'
  <2>1. atask' = atask /\ CountsBelow'
    BY <1>1, <1>3 DEF HealthyLoop, HealthyLoad, HealthySkip, HealthyReport, HealthyError, HealthySet,
       HealthyJoin, activeVars, CountsBelow, T
  <2>2. CASE HealthyLoad(i)
    <3>1. \E rows \in SUBSET Alerts : hrows' = [hrows EXCEPT ![i] = rows]
      BY <2>2 DEF HealthyLoad, Loaded
    <3> QED BY <1>1, <2>1, <2>2, <3>1 DEF HealthyLoad, TypeInv, TypeOK, dbVars, activeVars, envVars, historyVars
  <2>3. CASE HealthySkip(i)
    <3>1. htask' \in [Instances -> [Alerts -> {"none", "report", "set"}]]
      BY <1>1, <2>3 DEF HealthySkip, TypeOK
    <3> QED BY <1>1, <2>1, <2>3, <3>1 DEF HealthySkip, TypeInv, TypeOK, dbVars, activeVars, envVars, historyVars
  <2>4. ASSUME NEW a \in Alerts, HealthyReport(i, a)
        PROVE TypeInv'
    <3>1. htask' \in [Instances -> [Alerts -> {"none", "report", "set"}]]
      BY <1>1, <2>4 DEF HealthyReport, HealthyStep, TypeOK
    <3>2. streak' \in [Alerts -> 0 .. Threshold]
      BY <1>1, <2>4, ReportTypes DEF HealthyReport
    <3> QED BY <1>1, <2>1, <2>4, <3>1, <3>2 DEF HealthyReport, TypeInv, TypeOK, dbVars, activeVars, envVars
  <2>5. ASSUME NEW a \in Alerts, HealthyError(i, a)
        PROVE TypeInv'
    <3>1. htask' \in [Instances -> [Alerts -> {"none", "report", "set"}]]
      BY <1>1, <2>5 DEF HealthyError, HealthyStep, TypeOK
    <3> QED BY <1>1, <2>1, <2>5, <3>1 DEF HealthyError, TypeInv, TypeOK, dbVars, activeVars, envVars, historyVars
  <2>6. ASSUME NEW a \in Alerts, HealthySet(i, a)
        PROVE TypeInv'
    <3>1. htask' \in [Instances -> [Alerts -> {"none", "report", "set"}]]
      BY <1>1, <2>6 DEF HealthySet, HealthyStep, TypeOK
    <3>2. 1 \in 0 .. Threshold - 1
      BY <1>1
    <3>3. registry' \in [Alerts -> 0 .. Threshold - 1]
      BY <1>1, <2>6, <3>2, PutTypes DEF HealthySet
    <3> QED BY <1>1, <2>1, <2>6, <3>1, <3>3 DEF HealthySet, TypeInv, TypeOK, dbVars, activeVars, envVars, historyVars
  <2>7. CASE HealthyJoin(i)
    BY <1>1, <2>1, <2>7 DEF HealthyJoin, TypeInv, TypeOK, dbVars, activeVars, envVars, historyVars
  <2> QED BY <1>3, <2>2, <2>3, <2>4, <2>5, <2>6, <2>7 DEF HealthyLoop
<1>4. ASSUME NEW i \in Instances, ActiveLoop(i) \/ \E a \in Alerts : ActiveError(i, a)
      PROVE TypeInv'
  <2>1. CASE ActiveLoad(i)
    <3>1. TasksLoad /\ CountsBelow'
      BY <1>1, <2>1, ActiveLoadLoads, LoadsKeepCounts
    <3> QED BY <1>1, <2>1, <3>1 DEF ActiveLoad, TasksLoad, TypeInv, TypeOK, dbVars, healthyVars, envVars, historyVars
  <2>2. CASE ActiveIds(i)
    <3>1. \E rows \in SUBSET Alerts : arows' = [arows EXCEPT ![i] = rows]
      BY <2>2 DEF ActiveIds, AllIds, InRegistry
    <3> QED BY <1>1, <2>2, <3>1 DEF ActiveIds, CountsBelow, T, TypeInv, TypeOK, dbVars, healthyVars, envVars, historyVars
  <2>3. CASE ActiveExtras(i)
    <3>1. TasksLoad /\ CountsBelow'
      BY <1>1, <2>3, ActiveExtrasLoads, LoadsKeepCounts
    <3> QED BY <1>1, <2>3, <3>1 DEF ActiveExtras, TasksLoad, TypeInv, TypeOK, dbVars, healthyVars, envVars, historyVars
  <2>4. CASE ActiveJoin(i)
    BY <1>1, <2>4 DEF ActiveJoin, CountsBelow, T, TypeInv, TypeOK, dbVars, healthyVars, envVars, historyVars
  <2> QED BY <1>4, <2>1, <2>2, <2>3, <2>4, TaskStepKeepsTypes DEF ActiveLoop
<1>5. ASSUME NEW i \in Instances, Crash(i)
      PROVE TypeInv'
  <2>1. TasksLoad /\ CountsBelow'
    BY <1>1, <1>5, CrashLoads, LoadsKeepCounts
  <2>2. htask' \in [Instances -> [Alerts -> {"none", "report", "set"}]]
    BY <1>1, <1>5 DEF Crash, TypeOK
  <2>3. registry' \in [Alerts -> 0 .. Threshold - 1] /\ crashes' \in 0 .. MaxCrashes
    BY <1>1, <1>5, AlertAssumption DEF Crash, TypeOK
  <2> QED BY <1>1, <1>5, <2>1, <2>2, <2>3 DEF Crash, TasksLoad, TypeInv, TypeOK, dbVars, historyVars
<1>6. ASSUME NEW a \in Alerts, Flap(a)
      PROVE TypeInv'
  <2>1. flaps' \in 0 .. MaxFlaps
    BY <1>1, <1>6, AlertAssumption DEF Flap, TypeOK
  <2> QED BY <1>1, <1>6, <2>1 DEF Flap, CountsBelow, T, TypeInv, TypeOK, dbVars, healthyVars, activeVars, historyVars
<1>7. CASE NextBucket
  <2>1. buckets' \in 0 .. MaxBuckets
    BY <1>1, <1>7, AlertAssumption DEF NextBucket, TypeOK
  <2>2. emailed' \in [Alerts -> Ages] /\ mailed' \in [Alerts \X Kinds -> 0 .. 2]
    BY <1>1, <1>7 DEF NextBucket, TypeOK, Ages
  <2>3. CountsBelow'
    BY <1>1, <1>7, LateTasks DEF CountsBelow, T
  <2> QED BY <1>1, <1>7, <2>1, <2>2, <2>3, LateTasks DEF NextBucket, TypeInv, TypeOK, healthyVars
<1> QED BY <1>2, <1>3, <1>4, <1>5, <1>6, <1>7 DEF Next

LEMMA TypeInit ==
  ASSUME Init
  PROVE TypeInv
<1>1. Threshold \in Nat /\ Threshold >= 2 /\ MaxFlaps \in Nat /\ MaxCrashes \in Nat /\ MaxBuckets \in Nat
  BY AlertAssumption
<1>2. TypeOK
  BY <1>1, NewTasks DEF Init, TypeOK, Ages
<1>3. CountsBelow
  BY NewTasks DEF Init, CountsBelow, T
<1> QED BY <1>2, <1>3 DEF TypeInv

\* Every variable stays in its range: whatever the two loops do to an entry between reading
\* and writing it, no count in the registry reaches CONFIRMATION_THRESHOLD.
THEOREM TypeCorrect == Spec => []TypeOK
<1>1. Init => TypeInv
  BY TypeInit
<1>2. TypeInv /\ [Next]_vars => TypeInv'
  BY TypeStep
<1>3. TypeInv => TypeOK
  BY DEF TypeInv
<1> QED BY <1>1, <1>2, <1>3, PTL DEF Spec

-----------------------------------------------------------------------------
(* One email per bucket *)

\* The task of alert a in instance i is about to send with a claim of this bucket.
Mailing(i, a, k) == T(i, a).at = "mail" /\ T(i, a).kind = k /\ ~T(i, a).late

OnlyMailsAreLate == \A i \in Instances, a \in Alerts : T(i, a).late => T(i, a).at = "mail"

\* Of the tasks that are about to send an email one has the claim, and none has sent it.
ClaimIsOwn ==
  \A a \in Alerts, k \in Kinds :
    /\ \A i \in Instances : Mailing(i, a, k) => <<a, k>> \in guard /\ mailed[<<a, k>>] = 0
    /\ \A i, j \in Instances : Mailing(i, a, k) /\ Mailing(j, a, k) => i = j

MailedWasClaimed ==
  \A slot \in Alerts \X Kinds : mailed[slot] <= 1 /\ (mailed[slot] # 0 => slot \in guard)

MailInv == TypeInv /\ OnlyMailsAreLate /\ ClaimIsOwn /\ MailedWasClaimed

MailPart == OnlyMailsAreLate /\ ClaimIsOwn /\ MailedWasClaimed

LEMMA MailKept ==
  ASSUME MailInv, guard' = guard, mailed' = mailed,
         \A i \in Instances, a \in Alerts :
           \/ atask'[i][a] = T(i, a)
           \/ atask'[i][a].at # "mail" /\ ~atask'[i][a].late
  PROVE MailPart'
<1>1. \A i \in Instances, a \in Alerts, k \in Kinds :
        atask'[i][a].at = "mail" /\ atask'[i][a].kind = k /\ ~atask'[i][a].late => Mailing(i, a, k)
  BY DEF Mailing
<1>2. OnlyMailsAreLate'
  BY DEF MailInv, OnlyMailsAreLate, T
<1>3. ClaimIsOwn'
  BY <1>1 DEF MailInv, ClaimIsOwn, Mailing, T
<1>4. MailedWasClaimed'
  BY DEF MailInv, MailedWasClaimed
<1> QED BY <1>2, <1>3, <1>4 DEF MailPart

LEMMA OtherTaskMoves ==
  ASSUME MailInv, guard' = guard, mailed' = mailed, NEW i \in Instances, NEW a \in Alerts, NEW from,
         Moved(i, a, from), from # "mail", atask'[i][a].at # "mail",
         atask'[i][a].late = T(i, a).late \/ atask'[i][a] = NoTask
  PROVE MailPart'
<1>1. atask'[i][a].at # "mail" /\ ~atask'[i][a].late
  BY NewTasks DEF MailInv, OnlyMailsAreLate, Moved
<1>2. \A j \in Instances, b \in Alerts : atask'[j][b] = T(j, b) \/ (j = i /\ b = a)
  BY DEF Moved, T
<1> QED BY <1>1, <1>2, MailKept

LEMMA ClaimStep ==
  ASSUME MailInv, NEW i \in Instances, NEW a \in Alerts, Claim(i, a), RedisGuard, ~GuardErrors
  PROVE MailPart'
<1>1. TypeOK /\ T(i, a) \in Task
  BY DEF MailInv, TypeInv, TypeOK, T
<1>2. PICK k \in Kinds : k = T(i, a).kind
  BY <1>1, TaskFields
<1>3. CASE guard' = guard /\ Step(i, a, "claim", NoTask)
  <2>1. Finishes(i, a, "claim") /\ mailed' = mailed
    BY <1>1, <1>3, StepFinishes DEF Claim, historyVars
  <2> QED BY <1>3, <2>1, NewTasks, OtherTaskMoves DEF Finishes
<1>4. CASE <<a, k>> \notin guard /\ guard' = guard \cup {<<a, k>>} /\ Step(i, a, "claim", GoTo(i, a, "mail"))
  <2>1. Goes(i, a, "claim", "mail")
    BY <1>1, <1>4, StepGoes DEF Steps
  <2>9. mailed' = mailed
    BY DEF Claim, historyVars
  <2>2. mailed[<<a, k>>] = 0 /\ \A j \in Instances : ~Mailing(j, a, k)
    BY <1>4 DEF MailInv, MailedWasClaimed, ClaimIsOwn
  <2>3. ~T(i, a).late
    BY <2>1 DEF MailInv, OnlyMailsAreLate, Goes, Moved
  <2>4. ASSUME NEW j \in Instances, NEW b \in Alerts, j # i \/ b # a
        PROVE atask'[j][b] = T(j, b)
    BY <2>1, <2>4 DEF Goes, Moved, T
  <2>5. OnlyMailsAreLate'
    <3>1. ASSUME NEW j \in Instances, NEW b \in Alerts, atask'[j][b].late
          PROVE atask'[j][b].at = "mail"
      BY <2>1, <2>4, <3>1 DEF Goes, MailInv, OnlyMailsAreLate
    <3> QED BY <3>1 DEF OnlyMailsAreLate, T
  <2>6. ASSUME NEW j \in Instances, NEW b \in Alerts, NEW l \in Kinds,
               atask'[j][b].at = "mail", atask'[j][b].kind = l, ~atask'[j][b].late
        PROVE (j = i /\ b = a /\ l = k) \/ (Mailing(j, b, l) /\ (b # a \/ l # k))
    BY <1>2, <2>1, <2>2, <2>4, <2>6 DEF Goes, Mailing
  <2>7. ClaimIsOwn'
    <3>1. ASSUME NEW b \in Alerts, NEW l \in Kinds, NEW j \in Instances, Mailing(j, b, l)'
          PROVE <<b, l>> \in guard' /\ mailed'[<<b, l>>] = 0
      <4>1. (j = i /\ b = a /\ l = k) \/ Mailing(j, b, l)
        BY <2>6, <3>1 DEF Mailing, T
      <4>2. <<b, l>> \in guard' /\ mailed[<<b, l>>] = 0
        BY <1>4, <2>2, <4>1 DEF MailInv, ClaimIsOwn
      <4> QED BY <2>9, <4>2
    <3>2. ASSUME NEW b \in Alerts, NEW l \in Kinds, NEW j \in Instances, NEW m \in Instances,
                 Mailing(j, b, l)', Mailing(m, b, l)'
          PROVE j = m
      <4>1. (j = i /\ b = a /\ l = k) \/ (Mailing(j, b, l) /\ (b # a \/ l # k))
        BY <2>6, <3>2 DEF Mailing, T
      <4>2. (m = i /\ b = a /\ l = k) \/ (Mailing(m, b, l) /\ (b # a \/ l # k))
        BY <2>6, <3>2 DEF Mailing, T
      <4> QED BY <4>1, <4>2 DEF MailInv, ClaimIsOwn
    <3> QED BY <3>1, <3>2 DEF ClaimIsOwn
  <2>8. MailedWasClaimed'
    BY <1>4, <2>9 DEF MailInv, MailedWasClaimed
  <2> QED BY <2>5, <2>7, <2>8 DEF MailPart
<1> QED BY <1>2, <1>3, <1>4 DEF Claim

LEMMA MailStep ==
  ASSUME MailInv, NEW i \in Instances, NEW a \in Alerts, Mail(i, a)
  PROVE MailPart'
<1>1. TypeOK /\ T(i, a) \in Task
  BY DEF MailInv, TypeInv, TypeOK, T
<1>2. PICK k \in Kinds : k = T(i, a).kind
  BY <1>1, TaskFields
<1>3. /\ Moved(i, a, "mail") /\ atask'[i][a].at # "mail" /\ ~atask'[i][a].late /\ guard' = guard
      /\ mailed' = mailed \/ mailed' = Counted(i, a)
  BY <1>1, MailMoves DEF Mail
<1>4. \A j \in Instances, b \in Alerts :
        atask'[j][b] = T(j, b) \/ (atask'[j][b].at # "mail" /\ ~atask'[j][b].late)
  BY <1>3 DEF Moved, T
<1>5. CASE mailed' = mailed
  BY <1>3, <1>4, <1>5, MailKept
<1>6. CASE mailed' = Counted(i, a) /\ ~T(i, a).late
  <2>1. Mailing(i, a, k)
    BY <1>2, <1>3, <1>6 DEF Mailing, Moved
  <2>2. <<a, k>> \in guard /\ mailed[<<a, k>>] = 0
    BY <2>1 DEF MailInv, ClaimIsOwn
  <2>3. <<a, k>> \in Alerts \X Kinds
    OBVIOUS
  <2>4. \A slot \in Alerts \X Kinds : mailed'[slot] = IF slot = <<a, k>> THEN 1 ELSE mailed[slot]
    BY <1>1, <1>2, <1>6, <2>2, <2>3 DEF TypeOK, Counted
  <2>5. OnlyMailsAreLate'
    BY <1>4 DEF MailInv, OnlyMailsAreLate, T
  <2>6. ASSUME NEW j \in Instances, NEW b \in Alerts, NEW l \in Kinds, Mailing(j, b, l)'
        PROVE Mailing(j, b, l) /\ (b # a \/ l # k)
    <3>1. Mailing(j, b, l) /\ (j # i \/ b # a)
      BY <1>3, <1>4, <2>6 DEF Mailing, T
    <3> QED BY <2>1, <3>1 DEF MailInv, ClaimIsOwn
  <2>7. ClaimIsOwn'
    <3>1. ASSUME NEW b \in Alerts, NEW l \in Kinds, NEW j \in Instances, Mailing(j, b, l)'
          PROVE <<b, l>> \in guard' /\ mailed'[<<b, l>>] = 0
      <4>1. <<b, l>> # <<a, k>> /\ <<b, l>> \in Alerts \X Kinds
        BY <2>6, <3>1
      <4> QED BY <1>3, <2>4, <2>6, <3>1, <4>1 DEF MailInv, ClaimIsOwn
    <3>2. ASSUME NEW b \in Alerts, NEW l \in Kinds, NEW j \in Instances, NEW m \in Instances,
                 Mailing(j, b, l)', Mailing(m, b, l)'
          PROVE j = m
      BY <2>6, <3>2 DEF MailInv, ClaimIsOwn
    <3> QED BY <3>1, <3>2 DEF ClaimIsOwn
  <2>8. MailedWasClaimed'
    BY <1>3, <2>2, <2>4 DEF MailInv, MailedWasClaimed
  <2> QED BY <2>5, <2>7, <2>8 DEF MailPart
<1>7. CASE mailed' = Counted(i, a) /\ T(i, a).late
  BY <1>5, <1>7 DEF Counted
<1> QED BY <1>3, <1>5, <1>6, <1>7

LEMMA TaskStepKeepsMail ==
  ASSUME MailInv, RedisGuard, ~GuardErrors, NEW i \in Instances, NEW a \in Alerts,
         ActiveStep(i, a) \/ ActiveError(i, a)
  PROVE MailPart'
<1>1. TypeInv /\ TypeOK /\ T(i, a) \in Task
  BY DEF MailInv, TypeInv, TypeOK, T
<1>2. CASE ActiveGet(i, a)
  <2>1. Goes(i, a, "get", "report") /\ guard' = guard /\ mailed' = mailed
    BY <1>1, <1>2, GetMoves DEF ActiveGet, historyVars
  <2> QED BY <2>1, OtherTaskMoves DEF Goes
<1>3. CASE ActiveReport(i, a)
  <2>1. guard' = guard /\ mailed' = mailed
    BY <1>3 DEF ActiveReport
  <2>2. \/ \E to \in {"drop", "remove", "set", "recover", "count"} : Goes(i, a, "report", to)
        \/ Finishes(i, a, "report")
    BY <1>1, <1>3, ReportMoves
  <2> QED BY <2>1, <2>2, NewTasks, OtherTaskMoves DEF Goes, Finishes
<1>4. CASE Accumulate(i, a) \/ CancelConfirmation(i, a) \/ ActiveError(i, a) \/ Hook(i, a)
  <2>1. \E from \in {"set", "drop", "report", "hook"} : Finishes(i, a, from)
    BY <1>1, <1>4, StepFinishes DEF Accumulate, CancelConfirmation, ActiveError, Hook
  <2>2. guard' = guard /\ mailed' = mailed
    BY <1>4 DEF Accumulate, CancelConfirmation, ActiveError, Hook, historyVars
  <2> QED BY <2>1, <2>2, NewTasks, OtherTaskMoves DEF Finishes
<1>5. CASE LeaveConfirmation(i, a) \/ Stamp(i, a)
  <2>1. Goes(i, a, "remove", "promote") \/ Goes(i, a, "stamp", "hook")
    BY <1>1, <1>5, StepGoes DEF LeaveConfirmation, Stamp, Steps
  <2>2. guard' = guard /\ mailed' = mailed
    BY <1>5 DEF LeaveConfirmation, Stamp, historyVars
  <2> QED BY <2>1, <2>2, OtherTaskMoves DEF Goes
<1>6. CASE Promote(i, a) \/ CountFailure(i, a) \/ Recover(i, a)
  <2>1. \E from \in {"promote", "count", "recover"} :
          Finishes(i, a, from) \/ \E kind \in Kinds : Notifies(i, a, from, kind)
    <3>1. "failure" \in Kinds /\ "reminder" \in Kinds /\ "recovery" \in Kinds
      BY DEF Kinds
    <3>2. \A from, kind : kind \in Kinds /\ Step(i, a, from, Notify(i, a, kind)) => Notifies(i, a, from, kind)
      BY <1>1, StepNotifies
    <3>3. \A from : Step(i, a, from, NoTask) => Finishes(i, a, from)
      BY <1>1, StepFinishes
    <3> QED BY <1>6, <3>1, <3>2, <3>3 DEF Promote, CountFailure, Recover
  <2>2. guard' = guard /\ mailed' = mailed
    BY <1>6 DEF Promote, CountFailure, Recover, historyVars
  <2> QED BY <2>1, <2>2, NewTasks, OtherTaskMoves DEF Finishes, Notifies
<1>7. CASE Claim(i, a)
  BY <1>7, ClaimStep
<1>8. CASE Mail(i, a)
  BY <1>8, MailStep
<1> QED BY <1>2, <1>3, <1>4, <1>5, <1>6, <1>7, <1>8 DEF ActiveStep

LEMMA LoadsKeepMail ==
  ASSUME MailInv, TasksLoad, guard' = guard, mailed' = mailed
  PROVE MailPart'
<1>1. \A a \in Alerts : RowOf(a) \in Rows
  BY LoadedRows DEF MailInv, TypeInv
<1> QED BY <1>1, NewTasks, MailKept DEF TasksLoad

LEMMA MailInvStep ==
  ASSUME MailInv, [Next]_vars, RedisGuard, ~GuardErrors
  PROVE MailInv'
<1>1. TypeInv /\ TypeOK /\ TypeInv'
  BY TypeStep DEF MailInv, TypeInv
<1>2. SUFFICES MailPart'
  BY <1>1 DEF MailInv, MailPart
<1>3. CASE UNCHANGED vars
  BY <1>3, MailKept DEF vars, activeVars, historyVars, T
<1>4. ASSUME NEW i \in Instances, HealthyLoop(i) \/ \E a \in Alerts : HealthyError(i, a)
      PROVE MailPart'
  <2>1. guard' = guard /\ mailed' = mailed /\ atask' = atask
    BY <1>4 DEF HealthyLoop, HealthyLoad, HealthySkip, HealthyReport, HealthyError, HealthySet, HealthyJoin,
       activeVars, historyVars
  <2> QED BY <2>1, MailKept DEF T
<1>5. ASSUME NEW i \in Instances, ActiveLoop(i) \/ \E a \in Alerts : ActiveError(i, a)
      PROVE MailPart'
  <2>1. CASE ActiveLoad(i)
    BY <1>1, <2>1, ActiveLoadLoads, LoadsKeepMail DEF ActiveLoad, historyVars
  <2>2. CASE ActiveExtras(i)
    BY <1>1, <2>2, ActiveExtrasLoads, LoadsKeepMail DEF ActiveExtras, historyVars
  <2>3. CASE ActiveIds(i) \/ ActiveJoin(i)
    BY <2>3, MailKept DEF ActiveIds, ActiveJoin, historyVars, T
  <2> QED BY <1>5, <2>1, <2>2, <2>3, TaskStepKeepsMail DEF ActiveLoop
<1>6. ASSUME NEW i \in Instances, Crash(i)
      PROVE MailPart'
  BY <1>1, <1>6, CrashLoads, LoadsKeepMail DEF Crash, historyVars
<1>7. ASSUME NEW a \in Alerts, Flap(a)
      PROVE MailPart'
  BY <1>7, MailKept DEF Flap, activeVars, historyVars, T
<1>8. CASE NextBucket
  <2>1. \A i \in Instances, a \in Alerts : atask'[i][a].at = "mail" <=> atask'[i][a].late
    BY <1>1, <1>8, LateTasks DEF MailInv, OnlyMailsAreLate
  <2>2. \A slot \in Alerts \X Kinds : mailed'[slot] = 0
    BY <1>8 DEF NextBucket
  <2> QED BY <2>1, <2>2 DEF MailPart, OnlyMailsAreLate, ClaimIsOwn, MailedWasClaimed, Mailing, T
<1> QED BY <1>3, <1>4, <1>5, <1>6, <1>7, <1>8 DEF Next

LEMMA MailInit ==
  ASSUME Init
  PROVE MailInv
<1>1. TypeInv
  BY TypeInit
<1>2. \A i \in Instances, a \in Alerts : T(i, a) = NoTask
  BY DEF Init, T
<1>3. OnlyMailsAreLate /\ ClaimIsOwn
  BY <1>2, NewTasks DEF OnlyMailsAreLate, ClaimIsOwn, Mailing
<1>4. MailedWasClaimed
  BY DEF Init, MailedWasClaimed
<1> QED BY <1>1, <1>3, <1>4 DEF MailInv

\* As long as Redis answers the guard, no email is sent twice with the claims of a bucket,
\* for every number of instances and alerts, whatever the registry, the loop locks, the
\* database and crashes do (distributed/email_guard.rs:3-6).
THEOREM GuardAllowsOne == ASSUME RedisGuard, ~GuardErrors
                          PROVE  Spec => []OneMailPerBucket
<1>1. Init => MailInv
  BY MailInit
<1>2. MailInv /\ [Next]_vars => MailInv'
  BY MailInvStep
<1>3. MailInv => OneMailPerBucket
  BY DEF MailInv, MailedWasClaimed, OneMailPerBucket
<1> QED BY <1>1, <1>2, <1>3, PTL DEF Spec

-----------------------------------------------------------------------------
(* Resting loops *)

\* A loop that has no cycle has no tasks; while it loads a cycle none has begun.
Resting ==
  \A i \in Instances, a \in Alerts :
    /\ acycle[i] = "idle" => T(i, a).at = "none"
    /\ acycle[i] \in {"loaded", "joined"} => T(i, a).at \in {"none", "get"}

LocalInv == TypeInv /\ Resting

LEMMA LoadsRest ==
  ASSUME LocalInv, TasksLoad, NEW i \in Instances,
         \A j \in Instances \ {i} : acycle'[j] = acycle[j] /\ atask'[j] = atask[j],
         acycle[i] # "running", acycle'[i] \in {"loaded", "running"}
  PROVE Resting'
<1>1. \A a \in Alerts : NoTask.at = "none" /\ NewTask(RowOf(a)).at = "get"
  BY LoadedRows, NewTasks DEF LocalInv, TypeInv
<1>2. acycle[i] \in {"idle", "loaded", "joined"}
  BY DEF LocalInv, TypeInv, TypeOK
<1>3. \A a \in Alerts : atask'[i][a].at \in {"none", "get"}
  BY <1>1, <1>2 DEF LocalInv, Resting, TasksLoad
<1>4. ASSUME NEW j \in Instances, NEW a \in Alerts
      PROVE /\ acycle'[j] = "idle" => atask'[j][a].at = "none"
            /\ acycle'[j] \in {"loaded", "joined"} => atask'[j][a].at \in {"none", "get"}
  <2>1. CASE j = i
    BY <1>1, <1>3, <2>1
  <2>2. CASE j # i
    BY <2>2 DEF LocalInv, Resting, T
  <2> QED BY <2>1, <2>2
<1> QED BY <1>4 DEF Resting, T

LEMMA RestStep ==
  ASSUME LocalInv, [Next]_vars
  PROVE Resting'
<1>1. TypeInv /\ TypeOK
  BY DEF LocalInv, TypeInv
<1>2. CASE UNCHANGED vars
  BY <1>2 DEF vars, activeVars, LocalInv, Resting, T
<1>3. ASSUME NEW i \in Instances, HealthyLoop(i) \/ \E a \in Alerts : HealthyError(i, a)
      PROVE Resting'
  <2>1. acycle' = acycle /\ atask' = atask
    BY <1>3 DEF HealthyLoop, HealthyLoad, HealthySkip, HealthyReport, HealthyError, HealthySet, HealthyJoin,
       activeVars
  <2> QED BY <2>1 DEF LocalInv, Resting, T
<1>4. ASSUME NEW i \in Instances, NEW a \in Alerts, ActiveStep(i, a) \/ ActiveError(i, a)
      PROVE Resting'
  <2>1. PICK from \in Steps : Moved(i, a, from)
    BY <1>1, <1>4, TaskStep
  <2> QED BY <2>1 DEF Moved, LocalInv, Resting, T
<1>5. ASSUME NEW i \in Instances, ActiveLoad(i)
      PROVE Resting'
  <2>1. acycle[i] = "idle" /\ acycle'[i] = "loaded" /\ \A j \in Instances \ {i} : acycle'[j] = acycle[j]
    BY <1>1, <1>5 DEF ActiveLoad, TypeOK
  <2> QED BY <1>1, <1>5, <2>1, ActiveLoadLoads, LoadsRest
<1>6. ASSUME NEW i \in Instances, ActiveExtras(i)
      PROVE Resting'
  <2>1. acycle[i] = "joined" /\ acycle'[i] = "running" /\ \A j \in Instances \ {i} : acycle'[j] = acycle[j]
    BY <1>1, <1>6 DEF ActiveExtras, TypeOK
  <2> QED BY <1>1, <1>6, <2>1, ActiveExtrasLoads, LoadsRest
<1>7. ASSUME NEW i \in Instances, ActiveIds(i)
      PROVE Resting'
  <2>1. /\ acycle[i] = "loaded" /\ acycle' = [acycle EXCEPT ![i] = "joined"]
        /\ atask' = atask
    BY <1>7 DEF ActiveIds
  <2>2. acycle'[i] = "joined" /\ \A j \in Instances \ {i} : acycle'[j] = acycle[j]
    BY <1>1, <2>1 DEF TypeOK
  <2> QED BY <2>1, <2>2 DEF LocalInv, Resting, T
<1>8. ASSUME NEW i \in Instances, ActiveJoin(i)
      PROVE Resting'
  <2>1. /\ acycle' = [acycle EXCEPT ![i] = "idle"] /\ atask' = atask
        /\ \A a \in Alerts : T(i, a).at = "none"
    BY <1>8 DEF ActiveJoin, T
  <2>2. acycle'[i] = "idle" /\ \A j \in Instances \ {i} : acycle'[j] = acycle[j]
    BY <1>1, <2>1 DEF TypeOK
  <2> QED BY <2>1, <2>2 DEF LocalInv, Resting, T
<1>9. ASSUME NEW i \in Instances, Crash(i)
      PROVE Resting'
  <2>1. \A j \in Instances \ {i} : acycle'[j] = acycle[j] /\ atask'[j] = atask[j]
    BY <1>1, <1>9, CrashLoads DEF Crash, TypeOK
  <2>2. \A a \in Alerts : atask'[i][a].at = "none"
    BY <1>1, <1>9, CrashLoads, NewTasks
  <2> QED BY <2>1, <2>2 DEF LocalInv, Resting, T
<1>10. ASSUME NEW a \in Alerts, Flap(a)
       PROVE Resting'
  BY <1>10 DEF Flap, activeVars, LocalInv, Resting, T
<1>11. CASE NextBucket
  <2>1. acycle' = acycle /\ \A i \in Instances, a \in Alerts : atask'[i][a].at = T(i, a).at
    BY <1>1, <1>11, LateTasks DEF NextBucket
  <2> QED BY <2>1 DEF LocalInv, Resting, T
<1> QED BY <1>2, <1>3, <1>4, <1>5, <1>6, <1>7, <1>8, <1>9, <1>10, <1>11 DEF Next, ActiveLoop

LEMMA LocalStep ==
  ASSUME LocalInv, [Next]_vars
  PROVE LocalInv'
  BY TypeStep, RestStep DEF LocalInv

LEMMA LocalInit ==
  ASSUME Init
  PROVE LocalInv
<1>1. \A i \in Instances, a \in Alerts : T(i, a) = NoTask /\ acycle[i] = "idle"
  BY DEF Init, T
<1> QED BY <1>1, TypeInit, NewTasks DEF LocalInv, Resting

-----------------------------------------------------------------------------
(* What the subscribers were told *)

OneActive == \A i, j \in Instances : acycle[i] # "idle" /\ acycle[j] # "idle" => i = j

Tells(t) == t.at \in {"claim", "mail", "stamp", "hook"}

SaidDown(a) == announced[a] \in {"down", "reminder"}

\* A task decides on the row as it is, and a task that notifies is about the row as it is.
TaskIsCurrent(i, a) ==
  /\ T(i, a).at \in {"get", "report"} => (T(i, a).row.failing <=> failing[a])
  /\ T(i, a).at = "count" => failing[a]
  /\ Tells(T(i, a)) => (failing[a] <=> T(i, a).kind # "recovery")

\* The last event of an alert is about its row, or a task will announce the row.
SaidOrTelling(a) ==
  (\A i \in Instances : ~Tells(T(i, a))) => (failing[a] <=> SaidDown(a))

AnnouncePart ==
  /\ OneActive
  /\ \A i \in Instances, a \in Alerts : TaskIsCurrent(i, a)
  /\ \A a \in Alerts : SaidOrTelling(a)

AnnounceInv == LocalInv /\ (crashes = MaxCrashes => AnnouncePart)

\* A step of alert a's task, and of nothing else, that fits what the task was about.
LEMMA TellingStep ==
  ASSUME LocalInv, AnnouncePart, NEW i \in Instances, NEW a \in Alerts, NEW from, Moved(i, a, from),
         \A b \in Alerts \ {a} : failing'[b] = failing[b] /\ announced'[b] = announced[b],
         atask'[i][a].at \in {"get", "report"} => (atask'[i][a].row.failing <=> failing'[a]),
         atask'[i][a].at = "count" => failing'[a],
         Tells(atask'[i][a]) => (failing'[a] <=> atask'[i][a].kind # "recovery"),
         ~Tells(atask'[i][a]) => (failing'[a] <=> announced'[a] \in {"down", "reminder"})
  PROVE AnnouncePart'
<1>1. OneActive'
  BY DEF Moved, AnnouncePart, OneActive
<1>2. \A j \in Instances \ {i}, b \in Alerts : T(j, b).at = "none" /\ atask'[j][b] = T(j, b)
  BY DEF Moved, AnnouncePart, OneActive, LocalInv, Resting, TypeInv, TypeOK, T
<1>3. \A b \in Alerts \ {a} : atask'[i][b] = T(i, b)
  BY DEF Moved, T
<1>4. ASSUME NEW j \in Instances, NEW b \in Alerts
      PROVE TaskIsCurrent(j, b)'
  <2>1. CASE j = i /\ b = a
    BY <2>1 DEF TaskIsCurrent, T, Tells
  <2>2. CASE j = i /\ b # a
    BY <1>3, <2>2 DEF AnnouncePart, TaskIsCurrent, T, Tells
  <2>3. CASE j # i
    BY <1>2, <2>3 DEF TaskIsCurrent, T, Tells
  <2> QED BY <2>1, <2>2, <2>3
<1>5. ASSUME NEW b \in Alerts
      PROVE SaidOrTelling(b)'
  <2>1. CASE b = a
    BY <2>1 DEF SaidOrTelling, SaidDown, T
  <2>2. CASE b # a
    BY <1>2, <1>3, <2>2 DEF AnnouncePart, SaidOrTelling, SaidDown, T
  <2> QED BY <2>1, <2>2
<1> QED BY <1>1, <1>4, <1>5 DEF AnnouncePart

LEMMA TaskIsOnlyTeller ==
  ASSUME LocalInv, AnnouncePart, NEW i \in Instances, NEW a \in Alerts, acycle[i] = "running"
  PROVE /\ TaskIsCurrent(i, a)
        /\ ~Tells(T(i, a)) => (failing[a] <=> announced[a] \in {"down", "reminder"})
<1>1. \A j \in Instances \ {i} : T(j, a).at = "none"
  BY DEF AnnouncePart, OneActive, LocalInv, Resting
<1>2. \A j \in Instances \ {i} : ~Tells(T(j, a))
  BY <1>1 DEF Tells
<1> QED BY <1>2 DEF AnnouncePart, SaidOrTelling, SaidDown

\* A step that does not touch the row or the announcements of a task that neither notifies
\* nor starts to.
LEMMA SilentStep ==
  ASSUME LocalInv, AnnouncePart, NEW i \in Instances, NEW a \in Alerts,
         NEW from \in Steps, Moved(i, a, from), ~Tells(T(i, a)),
         failing' = failing, announced' = announced,
         ~Tells(atask'[i][a]),
         atask'[i][a].at \in {"get", "report"} => (atask'[i][a].row.failing <=> failing[a]),
         atask'[i][a].at = "count" => failing[a]
  PROVE AnnouncePart'
<1>1. failing[a] <=> announced[a] \in {"down", "reminder"}
  BY TaskIsOnlyTeller DEF Moved
<1> QED BY <1>1, TellingStep

LEMMA TaskStepAnnounces ==
  ASSUME Mailer, ~RedisGuard, ~DbErrors, LocalInv, AnnouncePart, NEW i \in Instances, NEW a \in Alerts,
         ActiveStep(i, a) \/ ActiveError(i, a)
  PROVE AnnouncePart'
<1>1. TypeInv /\ TypeOK /\ T(i, a) \in Task
  BY DEF LocalInv, TypeInv, TypeOK, T
<1>2. ~Tells(NoTask) /\ NoTask.at = "none"
  BY NewTasks DEF Tells
<1>3. ASSUME NEW from \in Steps, Finishes(i, a, from), ~Tells(T(i, a)), failing' = failing, announced' = announced
      PROVE AnnouncePart'
  BY <1>2, <1>3, SilentStep DEF Finishes
<1>4. CASE ActiveGet(i, a)
  <2>1. Goes(i, a, "get", "report") /\ failing' = failing /\ announced' = announced
    BY <1>1, <1>4, GetMoves DEF ActiveGet, dbVars, historyVars
  <2>2. T(i, a).row.failing <=> failing[a]
    BY <2>1, TaskIsOnlyTeller DEF Goes, Moved, TaskIsCurrent
  <2> QED BY <2>1, <2>2, SilentStep DEF Goes, Moved, Tells, Steps
<1>5. CASE ActiveReport(i, a)
  <2>1. failing' = failing /\ announced' = announced
    BY <1>5 DEF ActiveReport, dbVars
  <2>2. \/ \E to \in {"drop", "remove", "set", "recover", "count"} :
             Goes(i, a, "report", to) /\ (to = "count" => T(i, a).row.failing)
        \/ Finishes(i, a, "report")
    BY <1>1, <1>5, ReportMoves
  <2>3. T(i, a).at = "report" /\ acycle[i] = "running"
    BY <2>2 DEF Goes, Finishes, Moved
  <2>4. ~Tells(T(i, a)) /\ (T(i, a).row.failing <=> failing[a])
    BY <2>3, TaskIsOnlyTeller DEF TaskIsCurrent, Tells
  <2>5. ASSUME NEW to \in {"drop", "remove", "set", "recover", "count"},
               Goes(i, a, "report", to), to = "count" => T(i, a).row.failing
        PROVE AnnouncePart'
    BY <2>1, <2>4, <2>5, SilentStep DEF Goes, Tells, Steps
  <2> QED BY <1>3, <2>1, <2>2, <2>4, <2>5 DEF Steps
<1>6. CASE Accumulate(i, a) \/ CancelConfirmation(i, a) \/ ActiveError(i, a)
  <2>1. \E from \in {"set", "drop", "report"} : Finishes(i, a, from)
    BY <1>1, <1>6, StepFinishes DEF Accumulate, CancelConfirmation, ActiveError
  <2>2. failing' = failing /\ announced' = announced
    BY <1>6 DEF Accumulate, CancelConfirmation, ActiveError, dbVars, historyVars
  <2> QED BY <1>3, <2>1, <2>2 DEF Finishes, Moved, Tells, Steps
<1>7. CASE LeaveConfirmation(i, a)
  <2>1. Goes(i, a, "remove", "promote") /\ failing' = failing /\ announced' = announced
    BY <1>1, <1>7, StepGoes DEF LeaveConfirmation, dbVars, historyVars, Steps
  <2> QED BY <2>1, SilentStep DEF Goes, Moved, Tells, Steps
<1>8. CASE Promote(i, a)
  <2>1. Step(i, a, "promote", Notify(i, a, "failure")) /\ failing' = [failing EXCEPT ![a] = TRUE]
        /\ announced' = announced
    BY <1>8 DEF Promote, historyVars
  <2>2. Notifies(i, a, "promote", "failure")
    BY <1>1, <2>1, StepNotifies DEF Kinds
  <2>3. failing'[a] = TRUE /\ \A b \in Alerts \ {a} : failing'[b] = failing[b]
    BY <1>1, <2>1 DEF TypeOK
  <2> QED BY <2>1, <2>2, <2>3, TellingStep DEF Notifies, Tells
<1>9. CASE CountFailure(i, a)
  <2>1. failing' = failing /\ announced' = announced
    BY <1>9 DEF CountFailure, dbVars, historyVars
  <2>2. CASE Step(i, a, "count", NoTask)
    <3>1. Finishes(i, a, "count")
      BY <1>1, <2>2, StepFinishes
    <3> QED BY <1>3, <2>1, <3>1 DEF Finishes, Moved, Tells, Steps
  <2>3. CASE Step(i, a, "count", Notify(i, a, "reminder"))
    <3>1. Notifies(i, a, "count", "reminder")
      BY <1>1, <2>3, StepNotifies DEF Kinds
    <3>2. failing[a]
      BY <3>1, TaskIsOnlyTeller DEF Notifies, Moved, TaskIsCurrent
    <3> QED BY <2>1, <3>1, <3>2, TellingStep DEF Notifies, Tells
  <2> QED BY <1>9, <2>2, <2>3 DEF CountFailure
<1>10. CASE Recover(i, a)
  <2>1. Step(i, a, "recover", Notify(i, a, "recovery")) /\ failing' = [failing EXCEPT ![a] = FALSE]
        /\ announced' = announced
    BY <1>10 DEF Recover, historyVars
  <2>2. Notifies(i, a, "recover", "recovery")
    BY <1>1, <2>1, StepNotifies DEF Kinds
  <2>3. failing'[a] = FALSE /\ \A b \in Alerts \ {a} : failing'[b] = failing[b]
    BY <1>1, <2>1 DEF TypeOK
  <2> QED BY <2>1, <2>2, <2>3, TellingStep DEF Notifies, Tells
<1>11. CASE Claim(i, a) \/ Mail(i, a) \/ Stamp(i, a)
  <2>1. failing' = failing /\ announced' = announced
    BY <1>11 DEF Claim, Mail, Stamp, dbVars, historyVars
  <2>2. PICK from \in {"claim", "mail", "stamp"} :
          /\ Moved(i, a, from) /\ atask'[i][a].kind = T(i, a).kind
          /\ atask'[i][a].at \in {"mail", "stamp", "hook"}
    BY <1>1, <1>11, StepGoes, MailMoves DEF Claim, Stamp, Goes, Steps
  <2>3. Tells(T(i, a)) /\ Tells(atask'[i][a]) /\ acycle[i] = "running"
    BY <2>2 DEF Moved, Tells
  <2>4. failing[a] <=> T(i, a).kind # "recovery"
    BY <2>3, TaskIsOnlyTeller DEF TaskIsCurrent
  <2> QED BY <2>1, <2>2, <2>3, <2>4, TellingStep
<1>12. CASE Hook(i, a)
  <2>1. Step(i, a, "hook", NoTask) /\ announced' = [announced EXCEPT ![a] = Event[T(i, a).kind]]
        /\ failing' = failing
    BY <1>12 DEF Hook, dbVars
  <2>2. Finishes(i, a, "hook")
    BY <1>1, <2>1, StepFinishes
  <2>3. failing[a] <=> T(i, a).kind # "recovery"
    BY <2>2, TaskIsOnlyTeller DEF Finishes, Moved, TaskIsCurrent, Tells
  <2>4. announced'[a] = Event[T(i, a).kind] /\ \A b \in Alerts \ {a} : announced'[b] = announced[b]
    BY <1>1, <2>1 DEF TypeOK
  <2>5. T(i, a).kind # "recovery" <=> Event[T(i, a).kind] \in {"down", "reminder"}
    BY <1>1, TaskFields DEF Event, Kinds
  <2> QED BY <1>2, <2>1, <2>2, <2>3, <2>4, <2>5, TellingStep DEF Finishes
<1> QED BY <1>4, <1>5, <1>6, <1>7, <1>8, <1>9, <1>10, <1>11, <1>12 DEF ActiveStep

\* A cycle starts, loads or ends while nobody notifies.
LEMMA LoadsAnnounce ==
  ASSUME LocalInv, AnnouncePart, NEW i \in Instances, failing' = failing, announced' = announced, OneActive',
         \A j \in Instances \ {i} : atask'[j] = atask[j],
         \A a \in Alerts : /\ T(i, a).at \in {"none", "get"}
                           /\ \/ atask'[i][a] = T(i, a) \/ atask'[i][a] = NoTask
                              \/ atask'[i][a] = NewTask(RowOf(a))
  PROVE AnnouncePart'
<1>1. ASSUME NEW a \in Alerts
      PROVE /\ NoTask.at = "none" /\ NewTask(RowOf(a)).at = "get"
            /\ NewTask(RowOf(a)).row.failing = failing[a]
  BY LoadedRows, NewTasks DEF LocalInv, TypeInv
<1>2. \A a \in Alerts : ~Tells(T(i, a)) /\ ~Tells(atask'[i][a]) /\ atask'[i][a].at # "count"
  BY <1>1 DEF Tells
<1>3. ASSUME NEW j \in Instances, NEW a \in Alerts
      PROVE TaskIsCurrent(j, a)'
  <2>1. CASE j = i
    <3>1. atask'[i][a].at \in {"get", "report"} => (atask'[i][a].row.failing <=> failing[a])
      BY <1>1 DEF AnnouncePart, TaskIsCurrent
    <3> QED BY <1>2, <2>1, <3>1 DEF TaskIsCurrent, T, Tells
  <2>2. CASE j # i
    BY <2>2 DEF AnnouncePart, TaskIsCurrent, T, Tells
  <2> QED BY <2>1, <2>2
<1>4. ASSUME NEW a \in Alerts
      PROVE SaidOrTelling(a)'
  <2>1. \A j \in Instances : Tells(atask'[j][a]) <=> Tells(T(j, a))
    BY <1>2 DEF Tells, T
  <2> QED BY <2>1 DEF AnnouncePart, SaidOrTelling, SaidDown, T, Tells
<1> QED BY <1>3, <1>4 DEF AnnouncePart

LEMMA AnnounceStep ==
  ASSUME Mailer, ~RedisGuard, ~DbErrors, LocksHold, AnnounceInv, [Next]_vars
  PROVE AnnounceInv'
<1>1. LocalInv /\ LocalInv' /\ TypeInv /\ TypeOK /\ crashes \in 0 .. MaxCrashes /\ MaxCrashes \in Nat
  BY LocalStep, AlertAssumption DEF AnnounceInv, LocalInv, TypeInv, TypeOK
<1>2. SUFFICES ASSUME crashes' = MaxCrashes PROVE AnnouncePart'
  BY <1>1 DEF AnnounceInv
<1>3. ASSUME NEW i \in Instances
      PROVE ~Crash(i)
  BY <1>1, <1>2 DEF Crash
<1>4. crashes = MaxCrashes \/ UNCHANGED vars
  <2>1. CASE NextBucket \/ \E a \in Alerts : Flap(a)
    BY <1>2, <2>1 DEF NextBucket, Flap
  <2>2. ASSUME NEW i \in Instances, HealthyLoop(i) \/ \E a \in Alerts : HealthyError(i, a)
        PROVE crashes = MaxCrashes
    BY <1>2, <2>2 DEF HealthyLoop, HealthyLoad, HealthySkip, HealthyReport, HealthyError, HealthySet,
       HealthyJoin, envVars
  <2>3. ASSUME NEW i \in Instances, NEW a \in Alerts, ActiveStep(i, a) \/ ActiveError(i, a)
        PROVE crashes = MaxCrashes
    BY <1>1, <1>2, <2>3, TaskStep DEF Moved, envVars
  <2>4. ASSUME NEW i \in Instances, ActiveLoad(i) \/ ActiveIds(i) \/ ActiveExtras(i) \/ ActiveJoin(i)
        PROVE crashes = MaxCrashes
    BY <1>2, <2>4 DEF ActiveLoad, ActiveIds, ActiveExtras, ActiveJoin, envVars
  <2> QED BY <1>3, <2>1, <2>2, <2>3, <2>4 DEF Next, ActiveLoop
<1>5. crashes = MaxCrashes
  BY <1>2, <1>4 DEF vars, envVars
<1>6. AnnouncePart
  BY <1>5 DEF AnnounceInv
<1>7. ASSUME failing' = failing, announced' = announced, acycle' = acycle, atask' = atask
      PROVE AnnouncePart'
  BY <1>6, <1>7 DEF AnnouncePart, OneActive, TaskIsCurrent, SaidOrTelling, SaidDown, T, Tells
<1>8. CASE UNCHANGED vars
  BY <1>7, <1>8 DEF vars, dbVars, activeVars, historyVars
<1>9. ASSUME NEW i \in Instances, HealthyLoop(i) \/ \E a \in Alerts : HealthyError(i, a)
      PROVE AnnouncePart'
  BY <1>7, <1>9 DEF HealthyLoop, HealthyLoad, HealthySkip, HealthyReport, HealthyError, HealthySet,
     HealthyJoin, dbVars, activeVars, historyVars
<1>10. ASSUME NEW i \in Instances, NEW a \in Alerts, ActiveStep(i, a) \/ ActiveError(i, a)
       PROVE AnnouncePart'
  BY <1>1, <1>6, <1>10, TaskStepAnnounces
<1>11. ASSUME NEW i \in Instances, ActiveLoad(i)
       PROVE AnnouncePart'
  <2>1. acycle' = [acycle EXCEPT ![i] = "loaded"] /\ \A j \in Instances : acycle[j] = "idle"
    BY <1>11 DEF ActiveLoad
  <2>2. OneActive'
    BY <1>1, <2>1 DEF OneActive, TypeOK
  <2>3. failing' = failing /\ announced' = announced
    BY <1>11 DEF ActiveLoad, dbVars, historyVars
  <2>4. \A a \in Alerts : T(i, a).at = "none"
    BY <1>1, <2>1 DEF LocalInv, Resting
  <2>5. TasksLoad /\ \A j \in Instances \ {i} : atask'[j] = atask[j]
    BY <1>1, <1>11, ActiveLoadLoads
  <2> QED BY <1>1, <1>6, <2>2, <2>3, <2>4, <2>5, LoadsAnnounce DEF TasksLoad
<1>12. ASSUME NEW i \in Instances, ActiveExtras(i)
       PROVE AnnouncePart'
  <2>1. acycle[i] = "joined" /\ acycle' = [acycle EXCEPT ![i] = "running"]
    BY <1>12 DEF ActiveExtras
  <2>2. OneActive'
    BY <1>1, <1>6, <2>1 DEF AnnouncePart, OneActive, TypeOK
  <2>3. failing' = failing /\ announced' = announced
    BY <1>12 DEF ActiveExtras, dbVars, historyVars
  <2>4. \A a \in Alerts : T(i, a).at \in {"none", "get"}
    BY <1>1, <2>1 DEF LocalInv, Resting
  <2>5. TasksLoad /\ \A j \in Instances \ {i} : atask'[j] = atask[j]
    BY <1>1, <1>12, ActiveExtrasLoads
  <2> QED BY <1>1, <1>6, <2>2, <2>3, <2>4, <2>5, LoadsAnnounce DEF TasksLoad
<1>13. ASSUME NEW i \in Instances, ActiveIds(i) \/ ActiveJoin(i)
       PROVE AnnouncePart'
  <2>1. /\ acycle[i] # "idle" /\ \E c \in {"joined", "idle"} : acycle' = [acycle EXCEPT ![i] = c]
        /\ failing' = failing /\ announced' = announced /\ atask' = atask
    BY <1>13 DEF ActiveIds, ActiveJoin, dbVars, historyVars
  <2>2. OneActive'
    BY <1>1, <1>6, <2>1 DEF AnnouncePart, OneActive, TypeOK
  <2> QED BY <1>6, <2>1, <2>2 DEF AnnouncePart, TaskIsCurrent, SaidOrTelling, SaidDown, T, Tells
<1>14. ASSUME NEW a \in Alerts, Flap(a)
       PROVE AnnouncePart'
  BY <1>7, <1>14 DEF Flap, dbVars, activeVars, historyVars
<1>15. CASE NextBucket
  <2>1. failing' = failing /\ announced' = announced /\ acycle' = acycle
    BY <1>15 DEF NextBucket
  <2>2. \A i \in Instances, a \in Alerts :
          /\ atask'[i][a].at = T(i, a).at /\ atask'[i][a].row = T(i, a).row
          /\ atask'[i][a].kind = T(i, a).kind
    BY <1>1, <1>15, LateTasks
  <2>3. \A i \in Instances, a \in Alerts : TaskIsCurrent(i, a)'
    BY <1>6, <2>1, <2>2 DEF AnnouncePart, TaskIsCurrent, T, Tells
  <2>4. \A a \in Alerts : SaidOrTelling(a)'
    BY <1>6, <2>1, <2>2 DEF AnnouncePart, SaidOrTelling, SaidDown, T, Tells
  <2> QED BY <1>6, <2>1, <2>3, <2>4 DEF AnnouncePart, OneActive
<1> QED BY <1>3, <1>8, <1>9, <1>10, <1>11, <1>12, <1>13, <1>14, <1>15 DEF Next, ActiveLoop

LEMMA AnnounceInit ==
  ASSUME Init
  PROVE AnnounceInv
<1>1. LocalInv
  BY LocalInit
<1>2. \A i \in Instances, a \in Alerts : T(i, a).at = "none"
  BY <1>1 DEF Init, LocalInv, Resting
<1>3. OneActive /\ \A i \in Instances, a \in Alerts : TaskIsCurrent(i, a)
  BY <1>2 DEF Init, OneActive, TaskIsCurrent, Tells
<1>4. \A a \in Alerts : SaidOrTelling(a)
  BY DEF Init, SaidOrTelling, SaidDown
<1> QED BY <1>1, <1>3, <1>4 DEF AnnounceInv, AnnouncePart

\* With a mailer, the no-op guard, a database that answers and a loop lock that holds, the
\* last webhook event of every alert agrees with its row whenever nobody works on it, until
\* the first crash: for every number of instances and alerts, either registry, and whatever
\* the healthy loops do meanwhile.
THEOREM SubscribersKnowTheRow == ASSUME Mailer, ~RedisGuard, ~DbErrors, LocksHold
                                 PROVE  Spec => []AnnouncementsMatchRow
<1>1. Init => AnnounceInv
  BY AnnounceInit
<1>2. AnnounceInv /\ [Next]_vars => AnnounceInv'
  BY AnnounceStep
<1>3. AnnounceInv => AnnouncementsMatchRow
  BY DEF AnnounceInv, AnnouncePart, SaidOrTelling, SaidDown, Tells, AnnouncementsMatchRow, Quiet, T
<1> QED BY <1>1, <1>2, <1>3, PTL DEF Spec

-----------------------------------------------------------------------------
(* Confirmation after a streak *)

\* What an entry of the in-memory registry says while the loops work on it: a healthy check
\* holds no alert that has one, the count that the active check read is still there, and
\* (but for the check that just succeeded) all but the first of its failures are the last ones.
Entry(i, a) ==
  /\ htask[i][a] \in {"report", "set"} => registry[a] = 0
  /\ T(i, a).at = "report" =>
       IF T(i, a).count > 0 THEN registry[a] = T(i, a).count ELSE registry[a] <= 1
  /\ T(i, a).at \in {"set", "remove"} =>
       T(i, a).count = registry[a] + 1 /\ registry[a] >= 1 /\ streak[a] >= registry[a]
  /\ T(i, a).at = "drop" => registry[a] > 0
  /\ T(i, a).at # "drop" /\ registry[a] > 0 => streak[a] >= registry[a] - 1

Entries == \A i \in Instances, a \in Alerts : Entry(i, a)

StreakInv == LocalInv /\ Entries

\* A step of one alert, in the one instance there is.
LEMMA EntryStep ==
  ASSUME ~SharedRegistry, StreakInv, NEW i \in Instances, NEW a \in Alerts,
         \A b \in Alerts \ {a} : /\ atask'[i][b] = T(i, b) /\ htask'[i][b] = htask[i][b]
                                 /\ registry'[b] = registry[b] /\ streak'[b] = streak[b],
         Entry(i, a)'
  PROVE Entries'
<1>1. \A j \in Instances : j = i
  BY AlertAssumption
<1>2. ASSUME NEW b \in Alerts, b # a
      PROVE Entry(i, b)'
  BY <1>2 DEF StreakInv, Entries, Entry, T
<1> QED BY <1>1, <1>2 DEF Entries

LEMMA EntryFacts ==
  ASSUME StreakInv, NEW i \in Instances, NEW a \in Alerts
  PROVE /\ TypeInv /\ TypeOK /\ Entry(i, a) /\ T(i, a) \in Task /\ T(i, a).count \in 0 .. Threshold
        /\ registry[a] \in 0 .. Threshold - 1 /\ streak[a] \in 0 .. Threshold /\ Threshold \in Nat
        /\ T(i, a).at \in {"report", "set"} => T(i, a).count < Threshold
  BY AlertAssumption DEF StreakInv, Entries, LocalInv, TypeInv, TypeOK, CountsBelow, T, Task

LEMMA PutAnswers ==
  ASSUME ~RegistryErrors, TypeOK, NEW a \in Alerts, NEW n, PutRegistry(a, n)
  PROVE registry'[a] = n /\ \A b \in Alerts \ {a} : registry'[b] = registry[b]
  BY DEF TypeOK, PutRegistry

LEMMA ReportCounts ==
  ASSUME TypeOK, NEW a \in Alerts, Reported(a)
  PROVE /\ streak'[a] = IF online[a] THEN 0 ELSE IF streak[a] < Threshold THEN streak[a] + 1 ELSE streak[a]
        /\ \A b \in Alerts \ {a} : streak'[b] = streak[b]
  BY DEF TypeOK, Reported

LEMMA HealthyStepMoves ==
  ASSUME TypeOK, NEW i \in Instances, NEW a \in Alerts, NEW from, NEW to, HealthyStep(i, a, from, to)
  PROVE htask[i][a] = from /\ htask'[i][a] = to /\ \A b \in Alerts \ {a} : htask'[i][b] = htask[i][b]
  BY DEF TypeOK, HealthyStep

LEMMA HealthyKeepsEntries ==
  ASSUME ~SharedRegistry, ~RegistryErrors, StreakInv, NEW i \in Instances,
         HealthyLoop(i) \/ \E a \in Alerts : HealthyError(i, a)
  PROVE Entries'
<1>1. TypeOK
  BY DEF StreakInv, LocalInv, TypeInv
<1>2. CASE HealthyLoad(i) \/ HealthyJoin(i)
  BY <1>2 DEF HealthyLoad, HealthyJoin, activeVars, historyVars, StreakInv, Entries, Entry, T
<1>3. CASE HealthySkip(i)
  <2>1. \A a \in Alerts : htask'[i][a] \in {"report", "set"} => registry[a] = 0
    BY <1>1, <1>3 DEF HealthySkip, AllIds, InRegistry, TypeOK
  <2>2. \A j \in Instances : j = i
    BY AlertAssumption
  <2>3. registry' = registry /\ streak' = streak /\ atask' = atask
    BY <1>3 DEF HealthySkip, activeVars, historyVars
  <2> QED BY <2>1, <2>2, <2>3 DEF StreakInv, Entries, Entry, T
<1>4. ASSUME NEW a \in Alerts, HealthyReport(i, a)
      PROVE Entries'
  <2>1. htask[i][a] = "report" /\ htask'[i][a] \in {"none", "set"}
        /\ \A b \in Alerts \ {a} : htask'[i][b] = htask[i][b]
    BY <1>1, <1>4, HealthyStepMoves DEF HealthyReport
  <2>2. registry' = registry /\ atask' = atask /\ \A b \in Alerts \ {a} : streak'[b] = streak[b]
    BY <1>1, <1>4, ReportCounts DEF HealthyReport, activeVars
  <2>3. registry[a] = 0
    BY <2>1, EntryFacts DEF Entry
  <2>4. Entry(i, a)'
    BY <2>1, <2>2, <2>3, EntryFacts DEF Entry, T
  <2> QED BY <2>1, <2>2, <2>4, EntryStep DEF T
<1>5. ASSUME NEW a \in Alerts, HealthyError(i, a)
      PROVE Entries'
  <2>1. htask'[i][a] = "none" /\ \A b \in Alerts \ {a} : htask'[i][b] = htask[i][b]
    BY <1>1, <1>5, HealthyStepMoves DEF HealthyError
  <2>2. registry' = registry /\ atask' = atask /\ streak' = streak
    BY <1>5 DEF HealthyError, activeVars, historyVars
  <2>3. Entry(i, a)'
    BY <2>1, <2>2, EntryFacts DEF Entry, T
  <2> QED BY <2>1, <2>2, <2>3, EntryStep DEF T
<1>6. ASSUME NEW a \in Alerts, HealthySet(i, a)
      PROVE Entries'
  <2>1. htask[i][a] = "set" /\ htask'[i][a] = "none" /\ \A b \in Alerts \ {a} : htask'[i][b] = htask[i][b]
    BY <1>1, <1>6, HealthyStepMoves DEF HealthySet
  <2>2. atask' = atask /\ streak' = streak
    BY <1>6 DEF HealthySet, activeVars, historyVars
  <2>3. registry'[a] = 1 /\ \A b \in Alerts \ {a} : registry'[b] = registry[b]
    BY <1>1, <1>6, PutAnswers DEF HealthySet
  <2>4. registry[a] = 0
    BY <2>1, EntryFacts DEF Entry
  <2>5. Entry(i, a)'
    BY <2>1, <2>2, <2>3, <2>4, EntryFacts DEF Entry, T
  <2> QED BY <2>1, <2>2, <2>3, <2>5, EntryStep DEF T
<1> QED BY <1>2, <1>3, <1>4, <1>5, <1>6 DEF HealthyLoop

\* A step that changes neither the entry nor the streak, of a task that does not go on with
\* a count that it read.
LEMMA TaskLeavesEntry ==
  ASSUME ~SharedRegistry, StreakInv, NEW i \in Instances, NEW a \in Alerts, NEW from \in Steps,
         Moved(i, a, from), from # "drop", registry' = registry, streak' = streak,
         atask'[i][a].at \notin {"report", "set", "remove", "drop"}
  PROVE Entries'
<1>1. Entry(i, a)'
  BY EntryFacts DEF Moved, healthyVars, Entry, T
<1>2. \A b \in Alerts \ {a} : atask'[i][b] = T(i, b) /\ htask'[i][b] = htask[i][b]
  BY DEF Moved, healthyVars, T
<1> QED BY <1>1, <1>2, EntryStep

LEMMA ReportKeepsEntries ==
  ASSUME ~SharedRegistry, StreakInv, NEW i \in Instances, NEW a \in Alerts, ActiveReport(i, a)
  PROVE /\ Entries'
        /\ atask'[i][a].at = "remove" => streak'[a] >= Threshold - 1
<1>1. TypeInv /\ TypeOK /\ registry' = registry
  BY EntryFacts DEF ActiveReport
<1>2. /\ streak'[a] = IF online[a] THEN 0 ELSE IF streak[a] < Threshold THEN streak[a] + 1 ELSE streak[a]
      /\ \A b \in Alerts \ {a} : streak'[b] = streak[b]
  BY <1>1, ReportCounts DEF ActiveReport
<1>3. Moved(i, a, "report")
  BY <1>1, ReportMoves DEF Goes, Finishes
<1>4. Entry(i, a)' /\ (atask'[i][a].at = "remove" => streak'[a] >= Threshold - 1)
  <2>1. CASE T(i, a).count > 0 /\ online[a] /\ Goes(i, a, "report", "drop")
    BY <1>1, <1>3, <2>1, EntryFacts DEF Goes, Moved, healthyVars, Entry, T
  <2>2. CASE /\ T(i, a).count > 0 /\ ~online[a] /\ atask'[i][a].count = T(i, a).count + 1
             /\ Goes(i, a, "report", "remove") \/ Goes(i, a, "report", "set")
             /\ Goes(i, a, "report", "remove") => T(i, a).count + 1 >= Threshold
    <3>1. registry[a] = T(i, a).count /\ streak[a] >= registry[a] - 1
      BY <1>3, <2>2, EntryFacts DEF Moved, Entry
    <3>2. streak'[a] >= registry[a]
      BY <1>2, <2>2, <3>1, EntryFacts
    <3>3. atask'[i][a].at \in {"remove", "set"} /\ atask'[i][a].count = registry[a] + 1
      BY <2>2, <3>1 DEF Goes
    <3>4. atask'[i][a].at = "remove" => streak'[a] >= Threshold - 1
      <4>1. atask'[i][a].at = "remove" => Goes(i, a, "report", "remove")
        BY <2>2 DEF Goes
      <4>2. streak'[a] \in 0 .. Threshold
        BY <1>1, ReportTypes DEF ActiveReport
      <4> QED BY <2>2, <3>1, <3>2, <4>1, <4>2, EntryFacts
    <3>5. htask'[i][a] = htask[i][a] /\ registry[a] >= 1 /\ registry'[a] = registry[a]
      BY <1>1, <1>3, <2>2, <3>1, EntryFacts DEF Moved, healthyVars
    <3>6. Entry(i, a)'
      <4>1. streak'[a] >= registry[a] - 1
        BY <1>1, <3>2, EntryFacts, ReportTypes DEF ActiveReport
      <4> QED BY <3>2, <3>3, <3>5, <4>1, EntryFacts DEF Entry, T
    <3> QED BY <3>4, <3>6
  <2>3. CASE T(i, a).count = 0 /\ atask'[i][a].at \in {"recover", "count", "none"}
    <3>1. registry[a] <= 1
      BY <1>3, <2>3, EntryFacts DEF Moved, Entry
    <3>2. streak'[a] >= registry'[a] - 1
      BY <1>1, <1>2, <3>1, EntryFacts
    <3> QED BY <1>1, <1>3, <2>3, <3>2, EntryFacts DEF Moved, healthyVars, Entry, T
  <2>4. T(i, a).count = 0 => atask'[i][a].at \in {"recover", "count", "none"}
    BY <1>1, ReportMoves, NewTasks, EntryFacts DEF Goes, Finishes
  <2>5. CASE T(i, a).count > 0
    <3>1. ~(Goes(i, a, "report", "remove") /\ Goes(i, a, "report", "set"))
      BY DEF Goes
    <3>2. T(i, a).count # 0 /\ (T(i, a).count + 1 < Threshold => ~(T(i, a).count + 1 >= Threshold))
      BY <2>5, EntryFacts
    <3> QED BY <1>1, <2>1, <2>2, <2>5, <3>1, <3>2, ReportMoves
  <2>6. T(i, a).count = 0 \/ T(i, a).count > 0
    BY EntryFacts
  <2> QED BY <2>3, <2>4, <2>5, <2>6
<1>5. \A b \in Alerts \ {a} : atask'[i][b] = T(i, b) /\ htask'[i][b] = htask[i][b]
  BY <1>3 DEF Moved, healthyVars, T
<1> QED BY <1>1, <1>2, <1>4, <1>5, EntryStep

LEMMA TaskStepKeepsEntries ==
  ASSUME ~SharedRegistry, ~RegistryErrors, StreakInv, NEW i \in Instances, NEW a \in Alerts,
         ActiveStep(i, a) \/ ActiveError(i, a)
  PROVE Entries'
<1>1. TypeInv /\ TypeOK /\ T(i, a) \in Task
  BY EntryFacts
<1>2. CASE ActiveGet(i, a)
  <2>1. PICK n \in Counts(a) : Goes(i, a, "get", "report") /\ atask'[i][a].count = n
    BY <1>1, <1>2, GetMoves
  <2>2. atask'[i][a].count = registry[a]
    BY <2>1 DEF Counts
  <2>3. registry' = registry /\ streak' = streak
    BY <1>2 DEF ActiveGet, historyVars
  <2>4. Entry(i, a)'
    BY <2>1, <2>2, <2>3, EntryFacts DEF Goes, Moved, healthyVars, Entry, T
  <2>5. \A b \in Alerts \ {a} : atask'[i][b] = T(i, b) /\ htask'[i][b] = htask[i][b]
    BY <2>1 DEF Goes, Moved, healthyVars, T
  <2> QED BY <2>3, <2>4, <2>5, EntryStep
<1>3. CASE ActiveReport(i, a)
  BY <1>3, ReportKeepsEntries
<1>4. CASE Accumulate(i, a)
  <2>1. Finishes(i, a, "set")
    BY <1>1, <1>4, StepFinishes DEF Accumulate
  <2>2. registry'[a] = T(i, a).count /\ \A b \in Alerts \ {a} : registry'[b] = registry[b]
    BY <1>1, <1>4, PutAnswers DEF Accumulate
  <2>3. streak' = streak /\ atask'[i][a].at = "none" /\ htask' = htask
    BY <1>4, <2>1, NewTasks DEF Accumulate, historyVars, Finishes, Moved, healthyVars
  <2>4. T(i, a).count = registry[a] + 1 /\ registry[a] >= 1 /\ streak[a] >= registry[a]
    BY <2>1, EntryFacts DEF Finishes, Moved, Entry
  <2>5. htask[i][a] \notin {"report", "set"} /\ streak[a] >= registry'[a] - 1
    BY <2>2, <2>4, EntryFacts DEF Entry
  <2>6. Entry(i, a)'
    BY <2>3, <2>5 DEF Entry, T
  <2>7. \A b \in Alerts \ {a} : atask'[i][b] = T(i, b)
    BY <2>1 DEF Finishes, Moved, T
  <2> QED BY <2>2, <2>3, <2>6, <2>7, EntryStep
<1>5. CASE LeaveConfirmation(i, a) \/ CancelConfirmation(i, a)
  <2>1. Goes(i, a, "remove", "promote") \/ Finishes(i, a, "drop")
    BY <1>1, <1>5, StepGoes, StepFinishes DEF LeaveConfirmation, CancelConfirmation, Steps
  <2>2. registry'[a] = 0 /\ \A b \in Alerts \ {a} : registry'[b] = registry[b]
    BY <1>1, <1>5, PutAnswers DEF LeaveConfirmation, CancelConfirmation
  <2>3. streak' = streak /\ atask'[i][a].at \in {"none", "promote"} /\ htask' = htask
    BY <1>5, <2>1, NewTasks DEF LeaveConfirmation, CancelConfirmation, historyVars, Finishes, Goes, Moved, healthyVars
  <2>4. Entry(i, a)'
    BY <2>2, <2>3 DEF Entry, T
  <2>5. \A b \in Alerts \ {a} : atask'[i][b] = T(i, b)
    BY <2>1 DEF Finishes, Goes, Moved, T
  <2> QED BY <2>2, <2>3, <2>4, <2>5, EntryStep
<1>6. CASE Promote(i, a) \/ CountFailure(i, a) \/ Recover(i, a) \/ Hook(i, a) \/ ActiveError(i, a)
  <2>1. registry' = registry /\ streak' = streak
    BY <1>6 DEF Promote, CountFailure, Recover, Hook, ActiveError, historyVars
  <2>2. \A from : Step(i, a, from, NoTask) => Finishes(i, a, from)
    BY <1>1, StepFinishes
  <2>3. \A from, kind : kind \in Kinds /\ Step(i, a, from, Notify(i, a, kind)) => Notifies(i, a, from, kind)
    BY <1>1, StepNotifies
  <2>4. \E from \in Steps \ {"drop"} : Finishes(i, a, from) \/ \E kind \in Kinds : Notifies(i, a, from, kind)
    BY <1>6, <2>2, <2>3 DEF Promote, CountFailure, Recover, Hook, ActiveError, Steps, Kinds
  <2>5. \E from \in Steps \ {"drop"} : Moved(i, a, from) /\ atask'[i][a].at \in {"none", "claim"}
    BY <2>4, NewTasks DEF Finishes, Notifies
  <2> QED BY <2>1, <2>5, TaskLeavesEntry
<1>7. CASE Claim(i, a) \/ Mail(i, a) \/ Stamp(i, a)
  <2>1. registry' = registry /\ streak' = streak
    BY <1>7 DEF Claim, Mail, Stamp, historyVars
  <2>2. \E from \in Steps \ {"drop"} : Moved(i, a, from) /\ atask'[i][a].at \in {"none", "mail", "stamp", "hook"}
    BY <1>1, <1>7, StepGoes, StepFinishes, MailMoves, NewTasks DEF Claim, Stamp, Goes, Finishes, Steps
  <2> QED BY <2>1, <2>2, TaskLeavesEntry
<1> QED BY <1>2, <1>3, <1>4, <1>5, <1>6, <1>7 DEF ActiveStep

\* A cycle loads while no task has begun, or the loops die with the registry.
LEMMA LoadsKeepEntries ==
  ASSUME ~SharedRegistry, StreakInv, TasksLoad, NEW i \in Instances,
         streak' = streak,
         \/ /\ registry' = registry /\ htask' = htask
            /\ \A a \in Alerts : T(i, a).at \in {"none", "get"}
         \/ \A a \in Alerts : registry'[a] = 0 /\ atask'[i][a] = NoTask
  PROVE Entries'
<1>1. \A j \in Instances : j = i
  BY AlertAssumption
<1>2. \A a \in Alerts : NoTask.at = "none" /\ NewTask(RowOf(a)).at = "get"
  BY LoadedRows, NewTasks DEF StreakInv, LocalInv, TypeInv
<1>3. ASSUME NEW a \in Alerts
      PROVE Entry(i, a)'
  <2>1. CASE registry'[a] = 0 /\ atask'[i][a] = NoTask
    BY <1>2, <2>1 DEF Entry, T
  <2>2. CASE registry' = registry /\ htask' = htask /\ T(i, a).at \in {"none", "get"}
    <3>1. atask'[i][a].at \in {"none", "get"}
      BY <1>2, <2>2 DEF TasksLoad
    <3> QED BY <2>2, <3>1, EntryFacts DEF Entry, T
  <2> QED BY <2>1, <2>2
<1> QED BY <1>1, <1>3 DEF Entries

LEMMA StreakStep ==
  ASSUME ~SharedRegistry, ~RegistryErrors, StreakInv, [Next]_vars
  PROVE StreakInv'
<1>1. LocalInv /\ LocalInv' /\ TypeInv /\ TypeOK
  BY LocalStep DEF StreakInv, LocalInv, TypeInv
<1>2. SUFFICES Entries'
  BY <1>1 DEF StreakInv
<1>3. ASSUME htask' = htask, registry' = registry, streak' = streak,
             \A i \in Instances, a \in Alerts :
               atask'[i][a].at = T(i, a).at /\ atask'[i][a].count = T(i, a).count
      PROVE Entries'
  BY <1>3 DEF StreakInv, Entries, Entry, T
<1>4. CASE UNCHANGED vars
  BY <1>3, <1>4 DEF vars, healthyVars, activeVars, historyVars, T
<1>5. ASSUME NEW i \in Instances, HealthyLoop(i) \/ \E a \in Alerts : HealthyError(i, a)
      PROVE Entries'
  BY <1>5, HealthyKeepsEntries
<1>6. ASSUME NEW i \in Instances, NEW a \in Alerts, ActiveStep(i, a) \/ ActiveError(i, a)
      PROVE Entries'
  BY <1>6, TaskStepKeepsEntries
<1>7. ASSUME NEW i \in Instances, ActiveLoad(i) \/ ActiveExtras(i)
      PROVE Entries'
  <2>1. registry' = registry /\ htask' = htask /\ streak' = streak /\ acycle[i] \in {"idle", "joined"}
    BY <1>7 DEF ActiveLoad, ActiveExtras, healthyVars, historyVars
  <2>2. \A a \in Alerts : T(i, a).at \in {"none", "get"}
    BY <1>1, <2>1 DEF LocalInv, Resting
  <2>3. TasksLoad
    BY <1>1, <1>7, ActiveLoadLoads, ActiveExtrasLoads
  <2> QED BY <2>1, <2>2, <2>3, LoadsKeepEntries
<1>8. ASSUME NEW i \in Instances, ActiveIds(i) \/ ActiveJoin(i)
      PROVE Entries'
  BY <1>3, <1>8 DEF ActiveIds, ActiveJoin, healthyVars, historyVars, T
<1>9. ASSUME NEW i \in Instances, Crash(i)
      PROVE Entries'
  <2>1. TasksLoad /\ \A a \in Alerts : atask'[i][a] = NoTask
    BY <1>1, <1>9, CrashLoads
  <2>2. streak' = streak /\ \A a \in Alerts : registry'[a] = 0
    BY <1>9 DEF Crash, historyVars
  <2> QED BY <2>1, <2>2, LoadsKeepEntries
<1>10. ASSUME NEW a \in Alerts, Flap(a)
       PROVE Entries'
  BY <1>3, <1>10 DEF Flap, healthyVars, activeVars, historyVars, T
<1>11. CASE NextBucket
  BY <1>1, <1>3, <1>11, LateTasks DEF NextBucket, healthyVars
<1> QED BY <1>4, <1>5, <1>6, <1>7, <1>8, <1>9, <1>10, <1>11 DEF Next, ActiveLoop

LEMMA StreakInit ==
  ASSUME Init
  PROVE StreakInv
<1>1. LocalInv
  BY LocalInit
<1>2. \A i \in Instances, a \in Alerts : T(i, a).at = "none"
  BY <1>1 DEF Init, LocalInv, Resting
<1>3. \A i \in Instances, a \in Alerts : registry[a] = 0
  BY DEF Init
<1> QED BY <1>1, <1>2, <1>3 DEF StreakInv, Entries, Entry

LEMMA OnlyReportsLeave ==
  ASSUME ~SharedRegistry, StreakInv, [Next]_vars, NEW i \in Instances, NEW a \in Alerts,
         T(i, a).at = "report", atask'[i][a].at = "remove"
  PROVE ActiveReport(i, a)
<1>1. LocalInv /\ TypeInv /\ TypeOK
  BY DEF StreakInv, LocalInv, TypeInv
<1>2. \A j \in Instances : j = i
  BY AlertAssumption
<1>3. atask'[i][a] # NoTask /\ NewTask(RowOf(a)).at = "get" /\ atask'[i][a] # T(i, a)
  BY <1>1, NewTasks, LoadedRows
<1>4. ~UNCHANGED vars
  BY <1>3 DEF vars, activeVars, T
<1>5. ~(HealthyLoop(i) \/ \E b \in Alerts : HealthyError(i, b))
  BY <1>3 DEF HealthyLoop, HealthyLoad, HealthySkip, HealthyReport, HealthyError, HealthySet, HealthyJoin,
     activeVars, T
<1>6. ~(ActiveLoad(i) \/ ActiveExtras(i) \/ Crash(i))
  BY <1>1, <1>3, ActiveLoadLoads, ActiveExtrasLoads, CrashLoads DEF TasksLoad
<1>7. ~(ActiveIds(i) \/ ActiveJoin(i)) /\ ~\E b \in Alerts : Flap(b)
  BY <1>3 DEF ActiveIds, ActiveJoin, Flap, activeVars, T
<1>8. ~NextBucket
  BY <1>1, LateTasks
<1>9. PICK b \in Alerts : ActiveStep(i, b) \/ ActiveError(i, b)
  BY <1>2, <1>4, <1>5, <1>6, <1>7, <1>8 DEF Next, ActiveLoop
<1>10. b = a
  BY <1>1, <1>3, <1>9, TaskStep DEF Moved, T
<1>11. ~ActiveError(i, a)
  BY <1>1, <1>3, StepFinishes DEF ActiveError, Finishes
<1> QED BY <1>9, <1>10, <1>11 DEF ActiveStep, ActiveGet, Accumulate, LeaveConfirmation, Promote,
       CancelConfirmation, CountFailure, Recover, Claim, Mail, Stamp, Hook, Step, T

\* Without Redis an alert is confirmed only by the last of at least
\* CONFIRMATION_THRESHOLD - 1 failed reports in a row, for every threshold and number of
\* alerts, whatever crashes, failing queries and the other loop do.
THEOREM ConfirmationTakesAStreak == ASSUME ~SharedRegistry, ~RegistryErrors
                                    PROVE  Spec => ConfirmedAfterStreak
<1>1. Init => StreakInv
  BY StreakInit
<1>2. StreakInv /\ [Next]_vars => StreakInv'
  BY StreakStep
<1>3. ASSUME StreakInv, [Next]_vars, NEW i \in Instances, NEW a \in Alerts,
             atask[i][a].at = "report", atask'[i][a].at = "remove"
      PROVE streak'[a] >= Threshold - 1
  BY <1>3, OnlyReportsLeave, ReportKeepsEntries DEF T
<1>4. StreakInv /\ [Next]_vars =>
        [\A i \in Instances, a \in Alerts :
           atask[i][a].at = "report" /\ atask'[i][a].at = "remove" => streak'[a] >= Threshold - 1]_vars
  BY <1>3
<1> QED BY <1>1, <1>2, <1>4, PTL DEF Spec, ConfirmedAfterStreak
=============================================================================
