------------------------------ MODULE LoopLock ------------------------------
(***************************************************************************)
(* One background loop (healthy_check_loop, active_check_loop, the email   *)
(* or the webhook outbox worker) run by every server instance and guarded  *)
(* by one distributed lock: distributed/lock.rs with the loop skeleton its *)
(* callers share,                                                          *)
(*     interval.tick().await;                                              *)
(*     ok = if holding { try_renew } else { try_acquire };                 *)
(*     if !ok { holding = false; continue }                                *)
(*     ... do the work of one iteration ...                                *)
(* Time is modelled by countdowns, so the model has no clock to bound.     *)
(***************************************************************************)
EXTENDS RedisLease

CONSTANTS
  Instances,    \* server processes
  TTL,          \* lock time to live
  Poll,         \* period of the loop's tokio interval
  MaxWork,      \* longest time one iteration may take
  MaxDue,       \* bound: missed ticks remembered (tokio bursts them)
  MaxCrashes,   \* bound: process crashes in a behaviour
  MaxOutages    \* bound: Redis outages in a behaviour

ASSUME LoopLockAssumption ==
  /\ Nobody \notin Instances
  /\ TTL \in Nat \ {0}
  /\ Poll \in Nat \ {0}
  /\ MaxWork \in Nat
  /\ MaxDue \in Nat \ {0}
  /\ MaxCrashes \in Nat
  /\ MaxOutages \in Nat

VARIABLES
  key,       \* the lock's key in Redis
  redis,     \* can the instances reach Redis?
  outages,   \* outages left
  crashes,   \* crashes left
  up,        \* up[i]: process i runs
  holding,   \* the loop's local flag holding_lock
  working,   \* is i inside an iteration?
  worked,    \* how long i's iteration has lasted
  wait,      \* time until i's interval fires again
  due,       \* ticks of i's interval that fired and were not consumed
  gap        \* history: for how long no instance has been working

vars == <<key, redis, outages, crashes, up, holding, working, worked, wait,
          due, gap>>

loopVars == <<holding, working, worked, wait, due>>

MaxGap == TTL + Poll + 1     \* where the history variable saturates

\* Every variable is in its range.
TypeOK ==
  /\ key \in Keys(Instances, TTL)
  /\ redis \in BOOLEAN
  /\ outages \in 0 .. MaxOutages
  /\ crashes \in 0 .. MaxCrashes
  /\ up \in [Instances -> BOOLEAN]
  /\ holding \in [Instances -> BOOLEAN]
  /\ working \in [Instances -> BOOLEAN]
  /\ worked \in [Instances -> 0 .. MaxWork]
  /\ wait \in [Instances -> 1 .. Poll]
  /\ due \in [Instances -> 0 .. MaxDue]
  /\ gap \in 0 .. MaxGap

Init ==
  /\ key = NoKey
  /\ redis = TRUE
  /\ outages = MaxOutages
  /\ crashes = MaxCrashes
  /\ up = [i \in Instances |-> FALSE]
  /\ holding = [i \in Instances |-> FALSE]
  /\ working = [i \in Instances |-> FALSE]
  /\ worked = [i \in Instances |-> 0]
  /\ wait = [i \in Instances |-> Poll]
  /\ due = [i \in Instances |-> 0]
  /\ gap = 0

-----------------------------------------------------------------------------
\* The process starts: the loop is spawned with holding_lock = false (Init and
\* Crash leave it so), and the first tick of a tokio interval completes at once.
Start(i) ==
  /\ ~up[i]
  /\ up' = [up EXCEPT ![i] = TRUE]
  /\ due' = [due EXCEPT ![i] = 1]
  /\ UNCHANGED <<key, redis, outages, crashes, holding, working, worked, wait, gap>>

\* The process dies at any point: its local state is gone, and the lock is never
\* released by the code.
Crash(i) ==
  /\ up[i] /\ crashes > 0
  /\ crashes' = crashes - 1
  /\ up' = [up EXCEPT ![i] = FALSE]
  /\ holding' = [holding EXCEPT ![i] = FALSE]
  /\ working' = [working EXCEPT ![i] = FALSE]
  /\ worked' = [worked EXCEPT ![i] = 0]
  /\ due' = [due EXCEPT ![i] = 0]
  /\ wait' = [wait EXCEPT ![i] = Poll]
  /\ key' = Orphaned(key, i)
  /\ UNCHANGED <<redis, outages, gap>>

-----------------------------------------------------------------------------
\* An idle loop whose interval has fired consumes the tick.
Ticking(i) == up[i] /\ ~working[i] /\ due[i] > 0

Consume(i) == due' = [due EXCEPT ![i] = @ - 1]

StartIteration(i) ==
  /\ working' = [working EXCEPT ![i] = TRUE]
  /\ gap' = 0
  /\ UNCHANGED <<redis, outages, crashes, up, worked, wait>>

SkipCycle == UNCHANGED <<redis, outages, crashes, up, working, worked, wait, gap>>

\* try_renew answers 1: the key still holds our id and its TTL is reset.
TickRenew(i) ==
  /\ Ticking(i) /\ holding[i] /\ redis
  /\ OwnedBy(key, i)
  /\ key' = RenewIfOwned(key, i, TTL)
  /\ Consume(i) /\ StartIteration(i)
  /\ UNCHANGED holding

\* Mutant: the cycle is skipped without `holding_lock = false`.
TickLostKeepsHolding(i) ==
  /\ Ticking(i) /\ holding[i] /\ redis
  /\ ~OwnedBy(key, i)
  /\ Consume(i) /\ SkipCycle
  /\ UNCHANGED <<key, holding>>

\* try_renew answers 0: the key expired or another instance took over.
TickLost(i) ==
  /\ Ticking(i) /\ holding[i] /\ redis
  /\ ~OwnedBy(key, i)
  /\ holding' = [holding EXCEPT ![i] = FALSE]
  /\ Consume(i) /\ SkipCycle
  /\ UNCHANGED key

\* try_acquire answers OK: there was no key.
TickAcquire(i) ==
  /\ Ticking(i) /\ ~holding[i] /\ redis
  /\ Acquirable(key)
  /\ key' = SetNX(key, i, TTL)
  /\ holding' = [holding EXCEPT ![i] = TRUE]
  /\ Consume(i) /\ StartIteration(i)

\* try_acquire answers nil: another instance holds the key.
TickSkip(i) ==
  /\ Ticking(i) /\ ~holding[i] /\ redis
  /\ ~Acquirable(key)
  /\ Consume(i) /\ SkipCycle
  /\ UNCHANGED <<key, holding>>

\* Redis does not answer: both calls return true (fail-open), so the loop
\* believes it holds the lock.
TickFailOpen(i) ==
  /\ Ticking(i) /\ ~redis
  /\ holding' = [holding EXCEPT ![i] = TRUE]
  /\ Consume(i) /\ StartIteration(i)
  /\ UNCHANGED key

Tick(i) ==
  TickRenew(i) \/ TickLost(i) \/ TickAcquire(i) \/ TickSkip(i) \/ TickFailOpen(i)

\* The iteration's work ends and the loop goes back to interval.tick().
Finish(i) ==
  /\ up[i] /\ working[i]
  /\ working' = [working EXCEPT ![i] = FALSE]
  /\ worked' = [worked EXCEPT ![i] = 0]
  /\ UNCHANGED <<key, redis, outages, crashes, up, holding, wait, due, gap>>

-----------------------------------------------------------------------------
RedisDown ==
  /\ redis /\ outages > 0
  /\ redis' = FALSE
  /\ outages' = outages - 1
  /\ UNCHANGED <<key, crashes, up, loopVars, gap>>

\* Redis comes back, with its keys or (restarted without persistence) empty.
RedisUp ==
  /\ ~redis
  /\ redis' = TRUE
  /\ key' \in {key, NoKey}
  /\ UNCHANGED <<outages, crashes, up, loopVars, gap>>

Capped(n, max) == IF n > max THEN max ELSE n

\* One unit of time.  A tick that fired is served before time goes on, and no
\* iteration lasts longer than MaxWork.
Elapse ==
  /\ \A i \in Instances : ~Ticking(i)
  /\ \A i \in Instances : working[i] => worked[i] < MaxWork
  /\ key' = Elapsed(key)
  /\ worked' = [i \in Instances |-> IF working[i] THEN worked[i] + 1 ELSE 0]
  /\ wait' = [i \in Instances |-> IF up[i] /\ wait[i] > 1 THEN wait[i] - 1 ELSE Poll]
  /\ due' = [i \in Instances |-> IF up[i] /\ wait[i] = 1
                                 THEN Capped(due[i] + 1, MaxDue) ELSE due[i]]
  /\ gap' = IF (\E i \in Instances : up[i]) /\ (\A i \in Instances : ~working[i])
            THEN Capped(gap + 1, MaxGap) ELSE 0
  /\ UNCHANGED <<redis, outages, crashes, up, holding, working>>

-----------------------------------------------------------------------------
Next ==
  \/ \E i \in Instances : Start(i) \/ Crash(i) \/ Tick(i) \/ Finish(i)
  \/ RedisDown \/ RedisUp \/ Elapse

Spec == Init /\ [][Next]_vars

\* A loop that was spawned keeps being polled by the runtime, an iteration ends,
\* an outage ends, and time goes on.
Fairness ==
  /\ WF_vars(Elapse)
  /\ WF_vars(RedisUp)
  /\ \A i \in Instances : WF_vars(Tick(i)) /\ WF_vars(Finish(i)) /\ WF_vars(Start(i))

FairSpec == Spec /\ Fairness

-----------------------------------------------------------------------------
\* Redis answered every call so far.
RedisNeverFailed == outages = MaxOutages

\* i is inside an iteration that has not lasted for a whole time to live.
YoungIteration(i) == working[i] /\ worked[i] < TTL

\* As long as Redis answers, at most one instance is in a young iteration of the loop:
\* iterations overlap only if one of them outlives the lock's time to live
\* (distributed/lock.rs:3-4).
OneIterationAtATime ==
  RedisNeverFailed =>
    \A i, j \in Instances : YoungIteration(i) /\ YoungIteration(j) => i = j

\* As long as Redis answers, a live holder that waits for its next tick or is in a
\* young iteration owns the key: it renews "on every tick rather than once per TTL
\* window" and loses the lock only by overrunning (distributed/lock.rs:70-72).
HolderKeepsKey ==
  RedisNeverFailed =>
    \A i \in Instances :
      YoungIteration(i) \/ (holding[i] /\ due[i] = 0) => key.owner = i

\* As long as Redis answers, the loop is silent for at most one time to live plus one
\* poll after its holder died or lost the key (email_outbox.rs:55-56).
TakeoverInTime == RedisNeverFailed => gap <= TTL + Poll

\* Once outages, crashes and restarts are over, the instances that failed open
\* settle on one holder: young iterations own the key again, for ever.
SettlesOnOneHolder ==
  <>[](\A i \in Instances : YoungIteration(i) => key.owner = i)

\* Some instance keeps working, again and again: no schedule of losses, skips
\* and takeovers silences the loop everywhere.
LoopNeverStops == []<>(\E i \in Instances : working[i])
=============================================================================
