-------------------------- MODULE LoopLock_proofs --------------------------
(***************************************************************************)
(* LoopLock for every number of instances, every time to live, every       *)
(* period and every length of an iteration: types, and - as long as Redis  *)
(* answers and the time to live exceeds the period - mutual exclusion of   *)
(* young iterations, continuity of the holder's lease and a bound on the   *)
(* silence after a holder's death.                                         *)
(***************************************************************************)
EXTENDS LoopLock, TLAPS

\* A unit of time leaves a key or none.
LEMMA ElapsedKey ==
  ASSUME NEW k \in Keys(Instances, TTL)
  PROVE  Elapsed(k) \in Keys(Instances, TTL)
<1>1. NoKey \in Keys(Instances, TTL)
  BY LoopLockAssumption DEF Keys, NoKey
<1>2. ASSUME k.left > 1
      PROVE  [k EXCEPT !.left = @ - 1] \in Keys(Instances, TTL)
  <2>1. k.left \in 0..TTL /\ TTL \in Nat
    BY LoopLockAssumption DEF Keys
  <2>2. k.left - 1 \in 0..TTL
    BY <1>2, <2>1
  <2> QED
    BY <2>2 DEF Keys
<1> QED
  BY <1>1, <1>2 DEF Elapsed

\* What the scripts leave is a key.
LEMMA KeyOps ==
  ASSUME NEW k \in Keys(Instances, TTL), NEW i \in Instances
  PROVE  /\ NoKey \in Keys(Instances, TTL)
         /\ SetNX(k, i, TTL) \in Keys(Instances, TTL)
         /\ RenewIfOwned(k, i, TTL) \in Keys(Instances, TTL)
         /\ Orphaned(k, i) \in Keys(Instances, TTL)
         /\ Elapsed(k) \in Keys(Instances, TTL)
BY LoopLockAssumption
   DEF Keys, NoKey, SetNX, Acquirable, Present, RenewIfOwned, OwnedBy, Orphaned, Elapsed

\* The variables stay in their ranges, whatever the schedule and the faults.
THEOREM TypeCorrect == Spec => []TypeOK
<1>1. Init => TypeOK
  BY LoopLockAssumption DEF Init, TypeOK, MaxGap, Keys, NoKey
<1>2. TypeOK /\ [Next]_vars => TypeOK'
  <2> SUFFICES ASSUME TypeOK, [Next]_vars PROVE TypeOK'
    OBVIOUS
  <2> USE LoopLockAssumption DEF TypeOK
  <2>1. ASSUME NEW i \in Instances, Start(i) PROVE TypeOK'
    BY <2>1 DEF Start
  <2>2. ASSUME NEW i \in Instances, Crash(i) PROVE TypeOK'
    <3>1. key' \in Keys(Instances, TTL)
      BY <2>2, KeyOps DEF Crash
    <3>2. crashes' \in 0 .. MaxCrashes
      BY <2>2 DEF Crash
    <3> QED BY <2>2, <3>1, <3>2 DEF Crash
  <2>3. ASSUME NEW i \in Instances, TickRenew(i) PROVE TypeOK'
    <3>1. key' \in Keys(Instances, TTL)
      BY <2>3, KeyOps DEF TickRenew
    <3>2. due' \in [Instances -> 0 .. MaxDue]
      BY <2>3 DEF TickRenew, Ticking, Consume
    <3>3. gap' \in 0 .. MaxGap
      BY <2>3 DEF TickRenew, StartIteration, MaxGap
    <3> QED BY <2>3, <3>1, <3>2, <3>3 DEF TickRenew, StartIteration
  <2>4. ASSUME NEW i \in Instances, TickLost(i) PROVE TypeOK'
    BY <2>4 DEF TickLost, Ticking, Consume, SkipCycle
  <2>5. ASSUME NEW i \in Instances, TickAcquire(i) PROVE TypeOK'
    <3>1. key' \in Keys(Instances, TTL)
      BY <2>5, KeyOps DEF TickAcquire
    <3>2. due' \in [Instances -> 0 .. MaxDue]
      BY <2>5 DEF TickAcquire, Ticking, Consume
    <3>3. gap' \in 0 .. MaxGap
      BY <2>5 DEF TickAcquire, StartIteration, MaxGap
    <3> QED BY <2>5, <3>1, <3>2, <3>3 DEF TickAcquire, StartIteration
  <2>6. ASSUME NEW i \in Instances, TickSkip(i) PROVE TypeOK'
    BY <2>6 DEF TickSkip, Ticking, Consume, SkipCycle
  <2>7. ASSUME NEW i \in Instances, TickFailOpen(i) PROVE TypeOK'
    BY <2>7 DEF TickFailOpen, Ticking, Consume, StartIteration, MaxGap
  <2>8. ASSUME NEW i \in Instances, Finish(i) PROVE TypeOK'
    BY <2>8 DEF Finish
  <2>9. CASE RedisDown
    <3>1. outages' \in 0 .. MaxOutages
      BY <2>9 DEF RedisDown
    <3> QED BY <2>9, <3>1 DEF RedisDown, loopVars
  <2>10. CASE RedisUp
    <3>1. key' \in Keys(Instances, TTL)
      BY <2>10 DEF RedisUp, Keys, NoKey
    <3> QED BY <2>10, <3>1 DEF RedisUp, loopVars
  <2>11. CASE Elapse
    <3>1. key' \in Keys(Instances, TTL)
      <4>1. key \in Keys(Instances, TTL) /\ key' = Elapsed(key)
        BY <2>11 DEF Elapse
      <4> QED BY <4>1, ElapsedKey
    <3>2. worked' \in [Instances -> 0 .. MaxWork]
      BY <2>11 DEF Elapse
    <3>3. wait' \in [Instances -> 1 .. Poll]
      BY <2>11 DEF Elapse
    <3>4. due' \in [Instances -> 0 .. MaxDue]
      BY <2>11 DEF Elapse, Capped
    <3>5. gap' \in 0 .. MaxGap
      BY <2>11 DEF Elapse, Capped, MaxGap
    <3> QED BY <2>11, <3>1, <3>2, <3>3, <3>4, <3>5 DEF Elapse
  <2>12. CASE UNCHANGED vars
    BY <2>12 DEF vars
  <2> QED
    BY <2>1, <2>2, <2>3, <2>4, <2>5, <2>6, <2>7, <2>8, <2>9, <2>10, <2>11, <2>12
    DEF Next, Tick
<1> QED BY <1>1, <1>2, PTL DEF Spec

-----------------------------------------------------------------------------
\* The lock's time to live exceeds the loop's period (config.rs: 360 s for 300 s,
\* 90 s for 60 s; the outboxes: 20 s for 10 s).
TTLExceedsPoll == Poll < TTL

\* The strengthening: an instance in a young iteration owns a key that is at most as
\* old as the iteration, and one that waits for its next tick owns a key that lives
\* longer than the wait.
LeaseInv ==
  RedisNeverFailed =>
    /\ redis
    /\ \A i \in Instances :
         /\ ~up[i] => ~working[i] /\ ~holding[i]
         /\ working[i] => holding[i]
         /\ ~working[i] => worked[i] = 0
         /\ YoungIteration(i) => OwnedBy(key, i) /\ key.left >= TTL - worked[i]
         /\ holding[i] /\ due[i] = 0 => OwnedBy(key, i) /\ key.left > wait[i]

LEMMA LeaseInvHolds == ASSUME TTLExceedsPoll PROVE Spec => []LeaseInv
<1>1. Init => LeaseInv
  BY LoopLockAssumption DEF Init, LeaseInv, YoungIteration
<1>2. TypeOK /\ LeaseInv /\ [Next]_vars => LeaseInv'
  <2> SUFFICES ASSUME TypeOK, LeaseInv, [Next]_vars PROVE LeaseInv'
    OBVIOUS
  <2> USE LoopLockAssumption DEF TypeOK, LeaseInv, RedisNeverFailed, YoungIteration, OwnedBy,
                                 Present, Keys
  <2>1. ASSUME NEW i \in Instances, Start(i) PROVE LeaseInv'
    BY <2>1 DEF Start
  <2>2. ASSUME NEW i \in Instances, Crash(i) PROVE LeaseInv'
    BY <2>2 DEF Crash, Orphaned
  <2>3. ASSUME NEW i \in Instances, TickRenew(i) PROVE LeaseInv'
    BY <2>3, TTLExceedsPoll DEF TTLExceedsPoll, TickRenew, Ticking, Consume, StartIteration, RenewIfOwned
  <2>4. ASSUME NEW i \in Instances, TickLost(i) PROVE LeaseInv'
    BY <2>4 DEF TickLost, Ticking, Consume, SkipCycle
  <2>5. ASSUME NEW i \in Instances, TickAcquire(i) PROVE LeaseInv'
    BY <2>5, TTLExceedsPoll DEF TTLExceedsPoll, TickAcquire, Ticking, Consume, StartIteration, SetNX, Acquirable
  <2>6. ASSUME NEW i \in Instances, TickSkip(i) PROVE LeaseInv'
    BY <2>6 DEF TickSkip, Ticking, Consume, SkipCycle
  <2>7. ASSUME NEW i \in Instances, TickFailOpen(i) PROVE LeaseInv'
    BY <2>7 DEF TickFailOpen, StartIteration
  <2>8. ASSUME NEW i \in Instances, Finish(i) PROVE LeaseInv'
    BY <2>8 DEF Finish
  <2>9. CASE RedisDown
    BY <2>9 DEF RedisDown
  <2>10. CASE RedisUp
    BY <2>10 DEF RedisUp
  <2>11. CASE Elapse
    BY <2>11, TTLExceedsPoll DEF TTLExceedsPoll, Elapse, Ticking, Elapsed, NoKey, Capped
  <2>12. CASE UNCHANGED vars
    BY <2>12 DEF vars
  <2> QED
    BY <2>1, <2>2, <2>3, <2>4, <2>5, <2>6, <2>7, <2>8, <2>9, <2>10, <2>11, <2>12
    DEF Next, Tick
<1> QED BY <1>1, <1>2, TypeCorrect, PTL DEF Spec

\* While Redis answers, two iterations of the same loop overlap only if one of them
\* outlives the time to live (distributed/lock.rs:3-4).
THEOREM MutualExclusion == ASSUME TTLExceedsPoll PROVE Spec => []OneIterationAtATime
<1>1. TypeOK /\ LeaseInv => OneIterationAtATime
  BY DEF LeaseInv, OneIterationAtATime, OwnedBy
<1> QED BY <1>1, LeaseInvHolds, TypeCorrect, PTL

\* While Redis answers, a holder whose iterations end in time owns the key at each of
\* its ticks, so that try_renew never fails it.
THEOREM LeaseContinuity == ASSUME TTLExceedsPoll PROVE Spec => []HolderKeepsKey
<1>1. LeaseInv => HolderKeepsKey
  BY DEF LeaseInv, HolderKeepsKey, OwnedBy
<1> QED BY <1>1, LeaseInvHolds, PTL
-----------------------------------------------------------------------------
\* How long the loop can have been silent: while the key of a dead holder lives,
\* the silence is as old as the key; once it is gone, every live instance has a
\* tick ahead that acquires it.  A holder that overran notices it without a wait.
GapInv ==
  RedisNeverFailed =>
    /\ gap <= TTL + Poll
    /\ \A i \in Instances : working[i] => gap = 0
    /\ \A i \in Instances : holding[i] /\ ~OwnedBy(key, i) => gap = 0
    /\ key.left > 0 => gap <= TTL - key.left
    /\ key.left = 0 =>
         \A i \in Instances : up[i] /\ due[i] = 0 => gap <= TTL + Poll - wait[i]

LEMMA GapInvHolds == ASSUME TTLExceedsPoll PROVE Spec => []GapInv
<1>1. Init => GapInv
  BY LoopLockAssumption DEF Init, GapInv, NoKey
<1>2. TypeOK /\ LeaseInv /\ GapInv /\ [Next]_vars => GapInv'
  <2> SUFFICES ASSUME TypeOK, LeaseInv, GapInv, [Next]_vars PROVE GapInv'
    OBVIOUS
  <2> USE LoopLockAssumption DEF TypeOK, GapInv, RedisNeverFailed, Keys
  <2>1. ASSUME NEW i \in Instances, Start(i) PROVE GapInv'
    BY <2>1 DEF Start
  <2>2. ASSUME NEW i \in Instances, Crash(i) PROVE GapInv'
    BY <2>2 DEF Crash, Orphaned, OwnedBy, Present
  <2>3. ASSUME NEW i \in Instances, TickRenew(i) PROVE GapInv'
    BY <2>3 DEF TickRenew, Ticking, Consume, StartIteration, RenewIfOwned, OwnedBy, Present
  <2>4. ASSUME NEW i \in Instances, TickLost(i) PROVE GapInv'
    BY <2>4 DEF TickLost, Ticking, Consume, SkipCycle, OwnedBy, Present
  <2>5. ASSUME NEW i \in Instances, TickAcquire(i) PROVE GapInv'
    BY <2>5 DEF TickAcquire, Ticking, Consume, StartIteration, SetNX, Acquirable, Present
  <2>6. ASSUME NEW i \in Instances, TickSkip(i) PROVE GapInv'
    BY <2>6 DEF TickSkip, Ticking, Consume, SkipCycle, Acquirable, Present
  <2>7. ASSUME NEW i \in Instances, TickFailOpen(i) PROVE GapInv'
    BY <2>7 DEF TickFailOpen, StartIteration, LeaseInv
  <2>8. ASSUME NEW i \in Instances, Finish(i) PROVE GapInv'
    BY <2>8 DEF Finish
  <2>9. CASE RedisDown
    BY <2>9 DEF RedisDown, LeaseInv
  <2>10. CASE RedisUp
    BY <2>10 DEF RedisUp, LeaseInv
  <2>11. CASE Elapse
    <3> SUFFICES ASSUME RedisNeverFailed PROVE GapInv'
      BY <2>11 DEF Elapse
    <3>1. gap' = 0 \/ (gap' <= gap + 1 /\ (\E i \in Instances : up[i] /\ due[i] = 0))
      BY <2>11 DEF Elapse, Ticking, Capped, MaxGap
    <3>2. \A i \in Instances : working'[i] => gap' = 0
      BY <2>11 DEF Elapse
    <3>3. key'.left = IF key.left > 0 THEN key.left - 1 ELSE 0
      BY <2>11 DEF Elapse, Elapsed, NoKey
    <3>4. gap' \in Nat /\ key'.left \in Nat
      BY <2>11, <3>3 DEF Elapse, Capped, MaxGap
    <3>5. wait' \in [Instances -> 1 .. Poll]
      BY <2>11 DEF Elapse
    <3>6. ASSUME NEW i \in Instances, holding'[i], ~OwnedBy(key, i)'
          PROVE  gap' = 0
      <4>1. CASE working[i]
        BY <2>11, <3>2, <4>1 DEF Elapse
      <4>2. CASE ~working[i]
        <5>1. holding[i] /\ up[i] /\ due[i] = 0
          BY <2>11, <3>6, <4>2 DEF Elapse, Ticking, LeaseInv
        <5>2. key.owner = i /\ key.left > wait[i]
          BY <5>1 DEF LeaseInv, OwnedBy
        <5>3. key'.owner = i /\ key'.left > 0
          BY <2>11, <5>2 DEF Elapse, Elapsed
        <5> QED BY <3>6, <5>3 DEF OwnedBy, Present
      <4> QED BY <4>1, <4>2
    <3>7. key'.left > 0 => gap' <= TTL - key'.left
      BY <3>1, <3>3, <3>4
    <3>8. ASSUME key'.left = 0, NEW i \in Instances, up'[i], due'[i] = 0
          PROVE  gap' <= TTL + Poll - wait'[i]
      <4>1. CASE gap' = 0
        BY <3>5, <4>1
      <4>2. CASE key.left > 0 /\ gap' <= gap + 1
        BY <3>3, <3>4, <3>5, <3>8, <4>2
      <4>3. CASE key.left = 0 /\ gap' <= gap + 1
        <5>1. up[i] /\ due[i] = 0 /\ wait[i] > 1 /\ wait'[i] = wait[i] - 1
          BY <2>11, <3>8 DEF Elapse, Ticking, Capped
        <5> QED BY <3>4, <4>3, <5>1
      <4> QED BY <3>1, <4>1, <4>2, <4>3
    <3>9. gap' <= TTL + Poll
      <4>1. CASE key.left > 0
        BY <3>1, <3>3, <3>4, <4>1
      <4>2. CASE key.left = 0
        BY <3>1, <3>4, <4>2
      <4> QED BY <4>1, <4>2
    <3> QED BY <3>2, <3>6, <3>7, <3>8, <3>9
  <2>12. CASE UNCHANGED vars
    BY <2>12 DEF vars
  <2> QED
    BY <2>1, <2>2, <2>3, <2>4, <2>5, <2>6, <2>7, <2>8, <2>9, <2>10, <2>11, <2>12
    DEF Next, Tick
<1> QED BY <1>1, <1>2, TypeCorrect, LeaseInvHolds, PTL DEF Spec

\* While Redis answers, the loop is silent for at most one time to live plus one period
\* while any instance is alive (email_outbox.rs:55-56).
THEOREM BoundedTakeover == ASSUME TTLExceedsPoll PROVE Spec => []TakeoverInTime
<1>1. GapInv => TakeoverInTime
  BY DEF GapInv, TakeoverInTime
<1> QED BY <1>1, GapInvHolds, PTL
=============================================================================
