------------------------ MODULE EmailOutbox_proofs ------------------------
(***************************************************************************)
(* EmailOutbox for every set of rows, workers and operators and every      *)
(* fault.  First, without any timing assumption: types, and the retry      *)
(* budget.  Then, for batches that end in time, the row-level claim and    *)
(* the refinement of OutboxPromise.                                        *)
(***************************************************************************)
EXTENDS EmailOutbox, SequenceTheorems, TLAPS

Carrying == {"claim", "expire", "send", "record"}   \* places with a current item

\* A worker has a current item exactly in these places, and an answer for it
\* exactly at "record".
BatchInv ==
  \A w \in Workers : /\ pc[w] \in Carrying => batch[w] # << >>
                     /\ outcome[w] # "none" <=> pc[w] = "record"

BasicInv == TypeOK /\ BatchInv /\ PendingHasAttemptsLeft

\* The worker's part of BasicInv, of the primed state.
WorkerOK ==
  /\ pc \in [Workers -> Places]
  /\ now \in [Workers -> Nat]
  /\ batch \in [Workers -> Seq(Item)]
  /\ outcome \in [Workers -> Outcomes]
  /\ BatchInv

LEMMA TailOfLonger ==
  ASSUME NEW S, NEW s \in Seq(S), s # << >>, Len(s) # 1
  PROVE  Tail(s) \in Seq(S) /\ Tail(s) # << >>
<1>1. Len(s) \in Nat \ {0, 1}
  BY EmptySeq
<1>2. Tail(s) \in Seq(S) /\ Len(Tail(s)) = Len(s) - 1
  BY HeadTailProperties
<1>3. Len(Tail(s)) # 0
  BY <1>1, <1>2
<1> QED BY <1>2, <1>3, EmptySeq

LEMMA HeadIsItem ==
  ASSUME BasicInv, NEW w \in Workers, pc[w] \in Carrying
  PROVE  /\ Item1(w) \in Item
         /\ Item1(w).id \in Emails
         /\ Item1(w).attempts \in Nat
<1>1. batch[w] \in Seq(Item) /\ batch[w] # << >>
  BY DEF BasicInv, TypeOK, BatchInv
<1>2. Head(batch[w]) \in Item
  BY <1>1
<1> QED BY <1>2 DEF Item1, Item

LEMMA LeaveOK ==
  ASSUME BasicInv, NEW w \in Workers, Leave(w)
  PROVE  WorkerOK'
BY DEF BasicInv, TypeOK, BatchInv, WorkerOK, Leave, Carrying, Places, Outcomes

LEMMA NextItemOK ==
  ASSUME BasicInv, NEW w \in Workers, pc[w] \in Carrying, NextItem(w)
  PROVE  WorkerOK'
<1>1. CASE Len(batch[w]) = 1
  BY <1>1, LeaveOK DEF NextItem
<1>2. CASE Len(batch[w]) # 1
  <2>1. batch[w] \in Seq(Item) /\ batch[w] # << >>
    BY DEF BasicInv, TypeOK, BatchInv
  <2>2. Tail(batch[w]) \in Seq(Item) /\ Tail(batch[w]) # << >>
    BY <1>2, <2>1, TailOfLonger
  <2>3. /\ batch' = [batch EXCEPT ![w] = Tail(batch[w])]
        /\ pc' = [pc EXCEPT ![w] = "claim"]
        /\ outcome' = [outcome EXCEPT ![w] = "none"]
        /\ UNCHANGED now
    BY <1>2 DEF NextItem
  <2>4. BatchInv'
    BY <2>2, <2>3 DEF BasicInv, TypeOK, BatchInv, Carrying
  <2> QED
    BY <2>2, <2>3, <2>4 DEF BasicInv, TypeOK, WorkerOK, Places, Outcomes
<1> QED BY <1>1, <1>2

\* A unit of time leaves a key or none.
LEMMA ElapsedKey ==
  ASSUME NEW k \in Keys(Workers, LockTTL)
  PROVE  Elapsed(k) \in Keys(Workers, LockTTL)
<1>1. NoKey \in Keys(Workers, LockTTL)
  BY OutboxAssumption DEF Keys, NoKey
<1>2. ASSUME k.left > 1
      PROVE  [k EXCEPT !.left = @ - 1] \in Keys(Workers, LockTTL)
  <2>1. k.left \in 0..LockTTL /\ LockTTL \in Nat
    BY OutboxAssumption DEF Keys
  <2>2. k.left - 1 \in 0..LockTTL
    BY <1>2, <2>1
  <2> QED
    BY <2>2 DEF Keys
<1> QED
  BY <1>1, <1>2 DEF Elapsed

\* What the scripts leave is a key.
LEMMA LockOps ==
  ASSUME NEW k \in Keys(Workers, LockTTL), NEW w \in Workers
  PROVE  /\ NoKey \in Keys(Workers, LockTTL)
         /\ SetNX(k, w, LockTTL) \in Keys(Workers, LockTTL)
         /\ RenewIfOwned(k, w, LockTTL) \in Keys(Workers, LockTTL)
         /\ Orphaned(k, w) \in Keys(Workers, LockTTL)
         /\ Elapsed(k) \in Keys(Workers, LockTTL)
BY OutboxAssumption
   DEF Keys, NoKey, SetNX, Acquirable, Present, RenewIfOwned, OwnedBy, Orphaned, Elapsed

LEMMA RowUpdate ==
  ASSUME rows \in [Emails -> Row], PendingHasAttemptsLeft,
         NEW e \in Emails, NEW r \in Row,
         r.status = "pending" => r.attempts < MaxAttempts,
         rows' = [rows EXCEPT ![e] = r]
  PROVE  rows' \in [Emails -> Row] /\ PendingHasAttemptsLeft'
<1>1. rows' \in [Emails -> Row]
  OBVIOUS
<1>2. \A d \in Emails : rows'[d] = IF d = e THEN r ELSE rows[d]
  OBVIOUS
<1> QED BY <1>1, <1>2 DEF PendingHasAttemptsLeft

LEMMA ClaimRowOK ==
  ASSUME BasicInv, NEW e \in Emails, NEW t \in Nat, ClaimRow(e, t)
  PROVE  rows' \in [Emails -> Row] /\ PendingHasAttemptsLeft'
<1>1. rows \in [Emails -> Row] /\ PendingHasAttemptsLeft /\ rows[e] \in Row
  BY DEF BasicInv, TypeOK
<1>2. t + ClaimWindow \in Nat
  BY OutboxAssumption
<1> DEFINE r == [rows[e] EXCEPT !.next = t + ClaimWindow]
<1>3. r \in Row /\ r.status = rows[e].status /\ r.attempts = rows[e].attempts
  BY <1>1, <1>2 DEF Row
<1>4. rows' = [rows EXCEPT ![e] = r]
  BY DEF ClaimRow
<1>5. r.status = "pending" => r.attempts < MaxAttempts
  BY <1>1, <1>3 DEF PendingHasAttemptsLeft
<1> HIDE DEF r
<1> QED BY <1>1, <1>3, <1>4, <1>5, RowUpdate

LEMMA RecordedOK ==
  ASSUME BasicInv, NEW w \in Workers, pc[w] = "record", rows' = Recorded(w)
  PROVE  rows' \in [Emails -> Row] /\ PendingHasAttemptsLeft'
<1> DEFINE e == Item1(w).id
           tried == Item1(w).attempts + 1
<1>1. e \in Emails /\ tried \in Nat /\ tried >= 1
  BY HeadIsItem DEF Carrying
<1>2. outcome[w] \in {"sent", "error", "unbuildable"}
  BY DEF BasicInv, TypeOK, BatchInv, Outcomes
<1>3. rows \in [Emails -> Row] /\ PendingHasAttemptsLeft /\ now[w] \in Nat
  BY DEF BasicInv, TypeOK
<1> HIDE DEF e, tried
<1>r. rows[e] \in Row
  BY <1>1, <1>3
<1>4. CASE outcome[w] = "sent"
  <2> DEFINE r == [rows[e] EXCEPT !.status = "sent"]
  <2>1. rows' = [rows EXCEPT ![e] = r]
    BY <1>4 DEF Recorded, e
  <2>2. r \in Row /\ r.status # "pending"
    BY <1>r DEF Row, Statuses
  <2> QED BY <1>1, <1>3, <2>1, <2>2, RowUpdate
<1>5. CASE outcome[w] = "unbuildable"
  <2> DEFINE r == [rows[e] EXCEPT !.status = "failed"]
  <2>1. rows' = [rows EXCEPT ![e] = r]
    BY <1>5 DEF Recorded, e
  <2>2. r \in Row /\ r.status # "pending"
    BY <1>r DEF Row, Statuses
  <2> QED BY <1>1, <1>3, <2>1, <2>2, RowUpdate
<1>6. CASE outcome[w] = "error" /\ tried >= MaxAttempts
  <2> DEFINE r == [rows[e] EXCEPT !.attempts = tried, !.status = "failed"]
  <2>1. rows' = [rows EXCEPT ![e] = r]
    BY <1>1, <1>3, <1>6 DEF Recorded, e, tried
  <2>2. r \in Row /\ r.status # "pending"
    BY <1>r, <1>1 DEF Row, Statuses
  <2> QED BY <1>1, <1>3, <2>1, <2>2, RowUpdate
<1>7. CASE outcome[w] = "error" /\ ~(tried >= MaxAttempts)
  <2> DEFINE r == [rows[e] EXCEPT !.attempts = tried, !.next = now[w] + Backoff[tried]]
  <2>1. rows' = [rows EXCEPT ![e] = r]
    BY <1>1, <1>3, <1>7 DEF Recorded, e, tried
  <2>2. tried < MaxAttempts /\ tried \in 1 .. MaxAttempts
    BY <1>1, <1>7, OutboxAssumption
  <2>3. now[w] + Backoff[tried] \in Nat
    BY <1>3, <2>2, OutboxAssumption
  <2>4. r \in Row /\ r.attempts < MaxAttempts
    BY <1>r, <1>1, <2>2, <2>3 DEF Row
  <2> QED BY <1>1, <1>3, <2>1, <2>4, RowUpdate
<1> QED BY <1>2, <1>4, <1>5, <1>6, <1>7

-----------------------------------------------------------------------------
LEMMA BasicInvInit == Init => BasicInv
BY OutboxAssumption
   DEF Init, BasicInv, TypeOK, BatchInv, PendingHasAttemptsLeft, Row, Statuses, Places,
       Outcomes, Keys, NoKey, NoExpiry, Carrying

\* One step per action of the specification.
LEMMA BasicInvNext == BasicInv /\ [Next]_vars => BasicInv'
<1> SUFFICES ASSUME BasicInv, [Next]_vars PROVE BasicInv'
  OBVIOUS
<1> USE OutboxAssumption
<1> DEFINE RestOK == /\ clock \in Nat
                     /\ rows \in [Emails -> Row]
                     /\ lock \in Keys(Workers, LockTTL)
                     /\ holding \in [Workers -> BOOLEAN]
                     /\ todo \in [Operators -> SUBSET Emails]
                     /\ asof \in [Operators -> Nat]
                     /\ delivered \in [Emails -> Nat]
                     /\ unrecorded \in [Emails -> Nat]
                     /\ faults \in 0 .. MaxFaults
                     /\ requeues \in 0 .. MaxRequeues
                     /\ PendingHasAttemptsLeft
<1>a. RestOK' /\ WorkerOK' => BasicInv'
  BY DEF BasicInv, TypeOK, WorkerOK
<1>b. RestOK /\ WorkerOK
  BY DEF BasicInv, TypeOK, WorkerOK
<1>c. UNCHANGED workerVars => WorkerOK'
  BY <1>b DEF WorkerOK, workerVars, BatchInv
<1>d. UNCHANGED rows => rows' \in [Emails -> Row] /\ PendingHasAttemptsLeft'
  BY <1>b DEF PendingHasAttemptsLeft
<1>e. SpendFault => faults' \in 0 .. MaxFaults
  BY <1>b DEF SpendFault
<1>f. ASSUME NEW e \in Emails, Delivered(e)
      PROVE  delivered' \in [Emails -> Nat]
  BY <1>b, <1>f DEF Delivered
<1>g. ASSUME NEW e \in Emails, Unrecorded(e)
      PROVE  unrecorded' \in [Emails -> Nat]
  BY <1>b, <1>g DEF Unrecorded
<1>1. ASSUME NEW e \in Emails, Enqueue(e) PROVE BasicInv'
  <2>1. rows' \in [Emails -> Row] /\ PendingHasAttemptsLeft'
    BY <1>b, <1>1 DEF Enqueue, Row, Statuses, PendingHasAttemptsLeft, NoExpiry
  <2> QED BY <1>a, <1>b, <1>c, <1>1, <2>1 DEF Enqueue, workerVars, operatorVars, historyVars
<1>2. ASSUME NEW w \in Workers, TickAdmitted(w) PROVE BasicInv'
  <2>1. WorkerOK'
    BY <1>b, <1>2 DEF TickAdmitted, EnterBatch, WorkerOK, BatchInv, Places, Carrying
  <2>2. lock' \in Keys(Workers, LockTTL)
    <3>1. lock \in Keys(Workers, LockTTL)
      BY <1>b
    <3>2. lock' = RenewIfOwned(lock, w, LockTTL) \/ lock' = SetNX(lock, w, LockTTL)
      BY <1>2 DEF TickAdmitted
    <3> QED BY <3>1, <3>2, LockOps
  <2> QED BY <1>a, <1>b, <1>d, <1>2, <2>1, <2>2
          DEF TickAdmitted, EnterBatch, operatorVars, historyVars
<1>3. ASSUME NEW w \in Workers, TickLockLost(w) PROVE BasicInv'
  <2>1. WorkerOK'
    BY <1>b, <1>3 DEF TickLockLost, WorkerOK, BatchInv
  <2> QED BY <1>a, <1>b, <1>d, <1>3, <2>1 DEF TickLockLost, operatorVars, historyVars
<1>4. ASSUME NEW w \in Workers, TickFailOpen(w) PROVE BasicInv'
  <2>1. WorkerOK'
    BY <1>b, <1>4 DEF TickFailOpen, EnterBatch, WorkerOK, BatchInv, Places, Carrying
  <2> QED BY <1>a, <1>b, <1>d, <1>4, <2>1 DEF TickFailOpen, EnterBatch, operatorVars, historyVars
<1>5. ASSUME NEW w \in Workers, SelectRows(w) PROVE BasicInv'
  <2>1. PICK n \in 1 .. BatchSize : \E s \in [1 .. n -> Emails] :
          batch' = [batch EXCEPT ![w] =
                      [k \in 1 .. n |-> [id |-> s[k], attempts |-> rows[s[k]].attempts]]]
    BY <1>5 DEF SelectRows
  <2>2. PICK s \in [1 .. n -> Emails] :
          batch' = [batch EXCEPT ![w] =
                      [k \in 1 .. n |-> [id |-> s[k], attempts |-> rows[s[k]].attempts]]]
    BY <2>1
  <2> DEFINE b == [k \in 1 .. n |-> [id |-> s[k], attempts |-> rows[s[k]].attempts]]
  <2>3. \A k \in 1 .. n : rows[s[k]].attempts \in Nat /\ s[k] \in Emails
    BY <1>b DEF Row
  <2>4. b \in [1 .. n -> Item]
    BY <2>3 DEF Item
  <2>5. b \in Seq(Item) /\ b # << >>
    <3>1. n \in Nat /\ 1 \in DOMAIN b
      BY <2>1
    <3>2. b \in Seq(Item)
      BY <2>4, <3>1, SeqDef
    <3> HIDE DEF b
    <3> QED BY <3>1, <3>2, EmptySeq
  <2>6. batch' = [batch EXCEPT ![w] = b]
    BY <2>2
  <2> HIDE DEF b
  <2>7. WorkerOK'
    BY <1>b, <1>5, <2>5, <2>6 DEF SelectRows, WorkerOK, BatchInv, Places, Carrying
  <2> QED BY <1>a, <1>b, <1>d, <1>5, <2>7 DEF SelectRows, operatorVars, historyVars
<1>6. ASSUME NEW w \in Workers, SelectNothing(w) PROVE BasicInv'
  BY <1>a, <1>b, <1>d, <1>6, LeaveOK DEF SelectNothing, operatorVars, historyVars
<1>7. ASSUME NEW w \in Workers, Claim(w) PROVE BasicInv'
  <2>1. Item1(w).id \in Emails /\ now[w] \in Nat
    BY <1>b, <1>7, HeadIsItem DEF Claim, Carrying, WorkerOK
  <2>2. rows' \in [Emails -> Row] /\ PendingHasAttemptsLeft'
    BY <1>7, <2>1, ClaimRowOK DEF Claim
  <2>3. WorkerOK'
    BY <1>b, <1>7 DEF Claim, WorkerOK, BatchInv, Places, Carrying
  <2> QED BY <1>a, <1>b, <1>7, <2>2, <2>3 DEF Claim, operatorVars, historyVars
<1>8. ASSUME NEW w \in Workers, ClaimRace(w) PROVE BasicInv'
  BY <1>a, <1>b, <1>d, <1>8, NextItemOK DEF ClaimRace, Carrying, operatorVars, historyVars
<1>9. ASSUME NEW w \in Workers, BatchError(w) PROVE BasicInv'
  <2>1. rows' \in [Emails -> Row] /\ PendingHasAttemptsLeft'
    <3>1. CASE UNCHANGED rows
      BY <1>d, <3>1
    <3>2. CASE pc[w] = "claim" /\ ClaimRow(Item1(w).id, now[w])
      <4>1. Item1(w).id \in Emails /\ now[w] \in Nat
        BY <1>b, <3>2, HeadIsItem DEF Carrying, WorkerOK
      <4> QED BY <3>2, <4>1, ClaimRowOK
    <3> QED BY <1>9, <3>1, <3>2 DEF BatchError
  <2> QED BY <1>a, <1>b, <1>e, <1>9, <2>1, LeaveOK DEF BatchError, operatorVars, historyVars
<1>10. ASSUME NEW w \in Workers, MarkExpired(w) PROVE BasicInv'
  <2>1. Item1(w).id \in Emails /\ pc[w] \in Carrying
    BY <1>10, HeadIsItem DEF MarkExpired, Carrying
  <2>2. rows' \in [Emails -> Row] /\ PendingHasAttemptsLeft'
    <3> DEFINE e == Item1(w).id
               r == [rows[e] EXCEPT !.status = "expired"]
    <3>1. CASE UNCHANGED rows
      BY <1>d, <3>1
    <3>2. CASE rows' = [rows EXCEPT ![e] = r]
      <4>1. r \in Row /\ r.status # "pending"
        <5>1. rows[e] \in Row
          BY <1>b, <2>1
        <5> HIDE DEF e
        <5> QED BY <5>1 DEF Row, Statuses
      <4> QED BY <1>b, <2>1, <3>2, <4>1, RowUpdate
    <3> QED BY <1>10, <3>1, <3>2 DEF MarkExpired
  <2>3. faults' \in 0 .. MaxFaults
    BY <1>b, <1>e, <1>10 DEF MarkExpired
  <2> QED BY <1>a, <1>b, <1>10, <2>1, <2>2, <2>3, NextItemOK
          DEF MarkExpired, operatorVars, historyVars
<1>11. ASSUME NEW w \in Workers, NEW r \in Outcomes \ {"none"}, pc[w] = "send", Answer(w, r)
       PROVE  WorkerOK'
  BY <1>b, <1>11 DEF Answer, WorkerOK, BatchInv, Places, Outcomes, Carrying
<1>12. ASSUME NEW w \in Workers, pc[w] = "send" PROVE Item1(w).id \in Emails
  BY <1>12, HeadIsItem DEF Carrying
<1>13. ASSUME NEW w \in Workers, BuildFails(w) PROVE BasicInv'
  BY <1>a, <1>b, <1>d, <1>11, <1>13 DEF BuildFails, Answer, Outcomes, operatorVars, historyVars
<1>14. ASSUME NEW w \in Workers, SendOk(w) PROVE BasicInv'
  BY <1>a, <1>b, <1>d, <1>f, <1>11, <1>12, <1>14
     DEF SendOk, Answer, Outcomes, operatorVars, historyVars
<1>15. ASSUME NEW w \in Workers, SendRefused(w) PROVE BasicInv'
  BY <1>a, <1>b, <1>d, <1>11, <1>15 DEF SendRefused, Answer, Outcomes, operatorVars, historyVars
<1>16. ASSUME NEW w \in Workers, SendReplyLost(w) PROVE BasicInv'
  BY <1>a, <1>b, <1>d, <1>e, <1>f, <1>g, <1>11, <1>12, <1>16
     DEF SendReplyLost, Answer, Outcomes, operatorVars, historyVars
<1>17. ASSUME NEW w \in Workers, Record(w) PROVE BasicInv'
  <2>1. pc[w] \in Carrying /\ pc[w] = "record"
    BY <1>17 DEF Record, Carrying
  <2>2. rows' \in [Emails -> Row] /\ PendingHasAttemptsLeft'
    BY <1>17, <2>1, RecordedOK DEF Record
  <2> QED BY <1>a, <1>b, <1>17, <2>1, <2>2, NextItemOK DEF Record, operatorVars, historyVars
<1>18. ASSUME NEW w \in Workers, RecordLost(w) PROVE BasicInv'
  <2>1. pc[w] \in Carrying /\ Item1(w).id \in Emails
    BY <1>18, HeadIsItem DEF RecordLost, Carrying
  <2>2. unrecorded' \in [Emails -> Nat]
    BY <1>b, <1>g, <1>18, <2>1 DEF RecordLost
  <2> QED BY <1>a, <1>b, <1>d, <1>e, <1>18, <2>1, <2>2, NextItemOK DEF RecordLost, operatorVars
<1>19. ASSUME NEW w \in Workers, Crash(w) PROVE BasicInv'
  <2>1. unrecorded' \in [Emails -> Nat]
    <3>1. CASE outcome[w] = "sent"
      <4>1. Item1(w).id \in Emails
        BY <1>b, <3>1, HeadIsItem DEF WorkerOK, BatchInv, Carrying
      <4> QED BY <1>g, <1>19, <3>1, <4>1 DEF Crash
    <3>2. CASE outcome[w] # "sent"
      BY <1>b, <1>19, <3>2 DEF Crash
    <3> QED BY <3>1, <3>2
  <2>2. lock' \in Keys(Workers, LockTTL)
    BY <1>b, <1>19, LockOps DEF Crash
  <2> QED BY <1>a, <1>b, <1>d, <1>e, <1>19, <2>1, <2>2, LeaveOK DEF Crash, operatorVars
<1>20. ASSUME NEW o \in Operators, RequeueSelect(o) PROVE BasicInv'
  <2>1. requeues' \in 0 .. MaxRequeues
    BY <1>b, <1>20 DEF RequeueSelect
  <2> QED BY <1>a, <1>b, <1>c, <1>d, <1>20, <2>1 DEF RequeueSelect, workerVars, historyVars
<1>21. ASSUME NEW o \in Operators, RequeueRow(o) PROVE BasicInv'
  <2>1. rows' \in [Emails -> Row] /\ PendingHasAttemptsLeft'
    <3>1. PICK e \in todo[o] :
            rows' = [rows EXCEPT ![e].status = "pending", ![e].attempts = 0, ![e].next = asof[o]]
      BY <1>21 DEF RequeueRow
    <3> DEFINE r == [rows[e] EXCEPT !.status = "pending", !.attempts = 0, !.next = asof[o]]
    <3>2. e \in Emails /\ rows[e] \in Row /\ asof[o] \in Nat
      BY <1>b
    <3>3. rows' = [rows EXCEPT ![e] = r]
      BY <1>b, <3>1, <3>2
    <3>4. r \in Row /\ r.attempts < MaxAttempts
      <4>1. r \in Row /\ r.attempts = 0
        BY <3>2 DEF Row, Statuses
      <4>2. 0 < MaxAttempts
        OBVIOUS
      <4> QED BY <4>1, <4>2
    <3> QED BY <1>b, <3>2, <3>3, <3>4, RowUpdate
  <2>2. todo' \in [Operators -> SUBSET Emails]
    BY <1>b, <1>21 DEF RequeueRow
  <2> QED BY <1>a, <1>b, <1>c, <1>21, <2>1, <2>2 DEF RequeueRow, workerVars, historyVars
<1>22. ASSUME NEW o \in Operators, RequeueAborts(o) PROVE BasicInv'
  BY <1>a, <1>b, <1>c, <1>d, <1>e, <1>22 DEF RequeueAborts, workerVars, historyVars
<1>23. CASE Elapse
  <2>1. lock' \in Keys(Workers, LockTTL)
    <3>1. lock \in Keys(Workers, LockTTL) /\ lock' = Elapsed(lock)
      BY <1>b, <1>23 DEF Elapse
    <3> QED BY <3>1, ElapsedKey
  <2> QED BY <1>a, <1>b, <1>c, <1>d, <1>23, <2>1 DEF Elapse, workerVars, operatorVars, historyVars
<1>24. CASE UNCHANGED vars
  BY <1>a, <1>b, <1>c, <1>d, <1>24 DEF vars, workerVars
<1> QED
  BY <1>1, <1>2, <1>3, <1>4, <1>5, <1>6, <1>7, <1>8, <1>9, <1>10, <1>13, <1>14, <1>15,
     <1>16, <1>17, <1>18, <1>19, <1>20, <1>21, <1>22, <1>23, <1>24
  DEF Next, Act, Tick, Work, Fault

LEMMA BasicInvHolds == Spec => []BasicInv
BY BasicInvInit, BasicInvNext, PTL DEF Spec

\* The variables stay in their ranges, whatever the interleaving and the faults.
THEOREM TypeCorrect == Spec => []TypeOK
BY BasicInvHolds, PTL DEF BasicInv

\* Stale outcomes of several instances never leave a pending row without an
\* attempt: the write that uses up max_attempts also settles the row.
THEOREM RetryBudget == Spec => []PendingHasAttemptsLeft
BY BasicInvHolds, PTL DEF BasicInv

-----------------------------------------------------------------------------
(***************************************************************************)
(* The row-level claim of email_outbox.rs for every set of rows and        *)
(* workers: as long as every batch ends before the claim window opened by  *)
(* its `now` closes (TimelySpec) and operators do not requeue concurrently,*)
(* no row is delivered by two instances at a time, and an email is         *)
(* delivered again only after a delivery that could not be recorded.       *)
(* Under the same conditions the outbox implements OutboxPromise.          *)
(*                                                                         *)
(* The argument: while a worker delivers a row, the row is pending and its *)
(* next_attempt_at is exactly `now` + CLAIM_WINDOW of that worker.  Any    *)
(* other worker's `now` lies before that instant, so to it the row is not  *)
(* due; and requeue-failed only writes rows that are "failed".             *)
(***************************************************************************)

OneOperator == \A o, p \in Operators : o = p

\* The current time lies in the claim window of every batch.
WindowOpen ==
  \A w \in Workers : InBatch(w) => now[w] <= clock /\ clock < now[w] + ClaimWindow

\* A row being delivered carries the claim of its worker.
Claimed ==
  \A w \in Workers : \A e \in Emails :
    Delivering(w, e) => rows[e].status = "pending" /\ rows[e].next = now[w] + ClaimWindow

\* What requeue-failed still has to reset is still failed.
TodoFailed == \A o \in Operators : \A e \in todo[o] : rows[e].status = "failed"

ClaimInv == WindowOpen /\ Claimed /\ RowExclusive /\ TodoFailed

\* The SMTP server took the row's email and its worker is about to record it.
Accepted(e) == \E w \in Workers : Delivering(w, e) /\ outcome[w] = "sent"

\* Every delivery but one is an unrecorded one, and that one is about to be
\* recorded or has been.
AccountInv ==
  \A e \in Emails :
    /\ delivered[e] <= 1 + unrecorded[e]
    /\ rows[e].status # "sent" /\ ~Accepted(e) => delivered[e] <= unrecorded[e]

-----------------------------------------------------------------------------
\* How the deliveries change when w ends its item or its batch.
LEMMA Departs ==
  ASSUME BasicInv, NEW w \in Workers, Leave(w) \/ (pc[w] \in Carrying /\ NextItem(w))
  PROVE  /\ \A v \in Workers, e \in Emails : Delivering(v, e)' <=> Delivering(v, e) /\ v # w
         /\ \A v \in Workers \ {w} : outcome'[v] = outcome[v]
         /\ \A v \in Workers : InBatch(v)' => InBatch(v) /\ now'[v] = now[v]
<1>1. /\ pc' \in [Workers -> Places] /\ pc'[w] \in {"idle", "claim"}
      /\ \A v \in Workers \ {w} : /\ pc'[v] = pc[v] /\ batch'[v] = batch[v]
                                  /\ outcome'[v] = outcome[v] /\ now'[v] = now[v]
      /\ pc'[w] # "idle" => pc[w] # "idle" /\ now'[w] = now[w]
  <2>1. CASE Leave(w)
    <3>1. /\ \E b : batch' = [batch EXCEPT ![w] = b]
          /\ pc' = [pc EXCEPT ![w] = "idle"]
          /\ outcome' = [outcome EXCEPT ![w] = "none"]
          /\ now' = [now EXCEPT ![w] = 0]
      BY <2>1 DEF Leave
    <3> QED BY <3>1 DEF BasicInv, TypeOK, Places
  <2>2. CASE pc[w] \in Carrying /\ ~Leave(w) /\ NextItem(w)
    <3>1. /\ batch' = [batch EXCEPT ![w] = Tail(@)]
          /\ pc' = [pc EXCEPT ![w] = "claim"]
          /\ outcome' = [outcome EXCEPT ![w] = "none"]
          /\ UNCHANGED now
      BY <2>2 DEF NextItem
    <3> QED BY <2>2, <3>1 DEF BasicInv, TypeOK, Places, Carrying
  <2> QED BY <2>1, <2>2
<1>2. \A v \in Workers \ {w} : Item1(v)' = Item1(v)
  BY <1>1 DEF Item1
<1> QED BY <1>1, <1>2 DEF Delivering, InBatch

\* ... and when the current item gets its answer.
LEMMA Answers ==
  ASSUME BasicInv, NEW w \in Workers, NEW r \in Outcomes, pc[w] = "send", Answer(w, r)
  PROVE  /\ \A v \in Workers, e \in Emails : Delivering(v, e)' <=> Delivering(v, e)
         /\ \A v \in Workers : outcome'[v] = IF v = w THEN r ELSE outcome[v]
         /\ \A v \in Workers : (InBatch(v)' <=> InBatch(v)) /\ now'[v] = now[v]
<1>1. \A v \in Workers : Item1(v)' = Item1(v)
  BY DEF Answer, Item1
<1> QED BY <1>1 DEF BasicInv, TypeOK, Answer, Delivering, InBatch

\* ... and when a worker that delivers nothing goes on to deliver nothing.
LEMMA Approaches ==
  ASSUME BasicInv, NEW w \in Workers, pc[w] \in {"idle", "select"},
         EnterBatch(w) \/ SelectRows(w) \/ TickLockLost(w)
  PROVE  /\ \A v \in Workers, e \in Emails : Delivering(v, e)' <=> Delivering(v, e)
         /\ outcome' = outcome
         /\ \A v \in Workers : InBatch(v)' => \/ now'[v] = clock
                                              \/ InBatch(v) /\ now'[v] = now[v]
<1>1. /\ pc'[w] \in {"idle", "select", "claim"}
      /\ \A v \in Workers \ {w} : /\ pc'[v] = pc[v] /\ batch'[v] = batch[v]
                                  /\ now'[v] = now[v]
      /\ pc'[w] # "idle" => now'[w] = clock \/ (pc[w] # "idle" /\ now'[w] = now[w])
      /\ outcome' = outcome
  <2>1. CASE EnterBatch(w)
    BY <2>1 DEF BasicInv, TypeOK, EnterBatch
  <2>2. CASE SelectRows(w)
    <3>1. /\ \E b : batch' = [batch EXCEPT ![w] = b]
          /\ pc' = [pc EXCEPT ![w] = "claim"]
          /\ UNCHANGED <<now, outcome>>
      BY <2>2 DEF SelectRows
    <3> QED BY <2>2, <3>1 DEF BasicInv, TypeOK, SelectRows
  <2>3. CASE TickLockLost(w)
    BY <2>3 DEF BasicInv, TypeOK, TickLockLost
  <2> QED BY <2>1, <2>2, <2>3
<1>2. \A v \in Workers \ {w} : Item1(v)' = Item1(v)
  BY <1>1 DEF Item1
<1> QED BY <1>1, <1>2 DEF Delivering, InBatch

LEMMA Stays ==
  ASSUME UNCHANGED workerVars
  PROVE  /\ \A v \in Workers, e \in Emails : Delivering(v, e)' <=> Delivering(v, e)
         /\ outcome' = outcome
         /\ \A v \in Workers : (InBatch(v)' <=> InBatch(v)) /\ now'[v] = now[v]
BY DEF workerVars, Delivering, InBatch, Item1

\* A step that starts no delivery keeps the claims if it leaves the rows being
\* delivered alone.
LEMMA ClaimsKept ==
  ASSUME ClaimInv,
         \A v \in Workers, e \in Emails :
           Delivering(v, e)' => /\ Delivering(v, e) /\ now'[v] = now[v]
                                /\ rows'[e].status = rows[e].status
                                /\ rows'[e].next = rows[e].next
  PROVE  Claimed' /\ RowExclusive'
<1>1. Claimed'
  BY DEF ClaimInv, Claimed
<1>2. RowExclusive'
  BY DEF ClaimInv, RowExclusive
<1> QED BY <1>1, <1>2

\* The outcome is written into the worker's row and no other.
LEMMA RecordedElsewhere ==
  ASSUME BasicInv, NEW w \in Workers, pc[w] = "record", NEW d \in Emails, d # Item1(w).id
  PROVE  Recorded(w)[d] = rows[d]
<1>1. outcome[w] \in {"sent", "error", "unbuildable"} /\ rows \in [Emails -> Row]
  BY DEF BasicInv, TypeOK, BatchInv, Outcomes
<1> QED BY <1>1 DEF Recorded

\* While w is at one of these places it delivers its item, alone, and nobody
\* requeues it.
LEMMA Delivers ==
  ASSUME BasicInv, ClaimInv, NEW w \in Workers, pc[w] \in {"expire", "send", "record"}
  PROVE  /\ Item1(w).id \in Emails
         /\ Delivering(w, Item1(w).id)
         /\ rows[Item1(w).id].status = "pending"
         /\ \A v \in Workers, d \in Emails :
              v # w /\ Delivering(v, d) => d # Item1(w).id
         /\ \A o \in Operators : Item1(w).id \notin todo[o]
<1>1. Item1(w).id \in Emails
  BY HeadIsItem DEF Carrying
<1>2. Delivering(w, Item1(w).id)
  BY DEF Delivering
<1>3. rows[Item1(w).id].status = "pending"
  BY <1>1, <1>2 DEF ClaimInv, Claimed
<1>4. ASSUME NEW v \in Workers, NEW d \in Emails, v # w, Delivering(v, d)
      PROVE  d # Item1(w).id
  BY <1>1, <1>2, <1>4 DEF ClaimInv, RowExclusive
<1>5. \A o \in Operators : Item1(w).id \notin todo[o]
  BY <1>3 DEF ClaimInv, TodoFailed
<1> QED BY <1>1, <1>2, <1>3, <1>4, <1>5

\* A row that is due for a worker is delivered by nobody.
LEMMA DueIsFree ==
  ASSUME BasicInv, ClaimInv, NEW w \in Workers, InBatch(w), NEW e \in Emails, Due(e, now[w])
  PROVE  /\ \A v \in Workers : ~Delivering(v, e)
         /\ \A o \in Operators : e \notin todo[o]
<1>1. \A v \in Workers : ~Delivering(v, e)
  <2> SUFFICES ASSUME NEW v \in Workers, Delivering(v, e) PROVE FALSE
    OBVIOUS
  <2>1. rows[e].next = now[v] + ClaimWindow
    BY DEF ClaimInv, Claimed
  <2>2. clock < now[v] + ClaimWindow /\ now[w] <= clock
    BY DEF ClaimInv, WindowOpen, Delivering, InBatch
  <2>3. rows[e].next <= now[w]
    BY DEF Due
  <2>4. clock \in Nat /\ now[v] \in Nat /\ now[w] \in Nat /\ ClaimWindow \in Nat
    BY OutboxAssumption DEF BasicInv, TypeOK
  <2> HIDE DEF Due
  <2> QED BY <2>1, <2>2, <2>3, <2>4
<1>2. \A o \in Operators : e \notin todo[o]
  BY DEF ClaimInv, TodoFailed, Due
<1> QED BY <1>1, <1>2

-----------------------------------------------------------------------------
LEMMA ClaimInvInit == Init => ClaimInv /\ AccountInv
BY DEF Init, ClaimInv, WindowOpen, Claimed, RowExclusive, TodoFailed, InBatch, Delivering,
       AccountInv

LEMMA WindowOpenNext == BasicInv /\ WindowOpen /\ [TimelyNext]_vars => WindowOpen'
<1> SUFFICES ASSUME BasicInv, WindowOpen, [TimelyNext]_vars PROVE WindowOpen'
  OBVIOUS
<1> DEFINE Same == \A v \in Workers : InBatch(v)' => InBatch(v) /\ now'[v] = now[v]
           Enter == \A v \in Workers : InBatch(v)' => \/ now'[v] = clock
                                                      \/ InBatch(v) /\ now'[v] = now[v]
<1>1. Enter /\ clock' = clock => WindowOpen'
  <2>1. clock \in Nat /\ ClaimWindow \in Nat /\ ClaimWindow > 0
    BY OutboxAssumption DEF BasicInv, TypeOK
  <2> QED BY <2>1 DEF WindowOpen
<1>2. Same => Enter
  OBVIOUS
<1> HIDE DEF Enter, Same
<1>3. UNCHANGED workerVars => Same
  BY Stays DEF Same
<1>4. ASSUME NEW w \in Workers, Tick(w) PROVE Enter /\ clock' = clock
  <2>1. pc[w] = "idle" /\ (EnterBatch(w) \/ TickLockLost(w))
    BY <1>4 DEF Tick, TickAdmitted, TickLockLost, TickFailOpen
  <2>2. clock' = clock
    BY <2>1 DEF EnterBatch, TickLockLost
  <2>3. \A v \in Workers : InBatch(v)' => \/ now'[v] = clock
                                          \/ InBatch(v) /\ now'[v] = now[v]
    BY <2>1, Approaches
  <2> QED BY <2>2, <2>3 DEF Enter
<1>5. ASSUME NEW w \in Workers, Work(w) PROVE Enter /\ clock' = clock
  <2>1. CASE SelectRows(w)
    BY <2>1, Approaches DEF SelectRows, Enter
  <2>2. CASE SelectNothing(w) \/ ClaimRace(w) \/ MarkExpired(w) \/ Record(w)
    BY <1>2, <2>2, Departs
       DEF SelectNothing, ClaimRace, MarkExpired, Record, Carrying, Same
  <2>3. CASE BuildFails(w) \/ SendOk(w) \/ SendRefused(w)
    BY <1>2, <2>3, Answers DEF BuildFails, SendOk, SendRefused, Outcomes, Answer, Same
  <2>4. CASE Claim(w)
    <3>1. \A v \in Workers : pc'[v] # "idle" => pc[v] # "idle"
      BY <2>4 DEF Claim, BasicInv, TypeOK
    <3> QED BY <1>2, <2>4, <3>1 DEF Claim, InBatch, Same
  <2> QED BY <1>5, <2>1, <2>2, <2>3, <2>4 DEF Work
<1>6. ASSUME NEW w \in Workers, Fault(w) PROVE Enter /\ clock' = clock
  <2>1. CASE BatchError(w) \/ RecordLost(w) \/ Crash(w)
    BY <1>2, <2>1, Departs DEF BatchError, RecordLost, Crash, Carrying, Same
  <2>2. CASE SendReplyLost(w)
    BY <1>2, <2>2, Answers DEF SendReplyLost, Outcomes, Answer, Same
  <2> QED BY <1>6, <2>1, <2>2 DEF Fault
<1>7. ASSUME NEW e \in Emails, Enqueue(e) PROVE Enter /\ clock' = clock
  BY <1>2, <1>3, <1>7 DEF Enqueue, workerVars
<1>8. ASSUME NEW o \in Operators, RequeueSelect(o) \/ RequeueRow(o) \/ RequeueAborts(o)
      PROVE  Enter /\ clock' = clock
  BY <1>2, <1>3, <1>8 DEF RequeueSelect, RequeueRow, RequeueAborts, workerVars
<1>9. CASE OnTime /\ Elapse
  <2>1. Same
    BY <1>3, <1>9 DEF Elapse, workerVars
  <2>2. \A v \in Workers : InBatch(v) =>
          now[v] <= clock /\ clock + 1 < now[v] + ClaimWindow
    BY <1>9 DEF WindowOpen, OnTime
  <2>3. clock \in Nat /\ ClaimWindow \in Nat /\ clock' = clock + 1
        /\ \A v \in Workers : now[v] \in Nat
    BY <1>9, OutboxAssumption DEF Elapse, BasicInv, TypeOK
  <2> QED BY <2>1, <2>2, <2>3 DEF WindowOpen, Same
<1>10. CASE UNCHANGED vars
  BY <1>1, <1>2, <1>3, <1>10 DEF vars, workerVars
<1> QED BY <1>1, <1>4, <1>5, <1>6, <1>7, <1>8, <1>9, <1>10 DEF TimelyNext, Act

LEMMA ClaimInvNext ==
  ASSUME OneOperator
  PROVE  BasicInv /\ ClaimInv /\ [TimelyNext]_vars => ClaimInv'
<1> SUFFICES ASSUME BasicInv, ClaimInv, [TimelyNext]_vars PROVE ClaimInv'
  OBVIOUS
<1> DEFINE Fewer == \A v \in Workers, e \in Emails :
                      Delivering(v, e)' => Delivering(v, e) /\ now'[v] = now[v]
           RowsKept == \A v \in Workers, e \in Emails :
                         Delivering(v, e)' => /\ rows'[e].status = rows[e].status
                                              /\ rows'[e].next = rows[e].next
           Kept == Claimed' /\ RowExclusive' /\ TodoFailed'
<1>1. WindowOpen'
  BY WindowOpenNext DEF ClaimInv
<1>2. Kept => ClaimInv'
  BY <1>1 DEF ClaimInv
<1>3. Fewer /\ RowsKept /\ TodoFailed' => Kept
  BY ClaimsKept
<1>4. UNCHANGED rows => RowsKept
  OBVIOUS
<1>5. UNCHANGED <<rows, todo>> => TodoFailed'
  BY DEF ClaimInv, TodoFailed
<1> HIDE DEF Fewer, RowsKept, Kept
<1>6. UNCHANGED workerVars => Fewer
  BY Stays DEF Fewer
<1>7. ASSUME NEW w \in Workers, Leave(w) \/ (pc[w] \in Carrying /\ NextItem(w))
      PROVE  Fewer
  BY <1>7, Departs DEF Fewer, Delivering, InBatch
<1>8. ASSUME NEW w \in Workers, NEW r \in Outcomes, pc[w] = "send", Answer(w, r)
      PROVE  Kept
  <2>1. Fewer
    BY <1>8, Answers DEF Fewer
  <2> QED BY <1>3, <1>4, <1>5, <1>8, <2>1 DEF Answer, operatorVars
<1>9. ASSUME NEW w \in Workers, pc[w] \in {"expire", "send", "record"},
             Leave(w) \/ NextItem(w), UNCHANGED todo,
             \A d \in Emails : d # Item1(w).id => rows'[d] = rows[d]
      PROVE  Kept
  <2>1. Fewer
    BY <1>7, <1>9 DEF Carrying
  <2>2. RowsKept
    BY <1>9, Departs, Delivers DEF RowsKept, Carrying
  <2>3. TodoFailed'
    BY <1>9, Delivers DEF ClaimInv, TodoFailed, BasicInv, TypeOK
  <2> QED BY <1>3, <2>1, <2>2, <2>3
<1>10. ASSUME NEW e \in Emails, Enqueue(e) PROVE Kept
  <2>1. Fewer
    BY <1>6, <1>10 DEF Enqueue, workerVars
  <2>2. \A d \in Emails : rows[d].status # "absent" => rows'[d] = rows[d]
    BY <1>10 DEF Enqueue, BasicInv, TypeOK
  <2>3. RowsKept
    BY <2>1, <2>2 DEF Fewer, RowsKept, ClaimInv, Claimed
  <2>4. TodoFailed'
    BY <1>10, <2>2 DEF Enqueue, operatorVars, ClaimInv, TodoFailed, BasicInv, TypeOK
  <2> QED BY <1>3, <2>1, <2>3, <2>4
<1>11. ASSUME NEW w \in Workers, Tick(w) PROVE Kept
  <2>1. pc[w] = "idle" /\ (EnterBatch(w) \/ TickLockLost(w)) /\ UNCHANGED <<rows, todo>>
    BY <1>11 DEF Tick, TickAdmitted, TickLockLost, TickFailOpen, EnterBatch, operatorVars
  <2>2. \A v \in Workers, e \in Emails : Delivering(v, e) => v # w
    BY <2>1 DEF Delivering
  <2>3. \A v \in Workers \ {w} : now'[v] = now[v]
    BY <2>1 DEF EnterBatch, TickLockLost, BasicInv, TypeOK
  <2>4. Fewer
    BY <2>1, <2>2, <2>3, Approaches DEF Fewer
  <2> QED BY <1>3, <1>4, <1>5, <2>1, <2>4
<1>12. ASSUME NEW w \in Workers, SelectRows(w) PROVE Kept
  <2>1. pc[w] = "select" /\ UNCHANGED <<rows, todo, now>>
    BY <1>12 DEF SelectRows, operatorVars
  <2>2. Fewer
    BY <1>12, <2>1, Approaches DEF Fewer
  <2> QED BY <1>3, <1>4, <1>5, <2>1, <2>2
<1>13. ASSUME NEW w \in Workers, SelectNothing(w) \/ ClaimRace(w) PROVE Kept
  <2>1. UNCHANGED <<rows, todo>>
    BY <1>13 DEF SelectNothing, ClaimRace, operatorVars
  <2>2. Fewer
    BY <1>7, <1>13 DEF SelectNothing, ClaimRace, Carrying
  <2> QED BY <1>3, <1>4, <1>5, <2>1, <2>2
<1>14. ASSUME NEW w \in Workers, Claim(w) PROVE Kept
  <2> DEFINE e == Item1(w).id
  <2>1. e \in Emails /\ pc[w] = "claim" /\ Due(e, now[w]) /\ rows \in [Emails -> Row]
        /\ now[w] \in Nat
    BY <1>14, HeadIsItem DEF Claim, Carrying, BasicInv, TypeOK
  <2>2. /\ \A v \in Workers : ~Delivering(v, e)
        /\ \A o \in Operators : e \notin todo[o]
    BY <2>1, DueIsFree DEF InBatch
  <2>3. /\ rows' = [rows EXCEPT ![e].next = now[w] + ClaimWindow]
        /\ \A d \in Emails : d # e => rows'[d] = rows[d]
        /\ UNCHANGED <<now, todo, batch>>
    BY <1>14, <2>1 DEF Claim, ClaimRow, operatorVars
  <2>4. rows'[e].status = "pending" /\ rows'[e].next = now[w] + ClaimWindow
    BY <2>1, <2>3 DEF Due, Row
  <2>5. \A v \in Workers, d \in Emails :
          Delivering(v, d)' => \/ v = w /\ d = e
                               \/ Delivering(v, d) /\ d # e
    <3>1. \A v \in Workers : Item1(v)' = Item1(v)
      BY <2>3 DEF Item1
    <3>2. \A v \in Workers \ {w} : pc'[v] = pc[v]
      BY <1>14 DEF Claim, BasicInv, TypeOK
    <3> QED BY <2>2, <3>1, <3>2 DEF Delivering
  <2> HIDE DEF e
  <2>6. Claimed'
    BY <2>3, <2>4, <2>5 DEF Claimed, ClaimInv
  <2>7. RowExclusive'
    BY <2>5 DEF RowExclusive, ClaimInv
  <2>8. TodoFailed'
    BY <2>2, <2>3 DEF TodoFailed, ClaimInv, BasicInv, TypeOK
  <2> QED BY <2>6, <2>7, <2>8 DEF Kept
<1>15. ASSUME NEW w \in Workers, BatchError(w) PROVE Kept
  <2>1. Leave(w) /\ UNCHANGED todo
    BY <1>15 DEF BatchError, operatorVars
  <2>2. Fewer
    BY <1>7, <2>1
  <2>3. CASE UNCHANGED rows
    BY <1>3, <1>4, <1>5, <2>1, <2>2, <2>3
  <2>4. CASE pc[w] = "claim" /\ Due(Item1(w).id, now[w]) /\ ClaimRow(Item1(w).id, now[w])
    <3> DEFINE e == Item1(w).id
    <3>1. e \in Emails /\ rows \in [Emails -> Row]
      BY <2>4, HeadIsItem DEF Carrying, BasicInv, TypeOK
    <3>2. /\ \A v \in Workers : ~Delivering(v, e)
          /\ \A o \in Operators : e \notin todo[o]
      BY <2>4, <3>1, DueIsFree DEF InBatch
    <3>3. \A d \in Emails : d # e => rows'[d] = rows[d]
      BY <2>4, <3>1 DEF ClaimRow
    <3> HIDE DEF e
    <3>4. RowsKept
      BY <2>2, <3>2, <3>3 DEF Fewer, RowsKept
    <3>5. TodoFailed'
      BY <2>1, <3>2, <3>3 DEF TodoFailed, ClaimInv, BasicInv, TypeOK
    <3> QED BY <1>3, <2>2, <3>4, <3>5
  <2> QED BY <1>15, <2>3, <2>4 DEF BatchError
<1>16. ASSUME NEW w \in Workers, MarkExpired(w) PROVE Kept
  <2>1. \A d \in Emails : d # Item1(w).id => rows'[d] = rows[d]
    BY <1>16 DEF MarkExpired, BasicInv, TypeOK
  <2> QED BY <1>9, <1>16, <2>1 DEF MarkExpired, operatorVars
<1>17. ASSUME NEW w \in Workers, BuildFails(w) \/ SendOk(w) \/ SendRefused(w) \/ SendReplyLost(w)
       PROVE  Kept
  BY <1>8, <1>17 DEF BuildFails, SendOk, SendRefused, SendReplyLost, Outcomes
<1>18. ASSUME NEW w \in Workers, Record(w) PROVE Kept
  BY <1>9, <1>18, RecordedElsewhere DEF Record, operatorVars
<1>19. ASSUME NEW w \in Workers, RecordLost(w) \/ Crash(w) PROVE Kept
  <2>1. UNCHANGED <<rows, todo>>
    BY <1>19 DEF RecordLost, Crash, operatorVars
  <2>2. Fewer
    BY <1>7, <1>19 DEF RecordLost, Crash, Carrying
  <2> QED BY <1>3, <1>4, <1>5, <2>1, <2>2
<1>20. ASSUME NEW o \in Operators, RequeueSelect(o) \/ RequeueRow(o) \/ RequeueAborts(o)
       PROVE  Kept
  <2>1. Fewer
    BY <1>6, <1>20 DEF RequeueSelect, RequeueRow, RequeueAborts, workerVars
  <2>2. \A p \in Operators : p = o
    BY OneOperator DEF OneOperator
  <2>3. todo \in [Operators -> SUBSET Emails] /\ rows \in [Emails -> Row]
    BY DEF BasicInv, TypeOK
  <2>4. CASE RequeueSelect(o)
    <3>1. UNCHANGED rows /\ \A e \in todo'[o] : rows[e].status = "failed"
      BY <2>3, <2>4 DEF RequeueSelect
    <3>2. TodoFailed'
      BY <2>2, <3>1 DEF TodoFailed
    <3> QED BY <1>3, <1>4, <2>1, <3>1, <3>2
  <2>5. CASE RequeueRow(o)
    <3>1. PICK e \in todo[o] : /\ \A d \in Emails : d # e => rows'[d] = rows[d]
                               /\ todo' = [todo EXCEPT ![o] = @ \ {e}]
      BY <2>3, <2>5 DEF RequeueRow
    <3>2. e \in Emails /\ rows[e].status = "failed"
      BY <2>3, <3>1 DEF ClaimInv, TodoFailed
    <3>3. RowsKept
      BY <2>1, <3>1, <3>2 DEF Fewer, RowsKept, ClaimInv, Claimed
    <3>4. TodoFailed'
      BY <2>2, <2>3, <3>1 DEF TodoFailed, ClaimInv
    <3> QED BY <1>3, <2>1, <3>3, <3>4
  <2>6. CASE RequeueAborts(o)
    <3>1. UNCHANGED rows /\ todo'[o] = {}
      BY <2>3, <2>6 DEF RequeueAborts
    <3>2. TodoFailed'
      BY <2>2, <3>1 DEF TodoFailed
    <3> QED BY <1>3, <1>4, <2>1, <3>1, <3>2
  <2> QED BY <1>20, <2>4, <2>5, <2>6
<1>21. CASE Elapse
  <2>1. UNCHANGED workerVars
    BY <1>21 DEF Elapse, workerVars, operatorVars
  <2>2. UNCHANGED <<rows, todo>>
    BY <1>21 DEF Elapse, workerVars, operatorVars
  <2>3. Fewer
    BY <1>6, <2>1 DEF workerVars
  <2> QED BY <1>2, <1>3, <1>4, <1>5, <2>2, <2>3
<1>22. CASE UNCHANGED vars
  <2>1. UNCHANGED workerVars
    BY <1>22 DEF vars, workerVars
  <2>2. UNCHANGED <<rows, todo>>
    BY <1>22 DEF vars, workerVars
  <2>3. Fewer
    BY <1>6, <2>1 DEF workerVars
  <2> QED BY <1>2, <1>3, <1>4, <1>5, <2>2, <2>3
<1> QED
  BY <1>2, <1>10, <1>11, <1>12, <1>13, <1>14, <1>15, <1>16, <1>17, <1>18, <1>19, <1>20,
     <1>21, <1>22
  DEF TimelyNext, Act, Work, Fault

-----------------------------------------------------------------------------
\* Who is about to record an accepted email after w left its item.
LEMMA AcceptedAfterDeparture ==
  ASSUME BasicInv, NEW w \in Workers, Leave(w) \/ (pc[w] \in Carrying /\ NextItem(w)),
         NEW e \in Emails, Accepted(e), ~Delivering(w, e) \/ outcome[w] # "sent"
  PROVE  Accepted(e)'
<1>1. PICK v \in Workers : Delivering(v, e) /\ outcome[v] = "sent"
  BY DEF Accepted
<1>2. v # w
  BY <1>1
<1>3. Delivering(v, e)' /\ outcome'[v] = "sent"
  BY <1>1, <1>2, Departs
<1> QED BY <1>3 DEF Accepted

\* Only w can be about to record the email of its own item.
LEMMA AcceptedByDeliverer ==
  ASSUME BasicInv, ClaimInv, NEW w \in Workers, pc[w] \in {"expire", "send", "record"},
         outcome[w] # "sent"
  PROVE  ~Accepted(Item1(w).id)
<1>1. \A v \in Workers : v # w => ~Delivering(v, Item1(w).id)
  BY Delivers
<1> QED BY <1>1 DEF Accepted

LEMMA AccountInvNext ==
  ASSUME OneOperator
  PROVE  BasicInv /\ ClaimInv /\ AccountInv /\ [TimelyNext]_vars => AccountInv'
<1> SUFFICES ASSUME BasicInv, ClaimInv, AccountInv, [TimelyNext]_vars PROVE AccountInv'
  OBVIOUS
<1> DEFINE Better(e) == rows'[e].status # "sent" /\ ~Accepted(e)'
                          => rows[e].status # "sent" /\ ~Accepted(e)
           Kept(e) == /\ delivered'[e] <= 1 + unrecorded'[e]
                      /\ rows'[e].status # "sent" /\ ~Accepted(e)'
                           => delivered'[e] <= unrecorded'[e]
<1>t. /\ rows \in [Emails -> Row]
      /\ delivered \in [Emails -> Nat]
      /\ unrecorded \in [Emails -> Nat]
      /\ outcome \in [Workers -> Outcomes]
      /\ pc \in [Workers -> Places]
  BY DEF BasicInv, TypeOK
<1>a. (\A e \in Emails : Kept(e)) => AccountInv'
  BY DEF AccountInv
<1>b. ASSUME NEW e \in Emails, Better(e), delivered'[e] = delivered[e],
             unrecorded'[e] = unrecorded[e]
      PROVE  Kept(e)
  BY <1>b DEF AccountInv
<1>c. ASSUME UNCHANGED historyVars, \A e \in Emails : Better(e)
      PROVE  AccountInv'
  BY <1>a, <1>b, <1>c DEF historyVars
<1>d. ASSUME UNCHANGED workerVars, NEW e \in Emails PROVE Accepted(e)' <=> Accepted(e)
  BY <1>d, Stays DEF Accepted
<1>e. ASSUME NEW e \in Emails, rows[e].status # "sent", ~Accepted(e)
      PROVE  delivered[e] <= unrecorded[e]
  BY <1>e DEF AccountInv
<1>f. \A e \in Emails : delivered[e] <= 1 + unrecorded[e]
  BY DEF AccountInv
<1>1. ASSUME NEW e \in Emails, Enqueue(e) PROVE AccountInv'
  <2>1. UNCHANGED workerVars /\ UNCHANGED historyVars
    BY <1>1 DEF Enqueue, workerVars, historyVars
  <2>2. \A d \in Emails : rows'[d].status # "sent" => rows[d].status # "sent"
    BY <1>t, <1>1 DEF Enqueue
  <2>3. \A d \in Emails : Accepted(d)' <=> Accepted(d)
    BY <1>d, <2>1
  <2> QED BY <1>c, <2>1, <2>2, <2>3
<1>2. ASSUME NEW w \in Workers, Tick(w) \/ SelectRows(w) PROVE AccountInv'
  <2>1. /\ pc[w] \in {"idle", "select"}
        /\ EnterBatch(w) \/ TickLockLost(w) \/ SelectRows(w)
        /\ UNCHANGED <<rows, delivered, unrecorded>>
    BY <1>2 DEF Tick, TickAdmitted, TickLockLost, TickFailOpen, EnterBatch, SelectRows,
                historyVars
  <2>2. \A d \in Emails : Accepted(d)' <=> Accepted(d)
    BY <2>1, Approaches DEF Accepted
  <2> QED BY <1>c, <2>1, <2>2 DEF historyVars
<1>3. ASSUME NEW w \in Workers, Leave(w) \/ (pc[w] = "claim" /\ NextItem(w)),
             pc[w] \in {"select", "claim"},
             NEW e \in Emails, Accepted(e)
      PROVE  Accepted(e)'
  <2>1. ~Delivering(w, e)
    BY <1>3 DEF Delivering
  <2> QED BY <1>3, <2>1, AcceptedAfterDeparture DEF Carrying
<1>4. ASSUME NEW w \in Workers, SelectNothing(w) \/ ClaimRace(w) PROVE AccountInv'
  <2>1. \A e \in Emails : Accepted(e) => Accepted(e)'
    BY <1>3, <1>4 DEF SelectNothing, ClaimRace
  <2>2. UNCHANGED historyVars /\ UNCHANGED rows
    BY <1>4 DEF SelectNothing, ClaimRace
  <2> QED BY <1>c, <2>1, <2>2
<1>5. ASSUME NEW w \in Workers, pc[w] = "claim", ClaimRow(Item1(w).id, now[w]), NEW d \in Emails
      PROVE  rows'[d].status = rows[d].status
  BY <1>t, <1>5 DEF ClaimRow, Row
<1>6. ASSUME NEW w \in Workers, Claim(w) PROVE AccountInv'
  <2>1. pc[w] = "claim" /\ UNCHANGED <<batch, outcome>> /\ UNCHANGED historyVars
    BY <1>6 DEF Claim
  <2>2. \A v \in Workers \ {w} : pc'[v] = pc[v] /\ Item1(v)' = Item1(v)
    BY <1>t, <1>6 DEF Claim, Item1
  <2>3. ASSUME NEW v \in Workers, NEW e \in Emails, Delivering(v, e) PROVE Delivering(v, e)'
    BY <2>1, <2>2, <2>3 DEF Delivering
  <2>4. \A e \in Emails : Accepted(e) => Accepted(e)'
    BY <2>1, <2>3 DEF Accepted
  <2>5. \A e \in Emails : rows'[e].status = rows[e].status
    BY <1>5, <1>6 DEF Claim
  <2> QED BY <1>c, <2>1, <2>4, <2>5
<1>7. ASSUME NEW w \in Workers, BatchError(w) PROVE AccountInv'
  <2>1. \A e \in Emails : Accepted(e) => Accepted(e)'
    BY <1>3, <1>7 DEF BatchError
  <2>2. \A e \in Emails : rows'[e].status = rows[e].status
    BY <1>5, <1>7 DEF BatchError
  <2>3. UNCHANGED historyVars
    BY <1>7 DEF BatchError
  <2> QED BY <1>c, <2>1, <2>2, <2>3
<1>8. ASSUME NEW w \in Workers, MarkExpired(w) PROVE AccountInv'
  <2>1. outcome[w] # "sent" /\ pc[w] = "expire" /\ NextItem(w) /\ UNCHANGED historyVars
    BY <1>8 DEF MarkExpired, BasicInv, BatchInv
  <2>2. \A e \in Emails : Accepted(e) => Accepted(e)'
    BY <2>1, AcceptedAfterDeparture DEF Carrying
  <2>3. \A e \in Emails : e # Item1(w).id => rows'[e] = rows[e]
    BY <1>t, <1>8 DEF MarkExpired
  <2>4. rows[Item1(w).id].status = "pending"
    BY <2>1, Delivers
  <2> QED BY <1>c, <2>1, <2>2, <2>3, <2>4
<1>9. ASSUME NEW w \in Workers, NEW r \in Outcomes, pc[w] = "send", Answer(w, r),
             NEW e \in Emails, Accepted(e)
      PROVE  Accepted(e)'
  <2>1. outcome[w] # "sent"
    BY <1>9 DEF BasicInv, BatchInv
  <2> QED BY <1>9, <2>1, Answers DEF Accepted
<1>10. ASSUME NEW w \in Workers, BuildFails(w) \/ SendRefused(w) PROVE AccountInv'
  <2>1. \A e \in Emails : Accepted(e) => Accepted(e)'
    BY <1>9, <1>10 DEF BuildFails, SendRefused, Outcomes
  <2>2. UNCHANGED rows /\ UNCHANGED historyVars
    BY <1>10 DEF BuildFails, SendRefused, Answer
  <2> QED BY <1>c, <2>1, <2>2
<1>11. ASSUME NEW w \in Workers, SendOk(w) \/ SendReplyLost(w) PROVE AccountInv'
  <2>1. pc[w] = "send" /\ outcome[w] # "sent" /\ UNCHANGED rows
    BY <1>11 DEF SendOk, SendReplyLost, Answer, BasicInv, BatchInv
  <2>2. \A e \in Emails : Accepted(e) => Accepted(e)'
    BY <1>9, <1>11 DEF SendOk, SendReplyLost, Outcomes
  <2>3. PICK i \in Emails : i = Item1(w).id
    BY <2>1, Delivers
  <2>4. rows[i].status = "pending" /\ ~Accepted(i) /\ Delivering(w, i)
    BY <2>1, <2>3, Delivers, AcceptedByDeliverer
  <2>5. delivered[i] <= unrecorded[i]
    BY <1>e, <2>4
  <2>6. /\ delivered' = [delivered EXCEPT ![i] = @ + 1]
        /\ \/ Answer(w, "sent") /\ UNCHANGED unrecorded
           \/ unrecorded' = [unrecorded EXCEPT ![i] = @ + 1]
    BY <1>11, <2>3 DEF SendOk, SendReplyLost, Delivered, Unrecorded
  <2>7. ASSUME NEW e \in Emails, e # i PROVE Kept(e)
    <3>1. delivered'[e] = delivered[e] /\ unrecorded'[e] = unrecorded[e]
      BY <1>t, <2>6, <2>7
    <3> QED BY <1>b, <2>1, <2>2, <3>1
  <2>8. Kept(i)
    <3>1. CASE Answer(w, "sent") /\ UNCHANGED unrecorded
      <4>1. "sent" \in Outcomes
        BY DEF Outcomes
      <4>2. Delivering(w, i)' /\ outcome'[w] = "sent"
        BY <2>1, <2>4, <3>1, <4>1, Answers
      <4>3. Accepted(i)'
        BY <4>2 DEF Accepted
      <4>4. delivered'[i] <= 1 + unrecorded'[i]
        BY <1>t, <2>5, <2>6, <3>1
      <4> QED BY <4>3, <4>4
    <3>2. CASE unrecorded' = [unrecorded EXCEPT ![i] = @ + 1]
      <4>1. delivered'[i] <= unrecorded'[i] /\ unrecorded'[i] \in Nat /\ delivered'[i] \in Nat
        BY <1>t, <2>5, <2>6, <3>2
      <4>2. delivered'[i] <= 1 + unrecorded'[i]
        BY <4>1
      <4> QED BY <4>1, <4>2
    <3> QED BY <2>6, <3>1, <3>2
  <2> QED BY <1>a, <2>7, <2>8
<1>12. ASSUME NEW w \in Workers, Record(w) PROVE AccountInv'
  <2>1. /\ pc[w] = "record" /\ NextItem(w) /\ rows' = Recorded(w)
        /\ UNCHANGED <<delivered, unrecorded>>
    BY <1>12 DEF Record, historyVars
  <2>2. PICK i \in Emails : i = Item1(w).id
    BY <2>1, Delivers
  <2>3. ASSUME NEW e \in Emails, e # i PROVE Kept(e)
    <3>1. ~Delivering(w, e)
      BY <2>2, <2>3 DEF Delivering
    <3>2. Accepted(e) => Accepted(e)'
      BY <2>1, <3>1, AcceptedAfterDeparture DEF Carrying
    <3>3. rows'[e] = rows[e]
      BY <2>1, <2>2, <2>3, RecordedElsewhere
    <3> QED BY <1>b, <2>1, <3>2, <3>3
  <2>4. CASE outcome[w] = "sent"
    <3>1. rows'[i].status = "sent"
      BY <1>t, <2>1, <2>2, <2>4 DEF Recorded, Row
    <3>2. Kept(i)
      BY <1>f, <2>1, <3>1
    <3> QED BY <1>a, <2>3, <3>2
  <2>5. CASE outcome[w] # "sent"
    <3>1. rows[i].status = "pending" /\ ~Accepted(i)
      BY <2>1, <2>2, <2>5, Delivers, AcceptedByDeliverer
    <3>2. Kept(i)
      BY <1>b, <2>1, <3>1
    <3> QED BY <1>a, <2>3, <3>2
  <2> QED BY <2>4, <2>5
<1>13. ASSUME NEW w \in Workers, RecordLost(w) \/ Crash(w) PROVE AccountInv'
  <2>1. /\ Leave(w) \/ (pc[w] \in Carrying /\ NextItem(w))
        /\ UNCHANGED <<rows, delivered>>
        /\ IF outcome[w] = "sent" THEN Unrecorded(Item1(w).id) ELSE UNCHANGED unrecorded
    BY <1>13 DEF RecordLost, Crash, Carrying
  <2>2. CASE outcome[w] # "sent"
    BY <1>c, <2>1, <2>2, AcceptedAfterDeparture DEF historyVars
  <2>3. CASE outcome[w] = "sent"
    <3>1. pc[w] = "record"
      BY <2>3 DEF BasicInv, BatchInv
    <3>2. PICK i \in Emails : i = Item1(w).id
      BY <3>1, Delivers
    <3>3. unrecorded' = [unrecorded EXCEPT ![i] = @ + 1]
      BY <2>1, <2>3, <3>2 DEF Unrecorded
    <3>4. ASSUME NEW e \in Emails, e # i PROVE Kept(e)
      <4>1. ~Delivering(w, e)
        BY <3>2, <3>4 DEF Delivering
      <4>2. Accepted(e) => Accepted(e)'
        BY <2>1, <4>1, AcceptedAfterDeparture
      <4>3. unrecorded'[e] = unrecorded[e]
        BY <1>t, <3>3, <3>4
      <4> QED BY <1>b, <2>1, <4>2, <4>3
    <3>5. Kept(i)
      <4>1. delivered'[i] = delivered[i] /\ unrecorded'[i] = unrecorded[i] + 1
        BY <1>t, <2>1, <3>3
      <4>2. /\ delivered[i] \in Nat /\ unrecorded[i] \in Nat
            /\ delivered[i] <= 1 + unrecorded[i]
        BY <1>f, <1>t
      <4>3. delivered'[i] <= unrecorded'[i] /\ delivered'[i] <= 1 + unrecorded'[i]
        BY <4>1, <4>2
      <4> QED BY <4>3
    <3> QED BY <1>a, <3>4, <3>5
  <2> QED BY <2>2, <2>3
<1>14. ASSUME NEW o \in Operators, RequeueSelect(o) \/ RequeueRow(o) \/ RequeueAborts(o)
       PROVE  AccountInv'
  <2>1. UNCHANGED workerVars /\ UNCHANGED historyVars
    BY <1>14 DEF RequeueSelect, RequeueRow, RequeueAborts, workerVars, historyVars
  <2>2. \A e \in Emails : Accepted(e)' <=> Accepted(e)
    BY <1>d, <2>1
  <2>3. \A e \in Emails : rows'[e].status # "sent" => rows[e].status # "sent"
    <3>1. CASE UNCHANGED rows
      BY <3>1
    <3>2. CASE RequeueRow(o)
      <4>1. PICK d \in todo[o] : \A e \in Emails : e # d => rows'[e] = rows[e]
        BY <1>t, <3>2 DEF RequeueRow
      <4>2. d \in todo[o] => rows[d].status = "failed" \/ d \notin Emails
        BY DEF ClaimInv, TodoFailed
      <4> QED BY <4>1, <4>2
    <3> QED BY <1>14, <3>1, <3>2 DEF RequeueSelect, RequeueAborts
  <2> QED BY <1>c, <2>1, <2>2, <2>3
<1>15. CASE Elapse \/ UNCHANGED vars
  <2>1. UNCHANGED workerVars /\ UNCHANGED historyVars /\ UNCHANGED rows
    BY <1>15 DEF Elapse, vars, workerVars, historyVars
  <2>2. \A e \in Emails : Accepted(e)' <=> Accepted(e)
    BY <1>d, <2>1
  <2> QED BY <1>c, <2>1, <2>2
<1> QED
  BY <1>1, <1>2, <1>4, <1>6, <1>7, <1>8, <1>10, <1>11, <1>12, <1>13, <1>14, <1>15
  DEF TimelyNext, Act, Work, Fault

-----------------------------------------------------------------------------
LEMMA TimelyInvHolds == ASSUME OneOperator PROVE TimelySpec => [](BasicInv /\ ClaimInv /\ AccountInv)
<1>1. Init => BasicInv /\ ClaimInv /\ AccountInv
  BY BasicInvInit, ClaimInvInit
<1>2. BasicInv /\ [TimelyNext]_vars => BasicInv'
  BY BasicInvNext DEF TimelyNext, Next
<1>3. BasicInv /\ ClaimInv /\ [TimelyNext]_vars => ClaimInv'
  BY OneOperator, ClaimInvNext
<1>4. BasicInv /\ ClaimInv /\ AccountInv /\ [TimelyNext]_vars => AccountInv'
  BY OneOperator, AccountInvNext
<1> QED BY <1>1, <1>2, <1>3, <1>4, PTL DEF TimelySpec

\* No two instances deliver the same row, whatever happens to the lock that is
\* meant to keep them apart.
THEOREM RowsAreExclusive == ASSUME OneOperator PROVE TimelySpec => []RowExclusive
BY TimelyInvHolds, PTL DEF ClaimInv

\* An email reaches the SMTP server again only after a delivery whose record was
\* lost to a crash, a database error or a lost reply.
THEOREM DuplicatesAreAccounted == ASSUME OneOperator PROVE TimelySpec => []DeliveredOnce
<1>1. AccountInv => DeliveredOnce
  BY DEF AccountInv, DeliveredOnce
<1> QED BY <1>1, TimelyInvHolds, PTL

-----------------------------------------------------------------------------
(* The refinement: TimelySpec implements OutboxPromise.                     *)

\* mark_sent only follows an answer of the SMTP server that took the email.
SentWasAccepted ==
  \A w \in Workers : outcome[w] = "sent" => delivered[Item1(w).id] > 0

\* What the promise sees of the table.
Seen == [e \in Emails |-> rows[e].status]

LEMMA SentWasAcceptedNext ==
  BasicInv /\ SentWasAccepted /\ [TimelyNext]_vars => SentWasAccepted'
<1> SUFFICES ASSUME BasicInv, SentWasAccepted, [TimelyNext]_vars PROVE SentWasAccepted'
  OBVIOUS
<1>t. /\ delivered \in [Emails -> Nat] /\ outcome \in [Workers -> Outcomes]
      /\ batch \in [Workers -> Seq(Item)]
      /\ \A w \in Workers : outcome[w] = "sent" => Item1(w).id \in Emails
  BY HeadIsItem DEF BasicInv, TypeOK, BatchInv, Carrying
<1> DEFINE Grows == \A e \in Emails : delivered'[e] \in Nat /\ delivered'[e] >= delivered[e]
           Less == \A v \in Workers : outcome'[v] = "sent" => /\ outcome[v] = "sent"
                                                              /\ batch'[v] = batch[v]
<1>1. Grows /\ Less => SentWasAccepted'
  <2> SUFFICES ASSUME Grows, Less, NEW v \in Workers, outcome'[v] = "sent"
               PROVE  delivered'[Item1(v)'.id] > 0
    BY DEF SentWasAccepted
  <2>1. outcome[v] = "sent" /\ Item1(v)' = Item1(v)
    BY DEF Item1
  <2>2. Item1(v).id \in Emails /\ delivered[Item1(v).id] > 0
    BY <1>t, <2>1 DEF SentWasAccepted
  <2> QED BY <1>t, <2>1, <2>2
<1>2. UNCHANGED delivered => Grows
  BY <1>t
<1>3. \A e \in Emails : Delivered(e) => Grows
  BY <1>t DEF Delivered
<1> HIDE DEF Grows, Less
<1>4. UNCHANGED <<batch, outcome>> => Less
  BY DEF Less
<1>5. ASSUME NEW w \in Workers, Leave(w) \/ NextItem(w) PROVE Less
  <2>1. /\ outcome' = [outcome EXCEPT ![w] = "none"]
        /\ \E b : batch' = [batch EXCEPT ![w] = b]
    BY <1>5 DEF NextItem, Leave
  <2>2. /\ outcome'[w] # "sent"
        /\ \A v \in Workers : v # w => outcome'[v] = outcome[v] /\ batch'[v] = batch[v]
    BY <1>t, <2>1
  <2> QED BY <2>2 DEF Less
<1>6. ASSUME NEW w \in Workers, NEW r \in Outcomes, r # "sent", Answer(w, r) PROVE Less
  BY <1>t, <1>6 DEF Answer, Less
<1>7. ASSUME NEW w \in Workers, Tick(w) PROVE SentWasAccepted'
  BY <1>1, <1>2, <1>4, <1>7
     DEF Tick, TickAdmitted, TickLockLost, TickFailOpen, EnterBatch, historyVars
<1>8. ASSUME NEW w \in Workers, SelectRows(w) PROVE SentWasAccepted'
  <2>1. /\ UNCHANGED outcome /\ outcome[w] # "sent"
        /\ \E b : batch' = [batch EXCEPT ![w] = b]
    BY <1>8 DEF SelectRows, BasicInv, BatchInv
  <2>2. Less
    BY <1>t, <2>1 DEF Less
  <2> QED BY <1>1, <1>2, <1>8, <2>2 DEF SelectRows, historyVars
<1>9. ASSUME NEW w \in Workers,
             \/ SelectNothing(w) \/ ClaimRace(w) \/ BatchError(w) \/ MarkExpired(w)
             \/ Record(w) \/ RecordLost(w) \/ Crash(w)
      PROVE  SentWasAccepted'
  <2>1. (Leave(w) \/ NextItem(w)) /\ UNCHANGED delivered
    BY <1>9 DEF SelectNothing, ClaimRace, BatchError, MarkExpired, Record, RecordLost, Crash,
                historyVars
  <2> QED BY <1>1, <1>2, <1>5, <2>1
<1>10. ASSUME NEW w \in Workers, Claim(w) PROVE SentWasAccepted'
  BY <1>1, <1>2, <1>4, <1>10 DEF Claim, historyVars
<1>11. ASSUME NEW w \in Workers, BuildFails(w) \/ SendRefused(w) PROVE SentWasAccepted'
  BY <1>1, <1>2, <1>6, <1>11 DEF BuildFails, SendRefused, Outcomes, historyVars
<1>12. ASSUME NEW w \in Workers, SendReplyLost(w) PROVE SentWasAccepted'
  <2>1. Item1(w).id \in Emails
    BY <1>12, HeadIsItem DEF SendReplyLost, Carrying
  <2> QED BY <1>1, <1>3, <1>6, <1>12, <2>1 DEF SendReplyLost, Outcomes
<1>13. ASSUME NEW w \in Workers, SendOk(w) PROVE SentWasAccepted'
  <2>1. Item1(w).id \in Emails
    BY <1>13, HeadIsItem DEF SendOk, Carrying
  <2>2. Grows
    BY <1>3, <1>13, <2>1 DEF SendOk
  <2>a. delivered'[Item1(w).id] > 0
    BY <1>t, <1>13, <2>1 DEF SendOk, Delivered
  <2>3. \A v \in Workers : Item1(v)' = Item1(v)
    BY <1>13 DEF SendOk, Answer, Item1
  <2>4. \A v \in Workers : v # w => outcome'[v] = outcome[v]
    BY <1>t, <1>13 DEF SendOk, Answer
  <2> SUFFICES ASSUME NEW v \in Workers, outcome'[v] = "sent"
               PROVE  delivered'[Item1(v)'.id] > 0
    BY DEF SentWasAccepted
  <2>5. CASE v = w
    BY <2>3, <2>5, <2>a
  <2>6. CASE v # w
    <3>1. Item1(v).id \in Emails /\ delivered[Item1(v).id] > 0
      BY <1>t, <2>4, <2>6 DEF SentWasAccepted
    <3> QED BY <1>t, <2>2, <2>3, <3>1 DEF Grows
  <2> QED BY <2>5, <2>6
<1>14. CASE \/ \E e \in Emails : Enqueue(e)
            \/ \E o \in Operators : RequeueSelect(o) \/ RequeueRow(o) \/ RequeueAborts(o)
            \/ Elapse \/ UNCHANGED vars
  BY <1>1, <1>2, <1>4, <1>14
     DEF Enqueue, RequeueSelect, RequeueRow, RequeueAborts, Elapse, vars, workerVars, historyVars
<1> QED
  BY <1>7, <1>8, <1>9, <1>10, <1>11, <1>12, <1>13, <1>14
  DEF TimelyNext, Act, Work, Fault

\* A write of one row's status is a Move of the promise.
LEMMA OneRowMoves ==
  ASSUME NEW e \in Emails, NEW from, NEW to,
         rows[e].status = from, rows'[e].status = to,
         \A d \in Emails \ {e} : rows'[d].status = rows[d].status,
         UNCHANGED delivered
  PROVE  Promise!Move(e, from, to)
<1>1. Seen[e] = from
  BY DEF Seen
<1>2. Seen' = [d \in Emails |-> rows'[d].status]
  BY DEF Seen
<1>3. Seen' = [Seen EXCEPT ![e] = to]
  BY <1>2 DEF Seen
<1> QED BY <1>1, <1>3 DEF Promise!Move, Seen

LEMMA NoRowMoves ==
  ASSUME \A e \in Emails : rows'[e].status = rows[e].status, UNCHANGED delivered
  PROVE  UNCHANGED Promise!vars
<1>1. Seen' = Seen
  BY DEF Seen
<1> QED BY <1>1 DEF Promise!vars, Seen

\* Every step of the outbox is a step of the promise or a stutter of it.
LEMMA PromiseStep ==
  ASSUME BasicInv, ClaimInv, SentWasAccepted, [TimelyNext]_vars
  PROVE  [Promise!Next]_(Promise!vars)
<1>t. rows \in [Emails -> Row] /\ delivered \in [Emails -> Nat]
  BY DEF BasicInv, TypeOK
<1>n. UNCHANGED <<rows, delivered>> => UNCHANGED Promise!vars
  BY NoRowMoves
<1>c. ASSUME NEW w \in Workers, pc[w] = "claim", ClaimRow(Item1(w).id, now[w]), NEW d \in Emails
      PROVE  rows'[d].status = rows[d].status
  BY <1>t, <1>c DEF ClaimRow, Row
<1>1. ASSUME NEW e \in Emails, Enqueue(e) PROVE Promise!Insert(e)
  <2>1. /\ rows[e].status = "absent" /\ rows'[e].status = "pending" /\ UNCHANGED delivered
        /\ \A d \in Emails \ {e} : rows'[d].status = rows[d].status
    BY <1>t, <1>1 DEF Enqueue, historyVars
  <2> QED BY <2>1, OneRowMoves DEF Promise!Insert
<1>2. ASSUME NEW w \in Workers,
             \/ Tick(w) \/ SelectRows(w) \/ SelectNothing(w) \/ ClaimRace(w)
             \/ BuildFails(w) \/ SendRefused(w) \/ RecordLost(w) \/ Crash(w)
      PROVE  UNCHANGED Promise!vars
  BY <1>n, <1>2
     DEF Tick, TickAdmitted, TickLockLost, TickFailOpen, EnterBatch, SelectRows, SelectNothing,
         ClaimRace, BuildFails, SendRefused, Answer, RecordLost, Crash, historyVars
<1>3. ASSUME NEW w \in Workers, Claim(w) \/ BatchError(w) PROVE UNCHANGED Promise!vars
  <2>1. /\ UNCHANGED delivered
        /\ UNCHANGED rows \/ (pc[w] = "claim" /\ ClaimRow(Item1(w).id, now[w]))
    BY <1>3 DEF Claim, BatchError, historyVars
  <2> QED BY <1>n, <1>c, <2>1, NoRowMoves
<1>4. ASSUME NEW w \in Workers, MarkExpired(w)
      PROVE  \/ UNCHANGED Promise!vars
             \/ \E e \in Emails : Promise!Expire(e)
  <2>1. PICK i \in Emails : i = Item1(w).id /\ rows[i].status = "pending"
    BY <1>4, Delivers DEF MarkExpired
  <2>2. UNCHANGED delivered /\ (UNCHANGED rows \/ rows' = [rows EXCEPT ![i].status = "expired"])
    BY <1>4, <2>1 DEF MarkExpired, historyVars
  <2>3. CASE rows' = [rows EXCEPT ![i].status = "expired"]
    <3>1. rows'[i].status = "expired" /\ \A d \in Emails \ {i} : rows'[d].status = rows[d].status
      BY <1>t, <2>3 DEF Row
    <3>2. Promise!Expire(i)
      BY <2>1, <2>2, <3>1, OneRowMoves DEF Promise!Expire
    <3> QED BY <3>2
  <2> QED BY <1>n, <2>2, <2>3
<1>5. ASSUME NEW w \in Workers, SendOk(w) \/ SendReplyLost(w)
      PROVE  \E e \in Emails : Promise!Deliver(e)
  <2>1. PICK i \in Emails : i = Item1(w).id /\ rows[i].status = "pending"
    BY <1>5, Delivers DEF SendOk, SendReplyLost
  <2>2. UNCHANGED rows /\ delivered' = [delivered EXCEPT ![i] = @ + 1]
    BY <1>5, <2>1 DEF SendOk, SendReplyLost, Answer, Delivered
  <2>3. Seen[i] = "pending" /\ Seen' = Seen
    BY <2>1, <2>2 DEF Seen
  <2>4. Promise!Deliver(i)
    BY <2>2, <2>3 DEF Promise!Deliver, Seen
  <2> QED BY <2>4
<1>6. ASSUME NEW w \in Workers, Record(w)
      PROVE  \/ UNCHANGED Promise!vars
             \/ \E e \in Emails : Promise!ConfirmSent(e) \/ Promise!GiveUp(e)
  <2>1. pc[w] = "record" /\ rows' = Recorded(w) /\ UNCHANGED delivered
    BY <1>6 DEF Record, historyVars
  <2>2. PICK i \in Emails : i = Item1(w).id /\ rows[i].status = "pending"
    BY <2>1, Delivers
  <2>3. \A d \in Emails \ {i} : rows'[d].status = rows[d].status
    BY <2>1, <2>2, RecordedElsewhere
  <2>4. \/ rows'[i].status = "sent" /\ outcome[w] = "sent"
        \/ rows'[i].status = "failed"
        \/ rows'[i].status = rows[i].status
    <3>1. rows' = CASE outcome[w] = "sent" ->
                         [rows EXCEPT ![i].status = "sent"]
                    [] outcome[w] = "unbuildable" ->
                         [rows EXCEPT ![i].status = "failed"]
                    [] outcome[w] = "error" /\ Item1(w).attempts + 1 >= MaxAttempts ->
                         [rows EXCEPT ![i].attempts = Item1(w).attempts + 1, ![i].status = "failed"]
                    [] OTHER ->
                         [rows EXCEPT ![i].attempts = Item1(w).attempts + 1,
                                      ![i].next = now[w] + Backoff[Item1(w).attempts + 1]]
      BY <2>1, <2>2 DEF Recorded
    <3>2. rows[i] \in Row
      BY <1>t
    <3> QED BY <1>t, <3>1, <3>2 DEF Row
  <2>5. CASE rows'[i].status = "sent" /\ outcome[w] = "sent"
    <3>1. delivered[i] > 0
      BY <2>2, <2>5 DEF SentWasAccepted
    <3>2. Promise!ConfirmSent(i)
      BY <2>1, <2>2, <2>3, <2>5, <3>1, OneRowMoves DEF Promise!ConfirmSent
    <3> QED BY <3>2
  <2>6. CASE rows'[i].status = "failed"
    <3>1. Promise!GiveUp(i)
      BY <2>1, <2>2, <2>3, <2>6, OneRowMoves DEF Promise!GiveUp
    <3> QED BY <3>1
  <2>7. CASE rows'[i].status = rows[i].status
    BY <2>1, <2>3, <2>7, NoRowMoves
  <2> QED BY <2>4, <2>5, <2>6, <2>7
<1>7. ASSUME NEW o \in Operators, RequeueRow(o) PROVE \E e \in Emails : Promise!Requeue(e)
  <2>1. PICK e \in todo[o] :
          rows' = [rows EXCEPT ![e].status = "pending", ![e].attempts = 0, ![e].next = asof[o]]
    BY <1>7 DEF RequeueRow
  <2>2. e \in Emails /\ rows[e].status = "failed"
    BY DEF ClaimInv, TodoFailed, BasicInv, TypeOK
  <2>3. /\ rows'[e].status = "pending" /\ UNCHANGED delivered
        /\ \A d \in Emails \ {e} : rows'[d].status = rows[d].status
    BY <1>t, <1>7, <2>1, <2>2 DEF RequeueRow, Row, historyVars
  <2> QED BY <2>2, <2>3, OneRowMoves DEF Promise!Requeue
<1>8. CASE \/ \E o \in Operators : RequeueSelect(o) \/ RequeueAborts(o)
           \/ Elapse \/ UNCHANGED vars
  BY <1>n, <1>8 DEF RequeueSelect, RequeueAborts, Elapse, vars, historyVars
<1> QED
  BY <1>1, <1>2, <1>3, <1>4, <1>5, <1>6, <1>7, <1>8
  DEF TimelyNext, Act, Work, Fault, Promise!Next

\* The table, with all its workers, claims, lost locks, crashes and operators, is what
\* the outbox promises: an email goes to SMTP only while its row is pending, "sent"
\* means that SMTP took it, "sent" and "expired" are final.
THEOREM OutboxKeepsPromise == ASSUME OneOperator PROVE TimelySpec => KeepsPromise
<1>1. Init => Promise!Init /\ SentWasAccepted
  BY DEF Init, Promise!Init, SentWasAccepted
<1>2. BasicInv /\ ClaimInv /\ SentWasAccepted /\ [TimelyNext]_vars
        => [Promise!Next]_(Promise!vars)
  BY PromiseStep
<1> QED
  BY <1>1, <1>2, SentWasAcceptedNext, TimelyInvHolds, PTL DEF TimelySpec, KeepsPromise, Promise!Spec
=============================================================================
