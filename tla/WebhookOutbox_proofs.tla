------------------------ MODULE WebhookOutbox_proofs ------------------------
(***************************************************************************)
(* The webhook outbox of an alert for every set of endpoints and workers,  *)
(* every number of events and every fault: types, the order in which an    *)
(* endpoint is asked, and, with timely batches, what a second delivery     *)
(* needs.                                                                  *)
(***************************************************************************)
EXTENDS WebhookOutbox, FiniteSetTheorems, SequenceTheorems, TLAPS

Places == {"idle", "claim", "lookup", "send", "record"}

\* Outside its loop a worker has no item, and exactly at "record" an answer.
BatchInv ==
  \A w \in Workers : /\ pc[w] # "idle" => batch[w] # << >>
                     /\ answer[w] # "none" <=> pc[w] = "record"

PendingHasAttemptsLeft ==
  \A id \in Ids : rows[id].status = "pending" => rows[id].attempts < MaxAttempts

BasicInv == TypeOK /\ BatchInv /\ PendingHasAttemptsLeft

\* The parts of BasicInv: the workers', the table's, the enqueuers', the rest.
WorkerOK ==
  /\ pc \in [Workers -> Places]
  /\ batch \in [Workers -> Seq(Item)]
  /\ \A w \in Workers : Len(batch[w]) <= BatchSize
  /\ answer \in [Workers -> {"none", "success", "error"}]
  /\ BatchInv

RowsOK == rows \in [Ids -> Row] /\ PendingHasAttemptsLeft

EnqueueOK ==
  /\ events \in 0 .. MaxEvents
  /\ inserting \in [Events -> SUBSET Hooks]
  /\ preceded \in [Events -> SUBSET Events]

CountersOK ==
  /\ accepted \in [Ids -> Nat] /\ unrecorded \in [Ids -> Nat]
  /\ faults \in 0 .. MaxFaults

LEMMA Parts ==
  BasicInv <=> /\ WorkerOK /\ RowsOK /\ EnqueueOK /\ CountersOK
               /\ configured \subseteq Hooks /\ deletions \in 0 .. MaxDeletions
BY DEF BasicInv, TypeOK, WorkerOK, RowsOK, EnqueueOK, CountersOK, Places

-----------------------------------------------------------------------------
(* Operators of the model *)

LEMMA IdsArePairs ==
  /\ \A id \in Ids : id[1] \in Events /\ id[2] \in Hooks /\ id = <<id[1], id[2]>>
  /\ \A n \in Events, h \in Hooks : <<n, h>> \in Ids /\ <<n, h>>[1] = n /\ <<n, h>>[2] = h
BY DEF Ids

LEMMA DueIsFinite ==
  /\ IsFiniteSet({id \in Ids : Due(id)})
  /\ Cardinality({id \in Ids : Due(id)}) \in Nat
<1>1. IsFiniteSet(Events)
  BY WebhookAssumption, FS_Interval DEF Events
<1>2. IsFiniteSet(Ids)
  BY <1>1, WebhookAssumption, FS_Product DEF Ids
<1>3. IsFiniteSet({id \in Ids : Due(id)})
  BY <1>2, FS_Subset
<1> QED BY <1>3, FS_CardinalityType

LEMMA HeadIsItem ==
  ASSUME WorkerOK, NEW w \in Workers, pc[w] # "idle"
  PROVE  /\ Len(batch[w]) \in Nat \ {0}
         /\ batch[w][1] = Head(batch[w])
         /\ Head(batch[w]) \in Item
         /\ This(w) \in Ids
         /\ Head(batch[w]).attempts + 1 \in 1 .. MaxAttempts
<1>1. batch[w] \in Seq(Item) /\ batch[w] # << >>
  BY DEF WorkerOK, BatchInv
<1>2. Head(batch[w]) \in Item /\ Len(batch[w]) \in Nat \ {0}
  BY <1>1, EmptySeq
<1>3. This(w) \in Ids /\ Head(batch[w]).attempts \in 0 .. MaxAttempts - 1
  BY <1>2 DEF This, Item
<1>4. Head(batch[w]).attempts + 1 \in 1 .. MaxAttempts
  BY <1>3, WebhookAssumption
<1> QED BY <1>1, <1>2, <1>3, <1>4

LEMMA TailOfBatch ==
  ASSUME NEW S, NEW s \in Seq(S), s # << >>
  PROVE  /\ Tail(s) \in Seq(S)
         /\ Len(Tail(s)) = Len(s) - 1 /\ Len(s) \in Nat \ {0}
         /\ Len(s) # 1 => Tail(s) # << >>
         /\ \A k \in 1 .. Len(Tail(s)) : k + 1 \in 1 .. Len(s) /\ Tail(s)[k] = s[k + 1]
<1>1. Len(s) \in Nat \ {0}
  BY EmptySeq
<1>2. Tail(s) \in Seq(S) /\ Len(Tail(s)) = Len(s) - 1
  BY HeadTailProperties
<1>3. Len(s) # 1 => Len(Tail(s)) # 0
  BY <1>1, <1>2
<1>4. Len(s) # 1 => Tail(s) # << >>
  BY <1>2, <1>3, EmptySeq
<1>5. \A k \in 1 .. Len(Tail(s)) : k + 1 \in 1 .. Len(s) /\ Tail(s)[k] = s[k + 1]
  BY <1>1, <1>2
<1> QED BY <1>1, <1>2, <1>4, <1>5

\* What Wake makes of a batch.
Marked(s, id) ==
  [k \in DOMAIN s |-> IF s[k].id = id THEN [s[k] EXCEPT !.late = TRUE] ELSE s[k]]

LEMMA MarkedBatch ==
  ASSUME NEW s \in Seq(Item), NEW id \in Ids
  PROVE  /\ Marked(s, id) \in Seq(Item)
         /\ Len(Marked(s, id)) = Len(s)
         /\ \A k \in 1 .. Len(s) :
              /\ Marked(s, id)[k].id = s[k].id
              /\ Marked(s, id)[k].late => s[k].late \/ s[k].id = id
<1>1. DOMAIN s = 1 .. Len(s) /\ Len(s) \in Nat /\ \A k \in 1 .. Len(s) : s[k] \in Item
  OBVIOUS
<1>2. \A i \in Item : LET m == IF i.id = id THEN [i EXCEPT !.late = TRUE] ELSE i
                      IN m \in Item /\ m.id = i.id /\ (m.late => i.late \/ i.id = id)
  BY DEF Item
<1>3. Marked(s, id) \in [1 .. Len(s) -> Item]
  BY <1>1, <1>2 DEF Marked
<1>4. Marked(s, id) \in Seq(Item)
  BY <1>1, <1>3, SeqDef
<1>5. Len(Marked(s, id)) = Len(s)
  BY <1>1, <1>4 DEF Marked
<1>6. \A k \in 1 .. Len(s) :
              /\ Marked(s, id)[k].id = s[k].id
              /\ Marked(s, id)[k].late => s[k].late \/ s[k].id = id
  BY <1>1, <1>2 DEF Marked
<1> QED BY <1>4, <1>5, <1>6

-----------------------------------------------------------------------------
(* Types *)

LEMMA LeaveOK ==
  ASSUME WorkerOK, NEW w \in Workers, Leave(w)
  PROVE  WorkerOK'
<1>1. << >> \in Seq(Item) /\ Len(<< >>) <= BatchSize
  BY WebhookAssumption
<1> QED BY <1>1 DEF WorkerOK, BatchInv, Leave, Goto, Places

LEMMA NextItemOK ==
  ASSUME WorkerOK, NEW w \in Workers, pc[w] # "idle", NextItem(w)
  PROVE  WorkerOK'
<1>1. batch[w] \in Seq(Item) /\ batch[w] # << >> /\ Len(batch[w]) <= BatchSize
  BY DEF WorkerOK, BatchInv
<1> DEFINE t == Tail(batch[w])
           p == IF Len(batch[w]) = 1 THEN "idle" ELSE "claim"
<1>2. t \in Seq(Item) /\ Len(t) <= BatchSize /\ (p # "idle" => t # << >>)
  BY <1>1, TailOfBatch, WebhookAssumption
<1>3. /\ pc' = [pc EXCEPT ![w] = p] /\ batch' = [batch EXCEPT ![w] = t]
      /\ answer' = [answer EXCEPT ![w] = "none"]
  BY DEF NextItem, Goto
<1>4. p \in {"idle", "claim"}
  OBVIOUS
<1> HIDE DEF t, p
<1> QED BY <1>2, <1>3, <1>4 DEF WorkerOK, BatchInv, Places

LEMMA GotoOK ==
  ASSUME WorkerOK, NEW w \in Workers, NEW step \in {"lookup", "send"},
         pc[w] \in {"claim", "lookup"}, Goto(w, step), UNCHANGED <<batch, answer>>
  PROVE  WorkerOK'
BY DEF WorkerOK, BatchInv, Goto, Places

LEMMA AnsweredOK ==
  ASSUME WorkerOK, NEW w \in Workers, NEW r \in {"success", "error"}, Answered(w, r)
  PROVE  WorkerOK'
BY DEF WorkerOK, BatchInv, Answered, Goto, Places, At

LEMMA RowWrite ==
  ASSUME RowsOK, NEW id \in Ids, NEW r \in Row,
         r.status = "pending" => r.attempts < MaxAttempts,
         rows' = [rows EXCEPT ![id] = r]
  PROVE  RowsOK'
<1>1. rows' \in [Ids -> Row]
  BY DEF RowsOK
<1>2. \A d \in Ids : rows'[d] = IF d = id THEN r ELSE rows[d]
  BY DEF RowsOK
<1> QED BY <1>1, <1>2 DEF RowsOK, PendingHasAttemptsLeft

LEMMA ClaimedOK ==
  ASSUME RowsOK, NEW id \in Ids, rows' = Claimed(id)
  PROVE  RowsOK'
<1> DEFINE r == [rows[id] EXCEPT !.due = FALSE, !.fresh = FALSE]
<1>1. rows[id] \in Row
  BY DEF RowsOK
<1>2. r \in Row /\ r.status = rows[id].status /\ r.attempts = rows[id].attempts
  BY <1>1 DEF Row
<1>3. rows' = [rows EXCEPT ![id] = r]
  BY DEF Claimed
<1>4. r.status = "pending" => r.attempts < MaxAttempts
  BY <1>2 DEF RowsOK, PendingHasAttemptsLeft
<1> HIDE DEF r
<1> QED BY <1>2, <1>3, <1>4, RowWrite

LEMMA RecordedOK ==
  ASSUME WorkerOK, RowsOK, NEW w \in Workers, pc[w] = "record", rows' = Recorded(w)
  PROVE  RowsOK'
<1> DEFINE id == This(w)
           tried == Head(batch[w]).attempts + 1
<1>1. id \in Ids /\ tried \in 1 .. MaxAttempts
  BY HeadIsItem
<1> HIDE DEF id, tried
<1>2. rows[id] \in Row /\ (rows[id].status = "pending" => rows[id].attempts < MaxAttempts)
  BY <1>1 DEF RowsOK, PendingHasAttemptsLeft
<1>3. answer[w] \in {"success", "error"}
  BY DEF WorkerOK, BatchInv
<1>4. CASE rows[id].status = "absent"
  <2>1. rows' = rows
    BY <1>4 DEF Recorded, id
  <2> QED BY <2>1 DEF RowsOK, PendingHasAttemptsLeft
<1>5. CASE rows[id].status # "absent" /\ answer[w] = "success"
  <2> DEFINE r == [rows[id] EXCEPT !.status = "delivered"]
  <2>1. rows' = [rows EXCEPT ![id] = r]
    BY <1>5 DEF Recorded, id
  <2>2. r \in Row /\ r.status # "pending"
    BY <1>2 DEF Row
  <2> HIDE DEF r
  <2> QED BY <1>1, <2>1, <2>2, RowWrite
<1>6. CASE rows[id].status # "absent" /\ answer[w] = "error" /\ tried >= MaxAttempts
  <2> DEFINE r == [rows[id] EXCEPT !.attempts = tried, !.status = "failed"]
  <2>1. rows' = [rows EXCEPT ![id].attempts = tried, ![id].status = "failed"]
    BY <1>6 DEF Recorded, id, tried
  <2>2. rows' = [rows EXCEPT ![id] = r]
    BY <1>1, <2>1 DEF RowsOK
  <2>a. tried \in 0 .. MaxAttempts
    BY <1>1, WebhookAssumption
  <2>3. r \in Row /\ r.status # "pending"
    BY <1>2, <2>a DEF Row
  <2> HIDE DEF r
  <2> QED BY <1>1, <2>2, <2>3, RowWrite
<1>7. CASE rows[id].status # "absent" /\ answer[w] = "error" /\ ~(tried >= MaxAttempts)
  <2> DEFINE r == [rows[id] EXCEPT !.attempts = tried]
  <2>1. rows' = [rows EXCEPT ![id] = r]
    BY <1>7 DEF Recorded, id, tried
  <2>2. r \in Row /\ r.attempts = tried
    BY <1>1, <1>2 DEF Row
  <2>3. tried < MaxAttempts
    BY <1>1, <1>7, WebhookAssumption
  <2> HIDE DEF r
  <2> QED BY <1>1, <2>1, <2>2, <2>3, RowWrite
<1> QED BY <1>3, <1>4, <1>5, <1>6, <1>7

LEMMA SelectRowsOK ==
  ASSUME WorkerOK, RowsOK, NEW w \in Workers, SelectRows(w)
  PROVE  WorkerOK'
<1> DEFINE due == {id \in Ids : Due(id)}
           n == IF Cardinality(due) < BatchSize THEN Cardinality(due) ELSE BatchSize
<1>1. n \in Nat /\ n <= BatchSize
  BY DueIsFinite, WebhookAssumption
<1>2. n > 0 /\ \E s \in [1 .. n -> due] :
        batch' = [batch EXCEPT ![w] =
          [k \in 1 .. n |-> [id |-> s[k], attempts |-> rows[s[k]].attempts, late |-> FALSE]]]
  BY DEF SelectRows
<1> HIDE DEF n
<1>3. PICK s \in [1 .. n -> due] :
        batch' = [batch EXCEPT ![w] =
          [k \in 1 .. n |-> [id |-> s[k], attempts |-> rows[s[k]].attempts, late |-> FALSE]]]
  BY <1>2
<1> DEFINE b == [k \in 1 .. n |-> [id |-> s[k], attempts |-> rows[s[k]].attempts, late |-> FALSE]]
<1>4. ASSUME NEW k \in 1 .. n
      PROVE  s[k] \in Ids /\ rows[s[k]].attempts \in 0 .. MaxAttempts - 1
  <2>1. s[k] \in Ids /\ rows[s[k]].status = "pending"
    BY DEF Due
  <2>2. rows[s[k]].attempts \in 0 .. MaxAttempts /\ rows[s[k]].attempts < MaxAttempts
    BY <2>1 DEF RowsOK, PendingHasAttemptsLeft, Row
  <2> QED BY <2>1, <2>2, WebhookAssumption
<1>5. b \in [1 .. n -> Item]
  BY <1>4 DEF Item
<1>6. b \in Seq(Item) /\ Len(b) = n
  BY <1>1, <1>5, SeqDef
<1>8. batch' = [batch EXCEPT ![w] = b]
  BY <1>3
<1> HIDE DEF b
<1>7. b # << >>
  BY <1>1, <1>2, <1>6, EmptySeq
<1>9. pc[w] = "idle" /\ pc' = [pc EXCEPT ![w] = "claim"] /\ UNCHANGED answer
  BY DEF SelectRows
<1> QED BY <1>1, <1>6, <1>7, <1>8, <1>9 DEF WorkerOK, BatchInv, Places

LEMMA WakeOK ==
  ASSUME WorkerOK, RowsOK, NEW id \in Ids, Wake(id)
  PROVE  /\ WorkerOK' /\ RowsOK'
         /\ \A v \in Workers : batch'[v] = Marked(batch[v], id)
<1>1. batch' = [v \in Workers |-> Marked(batch[v], id)] /\ UNCHANGED <<pc, answer>>
  BY DEF Wake, Marked
<1>2. \A v \in Workers : /\ batch'[v] = Marked(batch[v], id)
                         /\ batch'[v] \in Seq(Item)
                         /\ Len(batch'[v]) = Len(batch[v])
                         /\ batch[v] # << >> => batch'[v] # << >>
  <2> SUFFICES ASSUME NEW v \in Workers
               PROVE  /\ batch'[v] = Marked(batch[v], id)
                      /\ batch'[v] \in Seq(Item)
                      /\ Len(batch'[v]) = Len(batch[v])
                      /\ batch[v] # << >> => batch'[v] # << >>
    OBVIOUS
  <2>1. batch[v] \in Seq(Item)
    BY DEF WorkerOK
  <2>2. batch'[v] = Marked(batch[v], id)
    BY <1>1
  <2>3. batch'[v] \in Seq(Item) /\ Len(batch'[v]) = Len(batch[v])
    BY <2>1, <2>2, MarkedBatch
  <2>4. batch[v] # << >> => batch'[v] # << >>
    BY <2>1, <2>3, EmptySeq
  <2> QED BY <2>2, <2>3, <2>4
<1>3. batch' \in [Workers -> Seq(Item)]
  BY <1>1, <1>2
<1>4. WorkerOK'
  BY <1>1, <1>2, <1>3 DEF WorkerOK, BatchInv
<1> DEFINE r == [rows[id] EXCEPT !.due = TRUE]
<1>5. rows[id] \in Row
  BY DEF RowsOK
<1>6. r \in Row /\ r.status = rows[id].status /\ r.attempts = rows[id].attempts
  BY <1>5 DEF Row
<1>7. rows' = [rows EXCEPT ![id] = r]
  BY DEF Wake
<1>8. r.status = "pending" => r.attempts < MaxAttempts
  BY <1>6 DEF RowsOK, PendingHasAttemptsLeft
<1> HIDE DEF r
<1>9. RowsOK'
  BY <1>6, <1>7, <1>8, RowWrite
<1> QED BY <1>2, <1>4, <1>9

LEMMA BasicInvInit == Init => BasicInv
<1>1. << >> \in Seq(Item) /\ Len(<< >>) <= BatchSize
  BY WebhookAssumption
<1> QED BY <1>1, WebhookAssumption
        DEF Init, BasicInv, TypeOK, BatchInv, PendingHasAttemptsLeft, Row, NoRow

\* One step per action.
LEMMA BasicInvNext == BasicInv /\ [Next]_vars => BasicInv'
<1> SUFFICES ASSUME BasicInv, [Next]_vars PROVE BasicInv'
  OBVIOUS
<1>0. WorkerOK /\ RowsOK /\ EnqueueOK /\ CountersOK
      /\ configured \subseteq Hooks /\ deletions \in 0 .. MaxDeletions
  BY Parts
<1>p. /\ WorkerOK' /\ RowsOK' /\ EnqueueOK' /\ CountersOK'
      /\ configured' \subseteq Hooks /\ deletions' \in 0 .. MaxDeletions
      => BasicInv'
  BY DEF BasicInv, TypeOK, WorkerOK, RowsOK, EnqueueOK, CountersOK, Places
<1>a. UNCHANGED workerVars => WorkerOK'
  BY <1>0 DEF workerVars, WorkerOK, BatchInv
<1>b. UNCHANGED rows => RowsOK'
  BY <1>0 DEF RowsOK, PendingHasAttemptsLeft
<1>c. UNCHANGED enqueueVars => EnqueueOK'
  BY <1>0 DEF enqueueVars, EnqueueOK
<1>d. UNCHANGED historyVars /\ (SpendFault \/ UNCHANGED faults) => CountersOK'
  BY <1>0, WebhookAssumption DEF historyVars, CountersOK, SpendFault
<1>e. ASSUME NEW id \in Ids, Accept(id) PROVE accepted' \in [Ids -> Nat]
  BY <1>0, <1>e DEF Accept, CountersOK
<1>f. ASSUME NEW id \in Ids, Forget(id) PROVE unrecorded' \in [Ids -> Nat]
  BY <1>0, <1>f DEF Forget, CountersOK
<1>g. SpendFault => faults' \in 0 .. MaxFaults
  BY <1>0, WebhookAssumption DEF SpendFault, CountersOK
<1>h. ASSUME NEW w \in Workers, pc[w] # "idle", ForgetAnswer(w), UNCHANGED accepted, SpendFault
      PROVE  CountersOK'
  <2>1. unrecorded' \in [Ids -> Nat]
    <3>1. This(w) \in Ids
      BY <1>0, <1>h, HeadIsItem
    <3> QED BY <1>0, <1>f, <1>h, <3>1 DEF ForgetAnswer, CountersOK
  <2> QED BY <1>0, <1>g, <1>h, <2>1 DEF CountersOK
<1>1. CASE EnqueueForAlert
  <2>1. events + 1 \in Events /\ events + 1 \in 0 .. MaxEvents
    BY <1>0, <1>1, WebhookAssumption DEF EnqueueForAlert, EnqueueOK, Events
  <2>2. {n \in 1 .. events : inserting[n] = {}} \subseteq Events
    BY <1>0, WebhookAssumption DEF EnqueueOK, Events
  <2>3. EnqueueOK'
    BY <1>0, <1>1, <2>1, <2>2 DEF EnqueueForAlert, EnqueueOK
  <2> QED BY <1>0, <1>1, <1>p, <1>a, <1>b, <1>d, <2>3 DEF EnqueueForAlert
<1>2. ASSUME NEW n \in Events, InsertRow(n) PROVE BasicInv'
  <2>1. PICK h \in inserting[n] :
          \/ rows' = [rows EXCEPT ![<<n, h>>] = NewRow]
          \/ UNCHANGED rows
    BY <1>2 DEF InsertRow
  <2>2. EnqueueOK'
    BY <1>0, <1>2 DEF InsertRow, EnqueueOK
  <2>3. <<n, h>> \in Ids
    BY <1>0, IdsArePairs DEF EnqueueOK
  <2>4. NewRow \in Row /\ NewRow.attempts < MaxAttempts
    BY WebhookAssumption DEF NewRow, Row
  <2>5. RowsOK'
    BY <1>0, <1>b, <2>1, <2>3, <2>4, RowWrite
  <2> QED BY <1>0, <1>2, <1>p, <1>a, <1>d, <2>2, <2>5 DEF InsertRow
<1>3. ASSUME NEW n \in Events, InsertError(n) PROVE BasicInv'
  <2>1. EnqueueOK'
    BY <1>0, <1>3 DEF InsertError, EnqueueOK
  <2> QED BY <1>0, <1>3, <1>p, <1>a, <1>b, <1>d, <2>1 DEF InsertError
<1>4. ASSUME NEW h \in Hooks, DeleteWebhook(h) PROVE BasicInv'
  <2>1. NoRow \in Row /\ NoRow.status # "pending"
    BY WebhookAssumption DEF NoRow, Row
  <2>2. RowsOK'
    BY <1>0, <1>4, <2>1 DEF DeleteWebhook, RowsOK, PendingHasAttemptsLeft
  <2>3. configured' \subseteq Hooks /\ deletions' \in 0 .. MaxDeletions
    BY <1>0, <1>4, WebhookAssumption DEF DeleteWebhook
  <2> QED BY <1>4, <1>p, <1>a, <1>c, <1>d, <2>2, <2>3 DEF DeleteWebhook
<1>5. ASSUME NEW w \in Workers, SelectRows(w) PROVE BasicInv'
  <2>1. WorkerOK'
    BY <1>0, <1>5, SelectRowsOK
  <2> QED BY <1>0, <1>5, <1>p, <1>b, <1>c, <1>d, <2>1 DEF SelectRows, tableVars
<1>6. ASSUME NEW w \in Workers, Claim(w) PROVE BasicInv'
  <2>1. pc[w] = "claim" /\ This(w) \in Ids
    BY <1>0, <1>6, HeadIsItem DEF Claim, At
  <2>2. RowsOK'
    BY <1>0, <1>6, <2>1, ClaimedOK DEF Claim
  <2>3. WorkerOK'
    BY <1>0, <1>6, <2>1, GotoOK DEF Claim
  <2> QED BY <1>0, <1>6, <1>p, <1>c, <1>d, <2>2, <2>3 DEF Claim
<1>7. ASSUME NEW w \in Workers, ClaimRace(w) PROVE BasicInv'
  <2>1. WorkerOK'
    BY <1>0, <1>7, NextItemOK DEF ClaimRace, At
  <2> QED BY <1>0, <1>7, <1>p, <1>b, <1>c, <1>d, <2>1 DEF ClaimRace, tableVars
<1>8. ASSUME NEW w \in Workers, Lookup(w) PROVE BasicInv'
  <2>1. WorkerOK'
    BY <1>0, <1>8, NextItemOK, GotoOK DEF Lookup, At
  <2> QED BY <1>0, <1>8, <1>p, <1>b, <1>c, <1>d, <2>1 DEF Lookup, tableVars
<1>9. ASSUME NEW w \in Workers, BatchError(w) PROVE BasicInv'
  <2>1. WorkerOK'
    BY <1>0, <1>9, LeaveOK DEF BatchError
  <2>2. This(w) \in Ids
    BY <1>0, <1>9, HeadIsItem DEF BatchError
  <2>3. RowsOK'
    BY <1>0, <1>9, <1>b, <2>2, ClaimedOK DEF BatchError
  <2> QED BY <1>0, <1>9, <1>p, <1>c, <1>d, <2>1, <2>3 DEF BatchError
<1>10. ASSUME NEW w \in Workers, PostAccepted(w) PROVE BasicInv'
  <2>1. This(w) \in Ids
    BY <1>0, <1>10, HeadIsItem DEF PostAccepted, Answered, At
  <2>2. WorkerOK'
    BY <1>0, <1>10, AnsweredOK DEF PostAccepted
  <2>3. CountersOK'
    BY <1>0, <1>10, <1>e, <2>1 DEF PostAccepted, CountersOK
  <2> QED BY <1>0, <1>10, <1>p, <1>b, <1>c, <2>2, <2>3 DEF PostAccepted, Answered, tableVars
<1>11. ASSUME NEW w \in Workers, PostRefused(w) PROVE BasicInv'
  <2>1. WorkerOK'
    BY <1>0, <1>11, AnsweredOK DEF PostRefused
  <2> QED BY <1>0, <1>11, <1>p, <1>b, <1>c, <1>d, <2>1 DEF PostRefused, Answered, tableVars
<1>12. ASSUME NEW w \in Workers, AnswerLost(w) PROVE BasicInv'
  <2>1. This(w) \in Ids
    BY <1>0, <1>12, HeadIsItem DEF AnswerLost, Answered, At
  <2>2. WorkerOK'
    BY <1>0, <1>12, AnsweredOK DEF AnswerLost
  <2>3. CountersOK'
    BY <1>12, <1>e, <1>f, <1>g, <2>1 DEF AnswerLost, CountersOK
  <2> QED BY <1>0, <1>12, <1>p, <1>b, <1>c, <2>2, <2>3 DEF AnswerLost, Answered, tableVars
<1>13. ASSUME NEW w \in Workers, Record(w) PROVE BasicInv'
  <2>1. WorkerOK'
    BY <1>0, <1>13, NextItemOK DEF Record, At
  <2>2. RowsOK'
    BY <1>0, <1>13, RecordedOK DEF Record, At
  <2> QED BY <1>0, <1>13, <1>p, <1>c, <1>d, <2>1, <2>2 DEF Record
<1>14. ASSUME NEW w \in Workers, RecordLost(w) PROVE BasicInv'
  <2>1. WorkerOK'
    BY <1>0, <1>14, NextItemOK DEF RecordLost, At
  <2> QED BY <1>0, <1>14, <1>p, <1>b, <1>c, <1>h, <2>1 DEF RecordLost, At, tableVars
<1>15. ASSUME NEW w \in Workers, Crash(w) PROVE BasicInv'
  <2>1. WorkerOK'
    BY <1>0, <1>15, LeaveOK DEF Crash
  <2> QED BY <1>0, <1>15, <1>p, <1>b, <1>c, <1>h, <2>1 DEF Crash, At, tableVars
<1>16. ASSUME NEW id \in Ids, Wake(id) PROVE BasicInv'
  <2>1. WorkerOK' /\ RowsOK'
    BY <1>0, <1>16, WakeOK
  <2> QED BY <1>0, <1>16, <1>p, <1>c, <1>d, <2>1 DEF Wake
<1>17. CASE UNCHANGED vars
  BY <1>0, <1>17, <1>p, <1>a, <1>b, <1>c, <1>d DEF vars, tableVars
<1> QED
  BY <1>1, <1>2, <1>3, <1>4, <1>5, <1>6, <1>7, <1>8, <1>9, <1>10, <1>11, <1>12, <1>13,
     <1>14, <1>15, <1>16, <1>17
  DEF Next, Work, Fault

LEMMA BasicInvHolds == Spec => []BasicInv
BY BasicInvInit, BasicInvNext, PTL DEF Spec

\* The variables stay in their ranges; a retry is never scheduled for a row whose
\* attempts are used up, so that the counter stays within max_attempts also when the
\* stale writes of several workers cross.
THEOREM TypeCorrect == Spec => []TypeOK
BY BasicInvHolds, PTL DEF BasicInv

-----------------------------------------------------------------------------
(* The order in which an endpoint is asked                                  *)
(*                                                                          *)
(* A worker claims its batch from the front, and the SELECT puts an event   *)
(* that nobody has claimed behind all older ones that nobody has claimed.   *)
(* So an older event is waiting at most as long as it is in front of the    *)
(* younger one in every batch that holds the younger one.                   *)

\* The row's INSERT is still to come, if it comes.
Unborn(id) == id[1] > events \/ id[2] \in inserting[id[1]]

\* Nobody has claimed the row yet.
Waiting(id) == rows[id].status = "pending" /\ rows[id].fresh

HistoryInv ==
  /\ \A id \in Ids : Unborn(id) => rows[id] = NoRow
  /\ \A id \in Ids : Waiting(id) => rows[id].due
  /\ \A m \in Events : \A n \in preceded[m] : n < m /\ n <= events /\ inserting[n] = {}
  /\ \A n \in Events : inserting[n] # {} => n <= events

\* A row is claimed only after the older rows of its endpoint.
ClaimedInOrder ==
  \A id \in Ids : ~rows[id].fresh => \A n \in preceded[id[1]] : ~Waiting(<<n, id[2]>>)

\* In a batch a waiting row is in front of the younger rows of its endpoint.
ItemInOrder(w, k) ==
  /\ ~Unborn(batch[w][k].id)
  /\ batch[w][k].late => ~Waiting(batch[w][k].id)
  /\ \A n \in preceded[batch[w][k].id[1]] :
       Waiting(<<n, batch[w][k].id[2]>>)
         => \E j \in 1 .. k - 1 : batch[w][j].id = <<n, batch[w][k].id[2]>>

BatchInOrder(w) == \A k \in 1 .. Len(batch[w]) : ItemInOrder(w, k)

HeadClaimed(w) == pc[w] \in {"lookup", "send", "record"} => ~Waiting(This(w))

OrderInv ==
  /\ HistoryInv /\ ClaimedInOrder
  /\ \A w \in Workers : BatchInOrder(w) /\ HeadClaimed(w)

\* What every step does to the rows: one starts to wait only by its INSERT, which
\* comes once, and what preceded an event stays.
Advance ==
  /\ \A id \in Ids : Waiting(id)' => Waiting(id) \/ Unborn(id)
  /\ \A id \in Ids : Unborn(id)' => Unborn(id)
  /\ \A m \in Events : m <= events => preceded'[m] = preceded[m]

LEMMA OlderIsBorn ==
  ASSUME BasicInv, HistoryInv, NEW id \in Ids, ~Unborn(id), NEW n \in preceded[id[1]]
  PROVE  <<n, id[2]>> \in Ids /\ ~Unborn(<<n, id[2]>>)
<1>1. id[1] \in Events /\ id[2] \in Hooks
  BY IdsArePairs
<1>2. n \in Events /\ n <= events /\ inserting[n] = {}
  BY <1>1 DEF BasicInv, TypeOK, HistoryInv
<1>3. <<n, id[2]>> \in Ids /\ <<n, id[2]>>[1] = n
  BY <1>1, <1>2, IdsArePairs
<1>4. n \in Nat /\ events \in Nat
  BY <1>2, WebhookAssumption DEF Events, BasicInv, TypeOK
<1> QED BY <1>2, <1>3, <1>4 DEF Unborn

\* The older rows of a row that is in the table: none that is claimed waits again.
LEMMA ClaimedStays ==
  ASSUME BasicInv, HistoryInv, Advance, NEW id \in Ids, ~Unborn(id)
  PROVE  /\ preceded'[id[1]] = preceded[id[1]]
         /\ ~Waiting(id) => ~Waiting(id)'
         /\ \A n \in preceded[id[1]] : ~Waiting(<<n, id[2]>>) => ~Waiting(<<n, id[2]>>)'
         /\ ~Unborn(id)'
<1>1. id[1] \in Events
  BY IdsArePairs
<1>2. id[1] <= events
  <2>1. id[1] \in Nat /\ events \in Nat
    BY <1>1, WebhookAssumption DEF Events, BasicInv, TypeOK
  <2> QED BY <2>1 DEF Unborn
<1>3. preceded'[id[1]] = preceded[id[1]]
  BY <1>1, <1>2 DEF Advance
<1>4. ASSUME NEW n \in preceded[id[1]], ~Waiting(<<n, id[2]>>)
      PROVE  ~Waiting(<<n, id[2]>>)'
  <2>1. <<n, id[2]>> \in Ids /\ ~Unborn(<<n, id[2]>>)
    BY <1>4, OlderIsBorn
  <2> QED BY <1>4, <2>1 DEF Advance
<1>5. (~Waiting(id) => ~Waiting(id)') /\ ~Unborn(id)'
  BY DEF Advance
<1> QED BY <1>3, <1>4, <1>5

\* Every action but EnqueueForAlert: each row is left alone, inserted, deleted with
\* its endpoint, or written without going back to waiting.
LEMMA TableStep ==
  ASSUME BasicInv, HistoryInv, UNCHANGED <<events, preceded>>,
         \A n \in Events : inserting'[n] \subseteq inserting[n],
         \A id \in Ids :
           \/ rows'[id] = rows[id]
           \/ Unborn(id) /\ ~Unborn(id)' /\ rows'[id] = NewRow
           \/ rows'[id] = NoRow
           \/ ~Unborn(id) /\ (Waiting(id)' => Waiting(id) /\ rows'[id].due)
  PROVE  Advance /\ HistoryInv'
<1>1. \A id \in Ids : Unborn(id)' => Unborn(id)
  BY IdsArePairs DEF Unborn
<1>2. ~(NoRow.status = "pending") /\ NewRow.due
  BY DEF NoRow, NewRow
<1>3. ASSUME NEW id \in Ids
      PROVE  /\ Waiting(id)' => Waiting(id) \/ Unborn(id)
             /\ Unborn(id)' => rows'[id] = NoRow
             /\ Waiting(id)' => rows'[id].due
  <2>1. CASE rows'[id] = rows[id]
    BY <1>1, <2>1 DEF Waiting, HistoryInv
  <2>2. CASE Unborn(id) /\ ~Unborn(id)' /\ rows'[id] = NewRow
    BY <1>2, <2>2 DEF Waiting
  <2>3. CASE rows'[id] = NoRow
    BY <1>2, <2>3 DEF Waiting
  <2>4. CASE ~Unborn(id) /\ (Waiting(id)' => Waiting(id) /\ rows'[id].due)
    BY <1>1, <2>4
  <2> QED BY <2>1, <2>2, <2>3, <2>4
<1>4. Advance
  BY <1>1, <1>3 DEF Advance
<1>5. \A m \in Events : \A n \in preceded'[m] : n < m /\ n <= events' /\ inserting'[n] = {}
  <2>1. \A m \in Events : preceded[m] \subseteq Events
    BY DEF BasicInv, TypeOK
  <2> QED BY <2>1 DEF HistoryInv
<1>6. \A n \in Events : inserting'[n] # {} => n <= events'
  BY DEF HistoryInv
<1> QED BY <1>3, <1>4, <1>5, <1>6 DEF HistoryInv

\* A row becomes claimed only as the first item of somebody's batch.
LEMMA ClaimsInOrder ==
  ASSUME BasicInv, OrderInv, Advance,
         \A id \in Ids : ~rows'[id].fresh =>
           ~rows[id].fresh \/ \E w \in Workers : pc[w] = "claim" /\ id = This(w)
  PROVE  ClaimedInOrder'
<1> SUFFICES ASSUME NEW id \in Ids, ~rows'[id].fresh, NEW n \in preceded'[id[1]]
             PROVE  ~Waiting(<<n, id[2]>>)'
  BY DEF ClaimedInOrder
<1>1. ~Unborn(id) /\ \A m \in preceded[id[1]] : ~Waiting(<<m, id[2]>>)
  <2>1. CASE ~rows[id].fresh
    <3>1. NoRow.fresh
      BY DEF NoRow
    <3> QED BY <2>1, <3>1 DEF OrderInv, HistoryInv, ClaimedInOrder
  <2>2. CASE \E w \in Workers : pc[w] = "claim" /\ id = This(w)
    <3>1. PICK w \in Workers : pc[w] = "claim" /\ id = This(w)
      BY <2>2
    <3>2. 1 \in 1 .. Len(batch[w]) /\ batch[w][1].id = id
      BY <3>1, Parts, HeadIsItem DEF This
    <3>3. BatchInOrder(w)
      BY DEF OrderInv
    <3>4. ~Unborn(id)
      BY <3>2, <3>3 DEF BatchInOrder, ItemInOrder
    <3>5. \A m \in preceded[id[1]] :
            Waiting(<<m, id[2]>>) => \E j \in 1 .. 1 - 1 : batch[w][j].id = <<m, id[2]>>
      BY <3>2, <3>3 DEF BatchInOrder, ItemInOrder
    <3> QED BY <3>4, <3>5
  <2> QED BY <2>1, <2>2
<1>2. HistoryInv
  BY DEF OrderInv
<1> QED BY <1>1, <1>2, ClaimedStays

\* A batch with the same rows, of which no waiting one is marked as late.
LEMMA SameItems ==
  ASSUME BasicInv, OrderInv, Advance, NEW w \in Workers,
         Len(batch'[w]) = Len(batch[w]),
         \A k \in 1 .. Len(batch[w]) :
           /\ batch'[w][k].id = batch[w][k].id
           /\ batch'[w][k].late => batch[w][k].late \/ ~Waiting(batch[w][k].id)
  PROVE  BatchInOrder(w)'
<1>1. batch[w] \in Seq(Item) /\ HistoryInv /\ BatchInOrder(w)
  BY DEF BasicInv, TypeOK, OrderInv
<1> SUFFICES ASSUME NEW k \in 1 .. Len(batch[w]) PROVE ItemInOrder(w, k)'
  BY DEF BatchInOrder
<1>a. batch[w][k] \in Item
  BY <1>1
<1>2. PICK id \in Ids : id = batch[w][k].id
  BY <1>a DEF Item
<1>3. batch'[w][k].id = id
  BY <1>2
<1>4. /\ ~Unborn(id) /\ (batch[w][k].late => ~Waiting(id))
      /\ \A n \in preceded[id[1]] :
           Waiting(<<n, id[2]>>) => \E j \in 1 .. k - 1 : batch[w][j].id = <<n, id[2]>>
  BY <1>1, <1>2 DEF BatchInOrder, ItemInOrder
<1>5. /\ preceded'[id[1]] = preceded[id[1]] /\ ~Unborn(id)'
      /\ ~Waiting(id) => ~Waiting(id)'
      /\ \A n \in preceded[id[1]] : ~Waiting(<<n, id[2]>>) => ~Waiting(<<n, id[2]>>)'
  BY <1>1, <1>4, ClaimedStays
<1>6. \A j \in 1 .. k - 1 : batch'[w][j].id = batch[w][j].id
  BY <1>1
<1>7. batch'[w][k].late => ~Waiting(id)
  BY <1>2, <1>4
<1>8. \A n \in preceded'[id[1]] :
        Waiting(<<n, id[2]>>)' => \E j \in 1 .. k - 1 : batch'[w][j].id = <<n, id[2]>>
  BY <1>4, <1>5, <1>6
<1> QED BY <1>3, <1>5, <1>7, <1>8 DEF ItemInOrder, Unborn, Waiting

\* The loop goes on from a row that does not wait.
LEMMA TailInOrder ==
  ASSUME BasicInv, OrderInv, Advance, NEW w \in Workers, pc[w] # "idle",
         batch'[w] = Tail(batch[w]), ~Waiting(This(w))
  PROVE  BatchInOrder(w)'
<1>1. batch[w] \in Seq(Item) /\ batch[w] # << >> /\ HistoryInv /\ BatchInOrder(w)
  BY DEF BasicInv, TypeOK, BatchInv, OrderInv
<1>2. /\ Len(batch'[w]) = Len(batch[w]) - 1 /\ Len(batch[w]) \in Nat \ {0}
      /\ \A k \in 1 .. Len(batch'[w]) :
           k + 1 \in 1 .. Len(batch[w]) /\ batch'[w][k] = batch[w][k + 1]
  BY <1>1, TailOfBatch
<1>3. batch[w][1].id = This(w)
  BY <1>1 DEF This
<1> SUFFICES ASSUME NEW k \in 1 .. Len(batch'[w]) PROVE ItemInOrder(w, k)'
  BY DEF BatchInOrder
<1>4. k + 1 \in 1 .. Len(batch[w]) /\ batch'[w][k] = batch[w][k + 1] /\ k \in Nat
  BY <1>2
<1>a. batch[w][k + 1] \in Item
  BY <1>1, <1>4
<1>5. PICK id \in Ids : id = batch[w][k + 1].id
  BY <1>a DEF Item
<1>6. /\ ~Unborn(id) /\ (batch[w][k + 1].late => ~Waiting(id))
      /\ \A n \in preceded[id[1]] :
           Waiting(<<n, id[2]>>) => \E j \in 1 .. (k + 1) - 1 : batch[w][j].id = <<n, id[2]>>
  BY <1>1, <1>4, <1>5 DEF BatchInOrder, ItemInOrder
<1>7. /\ preceded'[id[1]] = preceded[id[1]] /\ ~Unborn(id)'
      /\ ~Waiting(id) => ~Waiting(id)'
      /\ \A n \in preceded[id[1]] : ~Waiting(<<n, id[2]>>) => ~Waiting(<<n, id[2]>>)'
  BY <1>1, <1>6, ClaimedStays
<1>8. ASSUME NEW n \in preceded[id[1]], Waiting(<<n, id[2]>>)
      PROVE  \E j \in 1 .. k - 1 : batch'[w][j].id = <<n, id[2]>>
  <2>0. (k + 1) - 1 = k
    BY <1>4
  <2>1. PICK j \in 1 .. k : batch[w][j].id = <<n, id[2]>>
    BY <1>6, <1>8, <2>0
  <2>2. j # 1
    BY <1>3, <1>8, <2>1
  <2>3. j - 1 \in 1 .. k - 1 /\ j - 1 \in 1 .. Len(batch'[w]) /\ (j - 1) + 1 = j
    BY <1>2, <1>4, <2>2
  <2>4. batch'[w][j - 1] = batch[w][j]
    BY <1>2, <2>3
  <2> QED BY <2>1, <2>3, <2>4
<1>9. batch'[w][k].id = id /\ (batch'[w][k].late => ~Waiting(id)')
  BY <1>4, <1>5, <1>6, <1>7
<1>10. \A n \in preceded'[id[1]] :
         Waiting(<<n, id[2]>>)' => \E j \in 1 .. k - 1 : batch'[w][j].id = <<n, id[2]>>
  BY <1>7, <1>8
<1> QED BY <1>7, <1>9, <1>10 DEF ItemInOrder, Unborn, Waiting

\* The SELECT's answer.
LEMMA AnswerInOrder ==
  ASSUME BasicInv, OrderInv, NEW w \in Workers, SelectRows(w)
  PROVE  BatchInOrder(w)'
<1> DEFINE due == {id \in Ids : Due(id)}
           n == IF Cardinality(due) < BatchSize THEN Cardinality(due) ELSE BatchSize
<1>1. n \in Nat
  BY DueIsFinite, WebhookAssumption
<1>2. \E s \in [1 .. n -> due] :
        /\ InOrder(s, n)
        /\ batch' = [batch EXCEPT ![w] =
             [k \in 1 .. n |-> [id |-> s[k], attempts |-> rows[s[k]].attempts, late |-> FALSE]]]
  BY DEF SelectRows
<1> HIDE DEF n
<1>3. PICK s \in [1 .. n -> due] :
        /\ InOrder(s, n)
        /\ batch' = [batch EXCEPT ![w] =
             [k \in 1 .. n |-> [id |-> s[k], attempts |-> rows[s[k]].attempts, late |-> FALSE]]]
  BY <1>2
<1>4. batch'[w] = [k \in 1 .. n |-> [id |-> s[k], attempts |-> rows[s[k]].attempts, late |-> FALSE]]
  BY <1>3 DEF BasicInv, TypeOK
<1>5. Len(batch'[w]) = n /\ \A k \in 1 .. n : batch'[w][k].id = s[k] /\ ~batch'[w][k].late
  BY <1>1, <1>4
<1>6. UNCHANGED <<rows, events, inserting, preceded>>
  BY DEF SelectRows, tableVars, enqueueVars
<1> SUFFICES ASSUME NEW k \in 1 .. n
             PROVE  /\ ~Unborn(s[k])
                    /\ \A m \in preceded[s[k][1]] :
                         Waiting(<<m, s[k][2]>>) => \E j \in 1 .. k - 1 : s[j] = <<m, s[k][2]>>
  <2> SUFFICES ASSUME NEW k \in 1 .. n PROVE ItemInOrder(w, k)'
    BY <1>5 DEF BatchInOrder
  <2>1. \A j \in 1 .. k - 1 : batch'[w][j].id = s[j]
    BY <1>1, <1>5
  <2>2. batch'[w][k].id = s[k] /\ ~batch'[w][k].late
    BY <1>5
  <2>3. /\ ~Unborn(s[k])
        /\ \A m \in preceded[s[k][1]] :
             Waiting(<<m, s[k][2]>>) => \E j \in 1 .. k - 1 : s[j] = <<m, s[k][2]>>
    OBVIOUS
  <2> QED BY <1>6, <2>1, <2>2, <2>3 DEF ItemInOrder, Unborn, Waiting
<1>7. s[k] \in Ids /\ Due(s[k])
  OBVIOUS
<1>8. ~Unborn(s[k])
  BY <1>7 DEF OrderInv, HistoryInv, Due, NoRow
<1>9. ASSUME NEW m \in preceded[s[k][1]], Waiting(<<m, s[k][2]>>)
      PROVE  \E j \in 1 .. k - 1 : s[j] = <<m, s[k][2]>>
  <2> DEFINE older == <<m, s[k][2]>>
  <2>1. older \in Ids /\ m < s[k][1]
    BY <1>7, <1>8, OlderIsBorn, IdsArePairs DEF OrderInv, HistoryInv
  <2>2. older[1] = m
    OBVIOUS
  <2>3. Due(older) /\ rows[older].fresh
    BY <1>9, <2>1 DEF OrderInv, HistoryInv, Waiting, Due
  <2>4. rows[s[k]].fresh
    BY <1>7, <1>9 DEF OrderInv, ClaimedInOrder
  <2> HIDE DEF older
  <2>5. \E j \in 1 .. k - 1 : s[j] = older
    BY <1>3, <2>1, <2>2, <2>3, <2>4 DEF InOrder
  <2> QED BY <2>5 DEF older
<1> QED BY <1>8, <1>9

\* A worker that keeps its batch.
LEMMA SameBatch ==
  ASSUME BasicInv, OrderInv, Advance, NEW v \in Workers, batch'[v] = batch[v],
         pc'[v] \in {"lookup", "send", "record"} => pc[v] \in {"lookup", "send", "record"}
  PROVE  BatchInOrder(v)' /\ HeadClaimed(v)'
<1>1. BatchInOrder(v)'
  BY SameItems
<1>2. CASE pc'[v] \in {"lookup", "send", "record"}
  <2>1. This(v) \in Ids /\ 1 \in 1 .. Len(batch[v]) /\ batch[v][1].id = This(v)
    BY <1>2, Parts, HeadIsItem DEF This
  <2>2. ~Unborn(This(v)) /\ ~Waiting(This(v))
    BY <1>2, <2>1 DEF OrderInv, BatchInOrder, ItemInOrder, HeadClaimed
  <2>3. This(v)' = This(v)
    BY DEF This
  <2>4. PICK id \in Ids : id = This(v)
    BY <2>1
  <2>5. ~Waiting(id)'
    BY <2>2, <2>4, ClaimedStays DEF OrderInv
  <2> QED BY <1>1, <2>3, <2>4, <2>5 DEF HeadClaimed, Waiting
<1>3. CASE pc'[v] \notin {"lookup", "send", "record"}
  BY <1>1, <1>3 DEF HeadClaimed
<1> QED BY <1>2, <1>3

\* A worker whose item is done, or that gives up its batch.
LEMMA LeftBatch ==
  ASSUME BasicInv, OrderInv, Advance, NEW w \in Workers, pc[w] # "idle",
         Leave(w) \/ (NextItem(w) /\ ~Waiting(This(w)))
  PROVE  BatchInOrder(w)' /\ HeadClaimed(w)'
<1>1. /\ pc'[w] \in {"idle", "claim"}
      /\ batch'[w] = << >> \/ (batch'[w] = Tail(batch[w]) /\ ~Waiting(This(w)))
  BY DEF Leave, NextItem, Goto, BasicInv, TypeOK
<1>2. CASE batch'[w] = << >>
  BY <1>1, <1>2 DEF BatchInOrder, HeadClaimed
<1>3. CASE batch'[w] = Tail(batch[w]) /\ ~Waiting(This(w))
  BY <1>1, <1>3, TailInOrder DEF HeadClaimed
<1> QED BY <1>1, <1>2, <1>3

LEMMA HeadIsBorn ==
  ASSUME BasicInv, OrderInv, NEW w \in Workers, pc[w] # "idle"
  PROVE  /\ This(w) \in Ids /\ ~Unborn(This(w))
         /\ Head(batch[w]).late => ~Waiting(This(w))
<1>1. This(w) \in Ids /\ 1 \in 1 .. Len(batch[w]) /\ batch[w][1] = Head(batch[w])
  BY Parts, HeadIsItem
<1> QED BY <1>1 DEF OrderInv, BatchInOrder, ItemInOrder, This

\* The claiming UPDATE.
LEMMA ClaimStep ==
  ASSUME BasicInv, OrderInv, NEW w \in Workers, pc[w] = "claim", UNCHANGED enqueueVars,
         rows' = Claimed(This(w))
  PROVE  /\ Advance /\ HistoryInv' /\ ClaimedInOrder'
         /\ \A id \in Ids : id = This(w) => ~Waiting(id)'
<1>1. PICK i \in Ids : i = This(w) /\ ~Unborn(i)
  BY HeadIsBorn
<1>2. /\ \A id \in Ids : id # i => rows'[id] = rows[id]
      /\ ~rows'[i].fresh
  <2>1. rows \in [Ids -> Row] /\ rows[i] \in Row
    BY DEF BasicInv, TypeOK
  <2>2. rows' = [rows EXCEPT ![i] = [rows[i] EXCEPT !.due = FALSE, !.fresh = FALSE]]
    BY <1>1 DEF Claimed
  <2> QED BY <2>1, <2>2 DEF Row
<1>3. ~Waiting(i)'
  BY <1>2 DEF Waiting
<1>4. Advance /\ HistoryInv'
  BY <1>1, <1>2, <1>3, TableStep DEF OrderInv, enqueueVars
<1>5. ClaimedInOrder'
  BY <1>1, <1>2, <1>4, ClaimsInOrder
<1> QED BY <1>1, <1>3, <1>4, <1>5

\* The write of an outcome.
LEMMA RecordStep ==
  ASSUME BasicInv, OrderInv, NEW w \in Workers, pc[w] = "record", UNCHANGED enqueueVars,
         rows' = Recorded(w)
  PROVE  Advance /\ HistoryInv' /\ ClaimedInOrder'
<1>1. PICK i \in Ids : i = This(w) /\ ~Unborn(i)
  BY HeadIsBorn
<1>2. /\ \A id \in Ids : id # i => rows'[id] = rows[id]
      /\ rows'[i].fresh = rows[i].fresh /\ rows'[i].due = rows[i].due
      /\ rows'[i].status = "pending" => rows[i].status = "pending"
  <2>1. rows \in [Ids -> Row] /\ rows[i] \in Row
    BY DEF BasicInv, TypeOK
  <2>2. \/ rows' = rows
        \/ rows' = [rows EXCEPT ![i].status = "delivered"]
        \/ rows' = [rows EXCEPT ![i].attempts = Head(batch[w]).attempts + 1, ![i].status = "failed"]
        \/ rows' = [rows EXCEPT ![i].attempts = Head(batch[w]).attempts + 1]
    BY <1>1 DEF Recorded
  <2> QED BY <2>1, <2>2 DEF Row
<1>3. Waiting(i)' => Waiting(i) /\ rows'[i].due
  BY <1>2 DEF Waiting, OrderInv, HistoryInv
<1>4. Advance /\ HistoryInv'
  BY <1>1, <1>2, <1>3, TableStep DEF OrderInv, enqueueVars
<1>5. ClaimedInOrder'
  BY <1>2, <1>4, ClaimsInOrder
<1> QED BY <1>4, <1>5

LEMMA OrderInvInit == Init => OrderInv
BY DEF Init, OrderInv, HistoryInv, ClaimedInOrder, BatchInOrder, HeadClaimed, Unborn, Waiting,
       NoRow

LEMMA OrderInvNext == BasicInv /\ OrderInv /\ [Next]_vars => OrderInv'
<1> SUFFICES ASSUME BasicInv, OrderInv, [Next]_vars PROVE OrderInv'
  OBVIOUS
<1> DEFINE TableOK == Advance /\ HistoryInv' /\ ClaimedInOrder'
           Safe == {"lookup", "send", "record"}
<1>t. /\ rows \in [Ids -> Row] /\ batch \in [Workers -> Seq(Item)] /\ pc \in [Workers -> Places]
      /\ inserting \in [Events -> SUBSET Hooks] /\ preceded \in [Events -> SUBSET Events]
      /\ events \in 0 .. MaxEvents
  BY DEF BasicInv, TypeOK, Places
<1>a. TableOK /\ (\A v \in Workers : BatchInOrder(v)' /\ HeadClaimed(v)') => OrderInv'
  BY DEF OrderInv
<1>b. UNCHANGED <<rows, enqueueVars>> => TableOK
  <2> SUFFICES ASSUME UNCHANGED <<rows, enqueueVars>> PROVE TableOK
    OBVIOUS
  <2>1. Advance /\ HistoryInv'
    BY TableStep DEF enqueueVars, OrderInv
  <2> QED BY <2>1, ClaimsInOrder
<1>c. TableOK /\ UNCHANGED workerVars => OrderInv'
  BY <1>a, SameBatch DEF workerVars
\* Only w's batch changes, and w leaves it or goes on behind a claimed row.
<1>d. ASSUME NEW w \in Workers, TableOK, pc[w] # "idle",
             Leave(w) \/ (NextItem(w) /\ ~Waiting(This(w)))
      PROVE  OrderInv'
  <2>1. BatchInOrder(w)' /\ HeadClaimed(w)'
    BY <1>d, LeftBatch
  <2>2. \A v \in Workers : v # w => batch'[v] = batch[v] /\ pc'[v] = pc[v]
    BY <1>t, <1>d DEF Leave, NextItem, Goto
  <2>3. \A v \in Workers : v # w => BatchInOrder(v)' /\ HeadClaimed(v)'
    BY <1>d, <2>2, SameBatch
  <2> QED BY <1>a, <1>d, <2>1, <2>3
\* Only w's place changes, and its item is claimed already.
<1>e. ASSUME NEW w \in Workers, NEW step, TableOK, pc[w] \in Safe, Goto(w, step), UNCHANGED batch
      PROVE  OrderInv'
  <2>1. \A v \in Workers : pc'[v] \in Safe => pc[v] \in Safe
    BY <1>t, <1>e DEF Goto
  <2>2. \A v \in Workers : BatchInOrder(v)' /\ HeadClaimed(v)'
    BY <1>e, <2>1, SameBatch
  <2> QED BY <1>a, <1>e, <2>2
<1> HIDE DEF TableOK
<1>1. CASE EnqueueForAlert
  <2> DEFINE m == events + 1
  <2>1. /\ m \in Events /\ events \in Nat /\ events' = m
        /\ inserting' = [inserting EXCEPT ![m] = configured]
        /\ preceded' = [preceded EXCEPT ![m] = {n \in 1 .. events : inserting[n] = {}}]
        /\ UNCHANGED rows
    BY <1>t, <1>1, WebhookAssumption DEF EnqueueForAlert, Events
  <2> HIDE DEF m
  <2>m. m = events + 1 /\ \A n \in Events : n \in Nat
    BY WebhookAssumption DEF m, Events
  <2>2. \A n \in Events : n <= events => n # m /\ inserting'[n] = inserting[n]
                                         /\ preceded'[n] = preceded[n] /\ n <= events'
    BY <1>t, <2>1, <2>m
  <2>3. ASSUME NEW id \in Ids, Unborn(id)' PROVE Unborn(id)
    <3>1. PICK n \in Events : n = id[1]
      BY IdsArePairs
    <3>2. n \in Nat /\ events \in Nat /\ events' \in Nat
      BY <2>1, <2>m
    <3>3. n > events' \/ id[2] \in inserting'[n]
      BY <2>3, <3>1 DEF Unborn
    <3>4. n > events \/ id[2] \in inserting[n]
      BY <2>2, <3>2, <3>3
    <3> QED BY <3>1, <3>4 DEF Unborn
  <2>4. Advance
    BY <2>1, <2>2, <2>3 DEF Advance, Waiting
  <2>5. ASSUME NEW k \in Events, NEW n \in preceded'[k]
        PROVE  n < k /\ n <= events' /\ inserting'[n] = {}
    <3>1. n \in Events /\ n < k /\ n <= events /\ inserting[n] = {}
      <4>1. CASE k = m
        BY <1>t, <2>1, <2>5, <2>m, <4>1, WebhookAssumption DEF Events
      <4>2. CASE k # m
        BY <1>t, <2>1, <2>5, <4>2 DEF OrderInv, HistoryInv
      <4> QED BY <4>1, <4>2
    <3> QED BY <2>2, <3>1
  <2>6. \A n \in Events : inserting'[n] # {} => n <= events'
    <3> SUFFICES ASSUME NEW n \in Events, inserting'[n] # {} PROVE n <= events'
      OBVIOUS
    <3>1. CASE n = m
      BY <2>1, <2>m, <3>1
    <3>2. CASE n # m
      <4>1. n <= events
        BY <1>t, <2>1, <3>2 DEF OrderInv, HistoryInv
      <4> QED BY <2>2, <4>1
    <3> QED BY <3>1, <3>2
  <2>7. HistoryInv'
    BY <2>1, <2>3, <2>5, <2>6 DEF OrderInv, HistoryInv, Waiting
  <2>8. ClaimedInOrder'
    BY <2>1, <2>4, ClaimsInOrder
  <2> QED BY <1>1, <1>c, <2>4, <2>7, <2>8 DEF EnqueueForAlert, TableOK
<1>2. ASSUME NEW n \in Events, InsertRow(n) PROVE OrderInv'
  <2>1. PICK h \in inserting[n] :
          IF h \in configured
          THEN /\ rows' = [rows EXCEPT ![<<n, h>>] = NewRow]
               /\ inserting' = [inserting EXCEPT ![n] = @ \ {h}]
          ELSE /\ inserting' = [inserting EXCEPT ![n] = {}]
               /\ UNCHANGED rows
    BY <1>2 DEF InsertRow
  <2>2. UNCHANGED <<events, preceded>> /\ UNCHANGED workerVars
    BY <1>2 DEF InsertRow
  <2>3. \A k \in Events : inserting'[k] \subseteq inserting[k]
    BY <1>t, <2>1
  <2>4. ASSUME h \in configured
        PROVE  /\ rows'[<<n, h>>] = NewRow /\ Unborn(<<n, h>>) /\ ~Unborn(<<n, h>>)'
               /\ <<n, h>> \in Ids
    <3>1. <<n, h>> \in Ids /\ n \in Nat /\ events \in Nat /\ n <= events
      BY <1>t, <2>1, IdsArePairs, WebhookAssumption DEF OrderInv, HistoryInv, Events
    <3>2. inserting'[n] = inserting[n] \ {h} /\ rows'[<<n, h>>] = NewRow
      BY <1>t, <2>1, <2>4, <3>1
    <3>3. ~(n > events') /\ h \notin inserting'[n]
      BY <2>2, <3>1, <3>2
    <3> QED BY <2>1, <3>1, <3>2, <3>3 DEF Unborn
  <2>5. \A id \in Ids : \/ rows'[id] = rows[id]
                        \/ Unborn(id) /\ ~Unborn(id)' /\ rows'[id] = NewRow
    <3>1. CASE h \in configured
      <4>1. PICK i \in Ids : i = <<n, h>>
        BY <2>4, <3>1
      <4>2. \A id \in Ids : id # i => rows'[id] = rows[id]
        BY <1>t, <2>1, <3>1, <4>1
      <4>3. rows'[i] = NewRow /\ Unborn(i) /\ ~Unborn(i)'
        BY <2>4, <3>1, <4>1 DEF Unborn
      <4> QED BY <4>2, <4>3
    <3>2. CASE h \notin configured
      BY <2>1, <3>2
    <3> QED BY <3>1, <3>2
  <2>6. Advance /\ HistoryInv'
    BY <2>2, <2>3, <2>5, TableStep DEF OrderInv
  <2>7. NewRow.fresh
    BY DEF NewRow
  <2>8. ClaimedInOrder'
    BY <2>5, <2>6, <2>7, ClaimsInOrder
  <2> QED BY <1>c, <2>2, <2>6, <2>8 DEF TableOK
<1>3. ASSUME NEW n \in Events, InsertError(n) PROVE OrderInv'
  <2>1. /\ UNCHANGED <<events, preceded>> /\ UNCHANGED workerVars /\ UNCHANGED rows
        /\ \A k \in Events : inserting'[k] \subseteq inserting[k]
    BY <1>t, <1>3 DEF InsertError
  <2>2. Advance /\ HistoryInv'
    BY <2>1, TableStep DEF OrderInv
  <2>3. ClaimedInOrder'
    BY <2>1, <2>2, ClaimsInOrder
  <2> QED BY <1>c, <2>1, <2>2, <2>3 DEF TableOK
<1>4. ASSUME NEW h \in Hooks, DeleteWebhook(h) PROVE OrderInv'
  <2>1. /\ UNCHANGED enqueueVars /\ UNCHANGED workerVars
        /\ \A id \in Ids : rows'[id] = NoRow \/ rows'[id] = rows[id]
    BY <1>4 DEF DeleteWebhook
  <2>2. Advance /\ HistoryInv'
    BY <2>1, TableStep DEF OrderInv, enqueueVars
  <2>3. NoRow.fresh
    BY DEF NoRow
  <2>4. ClaimedInOrder'
    BY <2>1, <2>2, <2>3, ClaimsInOrder
  <2> QED BY <1>c, <2>1, <2>2, <2>4 DEF TableOK
<1>5. ASSUME NEW w \in Workers, SelectRows(w) PROVE OrderInv'
  <2>1. TableOK
    BY <1>5, <1>b DEF SelectRows, tableVars
  <2>2. /\ pc' = [pc EXCEPT ![w] = "claim"]
        /\ \E b : batch' = [batch EXCEPT ![w] = b]
    BY <1>5 DEF SelectRows
  <2>3. /\ pc'[w] = "claim"
        /\ \A v \in Workers : v # w => batch'[v] = batch[v] /\ pc'[v] = pc[v]
    BY <1>t, <2>2
  <2>4. BatchInOrder(w)' /\ HeadClaimed(w)'
    BY <1>5, <2>3, AnswerInOrder DEF HeadClaimed
  <2>5. \A v \in Workers : v # w => BatchInOrder(v)' /\ HeadClaimed(v)'
    BY <2>1, <2>3, SameBatch DEF TableOK
  <2> QED BY <1>a, <2>1, <2>4, <2>5
<1>6. ASSUME NEW w \in Workers, Claim(w) PROVE OrderInv'
  <2>1. TableOK /\ \A id \in Ids : id = This(w) => ~Waiting(id)'
    BY <1>6, ClaimStep DEF Claim, At, TableOK
  <2>2. /\ UNCHANGED batch
        /\ \A v \in Workers : v # w => pc'[v] = pc[v]
    BY <1>t, <1>6 DEF Claim, Goto
  <2>3. \A v \in Workers : v # w => BatchInOrder(v)' /\ HeadClaimed(v)'
    BY <2>1, <2>2, SameBatch DEF TableOK
  <2>4. BatchInOrder(w)'
    BY <2>1, <2>2, SameItems DEF TableOK
  <2>5. HeadClaimed(w)'
    <3>1. PICK i \in Ids : i = This(w)
      BY <1>6, HeadIsBorn DEF Claim, At
    <3>2. This(w)' = i /\ ~Waiting(i)'
      BY <2>1, <2>2, <3>1 DEF This
    <3> QED BY <3>2 DEF HeadClaimed, Waiting
  <2> QED BY <1>a, <2>1, <2>3, <2>4, <2>5
<1>7. ASSUME NEW w \in Workers, ClaimRace(w) PROVE OrderInv'
  <2>1. TableOK
    BY <1>7, <1>b DEF ClaimRace, tableVars
  <2>2. pc[w] = "claim" /\ NextItem(w)
    BY <1>7 DEF ClaimRace, At
  <2>3. ~Waiting(This(w))
    <3>1. CASE ~Due(This(w))
      BY <2>2, <3>1, HeadIsBorn DEF OrderInv, HistoryInv, Due, Waiting
    <3>2. CASE Head(batch[w]).late
      BY <2>2, <3>2, HeadIsBorn
    <3> QED BY <1>7, <3>1, <3>2 DEF ClaimRace
  <2> QED BY <1>d, <2>1, <2>2, <2>3
<1>8. ASSUME NEW w \in Workers, Lookup(w) PROVE OrderInv'
  <2>1. TableOK /\ pc[w] = "lookup"
    BY <1>8, <1>b DEF Lookup, tableVars, At
  <2>2. ~Waiting(This(w))
    BY <2>1 DEF OrderInv, HeadClaimed
  <2>3. CASE Goto(w, "send") /\ UNCHANGED batch
    BY <1>e, <2>1, <2>3
  <2>4. CASE NextItem(w)
    BY <1>d, <2>1, <2>2, <2>4
  <2> QED BY <1>8, <2>3, <2>4 DEF Lookup
<1>9. ASSUME NEW w \in Workers, BatchError(w) PROVE OrderInv'
  <2>1. CASE UNCHANGED rows
    <3>1. TableOK
      BY <1>9, <1>b, <2>1 DEF BatchError
    <3> QED BY <1>9, <1>d, <3>1 DEF BatchError
  <2>2. CASE pc[w] = "claim" /\ rows' = Claimed(This(w))
    <3>1. TableOK
      BY <1>9, <2>2, ClaimStep DEF BatchError, TableOK
    <3> QED BY <1>9, <1>d, <3>1 DEF BatchError
  <2> QED BY <1>9, <2>1, <2>2 DEF BatchError, At
<1>10. ASSUME NEW w \in Workers, PostAccepted(w) \/ PostRefused(w) \/ AnswerLost(w) PROVE OrderInv'
  <2>1. TableOK /\ pc[w] = "send" /\ Goto(w, "record") /\ UNCHANGED batch
    BY <1>10, <1>b DEF PostAccepted, PostRefused, AnswerLost, Answered, tableVars, At
  <2> QED BY <1>e, <2>1
<1>11. ASSUME NEW w \in Workers, Record(w) PROVE OrderInv'
  <2>1. TableOK /\ pc[w] = "record" /\ NextItem(w)
    BY <1>11, RecordStep DEF Record, At, TableOK
  <2>2. ~Waiting(This(w))
    BY <2>1 DEF OrderInv, HeadClaimed
  <2> QED BY <1>d, <2>1, <2>2
<1>12. ASSUME NEW w \in Workers, RecordLost(w) PROVE OrderInv'
  <2>1. TableOK /\ pc[w] = "record" /\ NextItem(w)
    BY <1>12, <1>b DEF RecordLost, At, tableVars
  <2>2. ~Waiting(This(w))
    BY <2>1 DEF OrderInv, HeadClaimed
  <2> QED BY <1>d, <2>1, <2>2
<1>13. ASSUME NEW w \in Workers, Crash(w) PROVE OrderInv'
  <2>1. TableOK /\ pc[w] # "idle" /\ Leave(w)
    BY <1>13, <1>b DEF Crash, At, tableVars
  <2> QED BY <1>d, <2>1
<1>14. ASSUME NEW id \in Ids, Wake(id) PROVE OrderInv'
  <2>1. \A v \in Workers : batch'[v] = Marked(batch[v], id)
    BY <1>14, Parts, WakeOK
  <2>2. ~Waiting(id) /\ ~Unborn(id)
    BY <1>14 DEF Wake, OrderInv, HistoryInv, Waiting, NoRow
  <2>3. /\ \A d \in Ids : d # id => rows'[d] = rows[d]
        /\ rows'[id].status = rows[id].status /\ rows'[id].fresh = rows[id].fresh
    <3>1. rows' = [rows EXCEPT ![id].due = TRUE] /\ rows[id] \in Row
      BY <1>t, <1>14 DEF Wake
    <3> QED BY <1>t, <3>1 DEF Row
  <2>4. ~Waiting(id)'
    BY <2>2, <2>3 DEF Waiting
  <2>5. UNCHANGED enqueueVars /\ UNCHANGED pc
    BY <1>14 DEF Wake
  <2>6. Advance /\ HistoryInv'
    BY <2>2, <2>3, <2>4, <2>5, TableStep DEF OrderInv, enqueueVars
  <2>7. ClaimedInOrder'
    BY <2>3, <2>6, ClaimsInOrder
  <2>8. ASSUME NEW v \in Workers PROVE BatchInOrder(v)' /\ HeadClaimed(v)'
    <3>1. batch[v] \in Seq(Item)
      BY <1>t
    <3>2. /\ Len(batch'[v]) = Len(batch[v])
          /\ \A k \in 1 .. Len(batch[v]) :
               /\ batch'[v][k].id = batch[v][k].id
               /\ batch'[v][k].late => batch[v][k].late \/ ~Waiting(batch[v][k].id)
      BY <2>1, <2>2, <3>1, MarkedBatch
    <3>3. BatchInOrder(v)'
      BY <2>6, <3>2, SameItems
    <3>4. HeadClaimed(v)'
      <4>1. CASE pc[v] \in Safe
        <5>1. This(v)' = This(v)
          <6>1. /\ batch[v][1] = Head(batch[v]) /\ Len(batch[v]) \in Nat \ {0}
            BY <4>1, Parts, HeadIsItem
          <6>2. batch'[v] \in Seq(Item) /\ batch'[v] # << >>
            BY <1>14, <2>5, <4>1, Parts, WakeOK DEF WorkerOK, BatchInv
          <6>3. Head(batch'[v]) = batch'[v][1]
            BY <6>2
          <6> QED BY <3>2, <6>1, <6>3 DEF This
        <5>2. PICK i \in Ids : i = This(v) /\ ~Unborn(i) /\ ~Waiting(i)
          BY <4>1, HeadIsBorn DEF OrderInv, HeadClaimed
        <5>3. ~Waiting(i)'
          BY <2>6, <5>2, ClaimedStays DEF OrderInv
        <5> QED BY <5>1, <5>2, <5>3 DEF HeadClaimed, Waiting
      <4>2. CASE pc[v] \notin Safe
        BY <2>5, <4>2 DEF HeadClaimed
      <4> QED BY <4>1, <4>2
    <3> QED BY <3>3, <3>4
  <2> QED BY <1>a, <2>6, <2>7, <2>8 DEF TableOK
<1>15. CASE UNCHANGED vars
  BY <1>b, <1>c, <1>15 DEF vars, tableVars
<1> QED
  BY <1>1, <1>2, <1>3, <1>4, <1>5, <1>6, <1>7, <1>8, <1>9, <1>10, <1>11, <1>12, <1>13,
     <1>14, <1>15
  DEF Next, Work, Fault

\* When an endpoint is asked, every event that was enqueued before this one began has
\* been claimed for it, whichever instances hold the rows, however batches broke off.
THEOREM OrderIsKept == Spec => []NoSilentOvertaking
<1>1. ASSUME BasicInv, OrderInv PROVE NoSilentOvertaking
  <2> SUFFICES ASSUME NEW w \in Workers, pc[w] = "send", NEW n \in preceded[This(w)[1]]
               PROVE  ~Waiting(<<n, This(w)[2]>>)
    BY DEF NoSilentOvertaking, At, Waiting
  <2>1. 1 \in 1 .. Len(batch[w]) /\ batch[w][1].id = This(w)
    BY <1>1, Parts, HeadIsItem DEF This
  <2>2. Waiting(<<n, This(w)[2]>>) => \E j \in 1 .. 1 - 1 : batch[w][j].id = <<n, This(w)[2]>>
    BY <1>1, <2>1 DEF OrderInv, BatchInOrder, ItemInOrder
  <2> QED BY <2>2
<1>2. Init => BasicInv /\ OrderInv
  BY BasicInvInit, OrderInvInit
<1>3. BasicInv /\ OrderInv /\ [Next]_vars => BasicInv' /\ OrderInv'
  BY BasicInvNext, OrderInvNext
<1>4. BasicInv /\ OrderInv => NoSilentOvertaking
  BY <1>1
<1> QED BY <1>2, <1>3, <1>4, PTL DEF Spec

-----------------------------------------------------------------------------
(* Second deliveries                                                        *)
(*                                                                          *)
(* With timely batches a row is not due as long as somebody delivers it, so *)
(* nobody else claims it.  An acceptance that is neither forgotten nor      *)
(* written back is still in the hands of the one worker that got the answer.*)

HeldInv ==
  \A w \in Workers : \A id \in Ids :
    Delivering(w, id) => ~Due(id) /\ \A v \in Workers : Delivering(v, id) => v = w

\* The endpoint accepted the event and the worker is about to write it back.
Accepting(id) == \E w \in Workers : Delivering(w, id) /\ answer[w] = "success"

\* The row may be delivered, now or later.
Open(id) ==
  Unborn(id) \/ rows[id].status = "pending" \/ \E w \in Workers : Delivering(w, id)

AccountInv ==
  \A id \in Ids : /\ accepted[id] <= 1 + unrecorded[id]
                  /\ Open(id) /\ ~Accepting(id) => accepted[id] <= unrecorded[id]

\* The deliveries after w ended its item or its batch, ...
LEMMA Departs ==
  ASSUME BasicInv, NEW w \in Workers, Leave(w) \/ NextItem(w)
  PROVE  /\ \A v \in Workers : \A id \in Ids : Delivering(v, id)' <=> Delivering(v, id) /\ v # w
         /\ \A v \in Workers : v # w => answer'[v] = answer[v]
<1>1. /\ pc'[w] \in {"idle", "claim"}
      /\ \A v \in Workers : v # w => /\ pc'[v] = pc[v] /\ batch'[v] = batch[v]
                                     /\ answer'[v] = answer[v]
  BY DEF Leave, NextItem, Goto, BasicInv, TypeOK
<1>2. \A v \in Workers : v # w => This(v)' = This(v)
  BY <1>1 DEF This
<1> QED BY <1>1, <1>2 DEF Delivering

\* ... in a step of w from one delivering place to another, ...
LEMMA GoesOn ==
  ASSUME BasicInv, NEW w \in Workers, NEW step \in {"lookup", "send", "record"},
         pc[w] \in {"lookup", "send"}, Goto(w, step), UNCHANGED batch
  PROVE  \A v \in Workers : \A id \in Ids : Delivering(v, id)' <=> Delivering(v, id)
<1>1. \A v \in Workers : This(v)' = This(v)
  BY DEF This
<1>2. pc'[w] = step /\ \A v \in Workers : v # w => pc'[v] = pc[v]
  BY DEF Goto, BasicInv, TypeOK
<1> QED BY <1>1, <1>2 DEF Delivering

\* ... and when nobody moves.
LEMMA Stays ==
  ASSUME UNCHANGED <<pc, answer>>,
         \A v \in Workers : pc[v] \in {"lookup", "send", "record"} => This(v)' = This(v)
  PROVE  /\ \A v \in Workers : \A id \in Ids : Delivering(v, id)' <=> Delivering(v, id)
         /\ \A id \in Ids : Accepting(id)' <=> Accepting(id)
<1>1. \A v \in Workers : \A id \in Ids : Delivering(v, id)' <=> Delivering(v, id)
  BY DEF Delivering
<1> QED BY <1>1 DEF Accepting

LEMMA WokenStays ==
  ASSUME BasicInv, NEW id \in Ids, Wake(id)
  PROVE  /\ \A v \in Workers : \A d \in Ids : Delivering(v, d)' <=> Delivering(v, d)
         /\ \A d \in Ids : Accepting(d)' <=> Accepting(d)
<1>1. UNCHANGED <<pc, answer>>
  BY DEF Wake
<1>2. ASSUME NEW v \in Workers, pc[v] \in {"lookup", "send", "record"} PROVE This(v)' = This(v)
  <2>1. /\ batch[v] \in Seq(Item) /\ batch[v][1] = Head(batch[v])
        /\ 1 \in 1 .. Len(batch[v]) /\ batch[v][1].id = This(v)
    BY <1>2, Parts, HeadIsItem DEF WorkerOK, This
  <2>2. batch'[v] = Marked(batch[v], id) /\ batch'[v] \in Seq(Item) /\ batch'[v] # << >>
    BY <1>1, <1>2, Parts, WakeOK DEF WorkerOK, BatchInv
  <2>3. batch'[v][1].id = This(v)
    BY <2>1, <2>2, MarkedBatch
  <2>4. Head(batch'[v]) = batch'[v][1]
    BY <2>2
  <2> QED BY <2>3, <2>4 DEF This
<1> QED BY <1>1, <1>2, Stays

\* While w delivers a row, it alone has it, and the row is not due.
LEMMA HoldsAlone ==
  ASSUME BasicInv, HeldInv, NEW w \in Workers, pc[w] \in {"lookup", "send", "record"}
  PROVE  /\ This(w) \in Ids /\ Delivering(w, This(w)) /\ ~Due(This(w))
         /\ \A v \in Workers : Delivering(v, This(w)) => v = w
         /\ answer[w] # "success" => ~Accepting(This(w))
<1>1. This(w) \in Ids
  BY Parts, HeadIsItem
<1>2. Delivering(w, This(w))
  BY DEF Delivering
<1>3. ~Due(This(w)) /\ \A v \in Workers : Delivering(v, This(w)) => v = w
  BY <1>1, <1>2 DEF HeldInv
<1> QED BY <1>1, <1>2, <1>3 DEF Accepting

\* The rows that are due after a step were due, or are inserted by it.
LEMMA HeldKept ==
  ASSUME HeldInv,
         \A v \in Workers : \A id \in Ids : Delivering(v, id)' => Delivering(v, id),
         \A v \in Workers : \A id \in Ids : Delivering(v, id)' /\ Due(id)' => Due(id)
  PROVE  HeldInv'
BY DEF HeldInv

LEMMA HeldInvNext ==
  ASSUME Timely
  PROVE  BasicInv /\ OrderInv /\ HeldInv /\ [Next]_vars => HeldInv'
<1> SUFFICES ASSUME BasicInv, OrderInv, HeldInv, [Next]_vars PROVE HeldInv'
  OBVIOUS
<1> DEFINE Fewer == \A v \in Workers : \A id \in Ids : Delivering(v, id)' => Delivering(v, id)
           NotDue == \A v \in Workers : \A id \in Ids : Delivering(v, id)' /\ Due(id)' => Due(id)
<1>t. rows \in [Ids -> Row] /\ batch \in [Workers -> Seq(Item)] /\ pc \in [Workers -> Places]
  BY DEF BasicInv, TypeOK, Places
<1>a. Fewer /\ NotDue => HeldInv'
  BY HeldKept
<1>b. UNCHANGED rows => NotDue
  BY DEF Due
<1>s. UNCHANGED workerVars => Fewer
  BY Stays DEF workerVars, This
<1>d. ASSUME NEW w \in Workers, Leave(w) \/ NextItem(w) PROVE Fewer
  BY <1>d, Departs
<1> HIDE DEF Fewer, NotDue
<1>1. CASE EnqueueForAlert
  BY <1>1, <1>a, <1>b, <1>s DEF EnqueueForAlert
<1>2. ASSUME NEW n \in Events, InsertRow(n) PROVE HeldInv'
  <2>1. PICK h \in inserting[n] : rows' = [rows EXCEPT ![<<n, h>>] = NewRow] \/ UNCHANGED rows
    BY <1>2 DEF InsertRow
  <2>2. \A id \in Ids : id # <<n, h>> => rows'[id] = rows[id]
    BY <1>t, <2>1
  <2>3. Fewer
    BY <1>2, <1>s DEF InsertRow
  <2>4. ASSUME NEW v \in Workers, NEW id \in Ids, Delivering(v, id) PROVE id # <<n, h>>
    <3>1. ~Unborn(id)
      BY <2>4, HeadIsBorn DEF Delivering
    <3> QED BY <2>1, <3>1 DEF Unborn
  <2>5. NotDue
    BY <2>2, <2>3, <2>4 DEF Fewer, NotDue, Due
  <2> QED BY <1>a, <2>3, <2>5
<1>3. ASSUME NEW n \in Events, InsertError(n) PROVE HeldInv'
  BY <1>3, <1>a, <1>b, <1>s DEF InsertError
<1>4. ASSUME NEW h \in Hooks, DeleteWebhook(h) PROVE HeldInv'
  <2>1. \A id \in Ids : rows'[id] = NoRow \/ rows'[id] = rows[id]
    BY <1>4 DEF DeleteWebhook
  <2>2. NotDue
    BY <2>1 DEF NotDue, Due, NoRow
  <2> QED BY <1>4, <1>a, <1>s, <2>2 DEF DeleteWebhook
<1>5. ASSUME NEW w \in Workers, SelectRows(w) PROVE HeldInv'
  <2>1. UNCHANGED rows /\ pc' = [pc EXCEPT ![w] = "claim"]
        /\ \E b : batch' = [batch EXCEPT ![w] = b]
    BY <1>5 DEF SelectRows, tableVars
  <2>2. pc'[w] = "claim" /\ \A v \in Workers : v # w => pc'[v] = pc[v] /\ batch'[v] = batch[v]
    BY <1>t, <2>1
  <2>3. Fewer
    BY <2>2 DEF Fewer, Delivering, This
  <2> QED BY <1>a, <1>b, <2>1, <2>3
<1>6. ASSUME NEW w \in Workers, pc[w] = "claim", rows' = Claimed(This(w))
      PROVE  /\ NotDue /\ \A id \in Ids : Due(id)' => Due(id)
             /\ \A id \in Ids : id = This(w) => ~Due(id)'
  <2>1. PICK i \in Ids : i = This(w)
    BY <1>6, HeadIsBorn
  <2>2. rows' = [rows EXCEPT ![i] = [rows[i] EXCEPT !.due = FALSE, !.fresh = FALSE]]
        /\ rows[i] \in Row
    BY <1>t, <1>6, <2>1 DEF Claimed
  <2>3. ~rows'[i].due /\ \A id \in Ids : id # i => rows'[id] = rows[id]
    BY <1>t, <2>2 DEF Row
  <2>4. \A id \in Ids : Due(id)' => Due(id)
    BY <2>3 DEF Due
  <2> QED BY <2>1, <2>3, <2>4 DEF NotDue, Due
<1>7. ASSUME NEW w \in Workers, Claim(w) PROVE HeldInv'
  <2>1. PICK i \in Ids : i = This(w)
    BY <1>7, HeadIsBorn DEF Claim, At
  <2>2. pc[w] = "claim" /\ Due(i) /\ UNCHANGED batch
    BY <1>7, <2>1 DEF Claim, At
  <2>3. \A v \in Workers : ~Delivering(v, i)
    BY <2>2 DEF HeldInv
  <2>4. ~Due(i)' /\ \A id \in Ids : Due(id)' => Due(id)
    BY <1>6, <1>7, <2>1, <2>2 DEF Claim, Due
  <2>5. pc'[w] = "lookup" /\ \A v \in Workers : v # w => pc'[v] = pc[v]
    BY <1>t, <1>7 DEF Claim, Goto
  <2>6. \A v \in Workers : This(v)' = This(v)
    BY <2>2 DEF This
  <2>7. \A v \in Workers : \A id \in Ids :
          Delivering(v, id)' <=> IF v = w THEN id = i ELSE Delivering(v, id)
    BY <2>1, <2>5, <2>6 DEF Delivering
  <2>8. ASSUME NEW v \in Workers, NEW id \in Ids, Delivering(v, id)' PROVE ~Due(id)'
    <3>1. CASE v = w
      BY <2>4, <2>7, <2>8, <3>1 DEF Due
    <3>2. CASE v # w
      BY <2>4, <2>7, <2>8, <3>2 DEF HeldInv
    <3> QED BY <3>1, <3>2
  <2>9. ASSUME NEW v \in Workers, NEW u \in Workers, NEW id \in Ids,
               Delivering(v, id)', Delivering(u, id)'
        PROVE  u = v
    <3>1. CASE id = i
      BY <2>3, <2>7, <2>9, <3>1
    <3>2. CASE id # i
      <4>1. Delivering(v, id) /\ Delivering(u, id)
        BY <2>7, <2>9, <3>2
      <4> QED BY <4>1 DEF HeldInv
    <3> QED BY <3>1, <3>2
  <2> QED BY <2>8, <2>9 DEF HeldInv
<1>8. ASSUME NEW w \in Workers, ClaimRace(w) PROVE HeldInv'
  BY <1>8, <1>a, <1>b, <1>d DEF ClaimRace, tableVars
<1>9. ASSUME NEW w \in Workers, NEW step \in {"lookup", "send", "record"},
             pc[w] \in {"lookup", "send"}, Goto(w, step), UNCHANGED batch
      PROVE  Fewer
  BY <1>9, GoesOn DEF Fewer
<1>10. ASSUME NEW w \in Workers, Lookup(w) PROVE HeldInv'
  BY <1>10, <1>a, <1>b, <1>d, <1>9 DEF Lookup, tableVars, At
<1>11. ASSUME NEW w \in Workers, BatchError(w) PROVE HeldInv'
  BY <1>11, <1>a, <1>b, <1>d, <1>6 DEF BatchError, At
<1>12. ASSUME NEW w \in Workers, PostAccepted(w) \/ PostRefused(w) \/ AnswerLost(w) PROVE HeldInv'
  BY <1>12, <1>a, <1>b, <1>9 DEF PostAccepted, PostRefused, AnswerLost, Answered, tableVars, At
<1>13. ASSUME NEW w \in Workers, Record(w) PROVE HeldInv'
  <2>1. PICK i \in Ids : i = This(w)
    BY <1>13, HeadIsBorn DEF Record, At
  <2>2. \A id \in Ids : id # i => rows'[id] = rows[id]
    <3>1. \/ rows' = rows
          \/ rows' = [rows EXCEPT ![i].status = "delivered"]
          \/ rows' = [rows EXCEPT ![i].attempts = Head(batch[w]).attempts + 1, ![i].status = "failed"]
          \/ rows' = [rows EXCEPT ![i].attempts = Head(batch[w]).attempts + 1]
      BY <1>13, <2>1 DEF Record, Recorded
    <3> QED BY <1>t, <3>1
  <2>3. \A v \in Workers : \A id \in Ids : Delivering(v, id)' => Delivering(v, id) /\ v # w
    BY <1>13, Departs DEF Record
  <2>4. \A v \in Workers : ~(v # w /\ Delivering(v, i))
    BY <1>13, <2>1, HoldsAlone DEF Record, At
  <2>5. Fewer /\ NotDue
    BY <2>2, <2>3, <2>4 DEF Fewer, NotDue, Due
  <2> QED BY <1>a, <2>5
<1>14. ASSUME NEW w \in Workers, RecordLost(w) \/ Crash(w) PROVE HeldInv'
  BY <1>14, <1>a, <1>b, <1>d DEF RecordLost, Crash, tableVars
<1>15. ASSUME NEW id \in Ids, Wake(id) PROVE HeldInv'
  <2>1. Fewer
    BY <1>15, WokenStays DEF Fewer
  <2>2. \A v \in Workers : ~Delivering(v, id)
    BY <1>15, Timely DEF Wake
  <2>3. \A d \in Ids : d # id => rows'[d] = rows[d]
    BY <1>t, <1>15 DEF Wake
  <2>4. NotDue
    BY <2>1, <2>2, <2>3 DEF Fewer, NotDue, Due
  <2> QED BY <1>a, <2>1, <2>4
<1>16. CASE UNCHANGED vars
  BY <1>16, <1>a, <1>b, <1>s DEF vars, tableVars
<1> QED
  BY <1>1, <1>2, <1>3, <1>4, <1>5, <1>7, <1>8, <1>10, <1>11, <1>12, <1>13, <1>14, <1>15, <1>16
  DEF Next, Work, Fault

\* A row whose worker is about to write an acceptance, after another worker moved on.
LEMMA StillAccepting ==
  ASSUME BasicInv, NEW w \in Workers, Leave(w) \/ NextItem(w),
         NEW id \in Ids, Accepting(id), ~Delivering(w, id) \/ answer[w] # "success"
  PROVE  Accepting(id)'
<1>1. PICK v \in Workers : Delivering(v, id) /\ answer[v] = "success"
  BY DEF Accepting
<1>2. v # w
  BY <1>1
<1>3. Delivering(v, id)' /\ answer'[v] = "success"
  BY <1>1, <1>2, Departs
<1> QED BY <1>3 DEF Accepting

LEMMA AccountInvNext ==
  BasicInv /\ OrderInv /\ HeldInv /\ AccountInv /\ [Next]_vars => AccountInv'
<1> SUFFICES ASSUME BasicInv, OrderInv, HeldInv, AccountInv, [Next]_vars PROVE AccountInv'
  OBVIOUS
<1> DEFINE Better(id) == Open(id)' /\ ~Accepting(id)' => Open(id) /\ ~Accepting(id)
           Kept(id) == /\ accepted'[id] <= 1 + unrecorded'[id]
                       /\ Open(id)' /\ ~Accepting(id)' => accepted'[id] <= unrecorded'[id]
           Safe == {"lookup", "send", "record"}
<1>t. /\ rows \in [Ids -> Row] /\ batch \in [Workers -> Seq(Item)] /\ pc \in [Workers -> Places]
      /\ answer \in [Workers -> {"none", "success", "error"}]
      /\ accepted \in [Ids -> Nat] /\ unrecorded \in [Ids -> Nat]
  BY DEF BasicInv, TypeOK, Places
<1>a. (\A id \in Ids : Kept(id)) => AccountInv'
  BY DEF AccountInv
<1>b. ASSUME NEW id \in Ids, Better(id), accepted'[id] = accepted[id],
             unrecorded'[id] = unrecorded[id]
      PROVE  Kept(id)
  BY <1>b DEF AccountInv
<1>c. ASSUME UNCHANGED historyVars, \A id \in Ids : Better(id)
      PROVE  AccountInv'
  BY <1>a, <1>b, <1>c DEF historyVars
<1>u. UNCHANGED enqueueVars => \A id \in Ids : Unborn(id)' <=> Unborn(id)
  BY DEF enqueueVars, Unborn
<1>v. \A w \in Workers : answer[w] # "none" <=> pc[w] = "record"
  BY DEF BasicInv, BatchInv
\* Nobody moves, and a row that becomes pending was to be inserted.
<1>s. ASSUME UNCHANGED workerVars, UNCHANGED historyVars,
             \A id \in Ids : Unborn(id)' => Unborn(id),
             \A id \in Ids : rows'[id].status = "pending"
                               => rows[id].status = "pending" \/ Unborn(id)
      PROVE  AccountInv'
  <2>1. /\ \A v \in Workers : \A id \in Ids : Delivering(v, id)' <=> Delivering(v, id)
        /\ \A id \in Ids : Accepting(id)' <=> Accepting(id)
    BY <1>s, Stays DEF workerVars, This
  <2>2. \A id \in Ids : Better(id)
    BY <1>s, <2>1 DEF Open
  <2> QED BY <1>c, <1>s, <2>2
\* w moves on from an item without an acceptance in its hands.
<1>d. ASSUME NEW w \in Workers, Leave(w) \/ NextItem(w), answer[w] # "success",
             UNCHANGED enqueueVars, UNCHANGED historyVars,
             \A id \in Ids : rows'[id].status = "pending" => rows[id].status = "pending"
      PROVE  AccountInv'
  <2>1. \A id \in Ids : Open(id)' => Open(id)
    BY <1>d, <1>u, Departs DEF Open
  <2>2. \A id \in Ids : Accepting(id) => Accepting(id)'
    BY <1>d, StillAccepting
  <2> QED BY <1>c, <1>d, <2>1, <2>2
<1>1. CASE EnqueueForAlert
  <2>1. \A id \in Ids : Unborn(id)' => Unborn(id)
    <3> SUFFICES ASSUME NEW id \in Ids, Unborn(id)' PROVE Unborn(id)
      OBVIOUS
    <3>2. PICK n \in Events : n = id[1]
      BY IdsArePairs
    <3>3. /\ n \in Nat /\ events \in Nat /\ events' = events + 1
          /\ inserting' = [inserting EXCEPT ![events + 1] = configured]
          /\ inserting \in [Events -> SUBSET Hooks]
      BY <1>1, WebhookAssumption DEF EnqueueForAlert, Events, BasicInv, TypeOK
    <3>4. n > events' \/ id[2] \in inserting'[n]
      BY <3>2 DEF Unborn
    <3>5. n > events \/ id[2] \in inserting[n]
      BY <3>3, <3>4
    <3> QED BY <3>2, <3>5 DEF Unborn
  <2> QED BY <1>1, <1>s, <2>1 DEF EnqueueForAlert
<1>2. ASSUME NEW n \in Events, InsertRow(n) \/ InsertError(n) PROVE AccountInv'
  <2>1. events' = events /\ UNCHANGED workerVars /\ UNCHANGED historyVars
    BY <1>2 DEF InsertRow, InsertError
  <2>a. \/ inserting' = [inserting EXCEPT ![n] = {}]
        \/ \E h \in inserting[n] : inserting' = [inserting EXCEPT ![n] = @ \ {h}]
    BY <1>2 DEF InsertRow, InsertError
  <2>b. \A k \in Events : inserting'[k] \subseteq inserting[k]
    BY <2>a DEF BasicInv, TypeOK
  <2>2. \A id \in Ids : Unborn(id)' => Unborn(id)
    BY <2>1, <2>b, IdsArePairs DEF Unborn
  <2>3. \A id \in Ids : rows'[id] = rows[id] \/ Unborn(id)
    <3>1. CASE UNCHANGED rows
      BY <3>1
    <3>2. CASE \E h \in inserting[n] : rows' = [rows EXCEPT ![<<n, h>>] = NewRow]
      <4>1. PICK h \in inserting[n] : rows' = [rows EXCEPT ![<<n, h>>] = NewRow]
        BY <3>2
      <4>2. \A id \in Ids : id # <<n, h>> => rows'[id] = rows[id]
        BY <1>t, <4>1
      <4> QED BY <4>1, <4>2 DEF Unborn
    <3> QED BY <1>2, <3>1, <3>2 DEF InsertRow, InsertError
  <2> QED BY <1>s, <2>1, <2>2, <2>3
<1>3. ASSUME NEW h \in Hooks, DeleteWebhook(h) PROVE AccountInv'
  <2>1. \A id \in Ids : rows'[id] = NoRow \/ rows'[id] = rows[id]
    BY <1>3 DEF DeleteWebhook
  <2>2. \A id \in Ids : rows'[id].status = "pending" => rows[id].status = "pending"
    BY <2>1 DEF NoRow
  <2> QED BY <1>3, <1>s, <1>u, <2>2 DEF DeleteWebhook
<1>4. ASSUME NEW w \in Workers, SelectRows(w) PROVE AccountInv'
  <2>1. /\ UNCHANGED <<rows, answer>> /\ UNCHANGED enqueueVars /\ UNCHANGED historyVars
        /\ pc[w] = "idle" /\ pc' = [pc EXCEPT ![w] = "claim"]
        /\ \E b : batch' = [batch EXCEPT ![w] = b]
    BY <1>4 DEF SelectRows, tableVars
  <2>2. pc'[w] = "claim" /\ \A v \in Workers : v # w => pc'[v] = pc[v] /\ batch'[v] = batch[v]
    BY <1>t, <2>1
  <2>3. \A v \in Workers : \A id \in Ids : Delivering(v, id)' <=> Delivering(v, id)
    BY <2>1, <2>2 DEF Delivering, This
  <2>4. \A id \in Ids : Better(id)
    BY <1>u, <2>1, <2>3 DEF Open, Accepting
  <2> QED BY <1>c, <2>1, <2>4
<1>5. ASSUME NEW w \in Workers, pc[w] = "claim", rows' = Claimed(This(w)), NEW id \in Ids
      PROVE  rows'[id].status = rows[id].status
  <2>1. PICK i \in Ids : i = This(w)
    BY <1>5, HeadIsBorn
  <2>2. rows' = [rows EXCEPT ![i] = [rows[i] EXCEPT !.due = FALSE, !.fresh = FALSE]]
        /\ rows[i] \in Row
    BY <1>t, <1>5, <2>1 DEF Claimed
  <2> QED BY <1>t, <2>2 DEF Row
<1>6. ASSUME NEW w \in Workers, Claim(w) PROVE AccountInv'
  <2>1. PICK i \in Ids : i = This(w)
    BY <1>6, HeadIsBorn DEF Claim, At
  <2>2. /\ pc[w] = "claim" /\ Due(i) /\ UNCHANGED <<batch, answer>> /\ UNCHANGED enqueueVars
        /\ UNCHANGED historyVars /\ answer[w] = "none"
        /\ pc'[w] = "lookup" /\ \A v \in Workers : v # w => pc'[v] = pc[v]
    BY <1>t, <1>v, <1>6, <2>1 DEF Claim, At, Goto
  <2>3. \A v \in Workers : This(v)' = This(v)
    BY <2>2 DEF This
  <2>4. \A v \in Workers : \A id \in Ids :
          Delivering(v, id)' <=> IF v = w THEN id = i ELSE Delivering(v, id)
    BY <2>1, <2>2, <2>3 DEF Delivering
  <2>5. \A id \in Ids : rows'[id].status = rows[id].status
    BY <1>5, <1>6, <2>2 DEF Claim
  <2>6. \A id \in Ids : Open(id)' => Open(id)
    BY <1>u, <2>2, <2>4, <2>5 DEF Open, Due
  <2>7. \A id \in Ids : Accepting(id) => Accepting(id)'
    BY <2>2, <2>4 DEF Accepting
  <2> QED BY <1>c, <2>2, <2>6, <2>7
<1>7. ASSUME NEW w \in Workers, ClaimRace(w) PROVE AccountInv'
  BY <1>7, <1>d, <1>v DEF ClaimRace, tableVars, At
<1>8. ASSUME NEW w \in Workers, NEW step \in Safe, pc[w] \in {"lookup", "send"}, Goto(w, step),
             UNCHANGED <<batch, rows>>, UNCHANGED enqueueVars, UNCHANGED historyVars,
             \A v \in Workers : answer[v] = "success" => answer'[v] = "success"
      PROVE  AccountInv'
  <2>1. \A v \in Workers : \A id \in Ids : Delivering(v, id)' <=> Delivering(v, id)
    BY <1>8, GoesOn
  <2>2. \A id \in Ids : Better(id)
    BY <1>u, <1>8, <2>1 DEF Open, Accepting
  <2> QED BY <1>c, <1>8, <2>2
<1>9. ASSUME NEW w \in Workers, Lookup(w) PROVE AccountInv'
  <2>1. pc[w] = "lookup" /\ answer[w] # "success" /\ UNCHANGED rows /\ UNCHANGED enqueueVars
        /\ UNCHANGED historyVars
    BY <1>9, <1>v DEF Lookup, At, tableVars
  <2>2. CASE Goto(w, "send") /\ UNCHANGED <<batch, answer>>
    BY <1>8, <2>1, <2>2
  <2>3. CASE NextItem(w)
    BY <1>d, <2>1, <2>3
  <2> QED BY <1>9, <2>2, <2>3 DEF Lookup
<1>10. ASSUME NEW w \in Workers, BatchError(w) PROVE AccountInv'
  <2>1. answer[w] # "success"
    BY <1>10, <1>v DEF BatchError
  <2>2. \A id \in Ids : rows'[id].status = rows[id].status
    BY <1>5, <1>10 DEF BatchError, At
  <2> QED BY <1>10, <1>d, <2>1, <2>2 DEF BatchError
<1>11. ASSUME NEW w \in Workers, NEW r \in {"success", "error"}, Answered(w, r)
       PROVE  /\ pc[w] = "send" /\ Goto(w, "record") /\ UNCHANGED <<batch, rows>>
              /\ UNCHANGED enqueueVars
              /\ \A v \in Workers : answer'[v] = IF v = w THEN r ELSE answer[v]
              /\ answer[w] = "none"
  BY <1>t, <1>v, <1>11 DEF Answered, At, tableVars
<1>12. ASSUME NEW w \in Workers, PostRefused(w) PROVE AccountInv'
  <2>1. /\ pc[w] = "send" /\ Goto(w, "record") /\ UNCHANGED <<batch, rows>>
        /\ UNCHANGED enqueueVars /\ UNCHANGED historyVars
        /\ \A v \in Workers : answer[v] = "success" => answer'[v] = "success"
    BY <1>11, <1>12 DEF PostRefused
  <2> QED BY <1>8, <2>1
<1>13. ASSUME NEW w \in Workers, PostAccepted(w) \/ AnswerLost(w) PROVE AccountInv'
  <2>1. /\ pc[w] = "send" /\ Goto(w, "record") /\ UNCHANGED <<batch, rows>>
        /\ UNCHANGED enqueueVars /\ answer[w] = "none"
        /\ \A v \in Workers : v # w => answer'[v] = answer[v]
    BY <1>11, <1>13 DEF PostAccepted, AnswerLost
  <2>2. PICK i \in Ids : i = This(w)
    BY <2>1, HoldsAlone
  <2>3. Delivering(w, i) /\ ~Accepting(i)
    BY <2>1, <2>2, HoldsAlone
  <2>4. \A v \in Workers : \A id \in Ids : Delivering(v, id)' <=> Delivering(v, id)
    BY <2>1, GoesOn
  <2>5. ASSUME NEW id \in Ids PROVE Better(id)
    BY <1>u, <2>1, <2>4 DEF Open, Accepting
  <2>6. accepted[i] <= unrecorded[i]
    BY <2>3 DEF AccountInv, Open
  <2>7. accepted' = [accepted EXCEPT ![i] = @ + 1]
    BY <1>13, <2>2 DEF PostAccepted, AnswerLost, Accept
  <2>8. \A id \in Ids : id # i => accepted'[id] = accepted[id] /\ unrecorded'[id] = unrecorded[id]
    BY <1>t, <1>13, <2>2, <2>7 DEF PostAccepted, AnswerLost, Forget
  <2>9. \A id \in Ids : id # i => Kept(id)
    BY <1>b, <2>5, <2>8
  <2>10. Kept(i)
    <3>1. accepted'[i] = accepted[i] + 1 /\ accepted[i] \in Nat /\ unrecorded[i] \in Nat
      BY <1>t, <2>7
    <3>2. CASE PostAccepted(w)
      <4>1. UNCHANGED unrecorded /\ answer'[w] = "success"
        BY <1>11, <3>2 DEF PostAccepted
      <4>2. Accepting(i)'
        BY <2>3, <2>4, <4>1 DEF Accepting
      <4>3. accepted'[i] <= 1 + unrecorded'[i]
        BY <2>6, <3>1, <4>1
      <4> QED BY <4>2, <4>3
    <3>3. CASE AnswerLost(w)
      <4>1. unrecorded'[i] = unrecorded[i] + 1
        BY <1>t, <2>2, <3>3 DEF AnswerLost, Forget
      <4>2. accepted'[i] <= unrecorded'[i] /\ accepted'[i] <= 1 + unrecorded'[i]
        BY <2>6, <3>1, <4>1
      <4> QED BY <4>2
    <3> QED BY <1>13, <3>2, <3>3
  <2> QED BY <1>a, <2>9, <2>10
<1>14. ASSUME NEW w \in Workers, Record(w) PROVE AccountInv'
  <2>1. /\ pc[w] = "record" /\ NextItem(w) /\ UNCHANGED enqueueVars /\ UNCHANGED historyVars
        /\ rows' = Recorded(w)
    BY <1>14 DEF Record, At
  <2>2. PICK i \in Ids : i = This(w) /\ ~Unborn(i)
    BY <2>1, HeadIsBorn
  <2>3. /\ \A id \in Ids : id # i => rows'[id] = rows[id]
        /\ rows'[i].status = "pending" => rows[i].status = "pending" /\ answer[w] # "success"
    <3>1. rows' = CASE rows[i].status = "absent" -> rows
                    [] rows[i].status # "absent" /\ answer[w] = "success" ->
                         [rows EXCEPT ![i].status = "delivered"]
                    [] rows[i].status # "absent" /\ answer[w] = "error"
                         /\ Head(batch[w]).attempts + 1 >= MaxAttempts ->
                         [rows EXCEPT ![i].attempts = Head(batch[w]).attempts + 1,
                                      ![i].status = "failed"]
                    [] OTHER ->
                         [rows EXCEPT ![i].attempts = Head(batch[w]).attempts + 1]
      BY <2>1, <2>2 DEF Recorded
    <3>2. rows[i] \in Row
      BY <1>t
    <3> QED BY <1>t, <3>1, <3>2 DEF Row
  <2>4. CASE answer[w] # "success"
    BY <1>d, <2>1, <2>3, <2>4
  <2>5. CASE answer[w] = "success"
    <3>1. ASSUME NEW id \in Ids, id # i PROVE Kept(id)
      <4>1. Open(id)' => Open(id)
        BY <1>u, <2>1, <2>3, <3>1, Departs DEF Open
      <4>2. ~Delivering(w, id)
        BY <2>2, <3>1 DEF Delivering
      <4>3. Accepting(id) => Accepting(id)'
        BY <2>1, <4>2, StillAccepting
      <4> QED BY <1>b, <2>1, <4>1, <4>3 DEF historyVars
    <3>2. ~Open(i)'
      <4>1. \A v \in Workers : ~Delivering(v, i)'
        BY <2>1, <2>2, Departs, HoldsAlone
      <4> QED BY <1>u, <2>1, <2>2, <2>3, <2>5, <4>1 DEF Open
    <3>3. Kept(i)
      BY <2>1, <3>2 DEF AccountInv, historyVars
    <3> QED BY <1>a, <3>1, <3>3
  <2> QED BY <2>4, <2>5
<1>15. ASSUME NEW w \in Workers, RecordLost(w) \/ Crash(w) PROVE AccountInv'
  <2>1. /\ Leave(w) \/ NextItem(w)
        /\ UNCHANGED <<rows, accepted>> /\ UNCHANGED enqueueVars /\ ForgetAnswer(w)
    BY <1>15 DEF RecordLost, Crash, tableVars
  <2>2. CASE answer[w] # "success"
    BY <1>d, <2>1, <2>2 DEF ForgetAnswer, historyVars
  <2>3. CASE answer[w] = "success"
    <3>1. pc[w] = "record"
      BY <1>v, <2>3
    <3>2. PICK i \in Ids : i = This(w)
      BY <3>1, HeadIsBorn
    <3>3. unrecorded' = [unrecorded EXCEPT ![i] = @ + 1]
      BY <2>1, <2>3, <3>2 DEF ForgetAnswer, Forget
    <3>4. ASSUME NEW id \in Ids, id # i PROVE Kept(id)
      <4>1. Open(id)' => Open(id)
        BY <1>u, <2>1, Departs DEF Open
      <4>2. ~Delivering(w, id)
        BY <3>2, <3>4 DEF Delivering
      <4>3. Accepting(id) => Accepting(id)'
        BY <2>1, <4>2, StillAccepting
      <4>4. unrecorded'[id] = unrecorded[id]
        BY <1>t, <3>3, <3>4
      <4> QED BY <1>b, <2>1, <4>1, <4>3, <4>4
    <3>5. Kept(i)
      <4>1. accepted'[i] = accepted[i] /\ unrecorded'[i] = unrecorded[i] + 1
        BY <1>t, <2>1, <3>3
      <4>2. /\ accepted[i] \in Nat /\ unrecorded[i] \in Nat
            /\ accepted[i] <= 1 + unrecorded[i]
        BY <1>t DEF AccountInv
      <4>3. accepted'[i] <= unrecorded'[i] /\ accepted'[i] <= 1 + unrecorded'[i]
        BY <4>1, <4>2
      <4> QED BY <4>3
    <3> QED BY <1>a, <3>4, <3>5
  <2> QED BY <2>2, <2>3
<1>16. ASSUME NEW id \in Ids, Wake(id) PROVE AccountInv'
  <2>1. /\ \A v \in Workers : \A d \in Ids : Delivering(v, d)' <=> Delivering(v, d)
        /\ \A d \in Ids : Accepting(d)' <=> Accepting(d)
    BY <1>16, WokenStays
  <2>2. \A d \in Ids : rows'[d].status = rows[d].status
    BY <1>t, <1>16 DEF Wake, Row
  <2>3. UNCHANGED enqueueVars /\ UNCHANGED historyVars
    BY <1>16 DEF Wake
  <2>4. \A d \in Ids : Better(d)
    BY <1>u, <2>1, <2>2, <2>3 DEF Open
  <2> QED BY <1>c, <2>3, <2>4
<1>17. CASE UNCHANGED vars
  BY <1>17, <1>s, <1>u DEF vars, tableVars
<1> QED
  BY <1>1, <1>2, <1>3, <1>4, <1>6, <1>7, <1>9, <1>10, <1>12, <1>13, <1>14, <1>15, <1>16, <1>17
  DEF Next, Work, Fault

\* With timely batches and without any lock, an endpoint receives an event again only
\* after a crash, a database error or a lost answer kept a delivery from being recorded.
THEOREM DuplicatesAreAccounted == ASSUME Timely PROVE Spec => []DeliveredOnce
<1>1. Init => BasicInv /\ OrderInv /\ HeldInv /\ AccountInv
  <2>1. Init => HeldInv /\ AccountInv
    BY DEF Init, HeldInv, AccountInv, Delivering
  <2> QED BY <2>1, BasicInvInit, OrderInvInit
<1>2. BasicInv /\ OrderInv /\ [Next]_vars => BasicInv' /\ OrderInv'
  BY BasicInvNext, OrderInvNext
<1>3. BasicInv /\ OrderInv /\ HeldInv /\ [Next]_vars => HeldInv'
  BY Timely, HeldInvNext
<1>4. AccountInv => DeliveredOnce
  BY DEF AccountInv, DeliveredOnce
<1> QED BY <1>1, <1>2, <1>3, <1>4, AccountInvNext, PTL DEF Spec
=============================================================================
