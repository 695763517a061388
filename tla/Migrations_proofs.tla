------------------------- MODULE Migrations_proofs -------------------------
(***************************************************************************)
(* For any number of alerts, addresses, commands and crashes: no migration *)
(* loses an alert (Inv), the rows satisfy the constraints of their tables  *)
(* (SoundInv), and a server that starts finds the schema it needs          *)
(* (CompleteInv).                                                          *)
(*                                                                         *)
(* No alert is lost: of the 52 lists of statements only the rebuilds on    *)
(* SQLite and the rollback of the first migration drop alert;              *)
(* a rebuild does so right after its copy, so alert_new holds every row    *)
(* by then, and a copy that is left behind by a crash is never dropped.    *)
(* And where the rollback of the first migration has dropped the table,    *)
(* no command gets past its second statement.                              *)
(*                                                                         *)
(* The rows: every statement that adds a constraint or fills a table fails *)
(* where the rows do not satisfy it, but for the rollback that restores    *)
(* addresses; it is safe because no constraint on the address alone is     *)
(* left by then (LateInv) and PostgreSQL never gets there (PostgresInv).   *)
(*                                                                         *)
(* The schema: Made lists what each Up makes for the server and where the  *)
(* Down takes it away.  All that is due by the version and the place in a  *)
(* running migration is there (FineIn), or a copy of alert or a renaming   *)
(* was left in the middle, which stops every later `up` (DoomedIn).        *)
(***************************************************************************)
EXTENDS Migrations, SequenceTheorems, TLAPS

Tables == {"alert", "alert_new"}

\* The alert with this number is in the table or in the copy.
Stored(i, R) == \E t \in Tables : \E r \in R[t] : r.id = i
AllStored(R) == \A i \in entrusted : Stored(i, R)

IdsOf(R) == {r.id : r \in R}

JobOK ==
  \/ job = Idle
  \/ /\ job \in [dir : {"up", "down"}, at : Nat \ {0}, left : Nat \ {0}]
     /\ job.dir = "up" => applied + job.left <= Last
     /\ job.dir = "down" => applied >= 1 /\ job.left = 1

DataOK(s, R, N, a) ==
  /\ R \in [Tables -> SUBSET Row]
  /\ N \in [Ids -> Emails \cup {Nobody}]
  /\ a \in 0..Last
  /\ "alert" \notin DOMAIN s => R["alert"] = {}

\* Between its copy and its drop a rebuild has every row twice.
CopiedInv ==
  Running /\ backend = "sqlite" /\ Migration \in {2, 5, 18} /\ job.at = 3 =>
    IdsOf(rows["alert"]) \subseteq IdsOf(rows["alert_new"])

\* What a transaction would restore has every alert.
SavedInv ==
  Running /\ backend # "sqlite" =>
    /\ DataOK(saved.schema, saved.rows, saved.notify, saved.applied)
    /\ AllStored(saved.rows)

\* Where an alert is gone, the rollback of the first migration dropped the table, and it
\* is about to be recorded or died.
LostInv ==
  ~AllStored(rows) =>
    /\ applied = 1 /\ ~Has("alert")
    /\ \/ job.dir = "down" /\ job.at = 3
       \/ torn /\ (job = Idle \/ job.at = 1 \/ (job.dir = "up" /\ job.at = 2))

Inv ==
  /\ JobOK
  /\ DataOK(schema, rows, notify, applied)
  /\ torn \in BOOLEAN /\ (torn => backend = "sqlite")
  /\ CopiedInv /\ SavedInv /\ LostInv

-----------------------------------------------------------------------------
(***************************************************************************)
(* The statements.                                                         *)
(***************************************************************************)

\* Statements that leave alert where it is.
Calm(s) ==
  /\ s.op \in {"create", "drop", "rename", "add", "remove", "copy", "convert", "backfill",
              "restore"}
  /\ s.op = "drop" => s.table # "alert"
  /\ s.op = "rename" => s.table # "alert" /\ (s.table = "alert_new" => s.to = "alert")

List(L) == L \in Seq({L[i] : i \in DOMAIN L})
CalmList(L) == List(L) /\ \A i \in DOMAIN L : Calm(L[i])

\* Every statement but dropping or renaming alert leaves it in place.
LEMMA CalmStatements ==
  ASSUME NEW t, NEW u
  PROVE  /\ Calm(Create(t, u)) /\ Calm(CreateMissing(t, u))
         /\ t # "alert" => Calm(Drop(t))
         /\ t \notin Tables => Calm(Rename(t, u))
         /\ Calm(Add(t, u)) /\ Calm(AddMissing(t, u)) /\ Calm(Remove(t, u)) /\ Calm(RemoveAny(t, u))
         /\ Calm(Copy(t)) /\ Calm(Convert(t)) /\ Calm(Backfill) /\ Calm(RestoreEmails)
BY DEF Calm, Tables, Create, CreateMissing, Drop, Rename, Add, AddMissing, Remove, RemoveAny,
       Copy, Convert, Backfill, RestoreEmails

\* A list is defined on the numbers up to its length.
LEMMA ListLength ==
  ASSUME NEW L, List(L)
  PROVE  Len(L) \in Nat /\ DOMAIN L = 1..Len(L)
BY LenProperties DEF List

\* A function on the first n numbers is a list of n.
LEMMA Listed ==
  ASSUME NEW n \in Nat, NEW L, L = [i \in 1..n |-> L[i]]
  PROVE  List(L) /\ Len(L) = n
<1>1. L \in [1..n -> {L[i] : i \in DOMAIN L}]
  OBVIOUS
<1> QED
  BY <1>1, SeqDef, LenProperties DEF List

\* Short lists, given element by element.
LEMMA CalmTuples ==
  ASSUME NEW a, NEW b, NEW c, NEW d, NEW e, Calm(a)
  PROVE  /\ CalmList(<<a>>)
         /\ Calm(b) => CalmList(<<a, b>>)
         /\ Calm(b) /\ Calm(c) => CalmList(<<a, b, c>>)
         /\ Calm(b) /\ Calm(c) /\ Calm(d) => CalmList(<<a, b, c, d>>)
         /\ Calm(b) /\ Calm(c) /\ Calm(d) /\ Calm(e) => CalmList(<<a, b, c, d, e>>)
<1>1. /\ List(<<a>>) /\ List(<<a, b>>) /\ List(<<a, b, c>>)
      /\ List(<<a, b, c, d>>) /\ List(<<a, b, c, d, e>>)
  BY DEF List
<1> QED
  BY <1>1 DEF CalmList

\* The lists of AddAll and RemoveAll.
LEMMA CalmAll ==
  ASSUME NEW t, NEW parts, List(parts)
  PROVE  CalmList(AddAll(t, parts)) /\ CalmList(RemoveAll(t, parts))
<1>1. Len(parts) \in Nat /\ DOMAIN parts = 1..Len(parts)
  BY ListLength
<1>2. /\ AddAll(t, parts) = [i \in 1..Len(parts) |-> AddAll(t, parts)[i]]
      /\ RemoveAll(t, parts) = [i \in 1..Len(parts) |-> RemoveAll(t, parts)[i]]
  BY <1>1 DEF AddAll, RemoveAll
<1>3. List(AddAll(t, parts)) /\ List(RemoveAll(t, parts))
  BY <1>1, <1>2, Listed
<1>4. \A i \in DOMAIN parts : Calm(Add(t, parts[i])) /\ Calm(Remove(t, parts[i]))
  BY CalmStatements
<1> QED
  BY <1>3, <1>4 DEF CalmList, AddAll, RemoveAll

\* What the two halves of a list say of the whole.
LEMMA Joined ==
  ASSUME NEW a, NEW b, List(a), List(b)
  PROVE  /\ List(a \o b) /\ Len(a \o b) = Len(a) + Len(b)
         /\ \A i \in 1..Len(a) + Len(b) : (a \o b)[i] = IF i <= Len(a) THEN a[i] ELSE b[i - Len(a)]
<1> DEFINE S == {a[i] : i \in DOMAIN a} \cup {b[i] : i \in DOMAIN b}
<1>1. a \in Seq(S) /\ b \in Seq(S)
  BY SeqMonotonic DEF List
<1>2. /\ a \o b \in Seq(S) /\ Len(a \o b) = Len(a) + Len(b)
      /\ \A i \in 1..Len(a) + Len(b) : (a \o b)[i] = IF i <= Len(a) THEN a[i] ELSE b[i - Len(a)]
  BY <1>1, ConcatProperties
<1>3. Len(a) + Len(b) \in Nat /\ a \o b = [i \in 1..Len(a) + Len(b) |-> (a \o b)[i]]
  BY <1>1, <1>2, LenProperties
<1> QED
  BY <1>2, <1>3, Listed

\* Two lists that leave alert in place, one behind the other.
LEMMA CalmJoined ==
  ASSUME NEW a, NEW b, CalmList(a), CalmList(b)
  PROVE  CalmList(a \o b)
<1>1. /\ Len(a) \in Nat /\ Len(b) \in Nat /\ DOMAIN a = 1..Len(a) /\ DOMAIN b = 1..Len(b)
      /\ List(a \o b) /\ DOMAIN (a \o b) = 1..Len(a) + Len(b)
      /\ \A i \in 1..Len(a) + Len(b) : (a \o b)[i] = IF i <= Len(a) THEN a[i] ELSE b[i - Len(a)]
  BY Joined, ListLength DEF CalmList
<1> QED
  BY <1>1 DEF CalmList

\* The migrations that are not rebuilds, grouped by how their lists are written.
LEMMA OAuthTablesCalm == CalmList(OAuthTablesUp) /\ CalmList(OAuthTablesDown)
<1>1. CalmList(OAuthTablesUp)
  BY CalmStatements DEF OAuthTablesUp, CalmList, List
<1> DEFINE a == <<"idx_oauth2_token_expires_at", "idx_oauth2_token_user_id",
                  "idx_oauth2_token_client_id">>
           b == <<"idx_oauth2_authorization_expires_at", "idx_oauth2_authorization_client_id">>
           c == <<Drop("o_auth2_token"), Drop("o_auth2_authorization"), Drop("o_auth2_user"),
                  Drop("o_auth2_client")>>
<1>2. List(a) /\ List(b)
  BY DEF List
<1>3. CalmList(c)
  BY CalmStatements, CalmTuples
<1> HIDE DEF a, b, c
<1>4. CalmList(RemoveAll("o_auth2_token", a)) /\ CalmList(RemoveAll("o_auth2_authorization", b))
  BY <1>2, CalmAll
<1>5. CalmList(RemoveAll("o_auth2_token", a) \o RemoveAll("o_auth2_authorization", b) \o c)
  BY <1>3, <1>4, CalmJoined
<1> QED
  BY <1>1, <1>5 DEF OAuthTablesDown, a, b, c

LEMMA RenameCalm == CalmList(RenameUp) /\ CalmList(RenameDown)
<1>1. \A i \in 1..5 : Old[OAuthNames[i]] \notin Tables /\ New[OAuthNames[i]] \notin Tables
  BY DEF Old, New, OAuthNames, Tables
<1>2. \A i \in 1..5 : /\ Calm(Rename(Old[OAuthNames[i]], New[OAuthNames[i]]))
                     /\ Calm(Rename(New[OAuthNames[i]], Old[OAuthNames[i]]))
  BY <1>1, CalmStatements
<1> QED
  BY <1>2, Listed DEF RenameUp, RenameDown, CalmList

LEMMA TuplesCalm ==
  /\ CalmList(AlertTableUp)
  /\ CalmList(FederationStatsUp) /\ CalmList(FederationStatsDown)
  /\ CalmList(LinkAlertsUp) /\ CalmList(LinkAlertsDown)
  /\ CalmList(LastRecoveryUp) /\ CalmList(LastRecoveryDown)
  /\ CalmList(FailureReasonUp) /\ CalmList(FailureReasonDown)
  /\ CalmList(AccountFeaturesUp) /\ CalmList(AccountFeaturesDown)
  /\ CalmList(AccountClientUp) /\ CalmList(AccountClientDown)
  /\ CalmList(EmailOutboxUp) /\ CalmList(EmailOutboxDown)
  /\ CalmList(NotificationEmailsUp) /\ CalmList(NotificationEmailsDown)
  /\ CalmList(TimezoneUp) /\ CalmList(TimezoneDown)
  /\ CalmList(WebhooksUp) /\ CalmList(WebhooksDown)
BY CalmStatements, CalmTuples DEF AlertTableUp, FederationStatsUp, FederationStatsDown,
   LinkAlertsUp, LinkAlertsDown, LastRecoveryUp, LastRecoveryDown, FailureReasonUp,
   FailureReasonDown, AccountFeaturesUp, AccountFeaturesDown, AccountClientUp, AccountClientDown,
   EmailOutboxUp, EmailOutboxDown, NotificationEmailsUp, NotificationEmailsDown, TimezoneUp,
   TimezoneDown, WebhooksUp, WebhooksDown

LEMMA ColumnsCalm ==
  /\ CalmList(UnstableUp) /\ CalmList(UnstableDown)
  /\ CalmList(TrackingUp) /\ CalmList(TrackingDown)
  /\ CalmList(PasswordUp) /\ CalmList(PasswordDown)
  /\ CalmList(PasswordResetDown) /\ CalmList(QuietHoursUp)
<1>1. List(Unstable) /\ List(Tracking) /\ List(Password) /\ List(Reset) /\ List(Quiet)
  BY DEF List, Unstable, Tracking, Password, Reset, Quiet
<1> QED
  BY <1>1, CalmAll, CalmJoined DEF UnstableUp, UnstableDown, TrackingUp, TrackingDown, PasswordUp,
     PasswordDown, PasswordResetDown, QuietHoursUp

LEMMA TablesCalm ==
  /\ CalmList(EmailLogUp) /\ CalmList(EmailLogDown)
  /\ CalmList(OptimizeStatsUp) /\ CalmList(OptimizeStatsDown)
  /\ CalmList(StatusHistoryUp) /\ CalmList(StatusHistoryDown)
<1>1. \A a, b, c : List(<<a, b, c>>) /\ List(<<a, b>>)
  BY DEF List
<1>2. CalmList(EmailLogUp)
  BY <1>1, CalmStatements, CalmTuples, CalmAll, CalmJoined DEF EmailLogUp
<1>3. CalmList(EmailLogDown)
  BY <1>1, CalmStatements, CalmTuples, CalmAll, CalmJoined DEF EmailLogDown
<1>4. CalmList(OptimizeStatsUp) /\ CalmList(OptimizeStatsDown)
  BY <1>1, CalmStatements, CalmTuples, CalmAll DEF OptimizeStatsUp, OptimizeStatsDown
<1>5. CalmList(StatusHistoryUp)
  BY <1>1, CalmStatements, CalmTuples, CalmAll, CalmJoined DEF StatusHistoryUp
<1>6. CalmList(StatusHistoryDown)
  BY <1>1, CalmStatements, CalmTuples, CalmAll, CalmJoined DEF StatusHistoryDown
<1> QED
  BY <1>2, <1>3, <1>4, <1>5, <1>6

LEMMA FunctionsCalm ==
  /\ CalmList(PasswordResetUp)
  /\ CalmList(MissingIndexesUp) /\ CalmList(MissingIndexesDown)
  /\ CalmList(QuietHoursDown)
BY CalmStatements, Listed DEF PasswordResetUp, MissingIndexesUp, MissingIndexesDown,
   QuietHoursDown, CalmList

LEMMA ChangeAlertsCalm == CalmList(ChangeAlertsUp) /\ CalmList(ChangeAlertsDown)
<1>1. CalmList(<<CreateMissing("alert_observed_state", {})>>)
  BY CalmStatements, CalmTuples
<1>2. List(Flags)
  BY DEF List, Flags
<1>3. CalmList(ChangeAlertsUp)
  BY <1>1, <1>2, CalmAll, CalmJoined DEF ChangeAlertsUp
<1>4. CalmList(<<Drop("alert_observed_state")>>)
  BY CalmStatements, CalmTuples
<1>5. CalmList([i \in 1..4 |-> Remove("alert", Flags[5 - i])])
  BY CalmStatements, Listed DEF CalmList
<1>6. CalmList(ChangeAlertsDown)
  BY <1>4, <1>5, CalmJoined DEF ChangeAlertsDown
<1> QED
  BY <1>3, <1>6

\* A rebuild drops alert in its third statement, behind the copy.
Rebuilding(L) ==
  /\ List(L) /\ Len(L) >= 4
  /\ L[1].op = "create" /\ L[1].table = "alert_new"
  /\ L[2].op = "copy"
  /\ L[3] = Drop("alert")
  /\ \A i \in DOMAIN L : i # 3 => Calm(L[i])

\* Rebuild followed by statements that leave alert in place.
LEMMA RebuildsThenCalm ==
  ASSUME NEW parts, NEW tokens, NEW L, CalmList(L)
  PROVE  Rebuilding(Rebuild(parts, tokens) \o L)
<1> DEFINE R == Rebuild(parts, tokens)
<1>1. List(R) /\ Len(R) = 4
  BY DEF List, Rebuild
<1>2. Calm(R[1]) /\ Calm(R[2]) /\ Calm(R[4])
  <2>1. /\ R[1] = Create("alert_new", parts) /\ R[2] = Copy(tokens)
        /\ R[4] = Rename("alert_new", "alert")
    BY DEF Rebuild
  <2>2. Calm(Rename("alert_new", "alert"))
    BY DEF Calm, Rename
  <2> HIDE DEF R
  <2> QED
    BY <2>1, <2>2, CalmStatements
<1>3. /\ R[1].op = "create" /\ R[1].table = "alert_new"
      /\ R[2].op = "copy" /\ R[3] = Drop("alert")
  BY DEF Rebuild, Create, Copy
<1> HIDE DEF R
<1>4. /\ Len(L) \in Nat /\ DOMAIN L = 1..Len(L) /\ List(L)
      /\ List(R \o L) /\ Len(R \o L) = 4 + Len(L) /\ DOMAIN (R \o L) = 1..4 + Len(L)
      /\ \A i \in 1..4 + Len(L) : (R \o L)[i] = IF i <= 4 THEN R[i] ELSE L[i - 4]
  <2>1. List(L) /\ Len(L) \in Nat /\ DOMAIN L = 1..Len(L)
    BY ListLength DEF CalmList
  <2>2. /\ List(R \o L) /\ Len(R \o L) = 4 + Len(L)
        /\ \A i \in 1..4 + Len(L) : (R \o L)[i] = IF i <= 4 THEN R[i] ELSE L[i - 4]
    <3>1. /\ List(R \o L) /\ Len(R \o L) = Len(R) + Len(L)
          /\ \A i \in 1..Len(R) + Len(L) :
               (R \o L)[i] = IF i <= Len(R) THEN R[i] ELSE L[i - Len(R)]
      BY <1>1, <2>1, Joined
    <3> QED
      BY <1>1, <3>1
  <2>3. DOMAIN (R \o L) = 1..4 + Len(L)
    BY <2>2, ListLength
  <2> QED
    BY <2>1, <2>2, <2>3
<1>5. /\ (R \o L)[1] = R[1] /\ (R \o L)[2] = R[2] /\ (R \o L)[3] = R[3] /\ (R \o L)[4] = R[4]
      /\ \A i \in 5..4 + Len(L) : (R \o L)[i] = L[i - 4] /\ i - 4 \in 1..Len(L)
  BY <1>4
<1>6. \A i \in 1..4 + Len(L) : i # 3 => Calm((R \o L)[i])
  BY <1>2, <1>4, <1>5 DEF CalmList
<1> QED
  BY <1>3, <1>4, <1>5, <1>6 DEF Rebuilding, R

\* fix_timezone, fix_uniqueness and fix_oauth_alert_magic_token, on each database.
LEMMA RebuildsOnSqlite ==
  ASSUME backend = "sqlite"
  PROVE  /\ Rebuilding(FixTimezoneUp) /\ Rebuilding(FixTimezoneDown)
         /\ Rebuilding(FixUniquenessUp) /\ Rebuilding(FixUniquenessDown)
         /\ Rebuilding(MagicTokenUp) /\ Rebuilding(MagicTokenDown)
<1>1. \A p : CalmList(<<Add("alert", p)>>)
  BY CalmStatements, CalmTuples
<1>2. \A p, q, r : /\ CalmList(<<AddMissing("alert", p), AddMissing("alert", q)>>)
                   /\ CalmList(<<AddMissing("alert", p), AddMissing("alert", q),
                                 AddMissing("alert", r)>>)
  BY CalmStatements, CalmTuples
<1>3. Rebuilding(FixTimezoneUp) /\ Rebuilding(FixTimezoneDown)
  BY <1>1, RebuildsThenCalm DEF FixTimezoneUp, FixTimezoneDown, OnSqlite
<1>4. Rebuilding(FixUniquenessUp) /\ Rebuilding(FixUniquenessDown)
  BY <1>1, RebuildsThenCalm DEF FixUniquenessUp, FixUniquenessDown, OnSqlite
<1>5. Rebuilding(MagicTokenUp) /\ Rebuilding(MagicTokenDown)
  BY <1>2, RebuildsThenCalm DEF MagicTokenUp, MagicTokenDown, OnSqlite
<1> QED
  BY <1>3, <1>4, <1>5

LEMMA CalmOnPostgres ==
  ASSUME backend # "sqlite"
  PROVE  /\ CalmList(FixTimezoneUp) /\ CalmList(FixTimezoneDown)
         /\ CalmList(FixUniquenessUp) /\ CalmList(FixUniquenessDown)
         /\ CalmList(MagicTokenUp) /\ CalmList(MagicTokenDown)
BY CalmStatements, CalmTuples DEF FixTimezoneUp, FixTimezoneDown, FixUniquenessUp,
   FixUniquenessDown, MagicTokenUp, MagicTokenDown, OnSqlite

\* The 52 lists: which of them drop alert, and where.
LEMMA AllMigrations ==
  ASSUME NEW m \in 1..Last
  PROVE  /\ backend = "sqlite" /\ m \in {2, 5, 18} => Rebuilding(Up[m]) /\ Rebuilding(Down[m])
         /\ ~(backend = "sqlite" /\ m \in {2, 5, 18}) =>
              CalmList(Up[m]) /\ (m # 1 => CalmList(Down[m]))
         /\ Down[1] = AlertTableDown
<1>1. CASE m \in {2, 5, 18}
  BY <1>1, RebuildsOnSqlite, CalmOnPostgres DEF Up, Down
<1>2. CASE m \notin {2, 5, 18}
  BY <1>2, OAuthTablesCalm, RenameCalm, TuplesCalm, ColumnsCalm, TablesCalm, FunctionsCalm,
     ChangeAlertsCalm DEF Up, Down, Last
<1> QED
  BY <1>1, <1>2

-----------------------------------------------------------------------------
(***************************************************************************)
(* What a statement does to the rows.                                      *)
(***************************************************************************)

\* The three ways of rewriting rows keep their ids.
LEMMA ConvertedKeepsIds ==
  ASSUME NEW R \in SUBSET Row, NEW tokens
  PROVE  Converted(R, tokens) \in SUBSET Row /\ IdsOf(Converted(R, tokens)) = IdsOf(R)
<1> DEFINE c(r) == [r EXCEPT !.token = IF tokens = "empty to null" /\ @ = "empty" THEN "null"
                       ELSE IF tokens = "null to empty" /\ @ = "null" THEN "empty" ELSE @]
<1>1. \A r \in R : c(r) \in Row /\ c(r).id = r.id
  BY DEF Row
<1>2. Converted(R, tokens) = {c(r) : r \in R}
  BY DEF Converted
<1> HIDE DEF c
<1> QED
  BY <1>1, <1>2 DEF IdsOf

LEMMA RestoredKeepsIds ==
  ASSUME NEW R \in SUBSET Row, notify \in [Ids -> Emails \cup {Nobody}]
  PROVE  {Restored(r) : r \in R} \in SUBSET Row /\ IdsOf({Restored(r) : r \in R}) = IdsOf(R)
<1>1. \A r \in R : Restored(r) \in Row /\ Restored(r).id = r.id
  BY DEF Row, Restored
<1> QED
  BY <1>1 DEF IdsOf

LEMMA DisownedKeepsIds ==
  ASSUME NEW R \in SUBSET Row
  PROVE  LET D == {[r EXCEPT !.owned = FALSE] : r \in R}
         IN  D \in SUBSET Row /\ IdsOf(D) = IdsOf(R)
<1>1. \A r \in R : [r EXCEPT !.owned = FALSE] \in Row /\ [r EXCEPT !.owned = FALSE].id = r.id
  BY DEF Row
<1> QED
  BY <1>1 DEF IdsOf

\* Whether alert exists after a statement, by the kind of the statement.
LEMMA TablesAfter ==
  ASSUME NEW s
  PROVE  /\ s.op = "create" => DOMAIN SchemaAfter(s) = DOMAIN schema \cup {s.table}
         /\ s.op = "drop" => DOMAIN SchemaAfter(s) = DOMAIN schema \ {s.table}
         /\ s.op = "rename" => DOMAIN SchemaAfter(s) = (DOMAIN schema \ {s.table}) \cup {s.to}
         /\ s.op \in {"add", "remove", "copy", "convert", "backfill", "restore"} =>
              DOMAIN SchemaAfter(s) = DOMAIN schema
BY DEF SchemaAfter, Has

\* The rows after a statement, by the kind of the statement.
LEMMA RowsAfterEach ==
  ASSUME NEW s, rows \in [Tables -> SUBSET Row]
  PROVE  /\ s.op \in {"create", "add", "backfill"} => RowsAfter(s) = rows
         /\ s.op = "drop" =>
              IF s.table = "alert" THEN RowsAfter(s) = [rows EXCEPT !["alert"] = {}]
              ELSE RowsAfter(s) = rows
         /\ s.op = "rename" =>
              IF s.table = "alert_new"
              THEN RowsAfter(s) = [rows EXCEPT !["alert"] = rows["alert_new"], !["alert_new"] = {}]
              ELSE RowsAfter(s) = rows
         /\ s.op = "remove" =>
              \/ RowsAfter(s) = rows
              \/ RowsAfter(s) =
                   [rows EXCEPT !["alert"] = {[r EXCEPT !.owned = FALSE] : r \in rows["alert"]}]
         /\ s.op = "copy" =>
              RowsAfter(s) = [rows EXCEPT !["alert_new"] =
                                rows["alert_new"] \cup Converted(rows["alert"], s.tokens)]
         /\ s.op = "convert" =>
              RowsAfter(s) = [rows EXCEPT !["alert"] = Converted(rows["alert"], s.tokens)]
         /\ s.op = "restore" =>
              RowsAfter(s) = [rows EXCEPT !["alert"] = {Restored(r) : r \in rows["alert"]}]
BY DEF RowsAfter, Tables

\* The oldest notification addresses stay addresses.
LEMMA NotifyTyped ==
  ASSUME NEW s, rows \in [Tables -> SUBSET Row], notify \in [Ids -> Emails \cup {Nobody}]
  PROVE  NotifyAfter(s) \in [Ids -> Emails \cup {Nobody}]
<1>1. CASE s.op = "backfill"
  <2>1. \A i \in Ids : (\E r \in rows["alert"] : r.id = i /\ r.owned) =>
          (CHOOSE r \in rows["alert"] : r.id = i).email \in Emails
    BY DEF Tables, Row
  <2> QED
    BY <1>1, <2>1 DEF NotifyAfter
<1>2. CASE s.op = "drop" /\ s.table \in {"alert", "alert_notification_email"}
  BY <1>2 DEF NotifyAfter
<1> QED
  BY <1>1, <1>2 DEF NotifyAfter

\* A statement that leaves alert in place keeps every alert.
LEMMA CalmKeeps ==
  ASSUME NEW s, Calm(s), Works(s), DataOK(schema, rows, notify, applied)
  PROVE  /\ RowsAfter(s) \in [Tables -> SUBSET Row]
         /\ "alert" \notin DOMAIN SchemaAfter(s) => RowsAfter(s)["alert"] = {}
         /\ \A i : Stored(i, rows) => Stored(i, RowsAfter(s))
         /\ s.op = "copy" => IdsOf(RowsAfter(s)["alert"]) \subseteq IdsOf(RowsAfter(s)["alert_new"])
<1> USE DEF Tables
<1>1. /\ rows \in [Tables -> SUBSET Row] /\ notify \in [Ids -> Emails \cup {Nobody}]
      /\ "alert" \notin DOMAIN schema => rows["alert"] = {}
  BY DEF DataOK
<1> DEFINE R == RowsAfter(s)
           KeepsIds == /\ IdsOf(rows["alert"]) \subseteq IdsOf(R["alert"])
                       /\ IdsOf(rows["alert_new"]) \subseteq IdsOf(R["alert_new"])
<1>2. KeepsIds => \A i : Stored(i, rows) => Stored(i, R)
  BY DEF Stored, IdsOf
<1>3. CASE s.op \in {"create", "add", "backfill"}
  BY <1>1, <1>3, RowsAfterEach, TablesAfter
<1>4. CASE s.op = "drop"
  BY <1>1, <1>4, RowsAfterEach, TablesAfter DEF Calm
<1>5. CASE s.op = "rename"
  <2>1. CASE s.table = "alert_new"
    <3>1. R = [rows EXCEPT !["alert"] = rows["alert_new"], !["alert_new"] = {}]
      BY <1>1, <1>5, <2>1, RowsAfterEach
    <3>2. s.to = "alert" /\ rows["alert"] = {}
      BY <1>1, <1>5, <2>1 DEF Calm, Works, Has
    <3>3. "alert" \in DOMAIN SchemaAfter(s)
      BY <1>5, <3>2, TablesAfter
    <3>4. R \in [Tables -> SUBSET Row] /\ R["alert"] = rows["alert_new"]
      BY <1>1, <3>1
    <3>5. \A i : Stored(i, rows) => Stored(i, R)
      BY <3>2, <3>4 DEF Stored
    <3> QED
      BY <1>5, <3>3, <3>4, <3>5
  <2>2. CASE s.table # "alert_new"
    BY <1>1, <1>5, <2>2, RowsAfterEach, TablesAfter DEF Calm
  <2> QED
    BY <2>1, <2>2
<1>6. CASE s.op = "remove"
  <2> DEFINE D == {[r EXCEPT !.owned = FALSE] : r \in rows["alert"]}
  <2>1. D \in SUBSET Row /\ IdsOf(D) = IdsOf(rows["alert"]) /\ (rows["alert"] = {} => D = {})
    BY <1>1, DisownedKeepsIds
  <2>2. R = rows \/ R = [rows EXCEPT !["alert"] = D]
    BY <1>1, <1>6, RowsAfterEach
  <2> HIDE DEF D
  <2> QED
    BY <1>1, <1>2, <1>6, <2>1, <2>2, TablesAfter
<1>7. CASE s.op = "copy"
  <2> DEFINE C == Converted(rows["alert"], s.tokens)
  <2>1. C \in SUBSET Row /\ IdsOf(C) = IdsOf(rows["alert"])
    BY <1>1, ConvertedKeepsIds
  <2>2. R = [rows EXCEPT !["alert_new"] = rows["alert_new"] \cup C]
    BY <1>1, <1>7, RowsAfterEach
  <2> HIDE DEF C
  <2>3. KeepsIds /\ IdsOf(R["alert"]) \subseteq IdsOf(R["alert_new"])
    BY <1>1, <2>1, <2>2 DEF IdsOf
  <2> QED
    BY <1>1, <1>2, <1>7, <2>1, <2>2, <2>3, TablesAfter
<1>8. CASE s.op = "convert"
  <2> DEFINE C == Converted(rows["alert"], s.tokens)
  <2>1. C \in SUBSET Row /\ IdsOf(C) = IdsOf(rows["alert"])
    BY <1>1, ConvertedKeepsIds
  <2>2. R = [rows EXCEPT !["alert"] = C]
    BY <1>1, <1>8, RowsAfterEach
  <2>3. rows["alert"] = {} => C = {}
    BY DEF Converted
  <2> HIDE DEF C
  <2> QED
    BY <1>1, <1>2, <1>8, <2>1, <2>2, <2>3, TablesAfter
<1>9. CASE s.op = "restore"
  <2> DEFINE C == {Restored(r) : r \in rows["alert"]}
  <2>1. C \in SUBSET Row /\ IdsOf(C) = IdsOf(rows["alert"]) /\ (rows["alert"] = {} => C = {})
    BY <1>1, RestoredKeepsIds
  <2>2. R = [rows EXCEPT !["alert"] = C]
    BY <1>1, <1>9, RowsAfterEach
  <2> HIDE DEF C
  <2> QED
    BY <1>1, <1>2, <1>9, <2>1, <2>2, TablesAfter
<1> QED
  BY <1>3, <1>4, <1>5, <1>6, <1>7, <1>8, <1>9 DEF Calm

-----------------------------------------------------------------------------
(***************************************************************************)
(* The commands.                                                           *)
(***************************************************************************)

\* The migration a running command is at.
LEMMA RunningJob ==
  ASSUME JobOK, DataOK(schema, rows, notify, applied), Running
  PROVE  /\ job \in [dir : {"up", "down"}, at : Nat \ {0}, left : Nat \ {0}]
         /\ Migration \in 1..Last
         /\ job.dir = "down" => Migration = applied
         /\ job.dir = "up" => Migration = applied + 1
BY DEF JobOK, Running, Idle, DataOK, Migration, Last

\* What the statement at hand can be.
LEMMA NextStatement ==
  ASSUME JobOK, DataOK(schema, rows, notify, applied), Running, job.at <= Len(Statements),
         NEW s, s = Statements[job.at]
  PROVE  /\ \/ Calm(s)
            \/ /\ s = Drop("alert")
               /\ \/ backend = "sqlite" /\ Migration \in {2, 5, 18} /\ job.at = 3
                  \/ job.dir = "down" /\ applied = 1 /\ job.at = 2
         /\ backend = "sqlite" /\ Migration \in {2, 5, 18} =>
              /\ job.at = 1 => s.op = "create" /\ s.table = "alert_new"
              /\ job.at = 2 => s.op = "copy"
         /\ job.dir = "down" /\ applied = 1 =>
              job.at \in {1, 2} /\ (job.at = 1 => s = Remove("alert", RowIndex))
<1>1. /\ job.dir \in {"up", "down"} /\ job.at \in Nat \ {0} /\ Migration \in 1..Last
      /\ job.dir = "down" => Migration = applied
      /\ job.dir = "up" => Migration = applied + 1
  BY RunningJob
<1>2. \/ Statements = Up[Migration] /\ job.dir = "up"
      \/ Statements = Down[Migration] /\ job.dir = "down"
  BY <1>1 DEF Statements
<1>3. CASE job.dir = "down" /\ applied = 1
  <2>1. Statements = AlertTableDown /\ Migration = 1
    BY <1>1, <1>2, <1>3, AllMigrations
  <2>2. /\ Len(Statements) = 2 /\ Statements[1] = Remove("alert", RowIndex)
        /\ Statements[2] = Drop("alert")
    BY <2>1 DEF AlertTableDown
  <2>3. job.at \in {1, 2}
    BY <1>1, <2>2
  <2> QED
    BY <1>3, <2>1, <2>2, <2>3, CalmStatements
<1>4. CASE ~(job.dir = "down" /\ applied = 1) /\ backend = "sqlite" /\ Migration \in {2, 5, 18}
  <2>1. Rebuilding(Statements)
    BY <1>1, <1>2, <1>4, AllMigrations
  <2>2. job.at \in DOMAIN Statements
    BY <1>1, <2>1, ListLength DEF Rebuilding
  <2> QED
    BY <1>4, <2>1, <2>2 DEF Rebuilding
<1>5. CASE ~(job.dir = "down" /\ applied = 1) /\ ~(backend = "sqlite" /\ Migration \in {2, 5, 18})
  <2>1. CalmList(Statements)
    BY <1>1, <1>2, <1>5, AllMigrations
  <2>2. job.at \in DOMAIN Statements
    BY <1>1, <2>1, ListLength DEF CalmList
  <2> QED
    BY <1>5, <2>1, <2>2 DEF CalmList
<1> QED
  BY <1>3, <1>4, <1>5

\* A command that ends has run all its statements.
LEMMA LastStatement ==
  ASSUME JobOK, DataOK(schema, rows, notify, applied), Running, job.at > Len(Statements)
  PROVE  job.dir = "up" /\ backend = "sqlite" /\ applied = 1 => job.at > 2
<1> SUFFICES ASSUME job.dir = "up", backend = "sqlite", applied = 1
             PROVE  job.at > 2
  OBVIOUS
<1>1. job.at \in Nat /\ Migration = 2 /\ Statements = Up[2]
  BY RunningJob DEF Statements
<1>2. Rebuilding(Up[2]) /\ 2 \in 1..Last
  BY AllMigrations DEF Last
<1>3. Len(Up[2]) \in Nat /\ Len(Up[2]) >= 4
  BY <1>2, ListLength DEF Rebuilding
<1> QED
  BY <1>1, <1>3

\* A command starts.
LEMMA StartKeeps ==
  ASSUME Inv, NEW dir \in {"up", "down"}, NEW n \in Nat, Start(dir, n),
         dir = "up" => applied + n <= Last, dir = "down" => applied >= 1 /\ n = 1
  PROVE  Inv'
<1>1. /\ job = Idle /\ job' = [dir |-> dir, at |-> 1, left |-> n] /\ n > 0
      /\ saved' = OnSqlite(<<>>, Transaction)
      /\ UNCHANGED <<backend, schema, rows, notify, applied, entrusted, torn>>
  BY DEF Start, Running, database
<1>2. JobOK'
  BY <1>1 DEF JobOK, Idle
<1>3. /\ DataOK(schema, rows, notify, applied)'
      /\ torn' \in BOOLEAN /\ (torn' => backend' = "sqlite")
  BY <1>1 DEF Inv, DataOK, Has
<1>4. job'.at = 1
  BY <1>1
<1>5. CopiedInv'
  BY <1>4 DEF CopiedInv
<1>6. job.dir = "none"
  BY <1>1 DEF Idle
<1>7. ~AllStored(rows) => applied = 1 /\ ~Has("alert") /\ torn
  BY <1>6 DEF Inv, LostInv
<1>8. LostInv'
  BY <1>1, <1>4, <1>7 DEF LostInv, AllStored, Stored, Has
<1>9. ASSUME backend # "sqlite"
      PROVE  /\ saved' = Transaction
             /\ DataOK(saved'.schema, saved'.rows, saved'.notify, saved'.applied)
             /\ AllStored(saved'.rows)
  BY <1>1, <1>7, <1>9 DEF Inv, OnSqlite, Transaction, DataOK, Has, AllStored, Stored
<1>10. SavedInv'
  BY <1>1, <1>9 DEF SavedInv, DataOK, AllStored, Stored
<1> QED
  BY <1>2, <1>3, <1>5, <1>8, <1>10 DEF Inv

\* One statement.
LEMMA ExecuteKeeps ==
  ASSUME Inv, Execute
  PROVE  Inv'
<1> DEFINE s == Statements[job.at]
<1>1. /\ Running /\ job.at <= Len(Statements) /\ Works(s)
      /\ schema' = SchemaAfter(s) /\ rows' = RowsAfter(s) /\ notify' = NotifyAfter(s)
      /\ job' = [job EXCEPT !.at = @ + 1]
      /\ UNCHANGED <<backend, applied, saved, entrusted, torn>>
  BY DEF Execute
<1>2. /\ JobOK /\ DataOK(schema, rows, notify, applied)
      /\ torn \in BOOLEAN /\ (torn => backend = "sqlite")
      /\ CopiedInv /\ SavedInv /\ LostInv
  BY DEF Inv
<1>3. /\ job \in [dir : {"up", "down"}, at : Nat \ {0}, left : Nat \ {0}]
      /\ job.dir = "up" => Migration = applied + 1
      /\ job.dir = "down" => Migration = applied
  BY <1>1, <1>2, RunningJob
<1>4. /\ job' \in [dir : {"up", "down"}, at : Nat \ {0}, left : Nat \ {0}]
      /\ job'.dir = job.dir /\ job'.left = job.left /\ job'.at = job.at + 1
      /\ job # Idle /\ job' # Idle
  BY <1>1, <1>3 DEF Idle, Running
<1>5. /\ \/ Calm(s)
         \/ /\ s = Drop("alert")
            /\ \/ backend = "sqlite" /\ Migration \in {2, 5, 18} /\ job.at = 3
               \/ job.dir = "down" /\ applied = 1 /\ job.at = 2
      /\ backend = "sqlite" /\ Migration \in {2, 5, 18} =>
           /\ job.at = 1 => s.op = "create" /\ s.table = "alert_new"
           /\ job.at = 2 => s.op = "copy"
      /\ job.dir = "down" /\ applied = 1 =>
           job.at \in {1, 2} /\ (job.at = 1 => s = Remove("alert", RowIndex))
  BY <1>1, <1>2, NextStatement
<1> HIDE DEF s
<1>6. JobOK'
  BY <1>1, <1>2, <1>4 DEF JobOK
<1>7. SavedInv'
  BY <1>1, <1>2 DEF SavedInv, AllStored, Stored, DataOK
<1>8. notify' \in [Ids -> Emails \cup {Nobody}]
  BY <1>1, <1>2, NotifyTyped DEF DataOK
<1>9. ~AllStored(rows) =>
        /\ applied = 1 /\ ~Has("alert") /\ backend = "sqlite"
        /\ job.at = 1 /\ s.op = "create" /\ s.table = "alert_new"
  <2> SUFFICES ASSUME ~AllStored(rows)
               PROVE  /\ applied = 1 /\ ~Has("alert") /\ backend = "sqlite"
                      /\ job.at = 1 /\ s.op = "create" /\ s.table = "alert_new"
    OBVIOUS
  <2>1. /\ applied = 1 /\ ~Has("alert") /\ torn /\ backend = "sqlite"
        /\ job.at = 1 \/ (job.dir = "up" /\ job.at = 2)
    BY <1>2, <1>4, <1>5 DEF LostInv
  <2>2. job.dir # "down"
    <3>1. ASSUME job.dir = "down"
          PROVE  FALSE
      <4>1. s = Remove("alert", RowIndex)
        BY <1>5, <2>1, <3>1
      <4> QED
        BY <1>1, <2>1, <4>1 DEF Works, Present, Remove
    <3> QED
      BY <3>1
  <2>3. job.dir = "up" /\ Migration = 2
    BY <1>3, <2>1, <2>2
  <2>4. job.at # 2
    BY <1>1, <1>5, <2>1, <2>3 DEF Works
  <2> QED
    BY <1>5, <2>1, <2>3, <2>4
<1>10. CASE Calm(s)
  <2>1. /\ rows' \in [Tables -> SUBSET Row]
        /\ "alert" \notin DOMAIN schema' => rows'["alert"] = {}
        /\ \A i : Stored(i, rows) => Stored(i, rows')
        /\ s.op = "copy" => IdsOf(rows'["alert"]) \subseteq IdsOf(rows'["alert_new"])
    BY <1>1, <1>2, <1>10, CalmKeeps
  <2>2. DataOK(schema, rows, notify, applied)'
    BY <1>1, <1>2, <1>8, <2>1 DEF DataOK
  <2>3. CopiedInv'
    BY <1>1, <1>3, <1>4, <1>5, <2>1 DEF CopiedInv, Migration
  <2>4. ~AllStored(rows)' => ~AllStored(rows)
    BY <1>1, <2>1 DEF AllStored
  <2>5. ~AllStored(rows) => ~Has("alert")' /\ job.dir = "up"
    <3>1. s.op = "create" /\ s.table = "alert_new" =>
            DOMAIN schema' = DOMAIN schema \cup {"alert_new"}
      BY <1>1, TablesAfter
    <3>2. ~AllStored(rows) => job.dir # "down"
      BY <1>5, <1>9 DEF Remove
    <3> QED
      BY <1>3, <1>9, <3>1, <3>2 DEF Has
  <2>6. ~AllStored(rows) => torn
    BY <1>2, <1>4, <1>9 DEF LostInv
  <2>7. LostInv'
    BY <1>1, <1>4, <1>9, <2>4, <2>5, <2>6 DEF LostInv
  <2> QED
    BY <1>1, <1>2, <1>6, <1>7, <2>2, <2>3, <2>7 DEF Inv
<1>11. CASE s = Drop("alert")
  <2>1. s.op = "drop" /\ s.table = "alert"
    BY <1>11 DEF Drop
  <2>2. rows \in [Tables -> SUBSET Row] /\ rows' = [rows EXCEPT !["alert"] = {}]
    BY <1>1, <1>2, <2>1, RowsAfterEach DEF DataOK
  <2>3. /\ rows' \in [Tables -> SUBSET Row]
        /\ rows'["alert"] = {} /\ rows'["alert_new"] = rows["alert_new"]
    BY <2>2 DEF Tables
  <2>4. "alert" \notin DOMAIN schema'
    BY <1>1, <2>1, TablesAfter
  <2>5. DataOK(schema, rows, notify, applied)'
    BY <1>1, <1>2, <1>8, <2>3 DEF DataOK
  <2>6. CopiedInv'
    BY <2>3 DEF CopiedInv, IdsOf
  <2>7. AllStored(rows)
    BY <1>9, <2>1
  <2>8. CASE backend = "sqlite" /\ Migration \in {2, 5, 18} /\ job.at = 3
    <3>1. IdsOf(rows["alert"]) \subseteq IdsOf(rows["alert_new"])
      BY <1>1, <1>2, <2>8 DEF CopiedInv
    <3>2. \A i : Stored(i, rows) => Stored(i, rows')
      BY <2>3, <3>1 DEF Stored, Tables, IdsOf
    <3>3. AllStored(rows)'
      BY <1>1, <2>7, <3>2 DEF AllStored
    <3> QED
      BY <1>1, <1>2, <1>6, <1>7, <2>5, <2>6, <3>3 DEF Inv, LostInv
  <2>9. CASE job.dir = "down" /\ applied = 1 /\ job.at = 2
    <3>1. LostInv'
      BY <1>1, <1>4, <2>4, <2>9 DEF LostInv, Has
    <3> QED
      BY <1>1, <1>2, <1>6, <1>7, <2>5, <2>6, <3>1 DEF Inv
  <2>10. ~Calm(s)
    BY <2>1 DEF Calm
  <2> QED
    BY <1>5, <2>8, <2>9, <2>10
<1> QED
  BY <1>5, <1>10, <1>11

\* A command that fails or dies.
LEMMA RollBackKeeps ==
  ASSUME Inv, Running, RollBack, job' = Idle, UNCHANGED <<backend, entrusted>>,
         torn' \in BOOLEAN, torn => torn', torn' => backend = "sqlite",
         job.dir = "down" /\ job.at = 3 /\ applied = 1 => torn' \/ backend # "sqlite"
  PROVE  Inv'
<1>1. ~Running' /\ JobOK'
  BY DEF Running, JobOK
<1>2. CopiedInv' /\ SavedInv'
  BY <1>1 DEF CopiedInv, SavedInv
<1>3. CASE backend = "sqlite"
  <2>1. UNCHANGED <<schema, rows, notify, applied>>
    BY <1>3 DEF RollBack, OnSqlite, database
  <2>2. DataOK(schema, rows, notify, applied)'
    BY <2>1 DEF Inv, DataOK
  <2>3. ~AllStored(rows)' => applied = 1 /\ ~Has("alert") /\ torn'
    BY <1>3, <2>1 DEF Inv, LostInv, AllStored, Stored
  <2>4. LostInv'
    BY <2>1, <2>3 DEF LostInv, Has
  <2> QED
    BY <1>1, <1>2, <2>2, <2>4 DEF Inv
<1>4. CASE backend # "sqlite"
  <2>1. /\ schema' = saved.schema /\ rows' = saved.rows
        /\ notify' = saved.notify /\ applied' = saved.applied
    BY <1>4 DEF RollBack, OnSqlite
  <2>2. DataOK(saved.schema, saved.rows, saved.notify, saved.applied) /\ AllStored(saved.rows)
    BY <1>4 DEF Inv, SavedInv
  <2>3. DataOK(schema, rows, notify, applied)'
    BY <2>1, <2>2 DEF DataOK
  <2>4. AllStored(rows)'
    BY <2>1, <2>2 DEF AllStored, Stored
  <2> QED
    BY <1>1, <1>2, <1>4, <2>3, <2>4 DEF Inv, LostInv
<1> QED
  BY <1>3, <1>4

\* A command goes on with its next migration.
LEMMA NextJobTyped ==
  ASSUME NEW D, NEW A, NEW L, NEW j \in [dir : D, at : A, left : L], NEW a \in A, NEW l \in L
  PROVE  [j EXCEPT !.at = a, !.left = l] \in [dir : D, at : A, left : L]
OBVIOUS

\* A migration that is done.
LEMMA RecordKeeps ==
  ASSUME Inv, Record
  PROVE  Inv'
<1>1. /\ Running /\ job.at > Len(Statements)
      /\ applied' = IF job.dir = "up" THEN applied + 1 ELSE applied - 1
      /\ entrusted' = IF applied' = 0 THEN {} ELSE entrusted
      /\ \/ job.left = 1 /\ job' = Idle
         \/ job.left # 1 /\ job' = [job EXCEPT !.at = 1, !.left = @ - 1] /\ saved' = saved
      /\ UNCHANGED <<backend, schema, rows, notify, torn>>
  BY DEF Record, Finish
<1>2. /\ JobOK /\ DataOK(schema, rows, notify, applied)
      /\ torn \in BOOLEAN /\ (torn => backend = "sqlite")
      /\ SavedInv /\ LostInv
  BY DEF Inv
<1>3. /\ job \in [dir : {"up", "down"}, at : Nat \ {0}, left : Nat \ {0}] /\ job # Idle
      /\ applied \in 0..Last
      /\ job.dir = "up" => applied + job.left <= Last
      /\ job.dir = "down" => applied >= 1 /\ job.left = 1
  BY <1>1, <1>2, RunningJob DEF JobOK, DataOK, Running
<1> DEFINE more == [job EXCEPT !.at = 1, !.left = @ - 1]
<1>4. /\ job.dir \in {"up", "down"} /\ job.left \in Nat \ {0}
      /\ applied' \in 0..Last /\ (job.dir = "up" => applied' = applied + 1)
  <2>1. job.dir \in {"up", "down"} /\ job.left \in Nat \ {0}
    BY <1>3
  <2>2. CASE job.dir = "up"
    <3>1. applied' = applied + 1 /\ applied + job.left <= Last
      BY <1>1, <1>3, <2>2
    <3> QED
      BY <1>3, <2>1, <2>2, <3>1 DEF Last
  <2>3. CASE job.dir = "down"
    <3>1. applied' = applied - 1 /\ applied >= 1
      BY <1>1, <1>3, <2>3
    <3> QED
      BY <1>3, <2>1, <2>3, <3>1 DEF Last
  <2> QED
    BY <2>1, <2>2, <2>3
<1>5. \/ job' = Idle
      \/ /\ job.dir = "up" /\ job.left - 1 \in Nat \ {0} /\ saved' = saved /\ applied' = applied + 1
         /\ job' \in [dir : {"up", "down"}, at : Nat \ {0}, left : Nat \ {0}]
         /\ job'.dir = "up" /\ job'.at = 1 /\ job'.left = job.left - 1
  <2>1. CASE job.left = 1
    BY <1>1, <2>1
  <2>2. CASE job.left # 1
    <3>1. job' = more /\ saved' = saved /\ job.dir = "up" /\ applied' = applied + 1
      BY <1>1, <1>3, <1>4, <2>2
    <3>2. job.left - 1 \in Nat \ {0}
      BY <1>4, <2>2
    <3>3. /\ more \in [dir : {"up", "down"}, at : Nat \ {0}, left : Nat \ {0}]
          /\ more.dir = job.dir /\ more.at = 1 /\ more.left = job.left - 1
      <4>1. more.dir = job.dir /\ more.at = 1 /\ more.left = job.left - 1
        BY <1>3
      <4>2. more \in [dir : {"up", "down"}, at : Nat \ {0}, left : Nat \ {0}]
        <5> DEFINE D == {"up", "down"}  P == Nat \ {0}
        <5>1. job \in [dir : D, at : P, left : P] /\ 1 \in P /\ job.left - 1 \in P
          BY <1>3, <3>2
        <5> HIDE DEF D, P
        <5>2. [job EXCEPT !.at = 1, !.left = job.left - 1] \in [dir : D, at : P, left : P]
          BY <5>1, NextJobTyped
        <5> QED
          BY <5>2 DEF D, P
      <4> HIDE DEF more
      <4> QED
        BY <4>1, <4>2
    <3> HIDE DEF more
    <3> QED
      BY <3>1, <3>2, <3>3
  <2> QED
    BY <2>1, <2>2
<1>6. JobOK'
  BY <1>3, <1>5 DEF JobOK, Last
<1>7. DataOK(schema, rows, notify, applied)'
  BY <1>1, <1>2, <1>4 DEF DataOK
<1>8. CopiedInv'
  BY <1>5 DEF CopiedInv, Running
<1>9. SavedInv'
  <2>1. CASE job' = Idle
    BY <2>1 DEF SavedInv, Running
  <2>2. CASE applied' = applied + 1 /\ saved' = saved
    <3>1. entrusted' = entrusted
      <4>1. applied' # 0
        BY <1>3, <2>2 DEF Last
      <4> QED
        BY <1>1, <4>1
    <3>2. CASE backend # "sqlite"
      <4>1. /\ DataOK(saved.schema, saved.rows, saved.notify, saved.applied)
            /\ AllStored(saved.rows)
        BY <1>1, <1>2, <3>2 DEF SavedInv
      <4>2. DataOK(saved.schema, saved.rows, saved.notify, saved.applied)'
        BY <2>2, <4>1 DEF DataOK
      <4>3. AllStored(saved.rows)'
        BY <2>2, <3>1, <4>1 DEF AllStored, Stored
      <4> QED
        BY <4>2, <4>3 DEF SavedInv
    <3>3. CASE backend = "sqlite"
      BY <1>1, <3>3 DEF SavedInv
    <3> QED
      BY <3>2, <3>3
  <2> QED
    BY <1>5, <2>1, <2>2
<1>10. AllStored(rows)'
  <2> SUFFICES ASSUME ~AllStored(rows)'
               PROVE  FALSE
    OBVIOUS
  <2>1. entrusted' = entrusted /\ applied' # 0
    BY <1>1 DEF AllStored
  <2>2. ~AllStored(rows)
    BY <1>1, <2>1 DEF AllStored, Stored
  <2>3. /\ applied = 1
        /\ job.dir = "down" \/ (torn /\ (job.at = 1 \/ (job.dir = "up" /\ job.at = 2)))
    BY <1>2, <1>3, <2>2 DEF LostInv
  <2>4. job.dir = "up"
    BY <1>1, <1>3, <2>1, <2>3
  <2>5. job.at > 2
    BY <1>1, <1>2, <2>3, <2>4, LastStatement
  <2> QED
    BY <1>3, <2>3, <2>4, <2>5
<1> QED
  BY <1>1, <1>2, <1>6, <1>7, <1>8, <1>9, <1>10 DEF Inv, LostInv

\* A server inserts an alert.
LEMMA InsertKeeps ==
  ASSUME Inv, NEW r \in Row, Insert(r)
  PROVE  Inv'
<1>1. /\ ~Running /\ Has("alert")
      /\ rows' = [rows EXCEPT !["alert"] = @ \cup {r}]
      /\ notify' = notify \/ notify' = [notify EXCEPT ![r.id] = r.email]
      /\ entrusted' = entrusted \cup {r.id}
      /\ UNCHANGED <<backend, schema, applied, job, saved, torn>>
  BY DEF Insert
<1>2. /\ rows \in [Tables -> SUBSET Row] /\ notify \in [Ids -> Emails \cup {Nobody}]
      /\ r.id \in Ids /\ r.email \in Emails
  BY DEF Inv, DataOK, Row
<1>3. /\ rows' \in [Tables -> SUBSET Row]
      /\ rows'["alert"] = rows["alert"] \cup {r} /\ rows'["alert_new"] = rows["alert_new"]
  BY <1>1, <1>2 DEF Tables
<1>4. notify' \in [Ids -> Emails \cup {Nobody}]
  BY <1>1, <1>2
<1>5. DataOK(schema, rows, notify, applied)'
  BY <1>1, <1>3, <1>4 DEF Inv, DataOK, Has
<1>6. AllStored(rows)
  BY <1>1 DEF Inv, LostInv
<1>7. AllStored(rows)'
  BY <1>1, <1>3, <1>6 DEF AllStored, Stored, Tables
<1>8. ~Running' /\ JobOK'
  BY <1>1 DEF Inv, JobOK, Running, Idle
<1> QED
  BY <1>1, <1>5, <1>7, <1>8 DEF Inv, LostInv, CopiedInv, SavedInv

\* What leaves the tables, the alerts and the command alone.
LEMMA RestKeeps ==
  ASSUME Inv, UNCHANGED <<backend, schema, rows, applied, job, saved, entrusted, torn>>,
         notify' \in [Ids -> Emails \cup {Nobody}]
  PROVE  Inv'
<1>1. JobOK' /\ CopiedInv' /\ SavedInv' /\ LostInv'
  BY DEF Inv, JobOK, CopiedInv, SavedInv, LostInv, Running, Idle, Migration, AllStored, Stored, Has,
         DataOK
<1> QED
  BY <1>1 DEF Inv, DataOK

-----------------------------------------------------------------------------
\* The invariant holds in every state.
LEMMA InvIsInductive == Spec => []Inv
<1>1. Init => Inv
  <2> SUFFICES ASSUME Init
               PROVE  Inv
    OBVIOUS
  <2>1. /\ rows \in [Tables -> SUBSET Row] /\ rows["alert"] = {}
        /\ notify \in [Ids -> Emails \cup {Nobody}] /\ applied \in 0..Last
    BY DEF Init, Tables, Last
  <2>2. ~Running /\ JobOK /\ AllStored(rows) /\ torn = FALSE
    BY DEF Init, Running, JobOK, AllStored
  <2> QED
    BY <2>1, <2>2 DEF Inv, DataOK, CopiedInv, SavedInv, LostInv
<1>2. Inv /\ [Next]_vars => Inv'
  <2> SUFFICES ASSUME Inv, [Next]_vars
               PROVE  Inv'
    OBVIOUS
  <2>1. CASE StartUp
    <3>1. PICK n \in {1, Last - applied} : n <= Last - applied /\ Start("up", n)
      BY <2>1 DEF StartUp
    <3>2. applied \in 0..Last
      BY DEF Inv, DataOK
    <3>3. n \in Nat /\ applied + n <= Last
      BY <3>1, <3>2 DEF Last
    <3> QED
      BY <3>1, <3>3, StartKeeps
  <2>2. CASE StartDown
    <3>1. applied \in 0..Last
      BY DEF Inv, DataOK
    <3> QED
      BY <2>2, <3>1, StartKeeps DEF StartDown, Last
  <2>3. CASE Execute
    BY <2>3, ExecuteKeeps
  <2>4. CASE Fails
    <3>1. /\ Running /\ RollBack /\ job' = Idle /\ UNCHANGED <<backend, entrusted, torn>>
          /\ job.at <= Len(Statements)
      BY <2>4 DEF Fails, Finish
    <3>2. ~(job.dir = "down" /\ job.at = 3 /\ applied = 1)
      BY <3>1, NextStatement DEF Inv
    <3> QED
      BY <3>1, <3>2, RollBackKeeps DEF Inv
  <2>5. CASE Record
    BY <2>5, RecordKeeps
  <2>6. CASE NothingToDo
    BY <2>6, RestKeeps DEF NothingToDo, database, Inv, DataOK
  <2>7. CASE Crash
    <3>1. /\ Running /\ RollBack /\ job' = Idle /\ UNCHANGED <<backend, entrusted>>
          /\ torn' = (torn \/ (job.dir = "down" /\ backend = "sqlite"))
      BY <2>7 DEF Crash, Finish
    <3>2. torn \in BOOLEAN /\ (torn => backend = "sqlite")
      BY DEF Inv
    <3> QED
      BY <3>1, <3>2, RollBackKeeps
  <2>8. ASSUME NEW r \in Row, Insert(r)
        PROVE  Inv'
    BY <2>8, InsertKeeps
  <2>9. ASSUME NEW i \in Ids, NEW e \in Emails, ReplaceNotify(i, e)
        PROVE  Inv'
    <3>1. notify \in [Ids -> Emails \cup {Nobody}] /\ notify' = [notify EXCEPT ![i] = e]
      BY <2>9 DEF Inv, DataOK, ReplaceNotify
    <3> QED
      BY <2>9, <3>1, RestKeeps DEF ReplaceNotify
  <2>10. CASE UNCHANGED vars
    BY <2>10, RestKeeps DEF vars, database, Inv, DataOK
  <2> QED
    BY <2>1, <2>2, <2>3, <2>4, <2>5, <2>6, <2>7, <2>8, <2>9, <2>10 DEF Next
<1> QED
  BY <1>1, <1>2, PTL DEF Spec

\* No alert is lost, however many there are: whatever command runs, fails or dies between
\* any two statements, and however often, every alert is in the table or in the copy of a
\* rebuild, until the first migration itself is undone.
THEOREM NoAlertIsLost == Spec => []AlertsSurvive
<1>1. Inv => AlertsSurvive
  <2> SUFFICES ASSUME Inv, applied > 1 \/ (applied = 1 /\ job.dir # "down" /\ ~torn),
                      NEW i \in entrusted
               PROVE  \E r \in rows["alert"] \cup rows["alert_new"] : r.id = i
    BY DEF AlertsSurvive
  <2>1. AllStored(rows)
    BY DEF Inv, LostInv
  <2> QED
    BY <2>1 DEF AllStored, Stored, Tables
<1> QED
  BY <1>1, InvIsInductive, PTL

-----------------------------------------------------------------------------
(***************************************************************************)
(* What the migrations put into the tables.                                *)
(***************************************************************************)

\* What an Up makes and the server or a Down relies on: the table, under the name that
\* rename_oauth_tables gives it, the part, or the table itself, the migration, the statement of
\* its Up that makes it, and the statement of its Down that takes it away.
Made(t, p, m, u, d) ==
  \/ /\ t = "alert"
     /\ \/ /\ m = 6 /\ u = d
           /\ \/ p = "last_check_at" /\ u = 1
              \/ p = "last_failure_at" /\ u = 2
              \/ p = "last_success_at" /\ u = 3
              \/ p = "last_email_sent_at" /\ u = 4
              \/ p = "failure_count" /\ u = 5
              \/ p = "is_currently_failing" /\ u = 6
        \/ p = "user_id" /\ m = 10 /\ u = 1 /\ d = 5
        \/ p = "last_recovery_at" /\ m = 13 /\ u = 1 /\ d = 1
        \/ p = PairIndex /\ m = 18 /\ u = 6 /\ d = 3
        \/ /\ m = 22
           /\ \/ p = "notify_server_name_change" /\ u = 1 /\ d = 5
              \/ p = "notify_version_change" /\ u = 2 /\ d = 4
              \/ p = "notify_tls_cert_change" /\ u = 3 /\ d = 3
              \/ p = "notify_tls_expiry" /\ u = 4 /\ d = 2
        \/ /\ m = 24
           /\ \/ p = "quiet_hours_enabled" /\ u = 1 /\ d = 3
              \/ p = "quiet_hours_from" /\ u = 2 /\ d = 2
              \/ p = "quiet_hours_to" /\ u = 3 /\ d = 1
  \/ /\ t = "federation_stat_aggregate" /\ m = 4 /\ d = u
     /\ \/ p = "unstable_features_enabled" /\ u = 1
        \/ p = "unstable_features_announced" /\ u = 2
  \/ /\ t = "federation_stat_raw" /\ m = 4 /\ d = u
     /\ \/ p = "unstable_features_enabled" /\ u = 3
        \/ p = "unstable_features_announced" /\ u = 4
  \/ t = "email_log" /\ p = "table" /\ m = 7 /\ u = 1 /\ d = 4
  \/ /\ t = "oauth2_client"
     /\ \/ p = "table" /\ m = 9 /\ u = 1 /\ d = 9
        \/ p = "account-internal" /\ m = 17 /\ u = 1 /\ d = 1
  \/ /\ t = "oauth2_user"
     /\ \/ p = "table" /\ m = 9 /\ u = 2 /\ d = 8
        \/ /\ m = 11 /\ u = d
           /\ \/ p = "password_hash" /\ u = 1
              \/ p = "email_verification_token" /\ u = 2
              \/ p = "email_verification_expires_at" /\ u = 3
        \/ p = "receives_alerts" /\ m = 16 /\ u = 1 /\ d = 1
        \/ p = "password_reset_token" /\ m = 20 /\ u = 1 /\ d = 1
        \/ p = "password_reset_expires_at" /\ m = 20 /\ u = 2 /\ d = 2
        \/ p = "timezone" /\ m = 25 /\ u = 2 /\ d = 1
  \/ t = "oauth2_authorization" /\ p = "table" /\ m = 9 /\ u = 3 /\ d = 7
  \/ t = "oauth2_token" /\ p = "table" /\ m = 9 /\ u = 4 /\ d = 6
  \/ /\ t = "oauth2_identity" /\ m = 10
     /\ \/ p = "table" /\ u = 2 /\ d = 4
        \/ p = "idx_oauth2_identity_provider_subject" /\ u = 3 /\ d = 3
  \/ t = "alert_status_history" /\ p = "failure_reason" /\ m = 14 /\ u = 1 /\ d = 1
  \/ t = "user_email" /\ p = "timezone" /\ m = 25 /\ u = 1 /\ d = 2
  \/ t = "email_outbox" /\ p = "table" /\ m = 19 /\ u = 1 /\ d = 2
  \/ /\ t = "alert_notification_email" /\ m = 21
     /\ \/ p = "table" /\ u = 1 /\ d = 3
        \/ p = "idx_alert_notification_email_unique" /\ u = 2 /\ d = 2
  \/ t = "alert_observed_state" /\ p = "table" /\ m = 22 /\ u = 5 /\ d = 1
  \/ /\ t = "alert_notification_webhook" /\ m = 26
     /\ \/ p = "table" /\ u = 1 /\ d = 5
        \/ p = "idx_alert_notification_webhook_unique" /\ u = 2 /\ d = 4
  \/ t = "webhook_outbox" /\ p = "table" /\ m = 26 /\ u = 3 /\ d = 3

\* What migration m calls a table.
Called(m, t) ==
  IF m > 14 THEN t
  ELSE IF t = "oauth2_client" THEN "o_auth2_client"
  ELSE IF t = "oauth2_user" THEN "o_auth2_user"
  ELSE IF t = "oauth2_authorization" THEN "o_auth2_authorization"
  ELSE IF t = "oauth2_token" THEN "o_auth2_token"
  ELSE IF t = "oauth2_identity" THEN "o_auth2_identity" ELSE t

Creates(s, t) == s.op = "create" /\ s.table = t
Adds(s, t, p) == s.op = "add" /\ s.table = t /\ s.part = p
Drops(s, t) == s.op = "drop" /\ s.table = t
Removes(s, t, p) == s.op = "remove" /\ s.table = t /\ s.part = p

UniqueEmail == "unique email"
TokenNotNull == "token not null"
OnPair(p) == p = RowIndex \/ p = PairIndex

\* Statement i of the Up of migration m makes what Made says, and none brings back what
\* fix_oauth_alert_magic_token has done away with.
UpFact(m, i, s) ==
  /\ s.op \in {"create", "add", "backfill"}
  /\ \A t, p, d : Made(t, p, m, i, d) =>
       IF p = "table" THEN Creates(s, Called(m, t)) ELSE Adds(s, Called(m, t), p)
  /\ s.op # "backfill" => s.table # "alert_new"
  /\ m > 5 => /\ ~Creates(s, "alert")
              /\ ~Adds(s, "alert", UniqueEmail) /\ ~Adds(s, "alert", TokenNotNull)
  /\ m > 10 /\ s.op = "create" =>
       s.table \notin {"o_auth2_client", "o_auth2_user", "o_auth2_authorization", "o_auth2_token",
                       "o_auth2_identity"}

\* What statement i of the Down of migration m takes away was made by a later migration, or it
\* is m's and due.
TakesFact(m, i, s) ==
  \A t, p : \A k \in 1..26, u \in 1..9, d \in 1..9 :
    /\ Made(t, p, k, u, d) /\ s.table = Called(m, t)
    /\ \/ s.op = "drop"
       \/ s.op = "remove" /\ (p = s.part \/ (OnPair(p) /\ OnPair(s.part)))
    => m < k \/ (m = k /\ i >= d)

\* A Down that has taken away something of its migration goes on taking away its own.
OwnFact(m, i, s) ==
  \A t, p, u : \A d \in 1..9 : Made(t, p, m, u, d) /\ d < i =>
    \E t2, u2 : /\ s.table = Called(m, t2) /\ s.op \in {"drop", "remove"}
                /\ s.op = "remove" => s.part # "table"
                /\ Made(t2, IF s.op = "drop" THEN "table" ELSE s.part, m, u2, i)

PlainFact(m, s) ==
  /\ s.op \in {"drop", "remove"} \/ (s.op = "restore" /\ m = 21)
  /\ s.op # "restore" => s.table # "alert_new"
  /\ s.op = "drop" => s.table # "oauth2_client" /\ (s.table = "alert" => m = 1)

DownFact(m, i, s) == PlainFact(m, s) /\ TakesFact(m, i, s) /\ OwnFact(m, i, s)

UpFacts(m, L) == \A i \in 1..Len(L) : UpFact(m, i, L[i])
DownFacts(m, L) == \A i \in 1..Len(L) : DownFact(m, i, L[i])

\* The first three migrations make nothing of this.
LEMMA MadeLater ==
  \A t, p, u, d : \A k \in 1..26 : Made(t, p, k, u, d) => k >= 4
BY DEF Made

\* What the statements of AlertTableUp make.
LEMMA AlertTableUpFacts == UpFacts(1, AlertTableUp) /\ Len(AlertTableUp) = 2
<1>1. /\ Len(AlertTableUp) = 2
      /\ Creates(AlertTableUp[1], "alert")
      /\ Adds(AlertTableUp[2], "alert", RowIndex)
  BY DEF AlertTableUp, CreateMissing, Add, Creates, Adds, Drops, Removes
<1>2. UpFact(1, 1, AlertTableUp[1])
  BY <1>1, MadeLater DEF UpFact, Creates, Adds
<1>3. UpFact(1, 2, AlertTableUp[2])
  BY <1>1, MadeLater DEF UpFact, Creates, Adds
<1> QED
  BY <1>1, <1>2, <1>3 DEF UpFacts

\* What the statements of FederationStatsUp make.
LEMMA FederationStatsUpFacts == UpFacts(3, FederationStatsUp) /\ Len(FederationStatsUp) = 4
<1>1. /\ Len(FederationStatsUp) = 4
      /\ Creates(FederationStatsUp[1], "federation_stat_raw")
      /\ Adds(FederationStatsUp[2], "federation_stat_raw", "idx_fed_stat_raw_ts")
      /\ Adds(FederationStatsUp[3], "federation_stat_raw", "idx_fed_stat_raw_server")
      /\ Creates(FederationStatsUp[4], "federation_stat_aggregate")
  BY DEF FederationStatsUp, CreateMissing, Add, Creates, Adds, Drops, Removes
<1>2. UpFact(3, 1, FederationStatsUp[1])
  BY <1>1 DEF UpFact, Made, Called, Creates, Adds, RowIndex, PairIndex, UniqueEmail,
     TokenNotNull
<1>3. UpFact(3, 2, FederationStatsUp[2])
  BY <1>1 DEF UpFact, Made, Called, Creates, Adds, RowIndex, PairIndex, UniqueEmail,
     TokenNotNull
<1>4. UpFact(3, 3, FederationStatsUp[3])
  BY <1>1 DEF UpFact, Made, Called, Creates, Adds, RowIndex, PairIndex, UniqueEmail,
     TokenNotNull
<1>5. UpFact(3, 4, FederationStatsUp[4])
  BY <1>1 DEF UpFact, Made, Called, Creates, Adds, RowIndex, PairIndex, UniqueEmail,
     TokenNotNull
<1> QED
  BY <1>1, <1>2, <1>3, <1>4, <1>5 DEF UpFacts

\* What the statements of UnstableUp make.
LEMMA UnstableUpFacts == UpFacts(4, UnstableUp) /\ Len(UnstableUp) = 4
<1>1. /\ Len(UnstableUp) = 4
      /\ Adds(UnstableUp[1], "federation_stat_aggregate", "unstable_features_enabled")
      /\ Adds(UnstableUp[2], "federation_stat_aggregate", "unstable_features_announced")
      /\ Adds(UnstableUp[3], "federation_stat_raw", "unstable_features_enabled")
      /\ Adds(UnstableUp[4], "federation_stat_raw", "unstable_features_announced")
  BY DEF UnstableUp, AddAll, Unstable, Add, Creates, Adds, Drops, Removes
<1>2. UpFact(4, 1, UnstableUp[1])
  BY <1>1 DEF UpFact, Made, Called, Creates, Adds, RowIndex, PairIndex, UniqueEmail,
     TokenNotNull
<1>3. UpFact(4, 2, UnstableUp[2])
  BY <1>1 DEF UpFact, Made, Called, Creates, Adds, RowIndex, PairIndex, UniqueEmail,
     TokenNotNull
<1>4. UpFact(4, 3, UnstableUp[3])
  BY <1>1 DEF UpFact, Made, Called, Creates, Adds, RowIndex, PairIndex, UniqueEmail,
     TokenNotNull
<1>5. UpFact(4, 4, UnstableUp[4])
  BY <1>1 DEF UpFact, Made, Called, Creates, Adds, RowIndex, PairIndex, UniqueEmail,
     TokenNotNull
<1> QED
  BY <1>1, <1>2, <1>3, <1>4, <1>5 DEF UpFacts

\* What the statements of TrackingUp make.
LEMMA TrackingUpFacts == UpFacts(6, TrackingUp) /\ Len(TrackingUp) = 6
<1>1. /\ Len(TrackingUp) = 6
      /\ Adds(TrackingUp[1], "alert", "last_check_at")
      /\ Adds(TrackingUp[2], "alert", "last_failure_at")
      /\ Adds(TrackingUp[3], "alert", "last_success_at")
      /\ Adds(TrackingUp[4], "alert", "last_email_sent_at")
      /\ Adds(TrackingUp[5], "alert", "failure_count")
      /\ Adds(TrackingUp[6], "alert", "is_currently_failing")
  BY DEF TrackingUp, AddAll, Tracking, Add, Creates, Adds, Drops, Removes
<1>2. UpFact(6, 1, TrackingUp[1])
  BY <1>1 DEF UpFact, Made, Called, Creates, Adds, RowIndex, PairIndex, UniqueEmail,
     TokenNotNull
<1>3. UpFact(6, 2, TrackingUp[2])
  BY <1>1 DEF UpFact, Made, Called, Creates, Adds, RowIndex, PairIndex, UniqueEmail,
     TokenNotNull
<1>4. UpFact(6, 3, TrackingUp[3])
  BY <1>1 DEF UpFact, Made, Called, Creates, Adds, RowIndex, PairIndex, UniqueEmail,
     TokenNotNull
<1>5. UpFact(6, 4, TrackingUp[4])
  BY <1>1 DEF UpFact, Made, Called, Creates, Adds, RowIndex, PairIndex, UniqueEmail,
     TokenNotNull
<1>6. UpFact(6, 5, TrackingUp[5])
  BY <1>1 DEF UpFact, Made, Called, Creates, Adds, RowIndex, PairIndex, UniqueEmail,
     TokenNotNull
<1>7. UpFact(6, 6, TrackingUp[6])
  BY <1>1 DEF UpFact, Made, Called, Creates, Adds, RowIndex, PairIndex, UniqueEmail,
     TokenNotNull
<1> QED
  BY <1>1, <1>2, <1>3, <1>4, <1>5, <1>6, <1>7 DEF UpFacts

\* What the statements of EmailLogUp make.
LEMMA EmailLogUpFacts == UpFacts(7, EmailLogUp) /\ Len(EmailLogUp) = 4
<1>1. /\ Len(EmailLogUp) = 4
      /\ Creates(EmailLogUp[1], "email_log")
      /\ Adds(EmailLogUp[2], "email_log", "idx_email_log_sent_at")
      /\ Adds(EmailLogUp[3], "email_log", "idx_email_log_alert_id")
      /\ Adds(EmailLogUp[4], "email_log", "idx_email_log_server_name")
  BY DEF EmailLogUp, AddAll, CreateMissing, Add, Creates, Adds, Drops, Removes
<1>2. UpFact(7, 1, EmailLogUp[1])
  BY <1>1 DEF UpFact, Made, Called, Creates, Adds, RowIndex, PairIndex, UniqueEmail,
     TokenNotNull
<1>3. UpFact(7, 2, EmailLogUp[2])
  BY <1>1 DEF UpFact, Made, Called, Creates, Adds, RowIndex, PairIndex, UniqueEmail,
     TokenNotNull
<1>4. UpFact(7, 3, EmailLogUp[3])
  BY <1>1 DEF UpFact, Made, Called, Creates, Adds, RowIndex, PairIndex, UniqueEmail,
     TokenNotNull
<1>5. UpFact(7, 4, EmailLogUp[4])
  BY <1>1 DEF UpFact, Made, Called, Creates, Adds, RowIndex, PairIndex, UniqueEmail,
     TokenNotNull
<1> QED
  BY <1>1, <1>2, <1>3, <1>4, <1>5 DEF UpFacts

\* What the statements of OptimizeStatsUp make.
LEMMA OptimizeStatsUpFacts == UpFacts(8, OptimizeStatsUp) /\ Len(OptimizeStatsUp) = 2
<1>1. /\ Len(OptimizeStatsUp) = 2
      /\ Adds(OptimizeStatsUp[1], "federation_stat_raw", "idx_federation_stat_raw_ts")
      /\ Adds(OptimizeStatsUp[2], "federation_stat_raw", "idx_federation_stat_raw_server_name")
  BY DEF OptimizeStatsUp, AddMissing, Creates, Adds, Drops, Removes
<1>2. UpFact(8, 1, OptimizeStatsUp[1])
  BY <1>1 DEF UpFact, Made, Called, Creates, Adds, RowIndex, PairIndex, UniqueEmail,
     TokenNotNull
<1>3. UpFact(8, 2, OptimizeStatsUp[2])
  BY <1>1 DEF UpFact, Made, Called, Creates, Adds, RowIndex, PairIndex, UniqueEmail,
     TokenNotNull
<1> QED
  BY <1>1, <1>2, <1>3 DEF UpFacts

\* What the statements of OAuthTablesUp make.
LEMMA OAuthTablesUpFacts == UpFacts(9, OAuthTablesUp) /\ Len(OAuthTablesUp) = 9
<1>1. /\ Len(OAuthTablesUp) = 9
      /\ Creates(OAuthTablesUp[1], "o_auth2_client")
      /\ Creates(OAuthTablesUp[2], "o_auth2_user")
      /\ Creates(OAuthTablesUp[3], "o_auth2_authorization")
      /\ Creates(OAuthTablesUp[4], "o_auth2_token")
      /\ Adds(OAuthTablesUp[5], "o_auth2_authorization", "idx_oauth2_authorization_client_id")
      /\ Adds(OAuthTablesUp[6], "o_auth2_authorization", "idx_oauth2_authorization_expires_at")
      /\ Adds(OAuthTablesUp[7], "o_auth2_token", "idx_oauth2_token_client_id")
      /\ Adds(OAuthTablesUp[8], "o_auth2_token", "idx_oauth2_token_user_id")
      /\ Adds(OAuthTablesUp[9], "o_auth2_token", "idx_oauth2_token_expires_at")
  BY DEF OAuthTablesUp, CreateMissing, AddMissing, Creates, Adds, Drops, Removes
<1>2. UpFact(9, 1, OAuthTablesUp[1])
  BY <1>1 DEF UpFact, Made, Called, Creates, Adds, RowIndex, PairIndex, UniqueEmail,
     TokenNotNull
<1>3. UpFact(9, 2, OAuthTablesUp[2])
  BY <1>1 DEF UpFact, Made, Called, Creates, Adds, RowIndex, PairIndex, UniqueEmail,
     TokenNotNull
<1>4. UpFact(9, 3, OAuthTablesUp[3])
  BY <1>1 DEF UpFact, Made, Called, Creates, Adds, RowIndex, PairIndex, UniqueEmail,
     TokenNotNull
<1>5. UpFact(9, 4, OAuthTablesUp[4])
  BY <1>1 DEF UpFact, Made, Called, Creates, Adds, RowIndex, PairIndex, UniqueEmail,
     TokenNotNull
<1>6. UpFact(9, 5, OAuthTablesUp[5])
  BY <1>1 DEF UpFact, Made, Called, Creates, Adds, RowIndex, PairIndex, UniqueEmail,
     TokenNotNull
<1>7. UpFact(9, 6, OAuthTablesUp[6])
  BY <1>1 DEF UpFact, Made, Called, Creates, Adds, RowIndex, PairIndex, UniqueEmail,
     TokenNotNull
<1>8. UpFact(9, 7, OAuthTablesUp[7])
  BY <1>1 DEF UpFact, Made, Called, Creates, Adds, RowIndex, PairIndex, UniqueEmail,
     TokenNotNull
<1>9. UpFact(9, 8, OAuthTablesUp[8])
  BY <1>1 DEF UpFact, Made, Called, Creates, Adds, RowIndex, PairIndex, UniqueEmail,
     TokenNotNull
<1>10. UpFact(9, 9, OAuthTablesUp[9])
  BY <1>1 DEF UpFact, Made, Called, Creates, Adds, RowIndex, PairIndex, UniqueEmail,
     TokenNotNull
<1> QED
  BY <1>1, <1>2, <1>3, <1>4, <1>5, <1>6, <1>7, <1>8, <1>9, <1>10 DEF UpFacts

\* What the statements of LinkAlertsUp make.
LEMMA LinkAlertsUpFacts == UpFacts(10, LinkAlertsUp) /\ Len(LinkAlertsUp) = 5
<1>1. /\ Len(LinkAlertsUp) = 5
      /\ Adds(LinkAlertsUp[1], "alert", "user_id")
      /\ Creates(LinkAlertsUp[2], "o_auth2_identity")
      /\ Adds(LinkAlertsUp[3], "o_auth2_identity", "idx_oauth2_identity_provider_subject")
      /\ Adds(LinkAlertsUp[4], "o_auth2_identity", "idx_oauth2_identity_user_id")
      /\ Adds(LinkAlertsUp[5], "alert", "idx_alert_user_id")
  BY DEF LinkAlertsUp, CreateMissing, Add, AddMissing, Creates, Adds, Drops, Removes
<1>2. UpFact(10, 1, LinkAlertsUp[1])
  BY <1>1 DEF UpFact, Made, Called, Creates, Adds, RowIndex, PairIndex, UniqueEmail,
     TokenNotNull
<1>3. UpFact(10, 2, LinkAlertsUp[2])
  BY <1>1 DEF UpFact, Made, Called, Creates, Adds, RowIndex, PairIndex, UniqueEmail,
     TokenNotNull
<1>4. UpFact(10, 3, LinkAlertsUp[3])
  BY <1>1 DEF UpFact, Made, Called, Creates, Adds, RowIndex, PairIndex, UniqueEmail,
     TokenNotNull
<1>5. UpFact(10, 4, LinkAlertsUp[4])
  BY <1>1 DEF UpFact, Made, Called, Creates, Adds, RowIndex, PairIndex, UniqueEmail,
     TokenNotNull
<1>6. UpFact(10, 5, LinkAlertsUp[5])
  BY <1>1 DEF UpFact, Made, Called, Creates, Adds, RowIndex, PairIndex, UniqueEmail,
     TokenNotNull
<1> QED
  BY <1>1, <1>2, <1>3, <1>4, <1>5, <1>6 DEF UpFacts

\* What the statements of PasswordUp make.
LEMMA PasswordUpFacts == UpFacts(11, PasswordUp) /\ Len(PasswordUp) = 3
<1>1. /\ Len(PasswordUp) = 3
      /\ Adds(PasswordUp[1], "o_auth2_user", "password_hash")
      /\ Adds(PasswordUp[2], "o_auth2_user", "email_verification_token")
      /\ Adds(PasswordUp[3], "o_auth2_user", "email_verification_expires_at")
  BY DEF PasswordUp, AddAll, Password, Add, Creates, Adds, Drops, Removes
<1>2. UpFact(11, 1, PasswordUp[1])
  BY <1>1 DEF UpFact, Made, Called, Creates, Adds, RowIndex, PairIndex, UniqueEmail,
     TokenNotNull
<1>3. UpFact(11, 2, PasswordUp[2])
  BY <1>1 DEF UpFact, Made, Called, Creates, Adds, RowIndex, PairIndex, UniqueEmail,
     TokenNotNull
<1>4. UpFact(11, 3, PasswordUp[3])
  BY <1>1 DEF UpFact, Made, Called, Creates, Adds, RowIndex, PairIndex, UniqueEmail,
     TokenNotNull
<1> QED
  BY <1>1, <1>2, <1>3, <1>4 DEF UpFacts

\* What the statements of StatusHistoryUp make.
LEMMA StatusHistoryUpFacts == UpFacts(12, StatusHistoryUp) /\ Len(StatusHistoryUp) = 3
<1>1. /\ Len(StatusHistoryUp) = 3
      /\ Creates(StatusHistoryUp[1], "alert_status_history")
      /\ Adds(StatusHistoryUp[2], "alert_status_history", "idx_alert_status_history_alert_id")
      /\ Adds(StatusHistoryUp[3], "alert_status_history", "idx_alert_status_history_created_at")
  BY DEF StatusHistoryUp, AddAll, CreateMissing, Add, Creates, Adds, Drops, Removes
<1>2. UpFact(12, 1, StatusHistoryUp[1])
  BY <1>1 DEF UpFact, Made, Called, Creates, Adds, RowIndex, PairIndex, UniqueEmail,
     TokenNotNull
<1>3. UpFact(12, 2, StatusHistoryUp[2])
  BY <1>1 DEF UpFact, Made, Called, Creates, Adds, RowIndex, PairIndex, UniqueEmail,
     TokenNotNull
<1>4. UpFact(12, 3, StatusHistoryUp[3])
  BY <1>1 DEF UpFact, Made, Called, Creates, Adds, RowIndex, PairIndex, UniqueEmail,
     TokenNotNull
<1> QED
  BY <1>1, <1>2, <1>3, <1>4 DEF UpFacts

\* What the statements of LastRecoveryUp make.
LEMMA LastRecoveryUpFacts == UpFacts(13, LastRecoveryUp) /\ Len(LastRecoveryUp) = 1
<1>1. /\ Len(LastRecoveryUp) = 1
      /\ Adds(LastRecoveryUp[1], "alert", "last_recovery_at")
  BY DEF LastRecoveryUp, Add, Creates, Adds, Drops, Removes
<1>2. UpFact(13, 1, LastRecoveryUp[1])
  BY <1>1 DEF UpFact, Made, Called, Creates, Adds, RowIndex, PairIndex, UniqueEmail,
     TokenNotNull
<1> QED
  BY <1>1, <1>2 DEF UpFacts

\* What the statements of FailureReasonUp make.
LEMMA FailureReasonUpFacts == UpFacts(14, FailureReasonUp) /\ Len(FailureReasonUp) = 1
<1>1. /\ Len(FailureReasonUp) = 1
      /\ Adds(FailureReasonUp[1], "alert_status_history", "failure_reason")
  BY DEF FailureReasonUp, Add, Creates, Adds, Drops, Removes
<1>2. UpFact(14, 1, FailureReasonUp[1])
  BY <1>1 DEF UpFact, Made, Called, Creates, Adds, RowIndex, PairIndex, UniqueEmail,
     TokenNotNull
<1> QED
  BY <1>1, <1>2 DEF UpFacts

\* What the statements of AccountFeaturesUp make.
LEMMA AccountFeaturesUpFacts == UpFacts(16, AccountFeaturesUp) /\ Len(AccountFeaturesUp) = 2
<1>1. /\ Len(AccountFeaturesUp) = 2
      /\ Adds(AccountFeaturesUp[1], "oauth2_user", "receives_alerts")
      /\ Creates(AccountFeaturesUp[2], "user_email")
  BY DEF AccountFeaturesUp, Add, CreateMissing, Creates, Adds, Drops, Removes
<1>2. UpFact(16, 1, AccountFeaturesUp[1])
  BY <1>1 DEF UpFact, Made, Called, Creates, Adds, RowIndex, PairIndex, UniqueEmail,
     TokenNotNull
<1>3. UpFact(16, 2, AccountFeaturesUp[2])
  BY <1>1 DEF UpFact, Made, Called, Creates, Adds, RowIndex, PairIndex, UniqueEmail,
     TokenNotNull
<1> QED
  BY <1>1, <1>2, <1>3 DEF UpFacts

\* What the statements of AccountClientUp make.
LEMMA AccountClientUpFacts == UpFacts(17, AccountClientUp) /\ Len(AccountClientUp) = 1
<1>1. /\ Len(AccountClientUp) = 1
      /\ Adds(AccountClientUp[1], "oauth2_client", "account-internal")
  BY DEF AccountClientUp, AddMissing, Creates, Adds, Drops, Removes
<1>2. UpFact(17, 1, AccountClientUp[1])
  BY <1>1 DEF UpFact, Made, Called, Creates, Adds, RowIndex, PairIndex, UniqueEmail,
     TokenNotNull
<1> QED
  BY <1>1, <1>2 DEF UpFacts

\* What the statements of EmailOutboxUp make.
LEMMA EmailOutboxUpFacts == UpFacts(19, EmailOutboxUp) /\ Len(EmailOutboxUp) = 2
<1>1. /\ Len(EmailOutboxUp) = 2
      /\ Creates(EmailOutboxUp[1], "email_outbox")
      /\ Adds(EmailOutboxUp[2], "email_outbox", "idx_email_outbox_status_next_attempt")
  BY DEF EmailOutboxUp, Add, CreateMissing, Creates, Adds, Drops, Removes
<1>2. UpFact(19, 1, EmailOutboxUp[1])
  BY <1>1 DEF UpFact, Made, Called, Creates, Adds, RowIndex, PairIndex, UniqueEmail,
     TokenNotNull
<1>3. UpFact(19, 2, EmailOutboxUp[2])
  BY <1>1 DEF UpFact, Made, Called, Creates, Adds, RowIndex, PairIndex, UniqueEmail,
     TokenNotNull
<1> QED
  BY <1>1, <1>2, <1>3 DEF UpFacts

\* What the statements of PasswordResetUp make.
LEMMA PasswordResetUpFacts == UpFacts(20, PasswordResetUp) /\ Len(PasswordResetUp) = 2
<1>1. /\ Len(PasswordResetUp) = 2
      /\ Adds(PasswordResetUp[1], "oauth2_user", "password_reset_token")
      /\ Adds(PasswordResetUp[2], "oauth2_user", "password_reset_expires_at")
  BY DEF PasswordResetUp, Reset, AddMissing, Creates, Adds, Drops, Removes
<1>2. UpFact(20, 1, PasswordResetUp[1])
  BY <1>1 DEF UpFact, Made, Called, Creates, Adds, RowIndex, PairIndex, UniqueEmail,
     TokenNotNull
<1>3. UpFact(20, 2, PasswordResetUp[2])
  BY <1>1 DEF UpFact, Made, Called, Creates, Adds, RowIndex, PairIndex, UniqueEmail,
     TokenNotNull
<1> QED
  BY <1>1, <1>2, <1>3 DEF UpFacts

\* What the statements of NotificationEmailsUp make.
LEMMA NotificationEmailsUpFacts ==
  UpFacts(21, NotificationEmailsUp) /\ Len(NotificationEmailsUp) = 3
<1>1. /\ Len(NotificationEmailsUp) = 3
      /\ Creates(NotificationEmailsUp[1], "alert_notification_email")
      /\ Adds(NotificationEmailsUp[2], "alert_notification_email", "idx_alert_notification_email_unique")
      /\ NotificationEmailsUp[3].op = "backfill"
  BY DEF NotificationEmailsUp, CreateMissing, Add, Backfill, Creates, Adds, Drops, Removes
<1>2. UpFact(21, 1, NotificationEmailsUp[1])
  BY <1>1 DEF UpFact, Made, Called, Creates, Adds, RowIndex, PairIndex, UniqueEmail,
     TokenNotNull
<1>3. UpFact(21, 2, NotificationEmailsUp[2])
  BY <1>1 DEF UpFact, Made, Called, Creates, Adds, RowIndex, PairIndex, UniqueEmail,
     TokenNotNull
<1>4. UpFact(21, 3, NotificationEmailsUp[3])
  BY <1>1 DEF UpFact, Made, Called, Creates, Adds, RowIndex, PairIndex, UniqueEmail,
     TokenNotNull
<1> QED
  BY <1>1, <1>2, <1>3, <1>4 DEF UpFacts

\* What the statements of ChangeAlertsUp make.
LEMMA ChangeAlertsUpFacts == UpFacts(22, ChangeAlertsUp) /\ Len(ChangeAlertsUp) = 5
<1>1. /\ Len(ChangeAlertsUp) = 5
      /\ Adds(ChangeAlertsUp[1], "alert", "notify_server_name_change")
      /\ Adds(ChangeAlertsUp[2], "alert", "notify_version_change")
      /\ Adds(ChangeAlertsUp[3], "alert", "notify_tls_cert_change")
      /\ Adds(ChangeAlertsUp[4], "alert", "notify_tls_expiry")
      /\ Creates(ChangeAlertsUp[5], "alert_observed_state")
  BY DEF ChangeAlertsUp, AddAll, Flags, Add, CreateMissing, Creates, Adds, Drops, Removes
<1>2. UpFact(22, 1, ChangeAlertsUp[1])
  BY <1>1 DEF UpFact, Made, Called, Creates, Adds, RowIndex, PairIndex, UniqueEmail,
     TokenNotNull
<1>3. UpFact(22, 2, ChangeAlertsUp[2])
  BY <1>1 DEF UpFact, Made, Called, Creates, Adds, RowIndex, PairIndex, UniqueEmail,
     TokenNotNull
<1>4. UpFact(22, 3, ChangeAlertsUp[3])
  BY <1>1 DEF UpFact, Made, Called, Creates, Adds, RowIndex, PairIndex, UniqueEmail,
     TokenNotNull
<1>5. UpFact(22, 4, ChangeAlertsUp[4])
  BY <1>1 DEF UpFact, Made, Called, Creates, Adds, RowIndex, PairIndex, UniqueEmail,
     TokenNotNull
<1>6. UpFact(22, 5, ChangeAlertsUp[5])
  BY <1>1 DEF UpFact, Made, Called, Creates, Adds, RowIndex, PairIndex, UniqueEmail,
     TokenNotNull
<1> QED
  BY <1>1, <1>2, <1>3, <1>4, <1>5, <1>6 DEF UpFacts

\* What the statements of MissingIndexesUp make.
LEMMA MissingIndexesUpFacts == UpFacts(23, MissingIndexesUp) /\ Len(MissingIndexesUp) = 4
<1>1. /\ Len(MissingIndexesUp) = 4
      /\ Adds(MissingIndexesUp[1], "alert", "idx_alert_verified_failing")
      /\ Adds(MissingIndexesUp[2], "alert", "idx_alert_verified_created_at")
      /\ Adds(MissingIndexesUp[3], "federation_stat_aggregate", "idx_federation_stat_aggregate_last_seen_at")
      /\ Adds(MissingIndexesUp[4], "oauth2_authorization", "idx_oauth2_authorization_user_id")
  BY DEF MissingIndexesUp, Indexes, AddMissing, Creates, Adds, Drops, Removes
<1>2. UpFact(23, 1, MissingIndexesUp[1])
  BY <1>1 DEF UpFact, Made, Called, Creates, Adds, RowIndex, PairIndex, UniqueEmail,
     TokenNotNull
<1>3. UpFact(23, 2, MissingIndexesUp[2])
  BY <1>1 DEF UpFact, Made, Called, Creates, Adds, RowIndex, PairIndex, UniqueEmail,
     TokenNotNull
<1>4. UpFact(23, 3, MissingIndexesUp[3])
  BY <1>1 DEF UpFact, Made, Called, Creates, Adds, RowIndex, PairIndex, UniqueEmail,
     TokenNotNull
<1>5. UpFact(23, 4, MissingIndexesUp[4])
  BY <1>1 DEF UpFact, Made, Called, Creates, Adds, RowIndex, PairIndex, UniqueEmail,
     TokenNotNull
<1> QED
  BY <1>1, <1>2, <1>3, <1>4, <1>5 DEF UpFacts

\* What the statements of QuietHoursUp make.
LEMMA QuietHoursUpFacts == UpFacts(24, QuietHoursUp) /\ Len(QuietHoursUp) = 3
<1>1. /\ Len(QuietHoursUp) = 3
      /\ Adds(QuietHoursUp[1], "alert", "quiet_hours_enabled")
      /\ Adds(QuietHoursUp[2], "alert", "quiet_hours_from")
      /\ Adds(QuietHoursUp[3], "alert", "quiet_hours_to")
  BY DEF QuietHoursUp, AddAll, Quiet, Add, Creates, Adds, Drops, Removes
<1>2. UpFact(24, 1, QuietHoursUp[1])
  BY <1>1 DEF UpFact, Made, Called, Creates, Adds, RowIndex, PairIndex, UniqueEmail,
     TokenNotNull
<1>3. UpFact(24, 2, QuietHoursUp[2])
  BY <1>1 DEF UpFact, Made, Called, Creates, Adds, RowIndex, PairIndex, UniqueEmail,
     TokenNotNull
<1>4. UpFact(24, 3, QuietHoursUp[3])
  BY <1>1 DEF UpFact, Made, Called, Creates, Adds, RowIndex, PairIndex, UniqueEmail,
     TokenNotNull
<1> QED
  BY <1>1, <1>2, <1>3, <1>4 DEF UpFacts

\* What the statements of TimezoneUp make.
LEMMA TimezoneUpFacts == UpFacts(25, TimezoneUp) /\ Len(TimezoneUp) = 2
<1>1. /\ Len(TimezoneUp) = 2
      /\ Adds(TimezoneUp[1], "user_email", "timezone")
      /\ Adds(TimezoneUp[2], "oauth2_user", "timezone")
  BY DEF TimezoneUp, Add, Creates, Adds, Drops, Removes
<1>2. UpFact(25, 1, TimezoneUp[1])
  BY <1>1 DEF UpFact, Made, Called, Creates, Adds, RowIndex, PairIndex, UniqueEmail,
     TokenNotNull
<1>3. UpFact(25, 2, TimezoneUp[2])
  BY <1>1 DEF UpFact, Made, Called, Creates, Adds, RowIndex, PairIndex, UniqueEmail,
     TokenNotNull
<1> QED
  BY <1>1, <1>2, <1>3 DEF UpFacts

\* What the statements of WebhooksUp make.
LEMMA WebhooksUpFacts == UpFacts(26, WebhooksUp) /\ Len(WebhooksUp) = 5
<1>1. /\ Len(WebhooksUp) = 5
      /\ Creates(WebhooksUp[1], "alert_notification_webhook")
      /\ Adds(WebhooksUp[2], "alert_notification_webhook", "idx_alert_notification_webhook_unique")
      /\ Creates(WebhooksUp[3], "webhook_outbox")
      /\ Adds(WebhooksUp[4], "webhook_outbox", "idx_webhook_outbox_pending")
      /\ Adds(WebhooksUp[5], "webhook_outbox", "idx_webhook_outbox_webhook_id")
  BY DEF WebhooksUp, CreateMissing, Add, Creates, Adds, Drops, Removes
<1>2. UpFact(26, 1, WebhooksUp[1])
  BY <1>1 DEF UpFact, Made, Called, Creates, Adds, RowIndex, PairIndex, UniqueEmail,
     TokenNotNull
<1>3. UpFact(26, 2, WebhooksUp[2])
  BY <1>1 DEF UpFact, Made, Called, Creates, Adds, RowIndex, PairIndex, UniqueEmail,
     TokenNotNull
<1>4. UpFact(26, 3, WebhooksUp[3])
  BY <1>1 DEF UpFact, Made, Called, Creates, Adds, RowIndex, PairIndex, UniqueEmail,
     TokenNotNull
<1>5. UpFact(26, 4, WebhooksUp[4])
  BY <1>1 DEF UpFact, Made, Called, Creates, Adds, RowIndex, PairIndex, UniqueEmail,
     TokenNotNull
<1>6. UpFact(26, 5, WebhooksUp[5])
  BY <1>1 DEF UpFact, Made, Called, Creates, Adds, RowIndex, PairIndex, UniqueEmail,
     TokenNotNull
<1> QED
  BY <1>1, <1>2, <1>3, <1>4, <1>5, <1>6 DEF UpFacts

\* What the statements of AlertTableDown take away.
LEMMA AlertTableDownFacts == DownFacts(1, AlertTableDown)
<1>1. /\ Len(AlertTableDown) = 2
      /\ Removes(AlertTableDown[1], "alert", RowIndex)
      /\ Drops(AlertTableDown[2], "alert")
  BY DEF AlertTableDown, Remove, Drop, Creates, Adds, Drops, Removes
<1>2. DownFact(1, 1, AlertTableDown[1])
  BY <1>1, MadeLater DEF DownFact, PlainFact, TakesFact, OwnFact, Drops, Removes
<1>3. DownFact(1, 2, AlertTableDown[2])
  BY <1>1, MadeLater DEF DownFact, PlainFact, TakesFact, OwnFact, Drops, Removes
<1> QED
  BY <1>1, <1>2, <1>3 DEF DownFacts

\* What the statements of FederationStatsDown take away.
LEMMA FederationStatsDownFacts == DownFacts(3, FederationStatsDown)
<1>1. /\ Len(FederationStatsDown) = 4
      /\ Drops(FederationStatsDown[1], "federation_stat_aggregate")
      /\ Removes(FederationStatsDown[2], "federation_stat_raw", "idx_fed_stat_raw_server")
      /\ Removes(FederationStatsDown[3], "federation_stat_raw", "idx_fed_stat_raw_ts")
      /\ Drops(FederationStatsDown[4], "federation_stat_raw")
  BY DEF FederationStatsDown, Remove, Drop, Creates, Adds, Drops, Removes
<1>2. DownFact(3, 1, FederationStatsDown[1])
  BY <1>1 DEF DownFact, PlainFact, TakesFact, OwnFact, Made, Called, Drops, Removes, OnPair,
     RowIndex, PairIndex
<1>3. DownFact(3, 2, FederationStatsDown[2])
  BY <1>1 DEF DownFact, PlainFact, TakesFact, OwnFact, Made, Called, Drops, Removes, OnPair,
     RowIndex, PairIndex
<1>4. DownFact(3, 3, FederationStatsDown[3])
  BY <1>1 DEF DownFact, PlainFact, TakesFact, OwnFact, Made, Called, Drops, Removes, OnPair,
     RowIndex, PairIndex
<1>5. DownFact(3, 4, FederationStatsDown[4])
  BY <1>1 DEF DownFact, PlainFact, TakesFact, OwnFact, Made, Called, Drops, Removes, OnPair,
     RowIndex, PairIndex
<1> QED
  BY <1>1, <1>2, <1>3, <1>4, <1>5 DEF DownFacts

\* What the statements of UnstableDown take away.
LEMMA UnstableDownFacts == DownFacts(4, UnstableDown)
<1>1. /\ Len(UnstableDown) = 4
      /\ Removes(UnstableDown[1], "federation_stat_aggregate", "unstable_features_enabled")
      /\ Removes(UnstableDown[2], "federation_stat_aggregate", "unstable_features_announced")
      /\ Removes(UnstableDown[3], "federation_stat_raw", "unstable_features_enabled")
      /\ Removes(UnstableDown[4], "federation_stat_raw", "unstable_features_announced")
  BY DEF UnstableDown, RemoveAll, Unstable, Remove, Creates, Adds, Drops, Removes
<1>2. DownFact(4, 1, UnstableDown[1])
  BY <1>1 DEF DownFact, PlainFact, TakesFact, OwnFact, Made, Called, Drops, Removes, OnPair,
     RowIndex, PairIndex
<1>3. DownFact(4, 2, UnstableDown[2])
  BY <1>1 DEF DownFact, PlainFact, TakesFact, OwnFact, Made, Called, Drops, Removes, OnPair,
     RowIndex, PairIndex
<1>4. DownFact(4, 3, UnstableDown[3])
  BY <1>1 DEF DownFact, PlainFact, TakesFact, OwnFact, Made, Called, Drops, Removes, OnPair,
     RowIndex, PairIndex
<1>5. DownFact(4, 4, UnstableDown[4])
  BY <1>1 DEF DownFact, PlainFact, TakesFact, OwnFact, Made, Called, Drops, Removes, OnPair,
     RowIndex, PairIndex
<1> QED
  BY <1>1, <1>2, <1>3, <1>4, <1>5 DEF DownFacts

\* What the statements of TrackingDown take away.
LEMMA TrackingDownFacts == DownFacts(6, TrackingDown)
<1>1. /\ Len(TrackingDown) = 6
      /\ Removes(TrackingDown[1], "alert", "last_check_at")
      /\ Removes(TrackingDown[2], "alert", "last_failure_at")
      /\ Removes(TrackingDown[3], "alert", "last_success_at")
      /\ Removes(TrackingDown[4], "alert", "last_email_sent_at")
      /\ Removes(TrackingDown[5], "alert", "failure_count")
      /\ Removes(TrackingDown[6], "alert", "is_currently_failing")
  BY DEF TrackingDown, RemoveAll, Tracking, Remove, Creates, Adds, Drops, Removes
<1>2. DownFact(6, 1, TrackingDown[1])
  BY <1>1 DEF DownFact, PlainFact, TakesFact, OwnFact, Made, Called, Drops, Removes, OnPair,
     RowIndex, PairIndex
<1>3. DownFact(6, 2, TrackingDown[2])
  BY <1>1 DEF DownFact, PlainFact, TakesFact, OwnFact, Made, Called, Drops, Removes, OnPair,
     RowIndex, PairIndex
<1>4. DownFact(6, 3, TrackingDown[3])
  BY <1>1 DEF DownFact, PlainFact, TakesFact, OwnFact, Made, Called, Drops, Removes, OnPair,
     RowIndex, PairIndex
<1>5. DownFact(6, 4, TrackingDown[4])
  BY <1>1 DEF DownFact, PlainFact, TakesFact, OwnFact, Made, Called, Drops, Removes, OnPair,
     RowIndex, PairIndex
<1>6. DownFact(6, 5, TrackingDown[5])
  BY <1>1 DEF DownFact, PlainFact, TakesFact, OwnFact, Made, Called, Drops, Removes, OnPair,
     RowIndex, PairIndex
<1>7. DownFact(6, 6, TrackingDown[6])
  BY <1>1 DEF DownFact, PlainFact, TakesFact, OwnFact, Made, Called, Drops, Removes, OnPair,
     RowIndex, PairIndex
<1> QED
  BY <1>1, <1>2, <1>3, <1>4, <1>5, <1>6, <1>7 DEF DownFacts

\* What the statements of EmailLogDown take away.
LEMMA EmailLogDownFacts == DownFacts(7, EmailLogDown)
<1>1. /\ Len(EmailLogDown) = 4
      /\ Removes(EmailLogDown[1], "email_log", "idx_email_log_server_name")
      /\ Removes(EmailLogDown[2], "email_log", "idx_email_log_alert_id")
      /\ Removes(EmailLogDown[3], "email_log", "idx_email_log_sent_at")
      /\ Drops(EmailLogDown[4], "email_log")
  BY DEF EmailLogDown, RemoveAll, Remove, Drop, Creates, Adds, Drops, Removes
<1>2. DownFact(7, 1, EmailLogDown[1])
  BY <1>1 DEF DownFact, PlainFact, TakesFact, OwnFact, Made, Called, Drops, Removes, OnPair,
     RowIndex, PairIndex
<1>3. DownFact(7, 2, EmailLogDown[2])
  BY <1>1 DEF DownFact, PlainFact, TakesFact, OwnFact, Made, Called, Drops, Removes, OnPair,
     RowIndex, PairIndex
<1>4. DownFact(7, 3, EmailLogDown[3])
  BY <1>1 DEF DownFact, PlainFact, TakesFact, OwnFact, Made, Called, Drops, Removes, OnPair,
     RowIndex, PairIndex
<1>5. DownFact(7, 4, EmailLogDown[4])
  BY <1>1 DEF DownFact, PlainFact, TakesFact, OwnFact, Made, Called, Drops, Removes, OnPair,
     RowIndex, PairIndex
<1> QED
  BY <1>1, <1>2, <1>3, <1>4, <1>5 DEF DownFacts

\* What the statements of OptimizeStatsDown take away.
LEMMA OptimizeStatsDownFacts == DownFacts(8, OptimizeStatsDown)
<1>1. /\ Len(OptimizeStatsDown) = 2
      /\ Removes(OptimizeStatsDown[1], "federation_stat_raw", "idx_federation_stat_raw_ts")
      /\ Removes(OptimizeStatsDown[2], "federation_stat_raw", "idx_federation_stat_raw_server_name")
  BY DEF OptimizeStatsDown, RemoveAll, Remove, Creates, Adds, Drops, Removes
<1>2. DownFact(8, 1, OptimizeStatsDown[1])
  BY <1>1 DEF DownFact, PlainFact, TakesFact, OwnFact, Made, Called, Drops, Removes, OnPair,
     RowIndex, PairIndex
<1>3. DownFact(8, 2, OptimizeStatsDown[2])
  BY <1>1 DEF DownFact, PlainFact, TakesFact, OwnFact, Made, Called, Drops, Removes, OnPair,
     RowIndex, PairIndex
<1> QED
  BY <1>1, <1>2, <1>3 DEF DownFacts

\* What the statements of OAuthTablesDown take away.
LEMMA OAuthTablesDownFacts == DownFacts(9, OAuthTablesDown)
<1>1. /\ Len(OAuthTablesDown) = 9
      /\ Removes(OAuthTablesDown[1], "o_auth2_token", "idx_oauth2_token_expires_at")
      /\ Removes(OAuthTablesDown[2], "o_auth2_token", "idx_oauth2_token_user_id")
      /\ Removes(OAuthTablesDown[3], "o_auth2_token", "idx_oauth2_token_client_id")
      /\ Removes(OAuthTablesDown[4], "o_auth2_authorization", "idx_oauth2_authorization_expires_at")
      /\ Removes(OAuthTablesDown[5], "o_auth2_authorization", "idx_oauth2_authorization_client_id")
      /\ Drops(OAuthTablesDown[6], "o_auth2_token")
      /\ Drops(OAuthTablesDown[7], "o_auth2_authorization")
      /\ Drops(OAuthTablesDown[8], "o_auth2_user")
      /\ Drops(OAuthTablesDown[9], "o_auth2_client")
  BY DEF OAuthTablesDown, RemoveAll, Remove, Drop, Creates, Adds, Drops, Removes
<1>2. DownFact(9, 1, OAuthTablesDown[1])
  BY <1>1 DEF DownFact, PlainFact, TakesFact, OwnFact, Made, Called, Drops, Removes, OnPair,
     RowIndex, PairIndex
<1>3. DownFact(9, 2, OAuthTablesDown[2])
  BY <1>1 DEF DownFact, PlainFact, TakesFact, OwnFact, Made, Called, Drops, Removes, OnPair,
     RowIndex, PairIndex
<1>4. DownFact(9, 3, OAuthTablesDown[3])
  BY <1>1 DEF DownFact, PlainFact, TakesFact, OwnFact, Made, Called, Drops, Removes, OnPair,
     RowIndex, PairIndex
<1>5. DownFact(9, 4, OAuthTablesDown[4])
  BY <1>1 DEF DownFact, PlainFact, TakesFact, OwnFact, Made, Called, Drops, Removes, OnPair,
     RowIndex, PairIndex
<1>6. DownFact(9, 5, OAuthTablesDown[5])
  BY <1>1 DEF DownFact, PlainFact, TakesFact, OwnFact, Made, Called, Drops, Removes, OnPair,
     RowIndex, PairIndex
<1>7. DownFact(9, 6, OAuthTablesDown[6])
  BY <1>1 DEF DownFact, PlainFact, TakesFact, OwnFact, Made, Called, Drops, Removes, OnPair,
     RowIndex, PairIndex
<1>8. DownFact(9, 7, OAuthTablesDown[7])
  BY <1>1 DEF DownFact, PlainFact, TakesFact, OwnFact, Made, Called, Drops, Removes, OnPair,
     RowIndex, PairIndex
<1>9. DownFact(9, 8, OAuthTablesDown[8])
  BY <1>1 DEF DownFact, PlainFact, TakesFact, OwnFact, Made, Called, Drops, Removes, OnPair,
     RowIndex, PairIndex
<1>10. DownFact(9, 9, OAuthTablesDown[9])
  BY <1>1 DEF DownFact, PlainFact, TakesFact, OwnFact, Made, Called, Drops, Removes, OnPair,
     RowIndex, PairIndex
<1> QED
  BY <1>1, <1>2, <1>3, <1>4, <1>5, <1>6, <1>7, <1>8, <1>9, <1>10 DEF DownFacts

\* What the statements of LinkAlertsDown take away.
LEMMA LinkAlertsDownFacts == DownFacts(10, LinkAlertsDown)
<1>1. /\ Len(LinkAlertsDown) = 5
      /\ Removes(LinkAlertsDown[1], "alert", "idx_alert_user_id")
      /\ Removes(LinkAlertsDown[2], "o_auth2_identity", "idx_oauth2_identity_user_id")
      /\ Removes(LinkAlertsDown[3], "o_auth2_identity", "idx_oauth2_identity_provider_subject")
      /\ Drops(LinkAlertsDown[4], "o_auth2_identity")
      /\ Removes(LinkAlertsDown[5], "alert", "user_id")
  BY DEF LinkAlertsDown, Remove, Drop, Creates, Adds, Drops, Removes
<1>2. DownFact(10, 1, LinkAlertsDown[1])
  BY <1>1 DEF DownFact, PlainFact, TakesFact, OwnFact, Made, Called, Drops, Removes, OnPair,
     RowIndex, PairIndex
<1>3. DownFact(10, 2, LinkAlertsDown[2])
  BY <1>1 DEF DownFact, PlainFact, TakesFact, OwnFact, Made, Called, Drops, Removes, OnPair,
     RowIndex, PairIndex
<1>4. DownFact(10, 3, LinkAlertsDown[3])
  BY <1>1 DEF DownFact, PlainFact, TakesFact, OwnFact, Made, Called, Drops, Removes, OnPair,
     RowIndex, PairIndex
<1>5. DownFact(10, 4, LinkAlertsDown[4])
  BY <1>1 DEF DownFact, PlainFact, TakesFact, OwnFact, Made, Called, Drops, Removes, OnPair,
     RowIndex, PairIndex
<1>6. DownFact(10, 5, LinkAlertsDown[5])
  BY <1>1 DEF DownFact, PlainFact, TakesFact, OwnFact, Made, Called, Drops, Removes, OnPair,
     RowIndex, PairIndex
<1> QED
  BY <1>1, <1>2, <1>3, <1>4, <1>5, <1>6 DEF DownFacts

\* What the statements of PasswordDown take away.
LEMMA PasswordDownFacts == DownFacts(11, PasswordDown)
<1>1. /\ Len(PasswordDown) = 3
      /\ Removes(PasswordDown[1], "o_auth2_user", "password_hash")
      /\ Removes(PasswordDown[2], "o_auth2_user", "email_verification_token")
      /\ Removes(PasswordDown[3], "o_auth2_user", "email_verification_expires_at")
  BY DEF PasswordDown, RemoveAll, Password, Remove, Creates, Adds, Drops, Removes
<1>2. DownFact(11, 1, PasswordDown[1])
  BY <1>1 DEF DownFact, PlainFact, TakesFact, OwnFact, Made, Called, Drops, Removes, OnPair,
     RowIndex, PairIndex
<1>3. DownFact(11, 2, PasswordDown[2])
  BY <1>1 DEF DownFact, PlainFact, TakesFact, OwnFact, Made, Called, Drops, Removes, OnPair,
     RowIndex, PairIndex
<1>4. DownFact(11, 3, PasswordDown[3])
  BY <1>1 DEF DownFact, PlainFact, TakesFact, OwnFact, Made, Called, Drops, Removes, OnPair,
     RowIndex, PairIndex
<1> QED
  BY <1>1, <1>2, <1>3, <1>4 DEF DownFacts

\* What the statements of StatusHistoryDown take away.
LEMMA StatusHistoryDownFacts == DownFacts(12, StatusHistoryDown)
<1>1. /\ Len(StatusHistoryDown) = 3
      /\ Removes(StatusHistoryDown[1], "alert_status_history", "idx_alert_status_history_created_at")
      /\ Removes(StatusHistoryDown[2], "alert_status_history", "idx_alert_status_history_alert_id")
      /\ Drops(StatusHistoryDown[3], "alert_status_history")
  BY DEF StatusHistoryDown, RemoveAll, Remove, Drop, Creates, Adds, Drops, Removes
<1>2. DownFact(12, 1, StatusHistoryDown[1])
  BY <1>1 DEF DownFact, PlainFact, TakesFact, OwnFact, Made, Called, Drops, Removes, OnPair,
     RowIndex, PairIndex
<1>3. DownFact(12, 2, StatusHistoryDown[2])
  BY <1>1 DEF DownFact, PlainFact, TakesFact, OwnFact, Made, Called, Drops, Removes, OnPair,
     RowIndex, PairIndex
<1>4. DownFact(12, 3, StatusHistoryDown[3])
  BY <1>1 DEF DownFact, PlainFact, TakesFact, OwnFact, Made, Called, Drops, Removes, OnPair,
     RowIndex, PairIndex
<1> QED
  BY <1>1, <1>2, <1>3, <1>4 DEF DownFacts

\* What the statements of LastRecoveryDown take away.
LEMMA LastRecoveryDownFacts == DownFacts(13, LastRecoveryDown)
<1>1. /\ Len(LastRecoveryDown) = 1
      /\ Removes(LastRecoveryDown[1], "alert", "last_recovery_at")
  BY DEF LastRecoveryDown, Remove, Creates, Adds, Drops, Removes
<1>2. DownFact(13, 1, LastRecoveryDown[1])
  BY <1>1 DEF DownFact, PlainFact, TakesFact, OwnFact, Made, Called, Drops, Removes, OnPair,
     RowIndex, PairIndex
<1> QED
  BY <1>1, <1>2 DEF DownFacts

\* What the statements of FailureReasonDown take away.
LEMMA FailureReasonDownFacts == DownFacts(14, FailureReasonDown)
<1>1. /\ Len(FailureReasonDown) = 1
      /\ Removes(FailureReasonDown[1], "alert_status_history", "failure_reason")
  BY DEF FailureReasonDown, Remove, Creates, Adds, Drops, Removes
<1>2. DownFact(14, 1, FailureReasonDown[1])
  BY <1>1 DEF DownFact, PlainFact, TakesFact, OwnFact, Made, Called, Drops, Removes, OnPair,
     RowIndex, PairIndex
<1> QED
  BY <1>1, <1>2 DEF DownFacts

\* What the statements of AccountFeaturesDown take away.
LEMMA AccountFeaturesDownFacts == DownFacts(16, AccountFeaturesDown)
<1>1. /\ Len(AccountFeaturesDown) = 1
      /\ Drops(AccountFeaturesDown[1], "user_email")
  BY DEF AccountFeaturesDown, Drop, Creates, Adds, Drops, Removes
<1>2. DownFact(16, 1, AccountFeaturesDown[1])
  BY <1>1 DEF DownFact, PlainFact, TakesFact, OwnFact, Made, Called, Drops, Removes, OnPair,
     RowIndex, PairIndex
<1> QED
  BY <1>1, <1>2 DEF DownFacts

\* What the statements of AccountClientDown take away.
LEMMA AccountClientDownFacts == DownFacts(17, AccountClientDown)
<1>1. /\ Len(AccountClientDown) = 1
      /\ Removes(AccountClientDown[1], "oauth2_client", "account-internal")
  BY DEF AccountClientDown, RemoveAny, Creates, Adds, Drops, Removes
<1>2. DownFact(17, 1, AccountClientDown[1])
  BY <1>1 DEF DownFact, PlainFact, TakesFact, OwnFact, Made, Called, Drops, Removes, OnPair,
     RowIndex, PairIndex
<1> QED
  BY <1>1, <1>2 DEF DownFacts

\* What the statements of EmailOutboxDown take away.
LEMMA EmailOutboxDownFacts == DownFacts(19, EmailOutboxDown)
<1>1. /\ Len(EmailOutboxDown) = 2
      /\ Removes(EmailOutboxDown[1], "email_outbox", "idx_email_outbox_status_next_attempt")
      /\ Drops(EmailOutboxDown[2], "email_outbox")
  BY DEF EmailOutboxDown, Remove, Drop, Creates, Adds, Drops, Removes
<1>2. \A i \in 1..2 : PlainFact(19, EmailOutboxDown[i])
  BY <1>1 DEF PlainFact, Drops, Removes
<1>3. \A i \in 1..2 : OwnFact(19, i, EmailOutboxDown[i])
  BY <1>1 DEF OwnFact, Made, Called, Drops, Removes, RowIndex, PairIndex
<1>4. TakesFact(19, 1, EmailOutboxDown[1])
  BY <1>1 DEF TakesFact, Made, Called, Removes, OnPair, RowIndex, PairIndex
<1>5. TakesFact(19, 2, EmailOutboxDown[2])
  BY <1>1 DEF TakesFact, Made, Called, Drops
<1> QED
  BY <1>1, <1>2, <1>3, <1>4, <1>5 DEF DownFacts, DownFact

\* What the statements of PasswordResetDown take away.
LEMMA PasswordResetDownFacts == DownFacts(20, PasswordResetDown)
<1>1. /\ Len(PasswordResetDown) = 2
      /\ Removes(PasswordResetDown[1], "oauth2_user", "password_reset_token")
      /\ Removes(PasswordResetDown[2], "oauth2_user", "password_reset_expires_at")
  BY DEF PasswordResetDown, RemoveAll, Reset, Remove, Creates, Adds, Drops, Removes
<1>2. \A i \in 1..2 : PlainFact(20, PasswordResetDown[i])
  BY <1>1 DEF PlainFact, Drops, Removes
<1>3. \A i \in 1..2 : OwnFact(20, i, PasswordResetDown[i])
  BY <1>1 DEF OwnFact, Made, Called, Drops, Removes, RowIndex, PairIndex
<1>4. TakesFact(20, 1, PasswordResetDown[1])
  BY <1>1 DEF TakesFact, Made, Called, Removes, OnPair, RowIndex, PairIndex
<1>5. TakesFact(20, 2, PasswordResetDown[2])
  BY <1>1 DEF TakesFact, Made, Called, Removes, OnPair, RowIndex, PairIndex
<1> QED
  BY <1>1, <1>2, <1>3, <1>4, <1>5 DEF DownFacts, DownFact

\* What the statements of NotificationEmailsDown take away.
LEMMA NotificationEmailsDownFacts == DownFacts(21, NotificationEmailsDown)
<1>1. /\ Len(NotificationEmailsDown) = 3
      /\ NotificationEmailsDown[1].op = "restore"
      /\ Removes(NotificationEmailsDown[2], "alert_notification_email", "idx_alert_notification_email_unique")
      /\ Drops(NotificationEmailsDown[3], "alert_notification_email")
  BY DEF NotificationEmailsDown, RestoreEmails, Remove, Drop, Creates, Adds, Drops, Removes
<1>2. \A i \in 1..3 : PlainFact(21, NotificationEmailsDown[i])
  BY <1>1 DEF PlainFact, Drops, Removes
<1>3. \A i \in 1..3 : OwnFact(21, i, NotificationEmailsDown[i])
  BY <1>1 DEF OwnFact, Made, Called, Drops, Removes, RowIndex, PairIndex
<1>4. TakesFact(21, 1, NotificationEmailsDown[1])
  BY <1>1 DEF TakesFact, Made, Called, Drops
<1>5. TakesFact(21, 2, NotificationEmailsDown[2])
  BY <1>1 DEF TakesFact, Made, Called, Removes, OnPair, RowIndex, PairIndex
<1>6. TakesFact(21, 3, NotificationEmailsDown[3])
  BY <1>1 DEF TakesFact, Made, Called, Drops
<1> QED
  BY <1>1, <1>2, <1>3, <1>4, <1>5, <1>6 DEF DownFacts, DownFact

\* What the statements of ChangeAlertsDown take away.
LEMMA ChangeAlertsDownFacts == DownFacts(22, ChangeAlertsDown)
<1>1. /\ Len(ChangeAlertsDown) = 5
      /\ Drops(ChangeAlertsDown[1], "alert_observed_state")
      /\ Removes(ChangeAlertsDown[2], "alert", "notify_tls_expiry")
      /\ Removes(ChangeAlertsDown[3], "alert", "notify_tls_cert_change")
      /\ Removes(ChangeAlertsDown[4], "alert", "notify_version_change")
      /\ Removes(ChangeAlertsDown[5], "alert", "notify_server_name_change")
  BY DEF ChangeAlertsDown, Flags, Remove, Drop, Creates, Adds, Drops, Removes
<1>2. \A i \in 1..5 : PlainFact(22, ChangeAlertsDown[i])
  BY <1>1 DEF PlainFact, Drops, Removes
<1>3. \A i \in 1..5 : OwnFact(22, i, ChangeAlertsDown[i])
  BY <1>1 DEF OwnFact, Made, Called, Drops, Removes, RowIndex, PairIndex
<1>4. TakesFact(22, 1, ChangeAlertsDown[1])
  BY <1>1 DEF TakesFact, Made, Called, Drops
<1>5. TakesFact(22, 2, ChangeAlertsDown[2])
  BY <1>1 DEF TakesFact, Made, Called, Removes, OnPair, RowIndex, PairIndex
<1>6. TakesFact(22, 3, ChangeAlertsDown[3])
  BY <1>1 DEF TakesFact, Made, Called, Removes, OnPair, RowIndex, PairIndex
<1>7. TakesFact(22, 4, ChangeAlertsDown[4])
  BY <1>1 DEF TakesFact, Made, Called, Removes, OnPair, RowIndex, PairIndex
<1>8. TakesFact(22, 5, ChangeAlertsDown[5])
  BY <1>1 DEF TakesFact, Made, Called, Removes, OnPair, RowIndex, PairIndex
<1> QED
  BY <1>1, <1>2, <1>3, <1>4, <1>5, <1>6, <1>7, <1>8 DEF DownFacts, DownFact

\* What the statements of MissingIndexesDown take away.
LEMMA MissingIndexesDownFacts == DownFacts(23, MissingIndexesDown)
<1>1. /\ Len(MissingIndexesDown) = 4
      /\ Removes(MissingIndexesDown[1], "oauth2_authorization", "idx_oauth2_authorization_user_id")
      /\ Removes(MissingIndexesDown[2], "federation_stat_aggregate", "idx_federation_stat_aggregate_last_seen_at")
      /\ Removes(MissingIndexesDown[3], "alert", "idx_alert_verified_created_at")
      /\ Removes(MissingIndexesDown[4], "alert", "idx_alert_verified_failing")
  BY DEF MissingIndexesDown, Indexes, RemoveAny, Creates, Adds, Drops, Removes
<1>2. \A i \in 1..4 : PlainFact(23, MissingIndexesDown[i])
  BY <1>1 DEF PlainFact, Drops, Removes
<1>3. \A i \in 1..4 : OwnFact(23, i, MissingIndexesDown[i])
  BY <1>1 DEF OwnFact, Made, Called, Drops, Removes, RowIndex, PairIndex
<1>4. TakesFact(23, 1, MissingIndexesDown[1])
  BY <1>1 DEF TakesFact, Made, Called, Removes, OnPair, RowIndex, PairIndex
<1>5. TakesFact(23, 2, MissingIndexesDown[2])
  BY <1>1 DEF TakesFact, Made, Called, Removes, OnPair, RowIndex, PairIndex
<1>6. TakesFact(23, 3, MissingIndexesDown[3])
  BY <1>1 DEF TakesFact, Made, Called, Removes, OnPair, RowIndex, PairIndex
<1>7. TakesFact(23, 4, MissingIndexesDown[4])
  BY <1>1 DEF TakesFact, Made, Called, Removes, OnPair, RowIndex, PairIndex
<1> QED
  BY <1>1, <1>2, <1>3, <1>4, <1>5, <1>6, <1>7 DEF DownFacts, DownFact

\* What the statements of QuietHoursDown take away.
LEMMA QuietHoursDownFacts == DownFacts(24, QuietHoursDown)
<1>1. /\ Len(QuietHoursDown) = 3
      /\ Removes(QuietHoursDown[1], "alert", "quiet_hours_to")
      /\ Removes(QuietHoursDown[2], "alert", "quiet_hours_from")
      /\ Removes(QuietHoursDown[3], "alert", "quiet_hours_enabled")
  BY DEF QuietHoursDown, Quiet, Remove, Creates, Adds, Drops, Removes
<1>2. \A i \in 1..3 : PlainFact(24, QuietHoursDown[i])
  BY <1>1 DEF PlainFact, Drops, Removes
<1>3. \A i \in 1..3 : OwnFact(24, i, QuietHoursDown[i])
  BY <1>1 DEF OwnFact, Made, Called, Drops, Removes, RowIndex, PairIndex
<1>4. TakesFact(24, 1, QuietHoursDown[1])
  BY <1>1 DEF TakesFact, Made, Called, Removes, OnPair, RowIndex, PairIndex
<1>5. TakesFact(24, 2, QuietHoursDown[2])
  BY <1>1 DEF TakesFact, Made, Called, Removes, OnPair, RowIndex, PairIndex
<1>6. TakesFact(24, 3, QuietHoursDown[3])
  BY <1>1 DEF TakesFact, Made, Called, Removes, OnPair, RowIndex, PairIndex
<1> QED
  BY <1>1, <1>2, <1>3, <1>4, <1>5, <1>6 DEF DownFacts, DownFact

\* What the statements of TimezoneDown take away.
LEMMA TimezoneDownFacts == DownFacts(25, TimezoneDown)
<1>1. /\ Len(TimezoneDown) = 2
      /\ Removes(TimezoneDown[1], "oauth2_user", "timezone")
      /\ Removes(TimezoneDown[2], "user_email", "timezone")
  BY DEF TimezoneDown, Remove, Creates, Adds, Drops, Removes
<1>2. \A i \in 1..2 : PlainFact(25, TimezoneDown[i])
  BY <1>1 DEF PlainFact, Drops, Removes
<1>3. \A i \in 1..2 : OwnFact(25, i, TimezoneDown[i])
  BY <1>1 DEF OwnFact, Made, Called, Drops, Removes, RowIndex, PairIndex
<1>4. TakesFact(25, 1, TimezoneDown[1])
  BY <1>1 DEF TakesFact, Made, Called, Removes, OnPair, RowIndex, PairIndex
<1>5. TakesFact(25, 2, TimezoneDown[2])
  BY <1>1 DEF TakesFact, Made, Called, Removes, OnPair, RowIndex, PairIndex
<1> QED
  BY <1>1, <1>2, <1>3, <1>4, <1>5 DEF DownFacts, DownFact

\* What the statements of WebhooksDown take away.
LEMMA WebhooksDownFacts == DownFacts(26, WebhooksDown)
<1>1. /\ Len(WebhooksDown) = 5
      /\ Removes(WebhooksDown[1], "webhook_outbox", "idx_webhook_outbox_webhook_id")
      /\ Removes(WebhooksDown[2], "webhook_outbox", "idx_webhook_outbox_pending")
      /\ Drops(WebhooksDown[3], "webhook_outbox")
      /\ Removes(WebhooksDown[4], "alert_notification_webhook", "idx_alert_notification_webhook_unique")
      /\ Drops(WebhooksDown[5], "alert_notification_webhook")
  BY DEF WebhooksDown, Remove, Drop, Creates, Adds, Drops, Removes
<1>2. \A i \in 1..5 : PlainFact(26, WebhooksDown[i])
  BY <1>1 DEF PlainFact, Drops, Removes
<1>3. \A i \in 1..5 : OwnFact(26, i, WebhooksDown[i])
  BY <1>1 DEF OwnFact, Made, Called, Drops, Removes, RowIndex, PairIndex
<1>4. TakesFact(26, 1, WebhooksDown[1])
  BY <1>1 DEF TakesFact, Made, Called, Removes, OnPair, RowIndex, PairIndex
<1>5. TakesFact(26, 2, WebhooksDown[2])
  BY <1>1 DEF TakesFact, Made, Called, Removes, OnPair, RowIndex, PairIndex
<1>6. TakesFact(26, 3, WebhooksDown[3])
  BY <1>1 DEF TakesFact, Made, Called, Drops
<1>7. TakesFact(26, 4, WebhooksDown[4])
  BY <1>1 DEF TakesFact, Made, Called, Removes, OnPair, RowIndex, PairIndex
<1>8. TakesFact(26, 5, WebhooksDown[5])
  BY <1>1 DEF TakesFact, Made, Called, Drops
<1> QED
  BY <1>1, <1>2, <1>3, <1>4, <1>5, <1>6, <1>7, <1>8 DEF DownFacts, DownFact

\* A migration that is neither a rebuild nor the renaming of the OAuth tables.
LEMMA ListedFacts ==
  ASSUME NEW m \in 1..Last, m \notin {2, 5, 15, 18}
  PROVE  UpFacts(m, Up[m]) /\ DownFacts(m, Down[m])
<1>1. m \in 1..14 \/ m \in 15..26
  BY DEF Last
<1>2. CASE m \in 1..14
  BY <1>2, AlertTableUpFacts, AlertTableDownFacts, FederationStatsUpFacts, FederationStatsDownFacts,
     UnstableUpFacts, UnstableDownFacts, TrackingUpFacts, TrackingDownFacts, EmailLogUpFacts,
     EmailLogDownFacts, OptimizeStatsUpFacts, OptimizeStatsDownFacts, OAuthTablesUpFacts,
     OAuthTablesDownFacts, LinkAlertsUpFacts, LinkAlertsDownFacts, PasswordUpFacts,
     PasswordDownFacts, StatusHistoryUpFacts, StatusHistoryDownFacts, LastRecoveryUpFacts,
     LastRecoveryDownFacts, FailureReasonUpFacts, FailureReasonDownFacts DEF Up, Down
<1>3. CASE m \in 15..26
  BY <1>3, AccountFeaturesUpFacts, AccountFeaturesDownFacts, AccountClientUpFacts,
     AccountClientDownFacts, EmailOutboxUpFacts, EmailOutboxDownFacts, PasswordResetUpFacts,
     PasswordResetDownFacts, NotificationEmailsUpFacts, NotificationEmailsDownFacts,
     ChangeAlertsUpFacts, ChangeAlertsDownFacts, MissingIndexesUpFacts, MissingIndexesDownFacts,
     QuietHoursUpFacts, QuietHoursDownFacts, TimezoneUpFacts, TimezoneDownFacts, WebhooksUpFacts,
     WebhooksDownFacts DEF Up, Down
<1> QED
  BY <1>1, <1>2, <1>3

\* rename_oauth_tables.
LEMMA RenameFacts ==
  /\ Len(Up[15]) = 5 /\ Len(Down[15]) = 5
  /\ \A i \in 1..5 : /\ Up[15][i] = Rename(Old[OAuthNames[i]], New[OAuthNames[i]])
                     /\ Down[15][i] = Rename(New[OAuthNames[i]], Old[OAuthNames[i]])
BY DEF Up, Down, RenameUp, RenameDown

\* The statements of a rebuild and of what follows it.
Rebuilt(R, parts, tokens, L) ==
  /\ Len(R) = 4 + Len(L) /\ Len(L) \in Nat
  /\ R[1] = Create("alert_new", parts) /\ R[2] = Copy(tokens) /\ R[3] = Drop("alert")
  /\ R[4] = Rename("alert_new", "alert")
  /\ \A i \in 1..Len(L) : R[4 + i] = L[i]

\* The statements of a rebuild followed by a list of indexes, one by one.
LEMMA RebuildListed ==
  ASSUME NEW parts, NEW tokens, NEW L, List(L)
  PROVE  Rebuilt(Rebuild(parts, tokens) \o L, parts, tokens, L)
<1> DEFINE Q == Rebuild(parts, tokens)
<1>1. /\ List(Q) /\ Len(Q) = 4
      /\ Q[1] = Create("alert_new", parts) /\ Q[2] = Copy(tokens) /\ Q[3] = Drop("alert")
      /\ Q[4] = Rename("alert_new", "alert")
  BY DEF List, Rebuild
<1> HIDE DEF Q
<1>2. Len(L) \in Nat
  BY ListLength
<1>3. /\ Len(Q \o L) = Len(Q) + Len(L)
      /\ \A i \in 1..Len(Q) + Len(L) : (Q \o L)[i] = IF i <= Len(Q) THEN Q[i] ELSE L[i - Len(Q)]
  BY <1>1, Joined
<1>4. /\ Len(Q \o L) = 4 + Len(L)
      /\ \A i \in 1..4 + Len(L) : (Q \o L)[i] = IF i <= 4 THEN Q[i] ELSE L[i - 4]
  BY <1>1, <1>3
<1>5. /\ (Q \o L)[1] = Q[1] /\ (Q \o L)[2] = Q[2] /\ (Q \o L)[3] = Q[3] /\ (Q \o L)[4] = Q[4]
  BY <1>2, <1>4
<1>6. ASSUME NEW i \in 1..Len(L)
      PROVE  (Q \o L)[4 + i] = L[i]
  <2>1. 4 + i \in 1..4 + Len(L) /\ ~(4 + i <= 4) /\ (4 + i) - 4 = i
    BY <1>2
  <2> QED
    BY <1>4, <2>1
<1> QED
  BY <1>1, <1>2, <1>4, <1>5, <1>6 DEF Rebuilt, Q

Indexes4 == {RowIndex, PairIndex, "idx_magic_token_unique", "idx_alert_user_id"}

\* A rebuild: four statements, and indexes that follow.
RebuildFact(L) ==
  /\ Len(L) \in 5..7
  /\ Creates(L[1], "alert_new") /\ ~L[1].lenient
  /\ L[2].op = "copy" /\ Drops(L[3], "alert")
  /\ L[4].op = "rename" /\ L[4].table = "alert_new" /\ L[4].to = "alert"
  /\ \A i \in 5..Len(L) : L[i].op = "add" /\ L[i].table = "alert" /\ L[i].part \in Indexes4

Follows(s) == s.op = "add" /\ s.table = "alert" /\ s.part \in Indexes4

\* A rebuild and what follows it: six to eight statements, each as RebuildStep says.
LEMMA RebuildFactOf ==
  ASSUME NEW parts, NEW tokens, NEW L, List(L), Len(L) \in 1..3, \A i \in 1..Len(L) : Follows(L[i])
  PROVE  RebuildFact(Rebuild(parts, tokens) \o L)
<1> DEFINE R == Rebuild(parts, tokens) \o L
<1>1. /\ Len(R) = 4 + Len(L) /\ Len(L) \in Nat
      /\ R[1] = Create("alert_new", parts) /\ R[2] = Copy(tokens) /\ R[3] = Drop("alert")
      /\ R[4] = Rename("alert_new", "alert")
      /\ \A i \in 1..Len(L) : R[4 + i] = L[i]
  BY RebuildListed DEF Rebuilt
<1> HIDE DEF R
<1>2. ASSUME NEW i \in 5..Len(R)
      PROVE  Follows(R[i])
  <2>1. i - 4 \in 1..Len(L) /\ 4 + (i - 4) = i
    BY <1>1
  <2>2. R[4 + (i - 4)] = L[i - 4]
    BY <1>1, <2>1
  <2> QED
    BY <2>1, <2>2
<1>3. Len(R) \in 5..7
  <2>1. Len(R) = 4 + Len(L)
    BY <1>1
  <2>2. \A n : n \in 1..3 => 4 + n \in 5..7
    OBVIOUS
  <2> QED
    BY <2>1, <2>2
<1>4. /\ Creates(R[1], "alert_new") /\ ~R[1].lenient /\ R[2].op = "copy" /\ Drops(R[3], "alert")
      /\ R[4].op = "rename" /\ R[4].table = "alert_new" /\ R[4].to = "alert"
  BY <1>1 DEF Create, Copy, Drop, Rename, Creates, Drops
<1> QED
  BY <1>2, <1>3, <1>4 DEF RebuildFact, Follows, R

Kept == {"user_id", "last_recovery_at"} \cup {Tracking[i] : i \in DOMAIN Tracking}

KeptDown == Kept \cup {"unique token", "token not null"}

\* What fix_oauth_alert_magic_token and its rollback build, and the indexes that follow.
MagicTokenFact(U, D) ==
  /\ U[1].parts = Kept /\ D[1].parts = KeptDown
  /\ Len(U) = 7 /\ Adds(U[5], "alert", "idx_magic_token_unique")
  /\ Adds(U[6], "alert", PairIndex) /\ U[6].lenient
  /\ Len(D) = 6
  /\ Adds(D[5], "alert", PairIndex) /\ D[5].lenient
  /\ Adds(D[6], "alert", "idx_alert_user_id") /\ D[6].lenient

\* Every Up and Down that rebuilds alert on SQLite is one.
LEMMA RebuildFacts ==
  ASSUME backend = "sqlite"
  PROVE  /\ \A m \in {2, 5, 18} : RebuildFact(Up[m]) /\ RebuildFact(Down[m])
         /\ MagicTokenFact(Up[18], Down[18])
<1> DEFINE Pair == <<Add("alert", PairIndex)>>
           Id == <<Add("alert", RowIndex)>>
           Three == <<AddMissing("alert", "idx_magic_token_unique"), AddMissing("alert", PairIndex),
                      AddMissing("alert", "idx_alert_user_id")>>
           Two == <<AddMissing("alert", PairIndex), AddMissing("alert", "idx_alert_user_id")>>
<1>1. /\ List(Pair) /\ List(Id) /\ List(Three) /\ List(Two)
      /\ Len(Pair) = 1 /\ Len(Id) = 1 /\ Len(Three) = 3 /\ Len(Two) = 2
  BY DEF List
<1>2. /\ \A i \in 1..1 : Follows(Pair[i]) /\ Follows(Id[i])
      /\ \A i \in 1..2 : Follows(Two[i])
      /\ \A i \in 1..3 : Follows(Three[i])
  BY DEF Follows, Indexes4, Add, AddMissing
<1>3. /\ Adds(Three[1], "alert", "idx_magic_token_unique")
      /\ Adds(Three[2], "alert", PairIndex) /\ Three[2].lenient
      /\ Adds(Two[1], "alert", PairIndex) /\ Two[1].lenient
      /\ Adds(Two[2], "alert", "idx_alert_user_id") /\ Two[2].lenient
  BY DEF Adds, AddMissing
<1> HIDE DEF Pair, Id, Three, Two
<1>4. \A parts, tokens : /\ RebuildFact(Rebuild(parts, tokens) \o Pair)
                         /\ RebuildFact(Rebuild(parts, tokens) \o Id)
                         /\ RebuildFact(Rebuild(parts, tokens) \o Three)
                         /\ RebuildFact(Rebuild(parts, tokens) \o Two)
  <2> SUFFICES ASSUME NEW parts, NEW tokens
               PROVE  /\ RebuildFact(Rebuild(parts, tokens) \o Pair)
                      /\ RebuildFact(Rebuild(parts, tokens) \o Id)
                      /\ RebuildFact(Rebuild(parts, tokens) \o Three)
                      /\ RebuildFact(Rebuild(parts, tokens) \o Two)
    OBVIOUS
  <2>1. RebuildFact(Rebuild(parts, tokens) \o Pair)
    BY <1>1, <1>2, RebuildFactOf
  <2>2. RebuildFact(Rebuild(parts, tokens) \o Id)
    BY <1>1, <1>2, RebuildFactOf
  <2>3. RebuildFact(Rebuild(parts, tokens) \o Three)
    BY <1>1, <1>2, RebuildFactOf
  <2>4. RebuildFact(Rebuild(parts, tokens) \o Two)
    BY <1>1, <1>2, RebuildFactOf
  <2> QED
    BY <2>1, <2>2, <2>3, <2>4
<1>5. RebuildFact(FixTimezoneUp) /\ RebuildFact(FixTimezoneDown)
  BY <1>4 DEF FixTimezoneUp, FixTimezoneDown, OnSqlite, Pair
<1>6. /\ RebuildFact(FixUniquenessUp) /\ RebuildFact(FixUniquenessDown)
      /\ RebuildFact(MagicTokenUp) /\ RebuildFact(MagicTokenDown)
  BY <1>4 DEF FixUniquenessUp, FixUniquenessDown, MagicTokenUp, MagicTokenDown, OnSqlite, Pair, Id,
     Three, Two
<1>7. MagicTokenFact(MagicTokenUp, MagicTokenDown)
  <2> DEFINE T == {Tracking[i] : i \in DOMAIN Tracking}
  <2>0. {"user_id", "last_recovery_at", "unique token", "token not null"} \cup T =
          KeptDown
    BY DEF Kept, KeptDown
  <2>1. /\ MagicTokenUp = Rebuild(Kept, "empty to null") \o Three
        /\ MagicTokenDown = Rebuild(KeptDown, "null to empty") \o Two
    BY <2>0 DEF MagicTokenUp, MagicTokenDown, OnSqlite, Three, Two, Kept
  <2>2. Rebuilt(MagicTokenUp, Kept, "empty to null", Three)
    BY <1>1, <2>1, RebuildListed
  <2>3. Rebuilt(MagicTokenDown, KeptDown, "null to empty", Two)
    BY <1>1, <2>1, RebuildListed
  <2>4. \A parts : Create("alert_new", parts).parts = parts
    BY DEF Create
  <2>5. /\ Len(MagicTokenUp) = 7 /\ MagicTokenUp[1] = Create("alert_new", Kept)
        /\ MagicTokenUp[5] = Three[1] /\ MagicTokenUp[6] = Three[2]
    <3>1. Len(MagicTokenUp) = 4 + 3 /\ \A i \in 1..3 : MagicTokenUp[4 + i] = Three[i]
      BY <1>1, <2>2 DEF Rebuilt
    <3>2. MagicTokenUp[4 + 1] = Three[1] /\ MagicTokenUp[4 + 2] = Three[2]
      BY <3>1
    <3>3. 4 + 1 = 5 /\ 4 + 2 = 6 /\ 4 + 3 = 7
      OBVIOUS
    <3> QED
      BY <2>2, <3>1, <3>2, <3>3 DEF Rebuilt
  <2>6. /\ Len(MagicTokenDown) = 6
        /\ MagicTokenDown[1] = Create("alert_new", KeptDown)
        /\ MagicTokenDown[5] = Two[1] /\ MagicTokenDown[6] = Two[2]
    <3>1. Len(MagicTokenDown) = 4 + 2 /\ \A i \in 1..2 : MagicTokenDown[4 + i] = Two[i]
      BY <1>1, <2>3 DEF Rebuilt
    <3>2. MagicTokenDown[4 + 1] = Two[1] /\ MagicTokenDown[4 + 2] = Two[2]
      BY <3>1
    <3>3. 4 + 1 = 5 /\ 4 + 2 = 6
      OBVIOUS
    <3> QED
      BY <2>3, <3>1, <3>2, <3>3 DEF Rebuilt
  <2> QED
    BY <1>3, <2>4, <2>5, <2>6 DEF MagicTokenFact
<1> QED
  BY <1>5, <1>6, <1>7 DEF Up, Down

\* On PostgreSQL fix_timezone leaves the index alone, and fix_uniqueness is in its way.
LEMMA PostgresFacts ==
  ASSUME backend # "sqlite"
  PROVE  /\ Len(Up[2]) = 1 /\ Up[2][1].op = "add" /\ Up[2][1].table = "alert"
         /\ Len(Down[2]) = 1 /\ Down[2][1].op = "remove" /\ Down[2][1].table = "alert"
         /\ ~OnPair(Down[2][1].part)
         /\ Len(Up[5]) = 1 /\ Adds(Up[5][1], "alert", PairIndex) /\ ~Up[5][1].lenient
BY DEF Up, Down, FixTimezoneUp, FixTimezoneDown, FixUniquenessUp, OnSqlite, Add, AddMissing,
       RemoveAny, Adds, OnPair, RowIndex, PairIndex

-----------------------------------------------------------------------------
(***************************************************************************)
(* What stands in the tables.                                              *)
(***************************************************************************)

\* The rows satisfy the constraints of their tables, and nothing stands in a table that is
\* not there.
Sound(S, R, N) ==
  /\ \A t \in Tables : IF t \in DOMAIN S THEN Fits(S[t], R[t]) ELSE R[t] = {}
  /\ \A i \in Ids : N[i] # Nobody => "alert_notification_email" \in DOMAIN S

SavedSound == Running /\ backend # "sqlite" => Sound(saved.schema, saved.rows, saved.notify)

\* fix_oauth_alert_magic_token builds what it says.
MagicParts == IF job.dir = "up" THEN Kept ELSE KeptDown
MagicInv ==
  Running /\ backend = "sqlite" /\ Migration = 18 /\ job.at \in 2..4 =>
    Has("alert_new") /\ schema["alert_new"] = MagicParts

\* Addresses are not unique once it has put its table in place.
LateInv ==
  backend = "sqlite" /\ Has("alert") /\
  (applied >= 18 \/ (job.dir = "up" /\ applied = 17 /\ job.at >= 5)) =>
    UniqueEmail \notin schema["alert"]

\* PostgreSQL does not get past fix_uniqueness: the first index is in its way.
Stuck(S, a) == a <= 4 /\ (a >= 1 => "alert" \in DOMAIN S /\ RowIndex \in S["alert"])
PostgresInv ==
  backend # "sqlite" =>
    /\ applied <= 4
    /\ Running => Stuck(saved.schema, saved.applied)
    /\ \/ applied >= 1 /\ ~(job.dir = "down" /\ applied = 1 /\ job.at >= 2)
       \/ job.dir = "up" /\ job.at >= 3
       => Has("alert") /\ RowIndex \in schema["alert"]
    /\ job.dir = "up" /\ applied = 4 => job.at = 1

SoundInv == Sound(schema, rows, notify) /\ SavedSound /\ MagicInv /\ LateInv /\ PostgresInv

-----------------------------------------------------------------------------
(***************************************************************************)
(* The statement a command is at.                                          *)
(***************************************************************************)

RebuildStep(s, i) ==
  /\ i = 1 => Creates(s, "alert_new") /\ ~s.lenient
  /\ i = 2 => s.op = "copy"
  /\ i = 3 => Drops(s, "alert")
  /\ i = 4 => s.op = "rename" /\ s.table = "alert_new" /\ s.to = "alert"
  /\ i >= 5 => Follows(s)

\* The only statement of fix_timezone on PostgreSQL.
PostgresStep(s) ==
  s.op \in {"add", "remove"} /\ s.table = "alert" /\ (s.op = "remove" => ~OnPair(s.part))

\* A migration has a list of statements in each direction.
LEMMA StatementsListed ==
  ASSUME JobOK, DataOK(schema, rows, notify, applied), Running
  PROVE  /\ Len(Statements) \in Nat /\ job.at \in Nat \ {0} /\ Migration \in 1..Last
         /\ job.dir \in {"up", "down"}
         /\ Statements = IF job.dir = "up" THEN Up[Migration] ELSE Down[Migration]
<1>1. /\ job.dir \in {"up", "down"} /\ job.at \in Nat \ {0} /\ Migration \in 1..Last
  BY RunningJob
<1>2. \A m \in 1..Last : Len(Up[m]) \in Nat /\ Len(Down[m]) \in Nat
  <2> TAKE m \in 1..Last
  <2>1. CASE backend = "sqlite" /\ m \in {2, 5, 18}
    BY <2>1, AllMigrations, ListLength DEF Rebuilding
  <2>2. CASE ~(backend = "sqlite" /\ m \in {2, 5, 18})
    <3>1. CalmList(Up[m]) /\ (m # 1 => CalmList(Down[m])) /\ Down[1] = AlertTableDown
      BY <2>2, AllMigrations
    <3>2. Len(AlertTableDown) = 2
      BY DEF AlertTableDown
    <3> QED
      BY <3>1, <3>2, ListLength DEF CalmList
  <2> QED
    BY <2>1, <2>2
<1> QED
  BY <1>1, <1>2 DEF Statements

\* What it can be.
LEMMA StatementOf ==
  ASSUME JobOK, DataOK(schema, rows, notify, applied), Running, job.at <= Len(Statements),
         NEW s, s = Statements[job.at]
  PROVE  /\ Migration \notin {2, 5, 15, 18} =>
              /\ job.dir = "up" => UpFact(Migration, job.at, s)
              /\ job.dir = "down" => DownFact(Migration, job.at, s)
         /\ Migration = 15 =>
              /\ job.at \in 1..5
              /\ job.dir = "up" => s = Rename(Old[OAuthNames[job.at]], New[OAuthNames[job.at]])
              /\ job.dir = "down" => s = Rename(New[OAuthNames[job.at]], Old[OAuthNames[job.at]])
         /\ backend = "sqlite" /\ Migration \in {2, 5, 18} =>
              job.at \in 1..7 /\ RebuildStep(s, job.at)
         /\ backend # "sqlite" /\ Migration = 2 =>
              PostgresStep(s)
         /\ backend # "sqlite" /\ Migration = 5 /\ job.dir = "up" =>
              job.at = 1 /\ Adds(s, "alert", PairIndex) /\ ~s.lenient
<1>1. /\ Len(Statements) \in Nat /\ job.at \in Nat \ {0} /\ Migration \in 1..Last
      /\ job.dir \in {"up", "down"}
      /\ Statements = IF job.dir = "up" THEN Up[Migration] ELSE Down[Migration]
  BY StatementsListed
<1>2. job.at \in 1..Len(Statements)
  BY <1>1
<1>3. CASE Migration \notin {2, 5, 15, 18}
  <2>1. UpFacts(Migration, Up[Migration]) /\ DownFacts(Migration, Down[Migration])
    BY <1>1, <1>3, ListedFacts
  <2>2. CASE job.dir = "up"
    BY <1>1, <1>2, <1>3, <2>1, <2>2 DEF UpFacts
  <2>3. CASE job.dir = "down"
    BY <1>1, <1>2, <1>3, <2>1, <2>3 DEF DownFacts
  <2> QED
    BY <1>1, <1>3, <2>2, <2>3
<1>4. CASE Migration = 15
  <2>1. Statements = IF job.dir = "up" THEN Up[15] ELSE Down[15]
    BY <1>1, <1>4
  <2>2. Len(Statements) = 5
    BY <2>1, RenameFacts
  <2>3. job.at \in 1..5
    BY <1>2, <2>2
  <2>4. ASSUME job.dir = "up"
        PROVE  s = Rename(Old[OAuthNames[job.at]], New[OAuthNames[job.at]])
    <3>1. s = Up[15][job.at]
      BY <2>1, <2>4
    <3> QED
      BY <2>3, <3>1, RenameFacts
  <2>5. ASSUME job.dir = "down"
        PROVE  s = Rename(New[OAuthNames[job.at]], Old[OAuthNames[job.at]])
    <3>1. s = Down[15][job.at]
      BY <2>1, <2>5
    <3> QED
      BY <2>3, <3>1, RenameFacts
  <2> QED
    BY <1>4, <2>3, <2>4, <2>5
<1>5. CASE backend = "sqlite" /\ Migration \in {2, 5, 18}
  <2>1. RebuildFact(Statements)
    BY <1>1, <1>5, RebuildFacts
  <2>2. job.at \in 1..7 /\ (job.at >= 5 => job.at \in 5..Len(Statements))
    BY <1>1, <1>2, <2>1 DEF RebuildFact
  <2>3. RebuildStep(s, job.at)
    BY <2>1, <2>2 DEF RebuildFact, RebuildStep, Follows
  <2> QED
    BY <1>5, <2>2, <2>3
<1>6. CASE backend # "sqlite" /\ Migration = 2
  <2>1. Statements = IF job.dir = "up" THEN Up[2] ELSE Down[2]
    BY <1>1, <1>6
  <2>2. Len(Statements) = 1
    BY <1>6, <2>1, PostgresFacts
  <2>3. job.at = 1
    BY <1>2, <2>2
  <2>4. s = IF job.dir = "up" THEN Up[2][1] ELSE Down[2][1]
    BY <2>1, <2>3
  <2>5. PostgresStep(s)
    BY <1>6, <2>4, PostgresFacts DEF PostgresStep
  <2> QED
    BY <1>6, <2>5
<1>7. CASE backend # "sqlite" /\ Migration = 5
  <2> SUFFICES ASSUME job.dir = "up"
               PROVE  job.at = 1 /\ Adds(s, "alert", PairIndex) /\ ~s.lenient
    BY <1>7
  <2>1. Statements = Up[5]
    BY <1>1, <1>7
  <2>2. Len(Statements) = 1
    BY <1>7, <2>1, PostgresFacts
  <2>3. job.at = 1
    BY <1>2, <2>2
  <2> QED
    BY <1>7, <2>1, <2>3, PostgresFacts
<1>8. CASE backend # "sqlite" /\ Migration = 18
  BY <1>8
<1> QED
  BY <1>3, <1>4, <1>5, <1>6, <1>7, <1>8

\* The names of the OAuth tables.
LEMMA OAuthTables ==
  /\ OAuthNames[1] = "client" /\ OAuthNames[2] = "user" /\ OAuthNames[3] = "authorization"
  /\ OAuthNames[4] = "token" /\ OAuthNames[5] = "identity"
  /\ Old["client"] = "o_auth2_client" /\ New["client"] = "oauth2_client"
  /\ Old["user"] = "o_auth2_user" /\ New["user"] = "oauth2_user"
  /\ Old["authorization"] = "o_auth2_authorization" /\ New["authorization"] = "oauth2_authorization"
  /\ Old["token"] = "o_auth2_token" /\ New["token"] = "oauth2_token"
  /\ Old["identity"] = "o_auth2_identity" /\ New["identity"] = "oauth2_identity"
BY DEF OAuthNames, Old, New

\* Statements that move no rows but those of a rebuild.
Tame(s) ==
  /\ Calm(s) \/ Drops(s, "alert")
  /\ s.op \in {"drop", "add", "remove"} => s.table # "alert_new"
  /\ s.op = "rename" =>
       \/ s.table = "alert_new" /\ s.to = "alert"
       \/ /\ s.table \notin {"alert", "alert_new", "alert_notification_email"}
          /\ s.to \notin {"alert", "alert_new"}

\* The statement at hand is one of those, and only the rollback of the notification emails
\* puts addresses back.
LEMMA StatementIsTame ==
  ASSUME JobOK, DataOK(schema, rows, notify, applied), Running, job.at <= Len(Statements),
         NEW s, s = Statements[job.at],
         backend # "sqlite" => applied <= 4
  PROVE  /\ Tame(s)
         /\ s.op = "restore" => applied = 21
<1>1. Calm(s) \/ Drops(s, "alert")
  BY NextStatement DEF Drop, Drops
<1>2. /\ job.dir \in {"up", "down"} /\ Migration \in 1..Last
      /\ job.dir = "down" => Migration = applied
      /\ job.dir = "up" => Migration = applied + 1
      /\ applied \in 0..Last
  BY RunningJob DEF DataOK
<1>3. CASE Migration \notin {2, 5, 15, 18}
  <2>1. CASE job.dir = "up"
    <3>1. UpFact(Migration, job.at, s)
      BY <1>3, <2>1, StatementOf
    <3> QED
      BY <1>1, <3>1 DEF UpFact, Tame
  <2>2. CASE job.dir = "down"
    <3>1. PlainFact(Migration, s)
      BY <1>3, <2>2, StatementOf DEF DownFact
    <3> QED
      BY <1>1, <1>2, <2>2, <3>1 DEF PlainFact, Tame
  <2> QED
    BY <1>2, <2>1, <2>2
<1>4. CASE Migration = 15
  <2>1. \A j \in 1..5 : /\ Old[OAuthNames[j]] \notin {"alert", "alert_new", "alert_notification_email"}
                        /\ New[OAuthNames[j]] \notin {"alert", "alert_new", "alert_notification_email"}
    BY OAuthTables
  <2>2. PICK j \in 1..5 : s = Rename(Old[OAuthNames[j]], New[OAuthNames[j]])
                          \/ s = Rename(New[OAuthNames[j]], Old[OAuthNames[j]])
    BY <1>2, <1>4, StatementOf
  <2>3. /\ s.op = "rename" /\ s.table \notin {"alert", "alert_new", "alert_notification_email"}
        /\ s.to \notin {"alert", "alert_new"}
    BY <2>1, <2>2 DEF Rename
  <2> QED
    BY <1>1, <2>3 DEF Tame
<1>5. CASE backend = "sqlite" /\ Migration \in {2, 5, 18}
  <2>1. job.at \in 1..7 /\ RebuildStep(s, job.at)
    BY <1>5, StatementOf
  <2> QED
    BY <1>1, <2>1 DEF RebuildStep, Tame, Creates, Drops, Follows
<1>6. CASE backend # "sqlite" /\ Migration \in {2, 5, 18}
  <2>1. Migration = 2 \/ (Migration = 5 /\ job.dir = "up")
    BY <1>2, <1>6
  <2>2. s.op \in {"add", "remove"} /\ s.table = "alert"
    BY <1>6, <2>1, StatementOf DEF Adds, PostgresStep
  <2> QED
    BY <1>1, <2>2 DEF Tame
<1> QED
  BY <1>3, <1>4, <1>5, <1>6

-----------------------------------------------------------------------------
(***************************************************************************)
(* What a statement does to the parts and to what stands in the tables.    *)
(***************************************************************************)

\* The parts of a table after a statement, by the kind of the statement.
LEMMA PartsAfter ==
  ASSUME NEW s, NEW t
  PROVE  /\ s.op = "create" =>
              /\ t \in DOMAIN schema => SchemaAfter(s)[t] = schema[t]
              /\ t = s.table /\ t \notin DOMAIN schema => SchemaAfter(s)[t] = s.parts
         /\ s.op = "drop" /\ t \in DOMAIN schema /\ t # s.table => SchemaAfter(s)[t] = schema[t]
         /\ s.op = "rename" =>
              /\ t \in DOMAIN schema /\ t # s.table /\ t # s.to => SchemaAfter(s)[t] = schema[t]
              /\ SchemaAfter(s)[s.to] = schema[s.table]
         /\ s.op = "add" /\ t \in DOMAIN schema =>
              SchemaAfter(s)[t] = IF t = s.table /\ ~Present(s) THEN schema[t] \cup {s.part}
                                  ELSE schema[t]
         /\ s.op = "remove" /\ t \in DOMAIN schema =>
              SchemaAfter(s)[t] = IF t = s.table /\ Present(s)
                                  THEN {p \in schema[t] : ~SamePart(p, s.part)} ELSE schema[t]
         /\ s.op \in {"copy", "convert", "backfill", "restore"} => SchemaAfter(s) = schema
<1>1. ASSUME s.op = "create"
      PROVE  /\ t \in DOMAIN schema => SchemaAfter(s)[t] = schema[t]
             /\ t = s.table /\ t \notin DOMAIN schema => SchemaAfter(s)[t] = s.parts
  BY <1>1 DEF SchemaAfter, Has
<1>2. ASSUME s.op = "drop", t \in DOMAIN schema, t # s.table
      PROVE  SchemaAfter(s)[t] = schema[t]
  BY <1>2 DEF SchemaAfter
<1>3. ASSUME s.op = "rename"
      PROVE  /\ t \in DOMAIN schema /\ t # s.table /\ t # s.to => SchemaAfter(s)[t] = schema[t]
             /\ SchemaAfter(s)[s.to] = schema[s.table]
  BY <1>3 DEF SchemaAfter
<1>4. ASSUME s.op = "add", t \in DOMAIN schema
      PROVE  SchemaAfter(s)[t] = IF t = s.table /\ ~Present(s) THEN schema[t] \cup {s.part}
                                 ELSE schema[t]
  BY <1>4 DEF SchemaAfter
<1>5. ASSUME s.op = "remove", t \in DOMAIN schema
      PROVE  SchemaAfter(s)[t] = IF t = s.table /\ Present(s)
                                 THEN {p \in schema[t] : ~SamePart(p, s.part)} ELSE schema[t]
  BY <1>5 DEF SchemaAfter
<1>6. s.op \in {"copy", "convert", "backfill", "restore"} => SchemaAfter(s) = schema
  BY DEF SchemaAfter
<1> QED
  BY <1>1, <1>2, <1>3, <1>4, <1>5, <1>6

\* With fewer parts a table asks for less, and an empty one meets every demand.
LEMMA FitsLess ==
  ASSUME NEW P, NEW Q, NEW R, Q \subseteq P, Fits(P, R)
  PROVE  Fits(Q, R)
BY DEF Fits

\* A table without rows satisfies every constraint.
LEMMA FitsEmpty ==
  ASSUME NEW P
  PROVE  Fits(P, {})
BY DEF Fits

\* Whom an alert belongs to is in no constraint.
LEMMA FitsDisowned ==
  ASSUME NEW P, NEW R \in SUBSET Row, Fits(P, R)
  PROVE  Fits(P, {[r EXCEPT !.owned = FALSE] : r \in R})
<1> DEFINE d(r) == [r EXCEPT !.owned = FALSE]
           D == {[r EXCEPT !.owned = FALSE] : r \in R}
<1>1. \A r \in R : /\ d(r).id = r.id /\ d(r).email = r.email
                   /\ d(r).server = r.server /\ d(r).token = r.token
  BY DEF Row
<1>2. D = {d(r) : r \in R}
  OBVIOUS
<1> HIDE DEF d, D
<1>3. ASSUME NEW r \in R, NEW s \in R
      PROVE  /\ "token not null" \in P => d(r).token # "null"
             /\ d(r) # d(s) =>
                  /\ d(r).id # d(s).id
                  /\ "unique email" \in P => d(r).email # d(s).email
                  /\ PairIndex \in P => <<d(r).email, d(r).server>> # <<d(s).email, d(s).server>>
                  /\ {"unique token", "idx_magic_token_unique"} \cap P # {} =>
                       ~(d(r).token = "empty" /\ d(s).token = "empty")
  <2>1. "token not null" \in P => d(r).token # "null"
    BY <1>1 DEF Fits
  <2>2. ASSUME d(r) # d(s)
        PROVE  /\ d(r).id # d(s).id
               /\ "unique email" \in P => d(r).email # d(s).email
               /\ PairIndex \in P => <<d(r).email, d(r).server>> # <<d(s).email, d(s).server>>
               /\ {"unique token", "idx_magic_token_unique"} \cap P # {} =>
                    ~(d(r).token = "empty" /\ d(s).token = "empty")
    <3>1. r # s
      BY <2>2
    <3>2. /\ r.id # s.id
          /\ "unique email" \in P => r.email # s.email
          /\ PairIndex \in P => <<r.email, r.server>> # <<s.email, s.server>>
          /\ {"unique token", "idx_magic_token_unique"} \cap P # {} =>
               ~(r.token = "empty" /\ s.token = "empty")
      BY <3>1 DEF Fits
    <3> QED
      BY <1>1, <3>2
  <2> QED
    BY <2>1, <2>2
<1>4. Fits(P, {d(r) : r \in R})
  BY <1>3 DEF Fits
<1> QED
  BY <1>2, <1>4 DEF D

\* Of two ids one is smaller.
LEMMA IdsOrdered ==
  /\ Ids \subseteq Int
  /\ \A a, b \in Int : (a # b => a < b \/ b < a) /\ (a < b => ~(b < a))
BY MigrationsAssumption DEF Ids

\* A rollback of the addresses that clashes nowhere leaves the pairs unique.
LEMMA FitsRestored ==
  ASSUME NEW P, rows["alert"] \in SUBSET Row, Fits(P, rows["alert"]),
         notify \in [Ids -> Emails \cup {Nobody}], ~RestoreClashes, UniqueEmail \notin P
  PROVE  Fits(P, {Restored(r) : r \in rows["alert"]})
<1> DEFINE R == rows["alert"]
<1>1. \A r \in R : /\ Restored(r).id = r.id /\ Restored(r).server = r.server
                   /\ Restored(r).token = r.token /\ r.id \in Int
  <2> TAKE r \in R
  <2>1. r \in Row
    OBVIOUS
  <2> QED
    BY <2>1, IdsOrdered DEF Restored, Row
<1>2. \A r, s \in R :
        /\ r.id # s.id /\ r # Restored(r) /\ r.server = s.server
        => Restored(r).email # IF s.id < r.id THEN Restored(s).email ELSE s.email
  BY DEF RestoreClashes
<1>3. \A r, s \in R : r # s => r.id # s.id
  BY DEF Fits
<1>4. ASSUME NEW r \in R, NEW s \in R, r # s, PairIndex \in P
      PROVE  Restored(r).email # Restored(s).email \/ Restored(r).server # Restored(s).server
  <2> SUFFICES ASSUME r.server = s.server, Restored(r).email = Restored(s).email
               PROVE  FALSE
    BY <1>1
  <2>0. r.id \in Int /\ s.id \in Int
    BY <1>1
  <2>1. r.id # s.id /\ (r.id < s.id \/ s.id < r.id)
    BY IdsOrdered, <1>3, <1>4, <2>0
  <2>2. r = Restored(r) \/ ~(s.id < r.id)
    BY <1>2, <2>1
  <2>3. s = Restored(s) \/ ~(r.id < s.id)
    BY <1>2, <2>1
  <2>4. CASE r.id < s.id
    <3>1. s = Restored(s)
      BY <2>3, <2>4
    <3>2. ~(s.id < r.id)
      BY IdsOrdered, <2>0, <2>4
    <3>3. r = Restored(r)
      BY <1>2, <2>1, <3>1, <3>2
    <3> QED
      BY <1>4, <3>1, <3>3 DEF Fits
  <2>5. CASE s.id < r.id
    <3>1. r = Restored(r)
      BY <2>2, <2>5
    <3>2. ~(r.id < s.id)
      BY IdsOrdered, <2>0, <2>5
    <3>3. s = Restored(s)
      BY <1>2, <2>1, <3>1, <3>2
    <3> QED
      BY <1>4, <3>1, <3>3 DEF Fits
  <2> QED
    BY <2>1, <2>4, <2>5
<1>5. \A r, s \in R : Restored(r) # Restored(s) => r # s
  OBVIOUS
<1>6. ASSUME NEW r \in R, NEW s \in R
      PROVE  /\ "token not null" \in P => Restored(r).token # "null"
             /\ Restored(r) # Restored(s) =>
                  /\ Restored(r).id # Restored(s).id
                  /\ PairIndex \in P => <<Restored(r).email, Restored(r).server>>
                                          # <<Restored(s).email, Restored(s).server>>
                  /\ {"unique token", "idx_magic_token_unique"} \cap P # {} =>
                       ~(Restored(r).token = "empty" /\ Restored(s).token = "empty")
  <2>1. "token not null" \in P => Restored(r).token # "null"
    BY <1>1 DEF Fits
  <2>2. ASSUME Restored(r) # Restored(s)
        PROVE  /\ Restored(r).id # Restored(s).id
               /\ PairIndex \in P => <<Restored(r).email, Restored(r).server>>
                                       # <<Restored(s).email, Restored(s).server>>
               /\ {"unique token", "idx_magic_token_unique"} \cap P # {} =>
                    ~(Restored(r).token = "empty" /\ Restored(s).token = "empty")
    <3>1. r # s
      BY <2>2
    <3>2. Restored(r).id # Restored(s).id
      BY <1>1, <1>3, <3>1
    <3>3. PairIndex \in P => <<Restored(r).email, Restored(r).server>>
                               # <<Restored(s).email, Restored(s).server>>
      BY <1>4, <3>1
    <3>4. {"unique token", "idx_magic_token_unique"} \cap P # {} =>
            ~(Restored(r).token = "empty" /\ Restored(s).token = "empty")
      <4>1. {"unique token", "idx_magic_token_unique"} \cap P # {} =>
              ~(r.token = "empty" /\ s.token = "empty")
        BY <3>1 DEF Fits
      <4>2. Restored(r).token = r.token /\ Restored(s).token = s.token
        BY <1>1
      <4> QED
        BY <4>1, <4>2
    <3> QED
      BY <3>2, <3>3, <3>4
  <2> QED
    BY <2>1, <2>2
<1> QED
  BY <1>6 DEF Fits, UniqueEmail

\* An alert has an address only where the table of the addresses is.
LEMMA NotifyAfterSound ==
  ASSUME NEW s, Tame(s), Works(s), Sound(schema, rows, notify), NEW i \in Ids,
         NotifyAfter(s)[i] # Nobody
  PROVE  "alert_notification_email" \in DOMAIN SchemaAfter(s)
<1> DEFINE A == "alert_notification_email"
<1>1. notify[i] # Nobody => A \in DOMAIN schema
  BY DEF Sound
<1>2. CASE s.op = "backfill"
  <2>1. A \in DOMAIN schema
    BY <1>2 DEF Works, Has
  <2> QED
    BY <1>2, <2>1, TablesAfter
<1>3. CASE s.op = "drop" /\ s.table \in {"alert", A}
  BY <1>3 DEF NotifyAfter
<1>4. CASE s.op # "backfill" /\ ~(s.op = "drop" /\ s.table \in {"alert", A})
  <2>1. NotifyAfter(s) = notify
    BY <1>4 DEF NotifyAfter
  <2>2. A \in DOMAIN schema
    BY <1>1, <2>1
  <2>3. CASE s.op = "drop"
    BY <1>4, <2>2, <2>3, TablesAfter
  <2>4. CASE s.op = "rename"
    BY <2>2, <2>4, TablesAfter DEF Tame
  <2>5. CASE s.op \in {"create", "add", "remove", "copy", "convert", "backfill", "restore"}
    BY <2>2, <2>5, TablesAfter
  <2> QED
    BY <2>3, <2>4, <2>5 DEF Tame, Calm, Drops
<1> QED
  BY <1>2, <1>3, <1>4

Stands(S, R, t) == IF t \in DOMAIN S THEN Fits(S[t], R[t]) ELSE R[t] = {}

\* What stands in the two tables after a statement that works.
LEMMA TameKeepsStanding ==
  ASSUME NEW s, Tame(s), Works(s), DataOK(schema, rows, notify, applied),
         Stands(schema, rows, "alert"), Stands(schema, rows, "alert_new"),
         s.op = "restore" => UniqueEmail \notin schema["alert"]
  PROVE  /\ Stands(SchemaAfter(s), RowsAfter(s), "alert")
         /\ Stands(SchemaAfter(s), RowsAfter(s), "alert_new")
<1> DEFINE S == SchemaAfter(s)
           R == RowsAfter(s)
           A == rows["alert"]
           N == rows["alert_new"]
<1>1. /\ rows \in [Tables -> SUBSET Row] /\ notify \in [Ids -> Emails \cup {Nobody}]
      /\ A \in SUBSET Row /\ N \in SUBSET Row
  BY DEF DataOK, Tables
<1>2. CASE s.op = "create"
  <2>1. R = rows /\ DOMAIN S = DOMAIN schema \cup {s.table}
    BY <1>1, <1>2, RowsAfterEach, TablesAfter
  <2>2. \A t : t \in DOMAIN schema => S[t] = schema[t]
    BY <1>2, PartsAfter
  <2> HIDE DEF S, R
  <2>3. ASSUME NEW t \in Tables, Stands(schema, rows, t)
        PROVE  Stands(S, R, t)
    BY <2>1, <2>2, <2>3, FitsEmpty DEF Stands
  <2> QED
    BY <2>3 DEF Tables, S, R
<1>3. CASE s.op = "drop"
  <2>1. DOMAIN S = DOMAIN schema \ {s.table} /\ s.table # "alert_new"
    BY <1>3, TablesAfter DEF Tame
  <2>2. \A t : t \in DOMAIN schema /\ t # s.table => S[t] = schema[t]
    BY <1>3, PartsAfter
  <2>3. IF s.table = "alert" THEN R = [rows EXCEPT !["alert"] = {}] ELSE R = rows
    BY <1>1, <1>3, RowsAfterEach
  <2>4. R["alert_new"] = N /\ (R["alert"] = IF s.table = "alert" THEN {} ELSE A)
    BY <1>1, <2>3 DEF Tables
  <2> HIDE DEF S, R
  <2>5. Stands(S, R, "alert_new")
    BY <2>1, <2>2, <2>4 DEF Stands
  <2>6. Stands(S, R, "alert")
    BY <2>1, <2>2, <2>4 DEF Stands
  <2> QED
    BY <2>5, <2>6 DEF S, R
<1>4. CASE s.op = "rename" /\ s.table = "alert_new"
  <2>1. s.to = "alert" /\ "alert_new" \in DOMAIN schema
    BY <1>4 DEF Tame, Works, Has
  <2>2. /\ DOMAIN S = (DOMAIN schema \ {"alert_new"}) \cup {"alert"}
        /\ S["alert"] = schema["alert_new"]
    <3>1. S[s.to] = schema[s.table]
      BY <1>4, PartsAfter
    <3>2. DOMAIN S = (DOMAIN schema \ {s.table}) \cup {s.to}
      BY <1>4, TablesAfter
    <3> QED
      BY <1>4, <2>1, <3>1, <3>2
  <2>3. R = [rows EXCEPT !["alert"] = rows["alert_new"], !["alert_new"] = {}]
    BY <1>1, <1>4, RowsAfterEach
  <2>4. R["alert"] = N /\ R["alert_new"] = {}
    BY <1>1, <2>3 DEF Tables
  <2> HIDE DEF S, R
  <2>5. Stands(S, R, "alert_new")
    BY <2>2, <2>4 DEF Stands
  <2>6. Stands(S, R, "alert")
    BY <2>1, <2>2, <2>4 DEF Stands
  <2> QED
    BY <2>5, <2>6 DEF S, R
<1>5. CASE s.op = "rename" /\ s.table # "alert_new"
  <2>1. s.table \notin {"alert", "alert_new"} /\ s.to \notin {"alert", "alert_new"}
    BY <1>5 DEF Tame
  <2>2. DOMAIN S = (DOMAIN schema \ {s.table}) \cup {s.to}
    BY <1>5, TablesAfter
  <2>3. \A t : t \in DOMAIN schema /\ t # s.table /\ t # s.to => S[t] = schema[t]
    BY <1>5, PartsAfter
  <2>4. R = rows
    BY <1>1, <1>5, RowsAfterEach
  <2> HIDE DEF S, R
  <2> QED
    BY <2>1, <2>2, <2>3, <2>4 DEF Stands, S, R
<1>6. CASE s.op = "add"
  <2>1. R = rows /\ DOMAIN S = DOMAIN schema /\ s.table # "alert_new"
    BY <1>1, <1>6, RowsAfterEach, TablesAfter DEF Tame
  <2>2. \A t : t \in DOMAIN schema =>
          S[t] = IF t = s.table /\ ~Present(s) THEN schema[t] \cup {s.part} ELSE schema[t]
    BY <1>6, PartsAfter
  <2>3. s.table = "alert" => Fits(schema["alert"] \cup {s.part}, rows["alert"])
    BY <1>6 DEF Works
  <2> HIDE DEF S, R
  <2>4. Stands(S, R, "alert_new")
    BY <2>1, <2>2 DEF Stands
  <2>5. Stands(S, R, "alert")
    BY <2>1, <2>2, <2>3 DEF Stands
  <2> QED
    BY <2>4, <2>5 DEF S, R
<1>7. CASE s.op = "remove"
  <2> DEFINE D == {[r EXCEPT !.owned = FALSE] : r \in A}
  <2>1. DOMAIN S = DOMAIN schema /\ s.table # "alert_new"
    BY <1>7, TablesAfter DEF Tame
  <2>2. \A t : t \in DOMAIN schema =>
          S[t] = IF t = s.table /\ Present(s) THEN {p \in schema[t] : ~SamePart(p, s.part)}
                 ELSE schema[t]
    BY <1>7, PartsAfter
  <2>3. R = rows \/ R = [rows EXCEPT !["alert"] = D]
    BY <1>1, <1>7, RowsAfterEach
  <2>4. A = {} => D = {}
    OBVIOUS
  <2>5. \A P : Fits(P, A) => Fits(P, D)
    BY <1>1, FitsDisowned
  <2> HIDE DEF D
  <2>6. R["alert_new"] = N /\ R["alert"] \in {A, D}
    BY <1>1, <2>3 DEF Tables
  <2> HIDE DEF S, R
  <2>7. Stands(S, R, "alert_new")
    BY <2>1, <2>2, <2>6 DEF Stands
  <2>8. Stands(S, R, "alert")
    <3>1. CASE "alert" \in DOMAIN schema
      <4>1. S["alert"] \subseteq schema["alert"] /\ Fits(schema["alert"], A)
        BY <2>2, <3>1 DEF Stands
      <4>2. Fits(S["alert"], A)
        BY <4>1, FitsLess
      <4> QED
        BY <2>1, <2>5, <2>6, <3>1, <4>2 DEF Stands
    <3>2. CASE "alert" \notin DOMAIN schema
      BY <2>1, <2>4, <2>6, <3>2 DEF Stands
    <3> QED
      BY <3>1, <3>2
  <2> QED
    BY <2>7, <2>8 DEF S, R
<1>8. CASE s.op = "copy"
  <2>1. S = schema /\ R = [rows EXCEPT !["alert_new"] = N \cup Converted(A, s.tokens)]
    BY <1>1, <1>8, PartsAfter, RowsAfterEach
  <2>2. R["alert"] = A /\ R["alert_new"] = N \cup Converted(A, s.tokens)
    BY <1>1, <2>1 DEF Tables
  <2>3. "alert_new" \in DOMAIN schema /\ Fits(schema["alert_new"], N \cup Converted(A, s.tokens))
    BY <1>8 DEF Works, Has
  <2>4. S = schema
    BY <2>1
  <2> HIDE DEF S, R
  <2> QED
    BY <2>2, <2>3, <2>4 DEF Stands, S, R
<1>9. CASE s.op = "convert"
  <2>1. S = schema /\ R = [rows EXCEPT !["alert"] = Converted(A, s.tokens)]
    BY <1>1, <1>9, PartsAfter, RowsAfterEach
  <2>2. R["alert_new"] = N /\ R["alert"] = Converted(A, s.tokens)
    BY <1>1, <2>1 DEF Tables
  <2>3. "alert" \in DOMAIN schema /\ Fits(schema["alert"], Converted(A, s.tokens))
    BY <1>9 DEF Works, Has
  <2>4. S = schema
    BY <2>1
  <2> HIDE DEF S, R
  <2> QED
    BY <2>2, <2>3, <2>4 DEF Stands, S, R
<1>10. CASE s.op = "backfill"
  <2>1. S = schema /\ R = rows
    BY <1>1, <1>10, PartsAfter, RowsAfterEach
  <2> HIDE DEF S, R
  <2> QED
    BY <2>1 DEF S, R
<1>11. CASE s.op = "restore"
  <2> DEFINE C == {Restored(r) : r \in A}
  <2>1. S = schema /\ R = [rows EXCEPT !["alert"] = C]
    BY <1>1, <1>11, PartsAfter, RowsAfterEach
  <2>2. "alert" \in DOMAIN schema /\ ~RestoreClashes /\ UniqueEmail \notin schema["alert"]
    BY <1>11 DEF Works, Has
  <2>3. Fits(schema["alert"], A)
    BY <2>2 DEF Stands
  <2>4. Fits(schema["alert"], C)
    BY <1>1, <2>2, <2>3, FitsRestored
  <2> HIDE DEF C
  <2>5. R["alert"] = C /\ R["alert_new"] = N
    BY <1>1, <2>1 DEF Tables
  <2>6. S = schema
    BY <2>1
  <2> HIDE DEF S, R
  <2> QED
    BY <2>2, <2>4, <2>5, <2>6 DEF Stands, S, R
<1> QED
  BY <1>2, <1>3, <1>4, <1>5, <1>6, <1>7, <1>8, <1>9, <1>10, <1>11 DEF Tame, Calm, Drops

\* A statement that works leaves rows that satisfy the constraints it leaves.
LEMMA TameKeepsSound ==
  ASSUME NEW s, Tame(s), Works(s), DataOK(schema, rows, notify, applied),
         Sound(schema, rows, notify),
         s.op = "restore" => UniqueEmail \notin schema["alert"]
  PROVE  Sound(SchemaAfter(s), RowsAfter(s), NotifyAfter(s))
<1>1. Stands(schema, rows, "alert") /\ Stands(schema, rows, "alert_new")
  BY DEF Sound, Stands, Tables
<1>2. /\ Stands(SchemaAfter(s), RowsAfter(s), "alert")
      /\ Stands(SchemaAfter(s), RowsAfter(s), "alert_new")
  BY <1>1, TameKeepsStanding
<1>3. \A i \in Ids : NotifyAfter(s)[i] # Nobody =>
        "alert_notification_email" \in DOMAIN SchemaAfter(s)
  BY NotifyAfterSound
<1> QED
  BY <1>2, <1>3 DEF Sound, Stands, Tables

\* Where a part of a table comes from.
LEMMA PartsFrom ==
  ASSUME NEW s, Tame(s), Works(s), NEW t, NEW p, t \in DOMAIN SchemaAfter(s), p \in SchemaAfter(s)[t]
  PROVE  \/ t \in DOMAIN schema /\ p \in schema[t]
         \/ Creates(s, t) /\ p \in s.parts
         \/ Adds(s, t, p)
         \/ s.op = "rename" /\ s.to = t /\ p \in schema[s.table]
<1> DEFINE S == SchemaAfter(s)
<1>1. CASE s.op = "create"
  <2>1. DOMAIN S = DOMAIN schema \cup {s.table}
    BY <1>1, TablesAfter
  <2>2. t \in DOMAIN schema => S[t] = schema[t]
    BY <1>1, PartsAfter
  <2>3. t = s.table /\ t \notin DOMAIN schema => S[t] = s.parts
    BY <1>1, PartsAfter
  <2> HIDE DEF S
  <2> QED
    BY <1>1, <2>1, <2>2, <2>3 DEF Creates, S
<1>2. CASE s.op = "drop"
  BY <1>2, TablesAfter, PartsAfter
<1>3. CASE s.op = "rename"
  <2>1. DOMAIN S = (DOMAIN schema \ {s.table}) \cup {s.to}
    BY <1>3, TablesAfter
  <2>2. S[s.to] = schema[s.table]
    BY <1>3, PartsAfter
  <2>3. t \in DOMAIN schema /\ t # s.table /\ t # s.to => S[t] = schema[t]
    BY <1>3, PartsAfter
  <2> HIDE DEF S
  <2> QED
    BY <1>3, <2>1, <2>2, <2>3 DEF S
<1>4. CASE s.op = "add"
  BY <1>4, TablesAfter, PartsAfter DEF Adds
<1>5. CASE s.op = "remove"
  BY <1>5, TablesAfter, PartsAfter
<1>6. CASE s.op \in {"copy", "convert", "backfill", "restore"}
  BY <1>6, TablesAfter, PartsAfter
<1> QED
  BY <1>1, <1>2, <1>3, <1>4, <1>5, <1>6 DEF Tame, Calm, Drops

\* The first migration, and the rollbacks that PostgreSQL comes to.
LEMMA FirstFacts ==
  Len(Up[1]) = 2 /\ Adds(Up[1][2], "alert", RowIndex) /\ ~Up[1][2].lenient
BY DEF Up, AlertTableUp, Add, Adds

\* The rollbacks of the statistics touch no alert.
LEMMA StatsDownFacts ==
  /\ Len(Down[3]) = 4 /\ Len(Down[4]) = 4
  /\ \A i \in 1..4 : Down[3][i].table # "alert" /\ Down[4][i].table # "alert"
<1>1. /\ Len(FederationStatsDown) = 4
      /\ FederationStatsDown[1].table # "alert" /\ FederationStatsDown[2].table # "alert"
      /\ FederationStatsDown[3].table # "alert" /\ FederationStatsDown[4].table # "alert"
  BY DEF FederationStatsDown, Drop, Remove
<1>2. /\ Len(UnstableDown) = 4
      /\ UnstableDown[1].table # "alert" /\ UnstableDown[2].table # "alert"
      /\ UnstableDown[3].table # "alert" /\ UnstableDown[4].table # "alert"
  BY DEF UnstableDown, RemoveAll, Unstable, Remove
<1>3. Down[3] = FederationStatsDown /\ Down[4] = UnstableDown
  BY DEF Down
<1> QED
  BY <1>1, <1>2, <1>3

\* The parts of alert that fix_oauth_alert_magic_token and its rollback rebuild it with.
LEMMA MagicStatements ==
  ASSUME JobOK, DataOK(schema, rows, notify, applied), Running, backend = "sqlite", Migration = 18
  PROVE  Statements[1].parts = MagicParts /\ Len(Statements) >= 6 /\ UniqueEmail \notin MagicParts
<1>1. job.dir \in {"up", "down"} /\ Statements = IF job.dir = "up" THEN Up[18] ELSE Down[18]
  BY StatementsListed
<1>2. MagicTokenFact(Up[18], Down[18])
  BY RebuildFacts
<1>3. Statements[1].parts = MagicParts /\ Len(Statements) >= 6
  <2>1. /\ Up[18][1].parts = Kept /\ Len(Up[18]) = 7 /\ Len(Down[18]) = 6
        /\ Down[18][1].parts = KeptDown
    BY <1>2 DEF MagicTokenFact
  <2>2. CASE job.dir = "up"
    <3>0. Len(Statements) = 7
      BY <1>1, <2>1, <2>2
    <3>00. 7 >= 6
      OBVIOUS
    <3>1. Statements = Up[18] /\ MagicParts = Kept
      BY <1>1, <2>2 DEF MagicParts
    <3> QED
      BY <2>1, <3>0, <3>00, <3>1
  <2>3. CASE job.dir = "down"
    <3>0. Len(Statements) = 6
      BY <1>1, <2>1, <2>3
    <3>00. 6 >= 6
      OBVIOUS
    <3>1. Statements = Down[18] /\ MagicParts = KeptDown
      BY <1>1, <2>3 DEF MagicParts
    <3> QED
      BY <2>1, <3>0, <3>00, <3>1
  <2> QED
    BY <1>1, <2>2, <2>3
<1>4. UniqueEmail \notin Kept /\ UniqueEmail \notin KeptDown
  <2>1. /\ Tracking[1] # UniqueEmail /\ Tracking[2] # UniqueEmail /\ Tracking[3] # UniqueEmail
        /\ Tracking[4] # UniqueEmail /\ Tracking[5] # UniqueEmail /\ Tracking[6] # UniqueEmail
    BY DEF Tracking, UniqueEmail
  <2>2. DOMAIN Tracking = 1..6
    BY DEF Tracking
  <2>3. \A i \in 1..6 : i = 1 \/ i = 2 \/ i = 3 \/ i = 4 \/ i = 5 \/ i = 6
    OBVIOUS
  <2>4. UniqueEmail \notin {Tracking[i] : i \in DOMAIN Tracking}
    BY <2>1, <2>2, <2>3
  <2> QED
    BY <2>4 DEF Kept, KeptDown, UniqueEmail
<1> QED
  BY <1>3, <1>4 DEF MagicParts

\* Starting a command keeps the rows sound, and what a transaction would restore too.
LEMMA StartSound ==
  ASSUME Inv, SoundInv, NEW dir \in {"up", "down"}, NEW n, Start(dir, n)
  PROVE  SoundInv'
<1>1. /\ job = Idle /\ job' = [dir |-> dir, at |-> 1, left |-> n]
      /\ saved' = OnSqlite(<<>>, Transaction)
      /\ UNCHANGED <<backend, schema, rows, notify, applied>>
  BY DEF Start, Running, database
<1>2. job'.at = 1 /\ job'.dir = dir /\ job.dir = "none"
  BY <1>1 DEF Idle
<1>3. Sound(schema, rows, notify)'
  BY <1>1 DEF SoundInv, Sound
<1>4. backend # "sqlite" => saved' = [schema |-> schema, rows |-> rows, notify |-> notify,
                                      applied |-> applied]
  BY <1>1 DEF OnSqlite, Transaction
<1>5. SavedSound'
  BY <1>1, <1>4 DEF SoundInv, SavedSound, Sound
<1>6. MagicInv'
  BY <1>2 DEF MagicInv
<1>7. LateInv'
  <2> SUFFICES ASSUME backend = "sqlite", "alert" \in DOMAIN schema, applied >= 18
               PROVE  UniqueEmail \notin schema["alert"]
    <3>1. ~(job'.at >= 5)
      BY <1>2
    <3>2. schema' = schema /\ backend' = backend /\ applied' = applied
      BY <1>1
    <3> QED
      BY <3>1, <3>2 DEF LateInv, Has
  <2> QED
    BY DEF SoundInv, LateInv, Has
<1>8. PostgresInv'
  <2> SUFFICES ASSUME backend # "sqlite"
               PROVE  PostgresInv'
    BY <1>1 DEF PostgresInv
  <2>1. applied \in 0..Last
    BY DEF Inv, DataOK
  <2>2. applied <= 4 /\ (applied >= 1 => Has("alert") /\ RowIndex \in schema["alert"])
    BY <1>2 DEF SoundInv, PostgresInv
  <2>3. Stuck(saved.schema, saved.applied)'
    BY <1>4, <2>2 DEF Stuck, Has
  <2> QED
    BY <1>1, <1>2, <2>1, <2>2, <2>3 DEF PostgresInv, Has
<1> QED
  BY <1>3, <1>5, <1>6, <1>7, <1>8 DEF SoundInv

\* So does the end of a statement that fails: what a transaction restores is sound.
LEMMA RollBackSound ==
  ASSUME Inv, SoundInv, Running, RollBack, job' = Idle, backend' = backend
  PROVE  SoundInv'
<1>1. ~Running' /\ job'.dir = "none"
  BY DEF Running, Idle
<1>2. SavedSound' /\ MagicInv'
  BY <1>1 DEF SavedSound, MagicInv
<1>3. CASE backend = "sqlite"
  <2>1. UNCHANGED <<schema, rows, notify, applied>>
    BY <1>3 DEF RollBack, OnSqlite, database
  <2>2. Sound(schema, rows, notify)'
    BY <2>1 DEF SoundInv, Sound
  <2>3. LateInv' /\ PostgresInv'
    BY <1>1, <1>3, <2>1 DEF SoundInv, LateInv, PostgresInv, Has
  <2> QED
    BY <1>2, <2>2, <2>3 DEF SoundInv
<1>4. CASE backend # "sqlite"
  <2>1. /\ schema' = saved.schema /\ rows' = saved.rows
        /\ notify' = saved.notify /\ applied' = saved.applied
    BY <1>4 DEF RollBack, OnSqlite
  <2>2. Sound(saved.schema, saved.rows, saved.notify) /\ Stuck(saved.schema, saved.applied)
    BY <1>4 DEF SoundInv, SavedSound, PostgresInv
  <2>3. Sound(schema, rows, notify)'
    BY <2>1, <2>2 DEF Sound
  <2>4. LateInv' /\ PostgresInv'
    BY <1>1, <1>4, <2>1, <2>2 DEF LateInv, PostgresInv, Stuck, Has
  <2> QED
    BY <1>2, <2>3, <2>4 DEF SoundInv
<1> QED
  BY <1>3, <1>4

\* So does recording a migration, and starting the next one.
LEMMA RecordSound ==
  ASSUME Inv, SoundInv, Record
  PROVE  SoundInv'
<1>1. /\ Running /\ job.at > Len(Statements)
      /\ applied' = IF job.dir = "up" THEN applied + 1 ELSE applied - 1
      /\ \/ job' = Idle
         \/ job.left # 1 /\ job' = [job EXCEPT !.at = 1, !.left = @ - 1] /\ saved' = saved
      /\ UNCHANGED <<backend, schema, rows, notify>>
  BY DEF Record, Finish
<1>2. /\ JobOK /\ DataOK(schema, rows, notify, applied)
  BY DEF Inv
<1>3. /\ job \in [dir : {"up", "down"}, at : Nat \ {0}, left : Nat \ {0}]
      /\ applied \in 0..Last /\ Len(Statements) \in Nat
      /\ job.dir = "up" => Migration = applied + 1
      /\ job.dir = "down" => applied >= 1 /\ job.left = 1 /\ Migration = applied
      /\ Statements = IF job.dir = "up" THEN Up[Migration] ELSE Down[Migration]
  BY <1>1, <1>2, RunningJob, StatementsListed DEF JobOK, DataOK, Running
<1> DEFINE more == [job EXCEPT !.at = 1, !.left = @ - 1]
<1>31. more.dir = job.dir /\ more.at = 1 /\ job.dir \in {"up", "down"} /\ job.at \in Nat
  BY <1>3
<1> HIDE DEF more
<1>4. \/ job' = Idle /\ job'.dir = "none"
      \/ job'.dir = "up" /\ job'.at = 1 /\ saved' = saved /\ job.dir = "up"
  <2>1. CASE job' = Idle
    BY <2>1 DEF Idle
  <2>2. CASE job.left # 1 /\ job' = more /\ saved' = saved
    BY <1>3, <1>31, <2>2
  <2> QED
    BY <1>1, <2>1, <2>2 DEF more
<1>5. Sound(schema, rows, notify)'
  BY <1>1 DEF SoundInv, Sound
<1>6. SavedSound'
  <2>1. CASE job' = Idle
    BY <2>1 DEF SavedSound, Running
  <2>2. CASE saved' = saved
    BY <1>1, <2>2 DEF SavedSound, SoundInv, Sound
  <2> QED
    BY <1>4, <2>1, <2>2
<1>7. MagicInv'
  BY <1>4 DEF MagicInv, Running
<1>8. LateInv'
  <2> SUFFICES ASSUME backend = "sqlite", Has("alert"), applied' >= 18
               PROVE  UniqueEmail \notin schema["alert"]
    <3>1. (job.dir = "up" /\ applied = 17 /\ job.at >= 5)' => FALSE
      BY <1>4
    <3>2. schema' = schema /\ backend' = backend
      BY <1>1
    <3> QED
      BY <3>1, <3>2 DEF LateInv, Has
  <2>1. CASE job.dir = "up" /\ applied = 17
    <3>1. Migration = 18
      BY <1>3, <2>1
    <3>2. Len(Statements) >= 6
      BY <1>1, <1>2, <3>1, MagicStatements
    <3>3. job.at >= 5
      BY <1>1, <1>3, <1>31, <3>2
    <3> QED
      BY <2>1, <3>3 DEF SoundInv, LateInv
  <2>2. CASE job.dir = "up" /\ applied # 17
    <3>1. applied >= 18
      BY <1>1, <1>3, <2>2
    <3> QED
      BY <3>1 DEF SoundInv, LateInv
  <2>3. CASE job.dir = "down"
    <3>1. applied >= 18
      BY <1>1, <1>3, <2>3
    <3> QED
      BY <3>1 DEF SoundInv, LateInv
  <2> QED
    BY <1>3, <2>1, <2>2, <2>3
<1>9. PostgresInv'
  <2> SUFFICES ASSUME backend # "sqlite"
               PROVE  PostgresInv'
    BY <1>1 DEF PostgresInv
  <2>1. /\ applied <= 4 /\ Stuck(saved.schema, saved.applied)
        /\ job.dir = "up" /\ applied = 4 => job.at = 1
        /\ \/ applied >= 1 /\ ~(job.dir = "down" /\ applied = 1 /\ job.at >= 2)
           \/ job.dir = "up" /\ job.at >= 3
           => Has("alert") /\ RowIndex \in schema["alert"]
    BY <1>1 DEF SoundInv, PostgresInv
  <2>2. ~(job.dir = "up" /\ applied = 4)
    <3> SUFFICES ASSUME job.dir = "up", applied = 4
                 PROVE  FALSE
      OBVIOUS
    <3>1. Statements = Up[5]
      BY <1>3
    <3>2. Len(Statements) = 1
      BY <3>1, PostgresFacts
    <3> QED
      BY <1>1, <2>1, <3>2
  <2>3. job.dir = "up" /\ applied = 0 => job.at >= 3
    <3> SUFFICES ASSUME job.dir = "up", applied = 0
                 PROVE  job.at >= 3
      OBVIOUS
    <3>1. Statements = Up[1]
      BY <1>3
    <3>2. Len(Statements) = 2
      BY <3>1, FirstFacts
    <3> QED
      BY <1>1, <1>31, <3>2
  <2>4. applied' <= 4
    <3>0. applied \in Nat
      BY <1>3 DEF Last
    <3>1. applied \in Nat /\ applied <= 4
      BY <2>1, <3>0
    <3>2. CASE job.dir = "up"
      BY <1>1, <2>2, <3>1, <3>2
    <3>3. CASE job.dir = "down"
      BY <1>1, <3>1, <3>3
    <3> QED
      BY <1>31, <3>2, <3>3
  <2>5. applied' >= 1 => Has("alert") /\ RowIndex \in schema["alert"]
    <3>1. CASE job.dir = "up"
      BY <1>3, <2>1, <2>3, <3>1 DEF Last
    <3>2. CASE job.dir = "down"
      BY <1>1, <1>3, <2>1, <3>2 DEF Last
    <3> QED
      BY <1>3, <3>1, <3>2
  <2>6. (applied >= 1)' \/ (job.dir = "up" /\ job.at >= 3)' =>
          Has("alert")' /\ (RowIndex \in schema["alert"])'
    BY <1>1, <1>4, <2>5 DEF Has
  <2>7. Running' => Stuck(saved.schema, saved.applied)'
    BY <1>4, <2>1 DEF Running, Stuck
  <2>8. (job.dir = "up" /\ applied = 4)' => (job.at = 1)'
    BY <1>4
  <2> QED
    BY <2>4, <2>6, <2>7, <2>8 DEF PostgresInv
<1> QED
  BY <1>5, <1>6, <1>7, <1>8, <1>9 DEF SoundInv

\* A row is inserted only where it satisfies the constraints.
LEMMA InsertSound ==
  ASSUME Inv, SoundInv, NEW r \in Row, Insert(r)
  PROVE  SoundInv'
<1>1. /\ ~Running /\ Has("alert") /\ Fits(schema["alert"], rows["alert"] \cup {r})
      /\ rows' = [rows EXCEPT !["alert"] = @ \cup {r}]
      /\ notify' = IF r.owned /\ Has("alert_notification_email") THEN [notify EXCEPT ![r.id] = r.email]
                   ELSE notify
      /\ UNCHANGED <<backend, schema, applied, job>>
  BY DEF Insert
<1>2. rows \in [Tables -> SUBSET Row] /\ notify \in [Ids -> Emails \cup {Nobody}]
  BY DEF Inv, DataOK
<1>3. rows'["alert"] = rows["alert"] \cup {r} /\ rows'["alert_new"] = rows["alert_new"]
  BY <1>1, <1>2 DEF Tables
<1>4. \A i \in Ids : notify'[i] # Nobody => "alert_notification_email" \in DOMAIN schema
  <2> TAKE i \in Ids
  <2>1. CASE r.owned /\ Has("alert_notification_email")
    BY <2>1 DEF Has
  <2>2. CASE ~(r.owned /\ Has("alert_notification_email"))
    BY <1>1, <2>2 DEF SoundInv, Sound
  <2> QED
    BY <2>1, <2>2
<1>5. Sound(schema, rows, notify)'
  BY <1>1, <1>3, <1>4 DEF SoundInv, Sound, Tables, Has
<1>6. ~Running'
  BY <1>1 DEF Running, Idle
<1>7. SavedSound' /\ MagicInv'
  BY <1>6 DEF SavedSound, MagicInv
<1>8. LateInv' /\ PostgresInv'
  BY <1>1, <1>6 DEF SoundInv, LateInv, PostgresInv, Has
<1> QED
  BY <1>5, <1>7, <1>8 DEF SoundInv

\* What touches no table keeps the rows sound.
LEMMA RestSound ==
  ASSUME Inv, SoundInv, UNCHANGED <<backend, schema, rows, applied, job, saved>>,
         \A i \in Ids : notify'[i] # Nobody => notify[i] # Nobody
  PROVE  SoundInv'
<1>1. Sound(schema, rows, notify)'
  BY DEF SoundInv, Sound
<1>2. SavedSound' /\ MagicInv' /\ LateInv' /\ PostgresInv'
  BY DEF SoundInv, SavedSound, MagicInv, LateInv, PostgresInv, Running, Idle, Migration, Has, Sound,
         Stuck, MagicParts
<1> QED
  BY <1>1, <1>2 DEF SoundInv

\* A statement that works, and what it leaves of the command.
LEMMA Executed ==
  ASSUME JobOK, DataOK(schema, rows, notify, applied), Execute, NEW s, s = Statements[job.at]
  PROVE  /\ Running /\ job.at <= Len(Statements) /\ Works(s)
         /\ schema' = SchemaAfter(s) /\ rows' = RowsAfter(s) /\ notify' = NotifyAfter(s)
         /\ UNCHANGED <<backend, applied, saved, outcome, torn>>
         /\ job.at \in Nat \ {0} /\ job.dir \in {"up", "down"} /\ Migration \in 1..Last
         /\ job'.dir = job.dir /\ job'.at = job.at + 1 /\ Running' /\ Migration' = Migration
         /\ job.dir = "up" => Migration = applied + 1
         /\ job.dir = "down" => Migration = applied
         /\ applied \in 0..Last
<1>1. /\ Running /\ job.at <= Len(Statements) /\ Works(s)
      /\ schema' = SchemaAfter(s) /\ rows' = RowsAfter(s) /\ notify' = NotifyAfter(s)
      /\ UNCHANGED <<backend, applied, saved, outcome, torn>>
      /\ job' = [job EXCEPT !.at = @ + 1]
  BY DEF Execute
<1>2. /\ job \in [dir : {"up", "down"}, at : Nat \ {0}, left : Nat \ {0}]
      /\ Migration \in 1..Last
      /\ job.dir = "up" => Migration = applied + 1
      /\ job.dir = "down" => Migration = applied
      /\ applied \in 0..Last
  BY <1>1, RunningJob DEF DataOK
<1>3. job'.dir = job.dir /\ job'.at = job.at + 1 /\ job' # Idle
  BY <1>1, <1>2 DEF Idle
<1> QED
  BY <1>1, <1>2, <1>3 DEF Running, Migration

\* So does a statement that works, on either backend.
LEMMA ExecuteSound ==
  ASSUME Inv, SoundInv, Execute
  PROVE  SoundInv'
<1> DEFINE s == Statements[job.at]
<1>1. JobOK /\ DataOK(schema, rows, notify, applied)
  BY DEF Inv
<1>2. /\ Running /\ job.at <= Len(Statements) /\ Works(s)
      /\ schema' = SchemaAfter(s) /\ rows' = RowsAfter(s) /\ notify' = NotifyAfter(s)
      /\ UNCHANGED <<backend, applied, saved>>
      /\ job.at \in Nat \ {0} /\ job.dir \in {"up", "down"} /\ Migration \in 1..Last
      /\ job'.dir = job.dir /\ job'.at = job.at + 1 /\ Running' /\ Migration' = Migration
      /\ job.dir = "up" => Migration = applied + 1
      /\ job.dir = "down" => Migration = applied
      /\ applied \in 0..Last
  BY <1>1, Executed
<1>3. Tame(s) /\ (s.op = "restore" => applied = 21)
  BY <1>1, <1>2, StatementIsTame DEF SoundInv, PostgresInv
<1>4. s.op = "restore" => UniqueEmail \notin schema["alert"]
  <2> SUFFICES ASSUME s.op = "restore"
               PROVE  UniqueEmail \notin schema["alert"]
    OBVIOUS
  <2>1. applied = 21 /\ Has("alert")
    BY <1>2, <1>3 DEF Works
  <2>2. backend = "sqlite"
    BY <2>1 DEF SoundInv, PostgresInv
  <2> QED
    BY <2>1, <2>2 DEF SoundInv, LateInv
<1>5. Sound(schema, rows, notify)'
  <2>1. Sound(SchemaAfter(s), RowsAfter(s), NotifyAfter(s))
    BY <1>1, <1>2, <1>3, <1>4, TameKeepsSound DEF SoundInv
  <2> QED
    BY <1>2, <2>1 DEF Sound
<1>6. SavedSound'
  BY <1>2 DEF SavedSound, SoundInv, Sound
<1>7. backend = "sqlite" /\ Migration = 18 => job.at \in 1..7 /\ RebuildStep(s, job.at)
  BY <1>1, <1>2, StatementOf
<1>8. MagicInv'
  <2> SUFFICES ASSUME backend = "sqlite", Migration = 18, job.at + 1 \in 2..4
               PROVE  "alert_new" \in DOMAIN SchemaAfter(s) /\ SchemaAfter(s)["alert_new"] = MagicParts
    BY <1>2 DEF MagicInv, MagicParts, Has
  <2>1. job.at = 1 \/ job.at = 2 \/ job.at = 3
    BY <1>2
  <2>2. CASE job.at = 1
    <3>1. s.op = "create" /\ s.table = "alert_new" /\ ~s.lenient
      BY <1>7, <2>2 DEF RebuildStep, Creates
    <3>2. "alert_new" \notin DOMAIN schema
      BY <1>2, <3>1 DEF Works, Has
    <3>3. s.parts = MagicParts
      BY <1>1, <1>2, <2>2, MagicStatements
    <3>4. SchemaAfter(s)["alert_new"] = s.parts
      BY <3>1, <3>2, PartsAfter
    <3>5. "alert_new" \in DOMAIN SchemaAfter(s)
      BY <3>1, TablesAfter
    <3> QED
      BY <3>3, <3>4, <3>5
  <2>3. CASE job.at = 2 \/ job.at = 3
    <3>1. job.at \in 2..4
      BY <2>3
    <3>2. "alert_new" \in DOMAIN schema /\ schema["alert_new"] = MagicParts
      BY <1>2, <3>1 DEF SoundInv, MagicInv, Has
    <3>3. s.op = "copy" \/ (s.op = "drop" /\ s.table = "alert")
      BY <1>7, <2>3 DEF RebuildStep, Drops
    <3>4. CASE s.op = "copy"
      BY <3>2, <3>4, PartsAfter
    <3>5. CASE s.op = "drop" /\ s.table = "alert"
      BY <3>2, <3>5, PartsAfter, TablesAfter
    <3> QED
      BY <3>3, <3>4, <3>5
  <2> QED
    BY <2>1, <2>2, <2>3
<1>9. LateInv'
  <2> SUFFICES ASSUME backend = "sqlite", "alert" \in DOMAIN SchemaAfter(s),
                      applied >= 18 \/ (job.dir = "up" /\ applied = 17 /\ job.at + 1 >= 5),
                      UniqueEmail \in SchemaAfter(s)["alert"]
               PROVE  FALSE
    BY <1>2 DEF LateInv, Has
  <2>1. Migration >= 18
    BY <1>2
  <2>2. CASE Migration = 18 /\ job.at = 4
    <3>1. s.op = "rename" /\ s.table = "alert_new" /\ s.to = "alert"
      BY <1>7, <2>2 DEF RebuildStep
    <3>2. SchemaAfter(s)[s.to] = schema[s.table]
      BY <3>1, PartsAfter
    <3>3. job.at \in 2..4
      BY <2>2
    <3>4. schema["alert_new"] = MagicParts
      BY <1>2, <2>2, <3>3 DEF SoundInv, MagicInv
    <3>5. UniqueEmail \notin MagicParts
      BY <1>1, <1>2, <2>2, MagicStatements
    <3> QED
      BY <3>1, <3>2, <3>4, <3>5
  <2>3. CASE ~(Migration = 18 /\ job.at = 4)
    <3>1. applied >= 18 \/ (job.dir = "up" /\ applied = 17 /\ job.at >= 5)
      BY <1>2, <2>3
    <3>2. "alert" \in DOMAIN schema => UniqueEmail \notin schema["alert"]
      BY <3>1 DEF SoundInv, LateInv, Has
    <3>3. \/ Creates(s, "alert") /\ UniqueEmail \in s.parts
          \/ Adds(s, "alert", UniqueEmail)
          \/ s.op = "rename" /\ s.to = "alert" /\ UniqueEmail \in schema[s.table]
      BY <1>2, <1>3, <3>2, PartsFrom
    <3>4. CASE Migration = 18
      <4>1. /\ job.at = 1 => Creates(s, "alert_new")
            /\ job.at = 2 => s.op = "copy"
            /\ job.at = 3 => Drops(s, "alert")
            /\ job.at >= 5 => Follows(s)
        BY <1>7, <3>4 DEF RebuildStep
      <4>2. job.at = 1 \/ job.at = 2 \/ job.at = 3 \/ job.at >= 5
        BY <1>7, <2>3, <3>4
      <4>3. UniqueEmail \notin Indexes4
        BY DEF UniqueEmail, Indexes4, RowIndex, PairIndex
      <4> QED
        BY <3>3, <4>1, <4>2, <4>3 DEF Creates, Drops, Adds, Follows
    <3>5. CASE Migration # 18
      <4>1. Migration \notin {2, 5, 15, 18} /\ Migration > 5
        BY <1>2, <2>1, <3>5
      <4>2. CASE job.dir = "up"
        <5>1. UpFact(Migration, job.at, s)
          BY <1>1, <1>2, <4>1, <4>2, StatementOf
        <5> QED
          BY <3>3, <4>1, <5>1 DEF UpFact, Creates, Adds
      <4>3. CASE job.dir = "down"
        <5>1. DownFact(Migration, job.at, s)
          BY <1>1, <1>2, <4>1, <4>3, StatementOf
        <5> QED
          BY <3>3, <5>1 DEF DownFact, PlainFact, Creates, Adds
      <4> QED
        BY <1>2, <4>2, <4>3
    <3> QED
      BY <3>4, <3>5
  <2> QED
    BY <2>2, <2>3
<1>10. PostgresInv'
  <2> SUFFICES ASSUME backend # "sqlite"
               PROVE  PostgresInv'
    BY <1>2 DEF PostgresInv
  <2>1. /\ applied <= 4 /\ Stuck(saved.schema, saved.applied)
        /\ job.dir = "up" /\ applied = 4 => job.at = 1
        /\ \/ applied >= 1 /\ ~(job.dir = "down" /\ applied = 1 /\ job.at >= 2)
           \/ job.dir = "up" /\ job.at >= 3
           => Has("alert") /\ RowIndex \in schema["alert"]
    BY <1>2 DEF SoundInv, PostgresInv
  <2>2. applied \in Nat
    BY <1>2 DEF Last
  <2>3. ~(job.dir = "up" /\ applied = 4)
    <3> SUFFICES ASSUME job.dir = "up", applied = 4
                 PROVE  FALSE
      OBVIOUS
    <3>1. Migration = 5
      BY <1>2
    <3>2. Adds(s, "alert", PairIndex) /\ ~s.lenient
      BY <1>1, <1>2, <3>1, StatementOf
    <3>3. Has("alert") /\ RowIndex \in schema["alert"]
      BY <2>1
    <3>4. Present(s)
      BY <3>2, <3>3 DEF Present, Adds, SamePart
    <3> QED
      BY <1>2, <3>2, <3>4 DEF Works, Adds
  <2>4. ASSUME \/ applied >= 1 /\ ~(job.dir = "down" /\ applied = 1 /\ job.at + 1 >= 2)
               \/ job.dir = "up" /\ job.at + 1 >= 3
        PROVE  "alert" \in DOMAIN SchemaAfter(s) /\ RowIndex \in SchemaAfter(s)["alert"]
    <3>1. CASE applied = 0
      <4>1. job.dir = "up" /\ Migration = 1 /\ job.at >= 2
        BY <1>2, <2>2, <2>4, <3>1
      <4>2. Statements = Up[1]
        BY <1>1, <1>2, <4>1, StatementsListed
      <4>3. job.at = 2
        <5>1. Len(Statements) = 2
          BY <4>2, FirstFacts
        <5> QED
          BY <1>2, <4>1, <5>1
      <4>4. Adds(s, "alert", RowIndex)
        BY <4>2, <4>3, FirstFacts
      <4>5. "alert" \in DOMAIN schema
        BY <1>2, <4>4 DEF Works, Adds, Has
      <4> QED
        <5>1. SchemaAfter(s)["alert"] = IF ~Present(s) THEN schema["alert"] \cup {RowIndex}
                                        ELSE schema["alert"]
          <6>1. s.op = "add" /\ s.table = "alert" /\ s.part = RowIndex
            BY <4>4 DEF Adds
          <6>2. SchemaAfter(s)["alert"] = IF "alert" = s.table /\ ~Present(s)
                                          THEN schema["alert"] \cup {s.part} ELSE schema["alert"]
            BY <4>5, <6>1, PartsAfter
          <6> QED
            BY <6>1, <6>2
        <5>2. DOMAIN SchemaAfter(s) = DOMAIN schema
          BY <4>4, TablesAfter DEF Adds
        <5>3. Present(s) => s.lenient
          BY <1>2, <4>4 DEF Works, Adds
        <5>4. ~s.lenient
          BY <4>2, <4>3, FirstFacts
        <5> QED
          BY <4>5, <5>1, <5>2, <5>3, <5>4
    <3>2. CASE applied # 0
      <4>1. applied >= 1 /\ ~(job.dir = "down" /\ applied = 1)
        BY <1>2, <2>2, <2>4, <3>2
      <4>2. "alert" \in DOMAIN schema /\ RowIndex \in schema["alert"]
        BY <2>1, <4>1 DEF Has
      <4>3. \/ s.op \in {"create", "add", "backfill"}
            \/ s.op \in {"drop", "remove"} /\ s.table # "alert"
            \/ s.op = "remove" /\ s.table = "alert" /\ ~OnPair(s.part)
        <5>1. CASE Migration = 2
          BY <1>1, <1>2, <5>1, StatementOf DEF PostgresStep
        <5>2. CASE job.dir = "up" /\ Migration # 2
          <6>1. Migration \notin {2, 5, 15, 18}
            BY <1>2, <2>1, <2>2, <2>3, <5>2
          <6>2. UpFact(Migration, job.at, s)
            BY <1>1, <1>2, <5>2, <6>1, StatementOf
          <6> QED
            BY <6>2 DEF UpFact
        <5>3. CASE job.dir = "down" /\ Migration # 2
          <6>1. Migration = 3 \/ Migration = 4
            BY <1>2, <2>1, <2>2, <4>1, <5>3
          <6>2. DownFact(Migration, job.at, s)
            <7>1. Migration \notin {2, 5, 15, 18}
              BY <6>1
            <7> QED
              BY <1>1, <1>2, <5>3, <7>1, StatementOf
          <6>3. Statements = Down[3] \/ Statements = Down[4]
            BY <1>1, <1>2, <5>3, <6>1, StatementsListed
          <6>4. job.at \in 1..4
            BY <1>2, <6>3, StatsDownFacts
          <6>5. s.table # "alert"
            BY <6>3, <6>4, StatsDownFacts
          <6>6. s.op \in {"drop", "remove"} \/ s.op = "restore"
            BY <6>2 DEF DownFact, PlainFact
          <6>7. s.op # "restore"
            BY <1>3, <2>1
          <6> QED
            BY <6>5, <6>6, <6>7
        <5> QED
          BY <1>2, <5>1, <5>2, <5>3
      <4>4. CASE s.op \in {"create", "add", "backfill"}
        BY <4>2, <4>4, TablesAfter, PartsAfter
      <4>5. CASE s.op \in {"drop", "remove"} /\ s.table # "alert"
        BY <4>2, <4>5, TablesAfter, PartsAfter
      <4>6. CASE s.op = "remove" /\ s.table = "alert" /\ ~OnPair(s.part)
        <5>1. ~SamePart(RowIndex, s.part)
          BY <4>6 DEF SamePart, OnPair
        <5> QED
          BY <4>2, <4>6, <5>1, TablesAfter, PartsAfter
      <4> QED
        BY <4>3, <4>4, <4>5, <4>6
    <3> QED
      BY <3>1, <3>2
  <2> QED
    BY <1>2, <2>1, <2>3, <2>4 DEF PostgresInv, Has, Stuck
<1> QED
  BY <1>5, <1>6, <1>8, <1>9, <1>10 DEF SoundInv

\* The rows satisfy the constraints of their tables in every state.
LEMMA SoundInvIsInductive == Spec => []SoundInv
<1>1. Init => SoundInv
  <2> SUFFICES ASSUME Init
               PROVE  SoundInv
    OBVIOUS
  <2>1. Sound(schema, rows, notify) /\ ~Running /\ applied = 0 /\ job.dir = "none" /\ ~Has("alert")
    BY DEF Init, Sound, Tables, Running, Idle, Has
  <2> QED
    BY <2>1 DEF SoundInv, SavedSound, MagicInv, LateInv, PostgresInv
<1>2. Inv /\ SoundInv /\ [Next]_vars => SoundInv'
  <2> SUFFICES ASSUME Inv, SoundInv, [Next]_vars
               PROVE  SoundInv'
    OBVIOUS
  <2>1. CASE StartUp
    BY <2>1, StartSound DEF StartUp
  <2>2. CASE StartDown
    BY <2>2, StartSound DEF StartDown
  <2>3. CASE Execute
    BY <2>3, ExecuteSound
  <2>4. CASE Fails
    BY <2>4, RollBackSound DEF Fails, Finish
  <2>5. CASE Record
    BY <2>5, RecordSound
  <2>6. CASE NothingToDo
    BY <2>6, RestSound DEF NothingToDo, database
  <2>7. CASE Crash
    BY <2>7, RollBackSound DEF Crash, Finish
  <2>8. ASSUME NEW r \in Row, Insert(r)
        PROVE  SoundInv'
    BY <2>8, InsertSound
  <2>9. ASSUME NEW i \in Ids, NEW e \in Emails, ReplaceNotify(i, e)
        PROVE  SoundInv'
    <3>1. /\ notify[i] # Nobody /\ notify' = [notify EXCEPT ![i] = e]
          /\ UNCHANGED <<backend, schema, rows, applied, job, saved>>
      BY <2>9 DEF ReplaceNotify
    <3>2. \A k \in Ids : notify'[k] # Nobody => notify[k] # Nobody
      BY <3>1 DEF Inv, DataOK
    <3> QED
      BY <3>1, <3>2, RestSound
  <2>10. CASE UNCHANGED vars
    BY <2>10, RestSound DEF vars, database
  <2> QED
    BY <2>1, <2>2, <2>3, <2>4, <2>5, <2>6, <2>7, <2>8, <2>9, <2>10 DEF Next
<1> QED
  BY <1>1, <1>2, InvIsInductive, PTL DEF Spec

\* TypeOK: the rows that stand in a table satisfy its constraints, whatever statements ran,
\* failed or died before; the copy of a rebuild holds nothing before it exists, and no address
\* is subscribed without the table of the addresses.
THEOREM TypesAreCorrect == Spec => []TypeOK
<1>1. Inv /\ SoundInv => TypeOK
  BY DEF Inv, DataOK, SoundInv, Sound, TypeOK, Tables, Has
<1> QED
  BY <1>1, InvIsInductive, SoundInvIsInductive, PTL

-----------------------------------------------------------------------------
(***************************************************************************)
(* What a complete schema rests on.  The operators take the direction of   *)
(* the command, the migrations recorded and the statement it is at, so     *)
(* that they speak of two states.                                          *)
(***************************************************************************)

\* Of a migration, whether its statement u is done and its rollback not at statement d yet.
DueAt(dir, a, i, k, u, d) ==
  \/ dir = "up" /\ (a >= k \/ (a + 1 = k /\ i > u))
  \/ dir = "down" /\ (a > k \/ (a = k /\ i <= d))
  \/ dir = "none" /\ a >= k

\* Whether rename_oauth_tables has moved the table, and where a table is.
MovedAt(dir, a, i, j) == DueAt(dir, a, i, 15, j, j)
PlaceAt(dir, a, i, t) ==
  IF \E j \in 1..5 : t = New[OAuthNames[j]] /\ ~MovedAt(dir, a, i, j) THEN Called(1, t) ELSE t

\* Between its drop and its rename a rebuild has no alert.
GoneAt(dir, a, i, t) ==
  t = "alert" /\ i = 4 /\ ((dir = "up" /\ a = 17) \/ (dir = "down" /\ a = 18))

HoldsIn(S, t, p) == t \in DOMAIN S /\ (p = "table" \/ p \in S[t])

MadeIn(S, dir, a, i) ==
  \A t, p : \A k \in 1..26, u \in 1..9, d \in 1..9 :
    Made(t, p, k, u, d) /\ DueAt(dir, a, i, k, u, d) /\ ~GoneAt(dir, a, i, t) =>
      HoldsIn(S, PlaceAt(dir, a, i, t), p)

MovedIn(S, dir, a, i) ==
  \A j \in 1..5 : MovedAt(dir, a, i, j) => Old[OAuthNames[j]] \notin DOMAIN S

\* fix_oauth_alert_magic_token leaves out what stands in its way.
LateIn(S, dir, a, i) ==
  "alert" \in DOMAIN S =>
    /\ DueAt(dir, a, i, 18, 4, 3) => UniqueEmail \notin S["alert"] /\ TokenNotNull \notin S["alert"]
    /\ dir = "up" /\ a = 17 /\ i \in 5..6 => RowIndex \notin S["alert"]

\* Its rollback adds an index that the rows it copied are fit for.
Pairs(R) == \A r, s \in R : r # s => r.email # s.email \/ r.server # s.server
PairsIn(S, R, dir, a, i) ==
  dir = "down" /\ a = 18 =>
    /\ i = 2 => R["alert_new"] = {}
    /\ i \in 3..4 => Pairs(R["alert_new"])
    /\ i = 4 => "alert" \notin DOMAIN S
    /\ i = 5 => Pairs(R["alert"])

FineIn(S, R, dir, a, i) ==
  MadeIn(S, dir, a, i) /\ MovedIn(S, dir, a, i) /\ LateIn(S, dir, a, i) /\ PairsIn(S, R, dir, a, i)

\* A copy that is left behind and a renaming left in the middle: no later `up` gets past
\* them, to the migration that would succeed.
RebuildOf(dir, a) == (dir = "up" /\ a \in {1, 4, 17}) \/ (dir = "down" /\ a \in {2, 5, 18})
DoomedIn(S, dir, a, i) ==
  \/ a <= 17 /\ "alert_new" \in DOMAIN S /\ ~(RebuildOf(dir, a) /\ i \in 2..4)
  \/ a <= 14 /\ "oauth2_client" \in DOMAIN S /\ ~(dir = "up" /\ a = 14 /\ i >= 2)

RebuildIn(S, dir, a, i) ==
  RebuildOf(dir, a) =>
    /\ i \in 2..4 => "alert_new" \in DOMAIN S
    /\ i >= 5 => "alert_new" \notin DOMAIN S

ServedInv == outcome = "served" => job = Idle /\ applied = Last

CompleteInv ==
  /\ ServedInv
  /\ backend = "sqlite" =>
       /\ RebuildIn(schema, job.dir, applied, job.at)
       /\ ~torn => \/ DoomedIn(schema, job.dir, applied, job.at)
                   \/ FineIn(schema, rows, job.dir, applied, job.at)

-----------------------------------------------------------------------------
(***************************************************************************)
(* What Made says.                                                         *)
(***************************************************************************)

\* No migration but those with lists of their own makes anything, and none of it is in the
\* copy of a rebuild or under an old name.
LEMMA MadeBounds ==
  ASSUME NEW t, NEW p, NEW k \in 1..26, NEW u \in 1..9, NEW d \in 1..9, Made(t, p, k, u, d)
  PROVE  /\ k \in {4, 6, 7} \cup 9..26 /\ k # 15
         /\ k = 4 => t # "alert"
         /\ t \notin {"alert_new", "o_auth2_client", "o_auth2_user", "o_auth2_authorization",
                      "o_auth2_token", "o_auth2_identity"}
<1>1. k \in {4, 6, 7} \cup 9..26 /\ k # 15
  BY DEF Made
<1>2. k = 4 => t # "alert"
  BY DEF Made
<1>3. t \notin {"alert_new", "o_auth2_client", "o_auth2_user", "o_auth2_authorization",
                "o_auth2_token", "o_auth2_identity"}
  BY DEF Made
<1> QED
  BY <1>1, <1>2, <1>3

\* fix_oauth_alert_magic_token makes one thing, and keeps what was made of alert before.
LEMMA MadeOfAlert ==
  ASSUME NEW t, NEW p, NEW k \in 1..26, NEW u \in 1..9, NEW d \in 1..9, Made(t, p, k, u, d)
  PROVE  /\ k = 18 => t = "alert" /\ p = PairIndex /\ u = 6 /\ d = 3
         /\ t = "alert" /\ k < 18 => p \in Kept
         /\ t = "alert" => p # "table"
<1>1. k = 18 => t = "alert" /\ p = PairIndex /\ u = 6 /\ d = 3
  BY DEF Made
<1>2. ASSUME t = "alert", k < 18
      PROVE  p \in Kept
  <2>1. /\ Tracking[1] = "last_check_at" /\ Tracking[2] = "last_failure_at"
        /\ Tracking[3] = "last_success_at" /\ Tracking[4] = "last_email_sent_at"
        /\ Tracking[5] = "failure_count" /\ Tracking[6] = "is_currently_failing"
        /\ DOMAIN Tracking = 1..6
    BY DEF Tracking
  <2>2. \A i \in 1..6 : Tracking[i] \in Kept
    BY <2>1 DEF Kept
  <2>3. 1 \in 1..6 /\ 2 \in 1..6 /\ 3 \in 1..6 /\ 4 \in 1..6 /\ 5 \in 1..6 /\ 6 \in 1..6
    OBVIOUS
  <2>4. /\ "last_check_at" \in Kept /\ "last_failure_at" \in Kept /\ "last_success_at" \in Kept
        /\ "last_email_sent_at" \in Kept /\ "failure_count" \in Kept
        /\ "is_currently_failing" \in Kept /\ "user_id" \in Kept /\ "last_recovery_at" \in Kept
    BY <2>1, <2>2, <2>3 DEF Kept
  <2> HIDE DEF Kept
  <2>5. \/ p \in {"last_check_at", "last_failure_at", "last_success_at", "last_email_sent_at",
                  "failure_count", "is_currently_failing"}
        \/ p = "user_id" \/ p = "last_recovery_at"
    BY <1>2 DEF Made
  <2> QED
    BY <2>4, <2>5
<1>3. t = "alert" => p # "table"
  <2>1. PairIndex # "table"
    BY DEF PairIndex
  <2> QED
    BY <2>1 DEF Made
<1> QED
  BY <1>1, <1>2, <1>3

\* The tables of OAuth are made under their old names.
LEMMA MadeTables ==
  /\ Made("oauth2_client", "table", 9, 1, 9) /\ Made("oauth2_user", "table", 9, 2, 8)
  /\ Made("oauth2_authorization", "table", 9, 3, 7) /\ Made("oauth2_token", "table", 9, 4, 6)
  /\ Made("oauth2_identity", "table", 10, 2, 4)
  /\ Made("alert", "user_id", 10, 1, 5)
BY DEF Made

\* How long the lists are.
LEMMA UpLengths ==
  /\ Len(Up[4]) = 4 /\ Len(Up[6]) = 6 /\ Len(Up[7]) = 4 /\ Len(Up[9]) = 9 /\ Len(Up[10]) = 5
  /\ Len(Up[11]) = 3 /\ Len(Up[13]) = 1 /\ Len(Up[14]) = 1 /\ Len(Up[16]) = 2 /\ Len(Up[17]) = 1
  /\ Len(Up[19]) = 2 /\ Len(Up[20]) = 2 /\ Len(Up[21]) = 3 /\ Len(Up[22]) = 5 /\ Len(Up[24]) = 3
  /\ Len(Up[25]) = 2 /\ Len(Up[26]) = 5
<1>1. /\ Len(Up[4]) = 4 /\ Len(Up[6]) = 6 /\ Len(Up[7]) = 4 /\ Len(Up[9]) = 9 /\ Len(Up[10]) = 5
      /\ Len(Up[11]) = 3 /\ Len(Up[13]) = 1 /\ Len(Up[14]) = 1
  BY UnstableUpFacts, TrackingUpFacts, EmailLogUpFacts, OAuthTablesUpFacts, LinkAlertsUpFacts,
     PasswordUpFacts, LastRecoveryUpFacts, FailureReasonUpFacts DEF Up
<1>2. /\ Len(Up[16]) = 2 /\ Len(Up[17]) = 1 /\ Len(Up[19]) = 2 /\ Len(Up[20]) = 2
      /\ Len(Up[21]) = 3 /\ Len(Up[22]) = 5 /\ Len(Up[24]) = 3 /\ Len(Up[25]) = 2
      /\ Len(Up[26]) = 5
  BY AccountFeaturesUpFacts, AccountClientUpFacts, EmailOutboxUpFacts, PasswordResetUpFacts,
     NotificationEmailsUpFacts, ChangeAlertsUpFacts, QuietHoursUpFacts, TimezoneUpFacts,
     WebhooksUpFacts DEF Up
<1> QED
  BY <1>1, <1>2

\* A migration that is done has made what Made says.
LEMMA MadeWithin ==
  ASSUME NEW t, NEW p, NEW k \in 1..26, NEW u \in 1..9, NEW d \in 1..9, Made(t, p, k, u, d),
         backend = "sqlite", NEW n \in Nat, n > Len(Up[k])
  PROVE  n > u
<1>1. CASE k = 18
  <2>1. u = 6
    BY <1>1, MadeOfAlert
  <2>2. Len(Up[18]) = 7
    BY RebuildFacts DEF MagicTokenFact
  <2> QED
    BY <1>1, <2>1, <2>2
<1>2. CASE k # 18
  <2>1. /\ k = 4 => u <= 4
        /\ k = 6 => u <= 6
        /\ k = 7 => u <= 4
        /\ k = 9 => u <= 9
        /\ k = 10 => u <= 5
        /\ k = 11 => u <= 3
        /\ k \in {13, 14, 17} => u <= 1
        /\ k \in {16, 19, 20, 25} => u <= 2
        /\ k \in {21, 24} => u <= 3
        /\ k \in {22, 26} => u <= 5
    BY DEF Made
  <2>2. k \in {4, 6, 7, 9, 10, 11, 13, 14, 16, 17, 19, 20, 21, 22, 24, 25, 26}
    BY <1>2 DEF Made
  <2>3. \A m \in Nat : u <= m /\ n > m => n > u
    OBVIOUS
  <2>4. CASE k \in {16, 19, 20, 25}
    <3>1. Len(Up[k]) = 2
      BY <2>4, UpLengths
    <3>2. u <= 2 /\ 2 \in Nat
      BY <2>1, <2>4
    <3> QED
      BY <2>3, <3>1, <3>2
  <2>5. CASE k \in {13, 14, 17}
    <3>1. Len(Up[k]) = 1
      BY <2>5, UpLengths
    <3>2. u <= 1 /\ 1 \in Nat
      BY <2>1, <2>5
    <3> QED
      BY <2>3, <3>1, <3>2
  <2>6. CASE k \in {11, 21, 24}
    <3>1. Len(Up[k]) = 3
      BY <2>6, UpLengths
    <3>2. u <= 3 /\ 3 \in Nat
      BY <2>1, <2>6
    <3> QED
      BY <2>3, <3>1, <3>2
  <2>7. CASE k \in {4, 7}
    <3>1. Len(Up[k]) = 4
      BY <2>7, UpLengths
    <3>2. u <= 4 /\ 4 \in Nat
      BY <2>1, <2>7
    <3> QED
      BY <2>3, <3>1, <3>2
  <2>8. CASE k \in {10, 22, 26}
    <3>1. Len(Up[k]) = 5
      BY <2>8, UpLengths
    <3>2. u <= 5 /\ 5 \in Nat
      BY <2>1, <2>8
    <3> QED
      BY <2>3, <3>1, <3>2
  <2>9. CASE k \in {6}
    <3>1. Len(Up[k]) = 6
      BY <2>9, UpLengths
    <3>2. u <= 6 /\ 6 \in Nat
      BY <2>1, <2>9
    <3> QED
      BY <2>3, <3>1, <3>2
  <2>10. CASE k \in {9}
    <3>1. Len(Up[k]) = 9
      BY <2>10, UpLengths
    <3>2. u <= 9 /\ 9 \in Nat
      BY <2>1, <2>10
    <3> QED
      BY <2>3, <3>1, <3>2
  <2> QED
    BY <2>2, <2>4, <2>5, <2>6, <2>7, <2>8, <2>9, <2>10
<1> QED
  BY <1>1, <1>2

\* Only the index on the pair is one of the two of one name.
LEMMA MadeOffPair ==
  ASSUME NEW t, NEW p, NEW k \in 1..26, NEW u \in 1..9, NEW d \in 1..9, Made(t, p, k, u, d),
         k # 18
  PROVE  ~OnPair(p)
BY DEF Made, OnPair, RowIndex, PairIndex

\* The five names of the tables of OAuth, old and new.
LEMMA NamesDiffer ==
  /\ \A j, l \in 1..5 : /\ New[OAuthNames[j]] # Old[OAuthNames[l]]
                        /\ j # l => /\ New[OAuthNames[j]] # New[OAuthNames[l]]
                                    /\ Old[OAuthNames[j]] # Old[OAuthNames[l]]
  /\ \A j \in 1..5 : Called(1, New[OAuthNames[j]]) = Old[OAuthNames[j]]
  /\ \A j \in 1..5 : /\ New[OAuthNames[j]] \notin {"alert", "alert_new"}
                     /\ Old[OAuthNames[j]] \notin {"alert", "alert_new"}
                     /\ Old[OAuthNames[j]] \in
                          {"o_auth2_client", "o_auth2_user", "o_auth2_authorization",
                           "o_auth2_token", "o_auth2_identity"}
<1> DEFINE N(j) == New[OAuthNames[j]]
           O(j) == Old[OAuthNames[j]]
<1>1. /\ N(1) = "oauth2_client" /\ N(2) = "oauth2_user" /\ N(3) = "oauth2_authorization"
      /\ N(4) = "oauth2_token" /\ N(5) = "oauth2_identity"
      /\ O(1) = "o_auth2_client" /\ O(2) = "o_auth2_user" /\ O(3) = "o_auth2_authorization"
      /\ O(4) = "o_auth2_token" /\ O(5) = "o_auth2_identity"
  BY OAuthTables
<1>2. \A j \in 1..5 : j = 1 \/ j = 2 \/ j = 3 \/ j = 4 \/ j = 5
  OBVIOUS
<1> HIDE DEF N, O
<1>3. \A j, l \in 1..5 : N(j) # O(l) /\ (j # l => N(j) # N(l) /\ O(j) # O(l))
  BY <1>1, <1>2
<1>4. \A j \in 1..5 : Called(1, N(j)) = O(j)
  BY <1>1, <1>2 DEF Called
<1>5. \A j \in 1..5 : /\ N(j) \notin {"alert", "alert_new"} /\ O(j) \notin {"alert", "alert_new"}
                      /\ O(j) \in {"o_auth2_client", "o_auth2_user", "o_auth2_authorization",
                                   "o_auth2_token", "o_auth2_identity"}
  BY <1>1, <1>2
<1> QED
  BY <1>3, <1>4, <1>5 DEF N, O

\* A table that has but one name.
LEMMA CalledAlike ==
  ASSUME NEW t, \A j \in 1..5 : t # New[OAuthNames[j]], NEW m
  PROVE  Called(m, t) = t
<1>1. t \notin {"oauth2_client", "oauth2_user", "oauth2_authorization", "oauth2_token",
                "oauth2_identity"}
  BY OAuthTables
<1> QED
  BY <1>1 DEF Called

\* Where a table is while another migration runs.
LEMMA PlaceOf ==
  ASSUME NEW dir, NEW a \in 0..26, NEW i, NEW m \in 1..26, m # 15, NEW t,
         (dir = "up" /\ m = a + 1) \/ (dir = "down" /\ m = a)
  PROVE  PlaceAt(dir, a, i, t) = Called(m, t)
<1>1. CASE m > 15
  <2>1. \A j \in 1..5 : MovedAt(dir, a, i, j)
    BY <1>1 DEF MovedAt, DueAt
  <2>2. PlaceAt(dir, a, i, t) = t
    BY <2>1 DEF PlaceAt
  <2>3. m > 14
    BY <1>1
  <2> QED
    BY <2>2, <2>3 DEF Called
<1>2. CASE m < 15
  <2>1. \A j \in 1..5 : ~MovedAt(dir, a, i, j)
    BY <1>2 DEF MovedAt, DueAt
  <2>2. ~(m > 14) /\ ~(1 > 14)
    BY <1>2
  <2>3. Called(m, t) = Called(1, t)
    BY <2>2 DEF Called
  <2>4. CASE \E j \in 1..5 : t = New[OAuthNames[j]]
    BY <2>1, <2>3, <2>4 DEF PlaceAt
  <2>5. CASE ~\E j \in 1..5 : t = New[OAuthNames[j]]
    BY <2>5, CalledAlike DEF PlaceAt
  <2> QED
    BY <2>4, <2>5
<1> QED
  BY <1>1, <1>2

\* What has been renamed tells what a table is called.
LEMMA PlaceSame ==
  ASSUME NEW dir, NEW a, NEW i, NEW dir2, NEW a2, NEW i2, NEW t,
         \A j \in 1..5 : MovedAt(dir, a, i, j) <=> MovedAt(dir2, a2, i2, j)
  PROVE  PlaceAt(dir2, a2, i2, t) = PlaceAt(dir, a, i, t)
BY DEF PlaceAt

\* What holds goes on holding, unless it is dropped, removed or moved.
LEMMA HoldsStill ==
  ASSUME NEW s, Tame(s), Works(s), NEW t, NEW p, HoldsIn(schema, t, p),
         ~Drops(s, t), s.op = "remove" /\ s.table = t => ~SamePart(p, s.part),
         s.op = "rename" => t # s.table /\ t # s.to
  PROVE  HoldsIn(SchemaAfter(s), t, p)
<1> DEFINE S == SchemaAfter(s)
<1>1. t \in DOMAIN schema
  BY DEF HoldsIn
<1>2. CASE s.op = "create"
  BY <1>1, <1>2, TablesAfter, PartsAfter DEF HoldsIn
<1>3. CASE s.op = "drop"
  <2>1. s.table # t
    BY <1>3 DEF Drops
  <2> QED
    BY <1>1, <1>3, <2>1, TablesAfter, PartsAfter DEF HoldsIn
<1>4. CASE s.op = "rename"
  <2>1. t # s.table /\ t # s.to
    BY <1>4
  <2>2. t \in DOMAIN S
    BY <1>1, <1>4, <2>1, TablesAfter
  <2>3. S[t] = schema[t]
    BY <1>1, <1>4, <2>1, PartsAfter
  <2> QED
    BY <2>2, <2>3 DEF HoldsIn
<1>5. CASE s.op = "add"
  <2>1. t \in DOMAIN S
    BY <1>1, <1>5, TablesAfter
  <2>2. schema[t] \subseteq S[t]
    BY <1>1, <1>5, PartsAfter
  <2> HIDE DEF S
  <2> QED
    BY <2>1, <2>2 DEF HoldsIn, S
<1>6. CASE s.op = "remove"
  <2>1. t \in DOMAIN S
    BY <1>1, <1>6, TablesAfter
  <2>2. S[t] = IF t = s.table /\ Present(s) THEN {q \in schema[t] : ~SamePart(q, s.part)}
               ELSE schema[t]
    BY <1>1, <1>6, PartsAfter
  <2>3. t = s.table => ~SamePart(p, s.part)
    BY <1>6
  <2> HIDE DEF S
  <2>4. p \in schema[t] => p \in S[t]
    BY <2>2, <2>3
  <2> QED
    BY <2>1, <2>4 DEF HoldsIn, S
<1>7. CASE s.op \in {"copy", "convert", "backfill", "restore"}
  BY <1>7, PartsAfter
<1> QED
  BY <1>2, <1>3, <1>4, <1>5, <1>6, <1>7 DEF Tame, Calm, Drops

\* What a statement makes.
LEMMA HoldsNow ==
  ASSUME NEW s, Works(s), NEW t, NEW p
  PROVE  /\ Creates(s, t) => HoldsIn(SchemaAfter(s), t, "table")
         /\ Adds(s, t, p) /\ (\A q \in schema[t] : SamePart(q, p) => q = p) =>
              HoldsIn(SchemaAfter(s), t, p)
<1>1. ASSUME Creates(s, t)
      PROVE  HoldsIn(SchemaAfter(s), t, "table")
  BY <1>1, TablesAfter DEF Creates, HoldsIn
<1>2. ASSUME Adds(s, t, p), \A q \in schema[t] : SamePart(q, p) => q = p
      PROVE  HoldsIn(SchemaAfter(s), t, p)
  <2>1. s.op = "add" /\ s.table = t /\ s.part = p
    BY <1>2 DEF Adds
  <2>2. t \in DOMAIN schema
    BY <2>1 DEF Works, Has
  <2>3. t \in DOMAIN SchemaAfter(s)
    BY <2>1, <2>2, TablesAfter
  <2>4. SchemaAfter(s)[t] = IF t = s.table /\ ~Present(s) THEN schema[t] \cup {s.part}
                            ELSE schema[t]
    BY <2>1, <2>2, PartsAfter
  <2>5. Present(s) => p \in schema[t]
    BY <1>2, <2>1 DEF Present
  <2> QED
    BY <2>1, <2>3, <2>4, <2>5 DEF HoldsIn
<1> QED
  BY <1>1, <1>2

\* Where a table comes from.
LEMMA TableFrom ==
  ASSUME NEW s, Tame(s), NEW t, t \in DOMAIN SchemaAfter(s)
  PROVE  t \in DOMAIN schema \/ Creates(s, t) \/ (s.op = "rename" /\ s.to = t)
BY TablesAfter DEF Tame, Calm, Drops, Creates

\* The command is at statement s, which works.
At(s) ==
  /\ JobOK /\ DataOK(schema, rows, notify, applied)
  /\ Running /\ backend = "sqlite" /\ job.at <= Len(Statements) /\ s = Statements[job.at]
  /\ Works(s)

\* What the statement at hand is, by its migration.
LEMMA AtFacts ==
  ASSUME NEW s, At(s)
  PROVE  /\ Tame(s) /\ Works(s)
         /\ job.at \in Nat \ {0} /\ job.dir \in {"up", "down"} /\ Migration \in 1..26
         /\ job.dir = "up" => Migration = applied + 1
         /\ job.dir = "down" => Migration = applied
         /\ applied \in 0..26
         /\ Migration \notin {2, 5, 15, 18} =>
              /\ job.dir = "up" => UpFact(Migration, job.at, s)
              /\ job.dir = "down" => DownFact(Migration, job.at, s)
         /\ Migration = 15 =>
              /\ job.at \in 1..5
              /\ job.dir = "up" => s = Rename(Old[OAuthNames[job.at]], New[OAuthNames[job.at]])
              /\ job.dir = "down" => s = Rename(New[OAuthNames[job.at]], Old[OAuthNames[job.at]])
         /\ Migration \in {2, 5, 18} => job.at \in 1..7 /\ RebuildStep(s, job.at)
BY StatementIsTame, StatementOf, RunningJob DEF At, DataOK, Last

-----------------------------------------------------------------------------
(***************************************************************************)
(* Statements of the plain migrations.                                     *)
(***************************************************************************)

\* A statement of a migration that neither rebuilds nor renames takes away only what its
\* Down is due to take away, and adds what its Up is due to make.
LEMMA PlainMade ==
  ASSUME NEW s, At(s), Migration \notin {2, 5, 15, 18},
         MadeIn(schema, job.dir, applied, job.at)
  PROVE  MadeIn(SchemaAfter(s), job.dir, applied, job.at + 1)
<1> DEFINE a == applied
           i == job.at
           m == Migration
           dir == job.dir
<1>1. /\ Tame(s) /\ Works(s)
      /\ i \in Nat \ {0} /\ dir \in {"up", "down"} /\ m \in 1..26
      /\ dir = "up" => m = a + 1
      /\ dir = "down" => m = a
      /\ a \in 0..26
      /\ dir = "up" => UpFact(m, i, s)
      /\ dir = "down" => DownFact(m, i, s)
  BY AtFacts
<1>2. m \notin {2, 5, 15, 18} /\ MadeIn(schema, dir, a, i)
  OBVIOUS
<1> HIDE DEF a, i, m, dir
<1> SUFFICES ASSUME NEW t, NEW p, NEW k \in 1..26, NEW u \in 1..9, NEW d \in 1..9,
                    Made(t, p, k, u, d), DueAt(dir, a, i + 1, k, u, d)
             PROVE  HoldsIn(SchemaAfter(s), PlaceAt(dir, a, i + 1, t), p)
  BY DEF MadeIn, a, i, dir
<1>3. PlaceAt(dir, a, i + 1, t) = Called(m, t) /\ PlaceAt(dir, a, i, t) = Called(m, t)
  <2>1. m # 15 /\ ((dir = "up" /\ m = a + 1) \/ (dir = "down" /\ m = a))
    BY <1>1, <1>2
  <2>2. PlaceAt(dir, a, i + 1, t) = Called(m, t)
    BY <1>1, <2>1, PlaceOf
  <2>3. PlaceAt(dir, a, i, t) = Called(m, t)
    BY <1>1, <2>1, PlaceOf
  <2> QED
    BY <2>2, <2>3
<1>4. ~GoneAt(dir, a, i, t)
  BY <1>1, <1>2 DEF GoneAt
<1>5. DueAt(dir, a, i, k, u, d) => HoldsIn(schema, Called(m, t), p)
  BY <1>2, <1>3, <1>4 DEF MadeIn
<1>6. CASE dir = "up"
  <2>1. /\ s.op \in {"create", "add", "backfill"}
        /\ Made(t, p, m, i, d) =>
             IF p = "table" THEN Creates(s, Called(m, t)) ELSE Adds(s, Called(m, t), p)
    BY <1>1, <1>6 DEF UpFact
  <2>2. CASE DueAt(dir, a, i, k, u, d)
    <3>1. HoldsIn(schema, Called(m, t), p)
      BY <1>5, <2>2
    <3>2. ~Drops(s, Called(m, t)) /\ s.op # "remove" /\ s.op # "rename"
      BY <2>1 DEF Drops
    <3> QED
      BY <1>1, <1>3, <3>1, <3>2, HoldsStill
  <2>3. CASE ~DueAt(dir, a, i, k, u, d)
    <3>1. k = m /\ u = i
      BY <1>1, <1>6, <2>3 DEF DueAt
    <3>2. IF p = "table" THEN Creates(s, Called(m, t)) ELSE Adds(s, Called(m, t), p)
      BY <2>1, <3>1
    <3>3. ~OnPair(p)
      BY <1>2, <3>1, MadeOffPair
    <3>4. \A q : SamePart(q, p) => q = p
      BY <3>3 DEF SamePart, OnPair
    <3>5. HoldsIn(SchemaAfter(s), Called(m, t), p)
      BY <1>1, <3>2, <3>4, HoldsNow
    <3> QED
      BY <1>3, <3>5
  <2> QED
    BY <2>2, <2>3
<1>7. CASE dir = "down"
  <2>1. PlainFact(m, s) /\ TakesFact(m, i, s)
    BY <1>1, <1>7 DEF DownFact
  <2>2. DueAt(dir, a, i, k, u, d) /\ ~(m < k \/ (m = k /\ i >= d))
    BY <1>1, <1>7 DEF DueAt
  <2>4. HoldsIn(schema, Called(m, t), p) /\ ~(m < k \/ (m = k /\ i >= d))
    BY <1>5, <2>2
  <2>5. /\ ~(s.table = Called(m, t) /\ s.op = "drop")
        /\ ~(s.table = Called(m, t) /\ s.op = "remove"
             /\ (p = s.part \/ (OnPair(p) /\ OnPair(s.part))))
    BY <2>1, <2>4 DEF TakesFact
  <2>6. ~Drops(s, Called(m, t))
    BY <2>5 DEF Drops
  <2>7. s.op = "remove" /\ s.table = Called(m, t) => ~SamePart(p, s.part)
    BY <2>5 DEF SamePart, OnPair
  <2>8. s.op # "rename"
    BY <2>1 DEF PlainFact
  <2> QED
    BY <1>1, <1>3, <2>4, <2>6, <2>7, <2>8, HoldsStill
<1> QED
  BY <1>1, <1>6, <1>7

\* Nor does it bring back a name that rename_oauth_tables gave up.
LEMMA PlainMoved ==
  ASSUME NEW s, At(s), Migration \notin {2, 5, 15, 18},
         MovedIn(schema, job.dir, applied, job.at)
  PROVE  MovedIn(SchemaAfter(s), job.dir, applied, job.at + 1)
<1> SUFFICES ASSUME NEW j \in 1..5, MovedAt(job.dir, applied, job.at + 1, j),
                    Old[OAuthNames[j]] \in DOMAIN SchemaAfter(s)
             PROVE  FALSE
  BY DEF MovedIn
<1>1. /\ Tame(s) /\ Works(s)
      /\ job.at \in Nat \ {0} /\ job.dir \in {"up", "down"} /\ Migration \in 1..26
      /\ job.dir = "up" => Migration = applied + 1
      /\ job.dir = "down" => Migration = applied
      /\ applied \in 0..26
      /\ job.dir = "up" => UpFact(Migration, job.at, s)
      /\ job.dir = "down" => DownFact(Migration, job.at, s)
  BY AtFacts
<1>2. Migration > 10 /\ MovedAt(job.dir, applied, job.at, j)
  BY <1>1 DEF MovedAt, DueAt
<1>3. Old[OAuthNames[j]] \notin DOMAIN schema
  BY <1>2 DEF MovedIn
<1>4. Creates(s, Old[OAuthNames[j]]) \/ s.op = "rename"
  BY <1>1, <1>3, TableFrom
<1>5. CASE job.dir = "up"
  <2>1. /\ s.op \in {"create", "add", "backfill"}
        /\ s.op = "create" => s.table \notin {"o_auth2_client", "o_auth2_user",
                                "o_auth2_authorization", "o_auth2_token", "o_auth2_identity"}
    BY <1>1, <1>2, <1>5 DEF UpFact
  <2> QED
    BY <1>4, <2>1, NamesDiffer DEF Creates
<1>6. CASE job.dir = "down"
  BY <1>1, <1>4, <1>6 DEF DownFact, PlainFact, Creates
<1> QED
  BY <1>1, <1>5, <1>6

\* Nor what fix_oauth_alert_magic_token has done away with.
LEMMA PlainLate ==
  ASSUME NEW s, At(s), Migration \notin {2, 5, 15, 18},
         LateIn(schema, job.dir, applied, job.at)
  PROVE  LateIn(SchemaAfter(s), job.dir, applied, job.at + 1)
<1>1. /\ Tame(s) /\ Works(s)
      /\ job.at \in Nat \ {0} /\ job.dir \in {"up", "down"} /\ Migration \in 1..26
      /\ job.dir = "up" => Migration = applied + 1
      /\ job.dir = "down" => Migration = applied
      /\ applied \in 0..26
      /\ job.dir = "up" => UpFact(Migration, job.at, s)
      /\ job.dir = "down" => DownFact(Migration, job.at, s)
  BY AtFacts
<1>2. ~(job.dir = "up" /\ applied = 17)
  BY <1>1
<1> SUFFICES ASSUME "alert" \in DOMAIN SchemaAfter(s),
                    DueAt(job.dir, applied, job.at + 1, 18, 4, 3),
                    NEW p \in SchemaAfter(s)["alert"], p = UniqueEmail \/ p = TokenNotNull
             PROVE  FALSE
  BY <1>2 DEF LateIn
<1>3. Migration > 5 /\ DueAt(job.dir, applied, job.at, 18, 4, 3)
  BY <1>1 DEF DueAt
<1>4. "alert" \in DOMAIN schema => p \notin schema["alert"]
  BY <1>3 DEF LateIn
<1>5. Creates(s, "alert") \/ Adds(s, "alert", p) \/ s.op = "rename"
  BY <1>1, <1>4, PartsFrom
<1>6. CASE job.dir = "up"
  BY <1>1, <1>3, <1>5, <1>6 DEF UpFact, Creates, Adds
<1>7. CASE job.dir = "down"
  BY <1>1, <1>5, <1>7 DEF DownFact, PlainFact, Creates, Adds
<1> QED
  BY <1>1, <1>6, <1>7

-----------------------------------------------------------------------------
(***************************************************************************)
(* Statements of rename_oauth_tables.                                      *)
(***************************************************************************)

\* A renaming moves what is due under the old name to the new one, and back.
LEMMA RenamesFine ==
  ASSUME NEW s, At(s), Migration = 15,
         MadeIn(schema, job.dir, applied, job.at), MovedIn(schema, job.dir, applied, job.at)
  PROVE  /\ MadeIn(SchemaAfter(s), job.dir, applied, job.at + 1)
         /\ MovedIn(SchemaAfter(s), job.dir, applied, job.at + 1)
         /\ ~DueAt(job.dir, applied, job.at + 1, 18, 4, 3)
<1> DEFINE a == applied
           i == job.at
           dir == job.dir
           O(j) == Old[OAuthNames[j]]
           N(j) == New[OAuthNames[j]]
           F == IF dir = "up" THEN O(i) ELSE N(i)
           T == IF dir = "up" THEN N(i) ELSE O(i)
           S == SchemaAfter(s)
<1>1. /\ Tame(s) /\ Works(s) /\ i \in 1..5 /\ dir \in {"up", "down"} /\ a \in 0..26
      /\ dir = "up" => a + 1 = 15 /\ s = Rename(O(i), N(i))
      /\ dir = "down" => a = 15 /\ s = Rename(N(i), O(i))
  BY AtFacts
<1>2. s.op = "rename" /\ s.table = F /\ s.to = T
  BY <1>1 DEF Rename
<1>3. /\ \A j, l \in 1..5 : N(j) # O(l) /\ (j # l => N(j) # N(l) /\ O(j) # O(l))
      /\ \A j \in 1..5 : Called(1, N(j)) = O(j)
      /\ \A j \in 1..5 : O(j) \in {"o_auth2_client", "o_auth2_user", "o_auth2_authorization",
                                   "o_auth2_token", "o_auth2_identity"}
  BY NamesDiffer
<1>4. /\ DOMAIN S = (DOMAIN schema \ {F}) \cup {T} /\ S[T] = schema[F]
      /\ \A t : t \in DOMAIN schema /\ t # F /\ t # T => S[t] = schema[t]
  <2>1. DOMAIN S = (DOMAIN schema \ {s.table}) \cup {s.to}
    BY <1>2, TablesAfter
  <2>2. S[s.to] = schema[s.table]
    BY <1>2, PartsAfter
  <2>3. \A t : t \in DOMAIN schema /\ t # s.table /\ t # s.to => S[t] = schema[t]
    BY <1>2, PartsAfter
  <2> HIDE DEF S, F, T
  <2> QED
    BY <1>2, <2>1, <2>2, <2>3
<1>5. /\ MadeIn(schema, dir, a, i) /\ MovedIn(schema, dir, a, i)
  OBVIOUS
<1>6. /\ \A j \in 1..5 : MovedAt(dir, a, i, j) <=> IF dir = "up" THEN i > j ELSE i <= j
      /\ \A j \in 1..5 : MovedAt(dir, a, i + 1, j) <=> IF dir = "up" THEN i + 1 > j ELSE i + 1 <= j
  BY <1>1 DEF MovedAt, DueAt
<1>7. /\ \A j \in 1..5 : j # i => (MovedAt(dir, a, i + 1, j) <=> MovedAt(dir, a, i, j))
      /\ MovedAt(dir, a, i + 1, i) <=> dir = "up"
      /\ MovedAt(dir, a, i, i) <=> dir = "down"
  <2>1. \A j \in 1..5 : j # i => (i + 1 > j <=> i > j) /\ (i + 1 <= j <=> i <= j)
    BY <1>1
  <2>2. i + 1 > i /\ ~(i + 1 <= i) /\ ~(i > i) /\ i <= i
    BY <1>1
  <2> QED
    BY <1>1, <1>6, <2>1, <2>2
<1>8. ~DueAt(dir, a, i + 1, 18, 4, 3)
  BY <1>1 DEF DueAt
<1>9. MovedIn(S, dir, a, i + 1)
  <2> SUFFICES ASSUME NEW j \in 1..5, MovedAt(dir, a, i + 1, j)
               PROVE  O(j) \notin DOMAIN S
    BY DEF MovedIn
  <2>0. F = (IF dir = "up" THEN O(i) ELSE N(i)) /\ T = (IF dir = "up" THEN N(i) ELSE O(i))
    OBVIOUS
  <2> HIDE DEF S, O, N, F, T
  <2>1. CASE j = i
    BY <1>1, <1>3, <1>4, <1>7, <2>0, <2>1
  <2>2. CASE j # i
    <3>1. O(j) \notin DOMAIN schema
      BY <1>5, <1>7, <2>2 DEF MovedIn, O
    <3> QED
      BY <1>1, <1>3, <1>4, <2>0, <2>2, <3>1
  <2> QED
    BY <2>1, <2>2
<1>10. MadeIn(S, dir, a, i + 1)
  <2> SUFFICES ASSUME NEW t, NEW p, NEW k \in 1..26, NEW u \in 1..9, NEW d \in 1..9,
                      Made(t, p, k, u, d), DueAt(dir, a, i + 1, k, u, d)
               PROVE  HoldsIn(S, PlaceAt(dir, a, i + 1, t), p)
    BY DEF MadeIn
  <2>1. k # 15 /\ t \notin {"o_auth2_client", "o_auth2_user", "o_auth2_authorization",
                            "o_auth2_token", "o_auth2_identity"}
    BY MadeBounds
  <2>2. DueAt(dir, a, i, k, u, d) /\ ~GoneAt(dir, a, i, t)
    BY <1>1, <2>1 DEF DueAt, GoneAt
  <2>3. HoldsIn(schema, PlaceAt(dir, a, i, t), p)
    BY <1>5, <2>2 DEF MadeIn
  <2>4. F = (IF dir = "up" THEN O(i) ELSE N(i)) /\ T = (IF dir = "up" THEN N(i) ELSE O(i))
    OBVIOUS
  <2>5. /\ PlaceAt(dir, a, i, t) = IF \E j \in 1..5 : t = N(j) /\ ~MovedAt(dir, a, i, j)
                                   THEN Called(1, t) ELSE t
        /\ PlaceAt(dir, a, i + 1, t) = IF \E j \in 1..5 : t = N(j) /\ ~MovedAt(dir, a, i + 1, j)
                                       THEN Called(1, t) ELSE t
    BY DEF PlaceAt
  <2>6. \A j \in 1..5 : t # O(j)
    BY <1>3, <2>1
  <2> HIDE DEF S, O, N, F, T
  <2>7. CASE \E j \in 1..5 : t = N(j) /\ j # i
    <3>1. PICK j \in 1..5 : t = N(j) /\ j # i
      BY <2>7
    <3>2. \A l \in 1..5 : t = N(l) => l = j
      BY <1>3, <3>1
    <3>3. PlaceAt(dir, a, i + 1, t) = PlaceAt(dir, a, i, t)
      BY <1>7, <2>5, <3>1, <3>2
    <3>4. PlaceAt(dir, a, i, t) \in {N(j), O(j)}
      BY <1>3, <2>5, <3>1
    <3>5. PlaceAt(dir, a, i, t) # F /\ PlaceAt(dir, a, i, t) # T
      BY <1>1, <1>3, <2>4, <3>1, <3>4
    <3> QED
      BY <1>4, <2>3, <3>3, <3>5 DEF HoldsIn
  <2>8. CASE t = N(i)
    <3>1. \A l \in 1..5 : t = N(l) => l = i
      BY <1>1, <1>3, <2>8
    <3>2. PlaceAt(dir, a, i, t) = F
      BY <1>1, <1>3, <1>7, <2>4, <2>5, <2>8, <3>1
    <3>3. PlaceAt(dir, a, i + 1, t) = T
      BY <1>1, <1>3, <1>7, <2>4, <2>5, <2>8, <3>1
    <3> QED
      BY <1>4, <2>3, <3>2, <3>3 DEF HoldsIn
  <2>9. CASE ~\E j \in 1..5 : t = N(j)
    <3>1. PlaceAt(dir, a, i, t) = t /\ PlaceAt(dir, a, i + 1, t) = t
      BY <2>5, <2>9
    <3>2. t # F /\ t # T
      BY <1>1, <2>4, <2>6, <2>9
    <3> QED
      BY <1>4, <2>3, <3>1, <3>2 DEF HoldsIn
  <2> QED
    BY <2>7, <2>8, <2>9
<1> QED
  BY <1>8, <1>9, <1>10

-----------------------------------------------------------------------------
(***************************************************************************)
(* Statements of a rebuild.                                                *)
(***************************************************************************)

\* Tables a rebuild does not touch.
LEMMA RebuildLeaves ==
  ASSUME NEW s, At(s), Migration \in {2, 5, 18}, NEW t, NEW p, HoldsIn(schema, t, p),
         t \notin {"alert", "alert_new"} \/ (t = "alert" /\ job.at \notin 3..4)
  PROVE  HoldsIn(SchemaAfter(s), t, p)
<1>1. Tame(s) /\ Works(s) /\ job.at \in 1..7 /\ RebuildStep(s, job.at)
  BY AtFacts
<1>2. /\ job.at \in {1, 2} \cup 5..7 => s.op \in {"create", "copy", "add"}
      /\ job.at = 3 => Drops(s, "alert")
      /\ job.at = 4 => s.op = "rename" /\ s.table = "alert_new" /\ s.to = "alert"
  BY <1>1 DEF RebuildStep, Creates, Follows
<1>3. ~Drops(s, t) /\ (s.op = "rename" => t # s.table /\ t # s.to) /\ s.op # "remove"
  BY <1>1, <1>2 DEF Drops
<1> QED
  BY <1>1, <1>3, HoldsStill

\* Tables that only a rebuild makes.
LEMMA RebuildMakes ==
  ASSUME NEW s, At(s), Migration \in {2, 5, 18}, NEW t, t \in DOMAIN SchemaAfter(s)
  PROVE  t \in DOMAIN schema \/ t \in {"alert", "alert_new"}
<1>1. Tame(s) /\ Works(s) /\ job.at \in 1..7 /\ RebuildStep(s, job.at)
  BY AtFacts
<1>2. t \in DOMAIN schema \/ Creates(s, t) \/ (s.op = "rename" /\ s.to = t)
  BY <1>1, TableFrom
<1> QED
  BY <1>1, <1>2 DEF RebuildStep, Creates, Drops, Follows

\* A rebuild renames no other table.
LEMMA RebuildMoved ==
  ASSUME NEW s, At(s), Migration \in {2, 5, 18}, MovedIn(schema, job.dir, applied, job.at)
  PROVE  MovedIn(SchemaAfter(s), job.dir, applied, job.at + 1)
<1>1. \A j \in 1..5 : MovedAt(job.dir, applied, job.at + 1, j) => MovedAt(job.dir, applied, job.at, j)
  BY AtFacts DEF MovedAt, DueAt
<1> QED
  BY <1>1, RebuildMakes, NamesDiffer DEF MovedIn

\* The first two come before anything that Made names of alert.
LEMMA EarlyRebuild ==
  ASSUME NEW s, At(s), Migration \in {2, 5}, MadeIn(schema, job.dir, applied, job.at)
  PROVE  /\ MadeIn(SchemaAfter(s), job.dir, applied, job.at + 1)
         /\ ~DueAt(job.dir, applied, job.at + 1, 18, 4, 3)
<1>1. /\ job.at \in Nat \ {0} /\ job.dir \in {"up", "down"} /\ Migration \in 1..26
      /\ job.dir = "up" => Migration = applied + 1
      /\ job.dir = "down" => Migration = applied
      /\ applied \in 0..26
  BY AtFacts
<1>2. ~DueAt(job.dir, applied, job.at + 1, 18, 4, 3)
  BY <1>1 DEF DueAt
<1> SUFFICES ASSUME NEW t, NEW p, NEW k \in 1..26, NEW u \in 1..9, NEW d \in 1..9,
                    Made(t, p, k, u, d), DueAt(job.dir, applied, job.at + 1, k, u, d)
             PROVE  HoldsIn(SchemaAfter(s), PlaceAt(job.dir, applied, job.at + 1, t), p)
  BY <1>2 DEF MadeIn
<1>3. k \in {4, 6, 7} \cup 9..26 /\ (k = 4 => t # "alert") /\ t # "alert_new"
  BY MadeBounds
<1>4. k = 4 /\ DueAt(job.dir, applied, job.at, k, u, d) /\ ~GoneAt(job.dir, applied, job.at, t)
  BY <1>1, <1>3 DEF DueAt, GoneAt
<1>5. HoldsIn(schema, PlaceAt(job.dir, applied, job.at, t), p)
  BY <1>4 DEF MadeIn
<1>6. PlaceAt(job.dir, applied, job.at, t) = Called(Migration, t)
  BY <1>1, PlaceOf
<1>7. PlaceAt(job.dir, applied, job.at + 1, t) = Called(Migration, t)
  BY <1>1, PlaceOf
<1>8. Called(Migration, t) \notin {"alert", "alert_new"}
  BY <1>3, <1>4 DEF Called
<1> QED
  BY <1>5, <1>6, <1>7, <1>8, RebuildLeaves

\* What fix_oauth_alert_magic_token does to alert.
LEMMA MagicSteps ==
  ASSUME NEW s, At(s), Migration = 18, MagicInv
  PROVE  /\ Tame(s) /\ Works(s) /\ job.at \in 1..7 /\ job.dir \in {"up", "down"}
         /\ job.dir = "up" => applied = 17
         /\ job.dir = "down" => applied = 18
         /\ job.at = 1 => Creates(s, "alert_new") /\ "alert_new" \notin DOMAIN schema
         /\ job.at = 2 => s.op = "copy"
         /\ job.at = 3 => Drops(s, "alert")
         /\ job.at = 4 => /\ s.op = "rename" /\ s.table = "alert_new" /\ s.to = "alert"
                          /\ SchemaAfter(s)["alert"] = MagicParts
         /\ job.at >= 5 => s.op = "add" /\ s.table = "alert" /\ s.part \in Indexes4
         /\ job.at = 5 /\ job.dir = "up" => s.part = "idx_magic_token_unique"
         /\ job.at = 6 /\ job.dir = "up" => s.part = PairIndex
<1>1. /\ Tame(s) /\ Works(s) /\ job.at \in 1..7 /\ job.dir \in {"up", "down"}
      /\ job.dir = "up" => applied + 1 = 18
      /\ job.dir = "down" => applied = 18
      /\ applied \in 0..26
      /\ RebuildStep(s, job.at)
  BY AtFacts
<1>2. job.dir = "up" => applied = 17
  BY <1>1
<1>3. ASSUME job.at = 1
      PROVE  Creates(s, "alert_new") /\ "alert_new" \notin DOMAIN schema
  BY <1>1, <1>3 DEF RebuildStep, Creates, Works, Has
<1>4. ASSUME job.at = 4
      PROVE  /\ s.op = "rename" /\ s.table = "alert_new" /\ s.to = "alert"
             /\ SchemaAfter(s)["alert"] = MagicParts
  <2>1. s.op = "rename" /\ s.table = "alert_new" /\ s.to = "alert"
    BY <1>1, <1>4 DEF RebuildStep
  <2>2. SchemaAfter(s)[s.to] = schema[s.table]
    BY <2>1, PartsAfter
  <2>3. Running /\ backend = "sqlite" /\ job.at \in 2..4
    BY <1>4 DEF At
  <2>4. schema["alert_new"] = MagicParts
    BY <2>3 DEF MagicInv
  <2> QED
    BY <2>1, <2>2, <2>4
<1>5. job.at >= 5 => s.op = "add" /\ s.table = "alert" /\ s.part \in Indexes4
  BY <1>1 DEF RebuildStep, Follows
<1>6. ASSUME job.dir = "up"
      PROVE  /\ job.at = 5 => s.part = "idx_magic_token_unique"
             /\ job.at = 6 => s.part = PairIndex
  <2>1. s = Up[18][job.at]
    BY <1>6, StatementsListed DEF At
  <2>2. Up[18][5].part = "idx_magic_token_unique" /\ Up[18][6].part = PairIndex
    BY RebuildFacts DEF At, MagicTokenFact, Adds
  <2> QED
    BY <2>1, <2>2
<1> QED
  BY <1>1, <1>2, <1>3, <1>4, <1>5, <1>6 DEF RebuildStep

\* Kept is kept in either direction, and brings back none of what stood in the way.
LEMMA MagicPartsKept ==
  /\ Kept \subseteq MagicParts
  /\ job.dir = "up" => /\ UniqueEmail \notin MagicParts /\ TokenNotNull \notin MagicParts
                       /\ RowIndex \notin MagicParts
  /\ UniqueEmail \notin Indexes4 /\ TokenNotNull \notin Indexes4
  /\ "idx_magic_token_unique" # RowIndex /\ "idx_magic_token_unique" # PairIndex
<1>1. Kept \subseteq MagicParts
  BY DEF MagicParts, KeptDown
<1>2. /\ UniqueEmail \notin Kept /\ TokenNotNull \notin Kept /\ RowIndex \notin Kept
  <2>1. /\ Tracking[1] = "last_check_at" /\ Tracking[2] = "last_failure_at"
        /\ Tracking[3] = "last_success_at" /\ Tracking[4] = "last_email_sent_at"
        /\ Tracking[5] = "failure_count" /\ Tracking[6] = "is_currently_failing"
        /\ DOMAIN Tracking = 1..6
    BY DEF Tracking
  <2>2. \A i \in 1..6 : i = 1 \/ i = 2 \/ i = 3 \/ i = 4 \/ i = 5 \/ i = 6
    OBVIOUS
  <2>3. \A q : q \in Kept => q \in {"last_check_at", "last_failure_at", "last_success_at",
                                    "last_email_sent_at", "failure_count",
                                    "is_currently_failing", "user_id", "last_recovery_at"}
    BY <2>1, <2>2 DEF Kept
  <2>4. \A q \in {"last_check_at", "last_failure_at", "last_success_at", "last_email_sent_at",
                  "failure_count", "is_currently_failing", "user_id", "last_recovery_at"} :
          q # UniqueEmail /\ q # TokenNotNull /\ q # RowIndex
    BY DEF UniqueEmail, TokenNotNull, RowIndex
  <2> QED
    BY <2>3, <2>4
<1>3. job.dir = "up" => MagicParts = Kept
  BY DEF MagicParts
<1>4. /\ UniqueEmail \notin Indexes4 /\ TokenNotNull \notin Indexes4
      /\ "idx_magic_token_unique" # RowIndex /\ "idx_magic_token_unique" # PairIndex
  BY DEF UniqueEmail, TokenNotNull, Indexes4, RowIndex, PairIndex
<1> QED
  BY <1>1, <1>2, <1>3, <1>4

\* The rebuilds of fix_oauth_alert_magic_token keep every part that is due.
LEMMA MagicMade ==
  ASSUME NEW s, At(s), Migration = 18, MagicInv, MadeIn(schema, job.dir, applied, job.at),
         LateIn(schema, job.dir, applied, job.at)
  PROVE  MadeIn(SchemaAfter(s), job.dir, applied, job.at + 1)
<1> SUFFICES ASSUME NEW t, NEW p, NEW k \in 1..26, NEW u \in 1..9, NEW d \in 1..9,
                    Made(t, p, k, u, d), DueAt(job.dir, applied, job.at + 1, k, u, d),
                    ~GoneAt(job.dir, applied, job.at + 1, t)
             PROVE  HoldsIn(SchemaAfter(s), PlaceAt(job.dir, applied, job.at + 1, t), p)
  BY DEF MadeIn
<1>1. /\ Tame(s) /\ Works(s) /\ job.at \in 1..7 /\ job.dir \in {"up", "down"}
      /\ job.dir = "up" => applied = 17
      /\ job.dir = "down" => applied = 18
      /\ job.at = 4 => /\ s.op = "rename" /\ s.table = "alert_new" /\ s.to = "alert"
                       /\ SchemaAfter(s)["alert"] = MagicParts
      /\ job.at = 6 /\ job.dir = "up" => s.op = "add" /\ s.table = "alert" /\ s.part = PairIndex
  BY MagicSteps
<1>2. PlaceAt(job.dir, applied, job.at + 1, t) = t /\ PlaceAt(job.dir, applied, job.at, t) = t
  <2>1. \A j \in 1..5 : /\ MovedAt(job.dir, applied, job.at, j)
                        /\ MovedAt(job.dir, applied, job.at + 1, j)
    BY <1>1 DEF MovedAt, DueAt
  <2> QED
    BY <2>1 DEF PlaceAt
<1>3. t # "alert_new"
  BY MadeBounds
<1>4. /\ k = 18 => t = "alert" /\ p = PairIndex /\ u = 6 /\ d = 3
      /\ t = "alert" /\ k < 18 => p \in Kept
  BY MadeOfAlert
<1>5. \/ DueAt(job.dir, applied, job.at, k, u, d)
      \/ job.dir = "up" /\ k = 18 /\ job.at = 6
  BY <1>1, <1>4 DEF DueAt
<1>6. t = "alert" => job.at # 3
  BY <1>1 DEF GoneAt
<1>7. CASE job.at = 4 /\ t = "alert"
  <2>1. k < 18
    BY <1>1, <1>4, <1>7 DEF DueAt
  <2>2. p \in MagicParts
    BY <1>4, <1>7, <2>1, MagicPartsKept
  <2>3. "alert" \in DOMAIN SchemaAfter(s)
    BY <1>1, <1>7, TablesAfter
  <2> QED
    BY <1>1, <1>2, <1>7, <2>2, <2>3 DEF HoldsIn
<1>8. CASE ~(job.at = 4 /\ t = "alert") /\ DueAt(job.dir, applied, job.at, k, u, d)
  <2>1. ~GoneAt(job.dir, applied, job.at, t)
    BY <1>8 DEF GoneAt
  <2>2. HoldsIn(schema, t, p)
    BY <1>2, <1>8, <2>1 DEF MadeIn
  <2>3. t \notin {"alert", "alert_new"} \/ (t = "alert" /\ job.at \notin 3..4)
    BY <1>1, <1>3, <1>6, <1>8
  <2>4. HoldsIn(SchemaAfter(s), t, p)
    BY <2>2, <2>3, RebuildLeaves
  <2> QED
    BY <1>2, <2>4
<1>9. CASE job.dir = "up" /\ k = 18 /\ job.at = 6
  <2>1. Adds(s, "alert", PairIndex)
    BY <1>1, <1>9 DEF Adds
  <2>2. "alert" \in DOMAIN schema
    BY <1>1, <2>1 DEF Adds, Works, Has
  <2>3. applied = 17 /\ job.at \in 5..6
    BY <1>1, <1>9
  <2>4. RowIndex \notin schema["alert"]
    BY <1>9, <2>2, <2>3 DEF LateIn
  <2>5. \A q \in schema["alert"] : SamePart(q, PairIndex) => q = PairIndex
    BY <2>4 DEF SamePart
  <2>6. HoldsIn(SchemaAfter(s), "alert", PairIndex)
    BY <1>1, <2>1, <2>5, HoldsNow
  <2> QED
    BY <1>2, <1>4, <1>9, <2>6
<1> QED
  BY <1>5, <1>7, <1>8, <1>9

\* And leave out the two constraints that stand in the way of the server.
LEMMA MagicLate ==
  ASSUME NEW s, At(s), Migration = 18, MagicInv, LateIn(schema, job.dir, applied, job.at)
  PROVE  LateIn(SchemaAfter(s), job.dir, applied, job.at + 1)
<1>1. /\ Tame(s) /\ Works(s) /\ job.at \in 1..7 /\ job.dir \in {"up", "down"}
      /\ job.dir = "up" => applied = 17
      /\ job.dir = "down" => applied = 18
      /\ job.at = 1 => Creates(s, "alert_new")
      /\ job.at = 2 => s.op = "copy"
      /\ job.at = 3 => Drops(s, "alert")
      /\ job.at = 4 => /\ s.op = "rename" /\ s.table = "alert_new" /\ s.to = "alert"
                       /\ SchemaAfter(s)["alert"] = MagicParts
      /\ job.at >= 5 => s.op = "add" /\ s.table = "alert" /\ s.part \in Indexes4
      /\ job.at = 5 /\ job.dir = "up" => s.part = "idx_magic_token_unique"
  BY MagicSteps
<1>2. ASSUME NEW p \in SchemaAfter(s)["alert"], "alert" \in DOMAIN SchemaAfter(s), job.at # 4
      PROVE  \/ "alert" \in DOMAIN schema /\ p \in schema["alert"]
             \/ job.at >= 5 /\ p = s.part
  <2>1. \/ "alert" \in DOMAIN schema /\ p \in schema["alert"]
        \/ Creates(s, "alert") \/ Adds(s, "alert", p) \/ s.op = "rename"
    BY <1>1, <1>2, PartsFrom
  <2>2. job.at = 1 \/ job.at = 2 \/ job.at = 3 \/ job.at >= 5
    BY <1>1, <1>2
  <2> QED
    BY <1>1, <2>1, <2>2 DEF Creates, Adds, Drops
<1>3. ASSUME "alert" \in DOMAIN SchemaAfter(s), DueAt(job.dir, applied, job.at + 1, 18, 4, 3)
      PROVE  UniqueEmail \notin SchemaAfter(s)["alert"] /\ TokenNotNull \notin SchemaAfter(s)["alert"]
  <2>1. CASE job.at = 4
    <3>1. job.dir = "up"
      BY <1>1, <1>3, <2>1 DEF DueAt
    <3> QED
      BY <1>1, <2>1, <3>1, MagicPartsKept
  <2>2. CASE job.at # 4
    <3>1. DueAt(job.dir, applied, job.at, 18, 4, 3)
      BY <1>1, <1>3, <2>2 DEF DueAt
    <3>2. "alert" \in DOMAIN schema =>
            UniqueEmail \notin schema["alert"] /\ TokenNotNull \notin schema["alert"]
      BY <3>1 DEF LateIn
    <3> QED
      BY <1>1, <1>2, <1>3, <2>2, <3>2, MagicPartsKept
  <2> QED
    BY <2>1, <2>2
<1>4. ASSUME "alert" \in DOMAIN SchemaAfter(s), job.dir = "up", job.at + 1 \in 5..6
      PROVE  RowIndex \notin SchemaAfter(s)["alert"]
  <2>1. job.at = 4 \/ job.at = 5
    BY <1>1, <1>4
  <2>2. CASE job.at = 4
    BY <1>1, <1>4, <2>2, MagicPartsKept
  <2>3. CASE job.at = 5
    <3>1. applied = 17 /\ job.at \in 5..6
      BY <1>1, <1>4, <2>3
    <3>2. "alert" \in DOMAIN schema => RowIndex \notin schema["alert"]
      BY <1>4, <3>1 DEF LateIn
    <3>3. s.part # RowIndex /\ job.at # 4
      BY <1>1, <1>4, <2>3, MagicPartsKept
    <3> QED
      BY <1>2, <1>4, <3>2, <3>3
  <2> QED
    BY <2>1, <2>2, <2>3
<1> QED
  BY <1>3, <1>4 DEF LateIn

\* A copy has the addresses and servers of the rows.
LEMMA ConvertedPairs ==
  ASSUME NEW R \in SUBSET Row, NEW tokens, Pairs(R)
  PROVE  Pairs(Converted(R, tokens))
<1> DEFINE c(r) == [r EXCEPT !.token = IF tokens = "empty to null" /\ @ = "empty" THEN "null"
                                       ELSE IF tokens = "null to empty" /\ @ = "null" THEN "empty"
                                       ELSE @]
<1>1. Converted(R, tokens) = {c(r) : r \in R}
  BY DEF Converted
<1>2. \A r \in R : c(r).email = r.email /\ c(r).server = r.server
  BY DEF Row
<1> HIDE DEF c
<1> QED
  BY <1>1, <1>2 DEF Pairs

\* The rows that its rollback copies have no address and server twice.
LEMMA MagicPairs ==
  ASSUME NEW s, At(s), Migration = 18, MagicInv, Sound(schema, rows, notify),
         MadeIn(schema, job.dir, applied, job.at), PairsIn(schema, rows, job.dir, applied, job.at)
  PROVE  PairsIn(SchemaAfter(s), RowsAfter(s), job.dir, applied, job.at + 1)
<1> SUFFICES ASSUME job.dir = "down", applied = 18
             PROVE  PairsIn(SchemaAfter(s), RowsAfter(s), job.dir, applied, job.at + 1)
  BY DEF PairsIn
<1> DEFINE R == RowsAfter(s)
<1>1. /\ Works(s) /\ job.at \in 1..7
      /\ job.at = 1 => Creates(s, "alert_new") /\ "alert_new" \notin DOMAIN schema
      /\ job.at = 2 => s.op = "copy"
      /\ job.at = 3 => Drops(s, "alert")
      /\ job.at = 4 => s.op = "rename" /\ s.table = "alert_new" /\ s.to = "alert"
  BY MagicSteps
<1>2. rows \in [Tables -> SUBSET Row] /\ rows["alert"] \in SUBSET Row
  BY DEF At, DataOK, Tables
<1>3. /\ job.at = 2 => rows["alert_new"] = {}
      /\ job.at \in 3..4 => Pairs(rows["alert_new"])
  BY DEF PairsIn
<1>4. ASSUME job.at = 1
      PROVE  R["alert_new"] = {}
  <2>1. R = rows
    BY <1>1, <1>2, <1>4, RowsAfterEach DEF Creates
  <2>2. rows["alert_new"] = {}
    BY <1>1, <1>4 DEF Sound, Tables
  <2> QED
    BY <2>1, <2>2
<1>5. ASSUME job.at = 2
      PROVE  Pairs(R["alert_new"])
  <2>1. DueAt(job.dir, applied, job.at, 18, 6, 3) /\ ~GoneAt(job.dir, applied, job.at, "alert")
    BY <1>5 DEF DueAt, GoneAt
  <2>2. Made("alert", PairIndex, 18, 6, 3)
    BY DEF Made
  <2>3. HoldsIn(schema, PlaceAt(job.dir, applied, job.at, "alert"), PairIndex)
    BY <2>1, <2>2 DEF MadeIn
  <2>4. PlaceAt(job.dir, applied, job.at, "alert") = "alert"
    BY NamesDiffer DEF PlaceAt
  <2>5. "alert" \in DOMAIN schema /\ PairIndex \in schema["alert"]
    <3>1. PairIndex # "table"
      BY DEF PairIndex
    <3> QED
      BY <2>3, <2>4, <3>1 DEF HoldsIn
  <2>6. Fits(schema["alert"], rows["alert"])
    BY <2>5 DEF Sound, Tables
  <2>7. Pairs(rows["alert"])
    BY <2>5, <2>6 DEF Fits, Pairs
  <2>8. Pairs(Converted(rows["alert"], s.tokens))
    BY <1>2, <2>7, ConvertedPairs
  <2>9. R = [rows EXCEPT !["alert_new"] =
               rows["alert_new"] \cup Converted(rows["alert"], s.tokens)]
    BY <1>1, <1>2, <1>5, RowsAfterEach
  <2>10. R["alert_new"] = Converted(rows["alert"], s.tokens)
    BY <1>2, <1>3, <1>5, <2>9 DEF Tables
  <2> QED
    BY <2>8, <2>10
<1>6. ASSUME job.at = 3
      PROVE  Pairs(R["alert_new"]) /\ "alert" \notin DOMAIN SchemaAfter(s)
  <2>1. R = [rows EXCEPT !["alert"] = {}]
    BY <1>1, <1>2, <1>6, RowsAfterEach DEF Drops
  <2>2. R["alert_new"] = rows["alert_new"]
    BY <1>2, <2>1 DEF Tables
  <2>3. Pairs(rows["alert_new"])
    BY <1>3, <1>6
  <2>4. "alert" \notin DOMAIN SchemaAfter(s)
    BY <1>1, <1>6, TablesAfter DEF Drops
  <2> QED
    BY <2>2, <2>3, <2>4
<1>7. ASSUME job.at = 4
      PROVE  Pairs(R["alert"])
  <2>1. R = [rows EXCEPT !["alert"] = rows["alert_new"], !["alert_new"] = {}]
    BY <1>1, <1>2, <1>7, RowsAfterEach
  <2>2. R["alert"] = rows["alert_new"]
    BY <1>2, <2>1 DEF Tables
  <2>3. Pairs(rows["alert_new"])
    BY <1>3, <1>7
  <2> QED
    BY <2>2, <2>3
<1> HIDE DEF R
<1>8. /\ job.at + 1 = 2 => job.at = 1
      /\ job.at + 1 \in 3..4 => job.at = 2 \/ job.at = 3
      /\ job.at + 1 = 4 => job.at = 3
      /\ job.at + 1 = 5 => job.at = 4
  BY <1>1
<1> QED
  BY <1>4, <1>5, <1>6, <1>7, <1>8 DEF PairsIn, R

\* RebuildOf names the migrations that rebuild alert.
LEMMA RebuildingNow ==
  ASSUME NEW s, At(s)
  PROVE  RebuildOf(job.dir, applied) <=> Migration \in {2, 5, 18}
BY AtFacts DEF RebuildOf

\* The copy is there from the first statement of a rebuild until it becomes the table.
LEMMA RebuildGoesOn ==
  ASSUME NEW s, At(s), RebuildIn(schema, job.dir, applied, job.at)
  PROVE  RebuildIn(SchemaAfter(s), job.dir, applied, job.at + 1)
<1> SUFFICES ASSUME RebuildOf(job.dir, applied)
             PROVE  RebuildIn(SchemaAfter(s), job.dir, applied, job.at + 1)
  BY DEF RebuildIn
<1>1. Tame(s) /\ Works(s) /\ job.at \in 1..7 /\ RebuildStep(s, job.at)
  BY RebuildingNow, AtFacts
<1>2. /\ job.at = 1 => s.op = "create" /\ s.table = "alert_new"
      /\ job.at = 2 => s.op = "copy"
      /\ job.at = 3 => s.op = "drop" /\ s.table = "alert"
      /\ job.at = 4 => s.op = "rename" /\ s.table = "alert_new" /\ s.to = "alert"
      /\ job.at >= 5 => s.op = "add"
  BY <1>1 DEF RebuildStep, Creates, Drops, Follows
<1>3. /\ job.at \in 2..4 => "alert_new" \in DOMAIN schema
      /\ job.at >= 5 => "alert_new" \notin DOMAIN schema
  BY DEF RebuildIn
<1>4. ASSUME job.at + 1 \in 2..4
      PROVE  "alert_new" \in DOMAIN SchemaAfter(s)
  <2>1. job.at = 1 \/ job.at = 2 \/ job.at = 3
    BY <1>1, <1>4
  <2>2. CASE job.at = 1
    BY <1>2, <2>2, TablesAfter
  <2>3. CASE job.at = 2
    <3>1. 2 \in 2..4
      OBVIOUS
    <3>2. "alert_new" \in DOMAIN schema
      BY <1>3, <2>3, <3>1
    <3> QED
      BY <1>2, <2>3, <3>2, TablesAfter
  <2>4. CASE job.at = 3
    <3>1. 3 \in 2..4
      OBVIOUS
    <3>2. "alert_new" \in DOMAIN schema
      BY <1>3, <2>4, <3>1
    <3> QED
      BY <1>2, <2>4, <3>2, TablesAfter
  <2> QED
    BY <2>1, <2>2, <2>3, <2>4
<1>5. ASSUME job.at + 1 >= 5
      PROVE  "alert_new" \notin DOMAIN SchemaAfter(s)
  <2>1. job.at = 4 \/ job.at >= 5
    BY <1>1, <1>5
  <2>2. CASE job.at = 4
    BY <1>2, <2>2, TablesAfter
  <2>3. CASE job.at >= 5
    BY <1>2, <1>3, <2>3, TablesAfter
  <2> QED
    BY <2>1, <2>2, <2>3
<1> QED
  BY <1>4, <1>5 DEF RebuildIn

\* Nothing takes the copy away that is left behind, nor the new name of the clients.
LEMMA DoomStays ==
  ASSUME NEW s, At(s), RebuildIn(schema, job.dir, applied, job.at),
         DoomedIn(schema, job.dir, applied, job.at)
  PROVE  DoomedIn(SchemaAfter(s), job.dir, applied, job.at + 1)
<1>1. /\ Tame(s) /\ Works(s)
      /\ job.at \in Nat \ {0} /\ job.dir \in {"up", "down"} /\ Migration \in 1..26
      /\ job.dir = "up" => Migration = applied + 1
      /\ job.dir = "down" => Migration = applied
      /\ applied \in 0..26
  BY AtFacts
<1>2. Migration \notin {2, 5, 15, 18} =>
        /\ job.dir = "up" => UpFact(Migration, job.at, s)
        /\ job.dir = "down" => PlainFact(Migration, s)
  BY AtFacts DEF DownFact
<1>3. Migration = 15 =>
        /\ job.at \in 1..5
        /\ job.dir = "up" => s = Rename(Old[OAuthNames[job.at]], New[OAuthNames[job.at]])
        /\ job.dir = "down" => s = Rename(New[OAuthNames[job.at]], Old[OAuthNames[job.at]])
  BY AtFacts
<1>4. Migration \in {2, 5, 18} => job.at \in 1..7 /\ RebuildStep(s, job.at)
  BY AtFacts
<1>5. ASSUME NEW t, t \in DOMAIN schema, ~Drops(s, t), s.op = "rename" => s.table # t
      PROVE  t \in DOMAIN SchemaAfter(s)
  <2>1. s.op = "drop" => s.table # t
    BY <1>5 DEF Drops
  <2> QED
    BY <1>1, <1>5, <2>1, TablesAfter DEF Tame, Calm, Drops
<1>6. CASE applied <= 17 /\ "alert_new" \in DOMAIN schema
           /\ ~(RebuildOf(job.dir, applied) /\ job.at \in 2..4)
  <2>1. Migration \notin {2, 5, 18}
    <3> SUFFICES ASSUME Migration \in {2, 5, 18}
                 PROVE  FALSE
      OBVIOUS
    <3>1. RebuildOf(job.dir, applied)
      BY RebuildingNow
    <3>2. job.at \notin 2..4 /\ job.at < 5
      BY <1>1, <1>6, <3>1 DEF RebuildIn
    <3>3. job.at = 1
      BY <1>1, <3>2
    <3>4. Creates(s, "alert_new") /\ ~s.lenient
      BY <1>4, <3>3 DEF RebuildStep
    <3> QED
      BY <1>1, <1>6, <3>4 DEF Works, Creates, Has
  <2>2. ~RebuildOf(job.dir, applied)
    BY <2>1, RebuildingNow
  <2>3. ~Drops(s, "alert_new") /\ (s.op = "rename" => s.table # "alert_new")
    <3>1. CASE Migration = 15
      BY <1>1, <1>3, <3>1, NamesDiffer DEF Rename, Drops
    <3>2. CASE Migration # 15
      <4>1. Migration \notin {2, 5, 15, 18}
        BY <2>1, <3>2
      <4> QED
        BY <1>1, <1>2, <4>1 DEF UpFact, PlainFact, Drops
    <3> QED
      BY <3>1, <3>2
  <2>4. "alert_new" \in DOMAIN SchemaAfter(s)
    BY <1>5, <1>6, <2>3
  <2> QED
    BY <1>6, <2>2, <2>4 DEF DoomedIn
<1>7. CASE applied <= 14 /\ "oauth2_client" \in DOMAIN schema
           /\ ~(job.dir = "up" /\ applied = 14 /\ job.at >= 2)
  <2>1. Migration # 15
    <3> SUFFICES ASSUME Migration = 15
                 PROVE  FALSE
      OBVIOUS
    <3>1. job.dir = "up" /\ applied = 14
      BY <1>1, <1>7
    <3>2. job.at = 1
      BY <1>1, <1>7, <3>1
    <3>3. s = Rename(Old[OAuthNames[1]], New[OAuthNames[1]])
      BY <1>3, <3>1, <3>2
    <3>4. s.op = "rename" /\ s.to = "oauth2_client"
      BY <3>3, OAuthTables DEF Rename
    <3> QED
      BY <1>1, <1>7, <3>4 DEF Works, Has
  <2>2. ~(job.dir = "up" /\ applied = 14)
    BY <1>1, <2>1
  <2>3. ~Drops(s, "oauth2_client") /\ (s.op = "rename" => s.table # "oauth2_client")
    <3>1. CASE Migration \in {2, 5, 18}
      BY <1>1, <1>4, <3>1 DEF RebuildStep, Creates, Drops, Follows
    <3>2. CASE Migration \notin {2, 5, 18}
      <4>1. Migration \notin {2, 5, 15, 18}
        BY <2>1, <3>2
      <4> QED
        BY <1>1, <1>2, <4>1 DEF UpFact, PlainFact, Drops
    <3> QED
      BY <3>1, <3>2
  <2>4. "oauth2_client" \in DOMAIN SchemaAfter(s)
    BY <1>5, <1>7, <2>3
  <2> QED
    BY <1>7, <2>2, <2>4 DEF DoomedIn
<1> QED
  BY <1>6, <1>7 DEF DoomedIn

\* A statement that works keeps what is due in its place.
LEMMA FineGoesOn ==
  ASSUME NEW s, At(s), MagicInv, Sound(schema, rows, notify),
         FineIn(schema, rows, job.dir, applied, job.at)
  PROVE  FineIn(SchemaAfter(s), RowsAfter(s), job.dir, applied, job.at + 1)
<1>1. /\ MadeIn(schema, job.dir, applied, job.at) /\ MovedIn(schema, job.dir, applied, job.at)
      /\ LateIn(schema, job.dir, applied, job.at)
      /\ PairsIn(schema, rows, job.dir, applied, job.at)
  BY DEF FineIn
<1>2. /\ job.dir \in {"up", "down"} /\ Migration \in 1..26 /\ applied \in 0..26
      /\ job.dir = "up" => Migration = applied + 1
      /\ job.dir = "down" => Migration = applied
  BY AtFacts
<1>3. Migration # 18 => /\ PairsIn(SchemaAfter(s), RowsAfter(s), job.dir, applied, job.at + 1)
                        /\ ~(job.dir = "up" /\ applied = 17)
  BY <1>2 DEF PairsIn
<1>4. CASE Migration \notin {2, 5, 15, 18}
  BY <1>1, <1>3, <1>4, PlainMade, PlainMoved, PlainLate DEF FineIn
<1>5. CASE Migration = 15
  <2>1. LateIn(SchemaAfter(s), job.dir, applied, job.at + 1)
    BY <1>1, <1>3, <1>5, RenamesFine DEF LateIn
  <2> QED
    BY <1>1, <1>3, <1>5, <2>1, RenamesFine DEF FineIn
<1>6. CASE Migration \in {2, 5}
  <2>1. LateIn(SchemaAfter(s), job.dir, applied, job.at + 1)
    BY <1>1, <1>3, <1>6, EarlyRebuild DEF LateIn
  <2> QED
    BY <1>1, <1>3, <1>6, <2>1, EarlyRebuild, RebuildMoved DEF FineIn
<1>7. CASE Migration = 18
  BY <1>1, <1>7, MagicMade, MagicLate, MagicPairs, RebuildMoved DEF FineIn
<1> QED
  BY <1>4, <1>5, <1>6, <1>7

\* Executing a statement keeps CompleteInv.
LEMMA ExecuteComplete ==
  ASSUME Inv, SoundInv, CompleteInv, Execute
  PROVE  CompleteInv'
<1> DEFINE s == Statements[job.at]
<1>1. JobOK /\ DataOK(schema, rows, notify, applied)
  BY DEF Inv
<1>2. /\ Running /\ job.at <= Len(Statements) /\ Works(s)
      /\ schema' = SchemaAfter(s) /\ rows' = RowsAfter(s)
      /\ UNCHANGED <<backend, applied, outcome, torn>>
      /\ job'.dir = job.dir /\ job'.at = job.at + 1
  BY <1>1, Executed
<1>3. ServedInv'
  BY <1>2 DEF CompleteInv, ServedInv, Running
<1> SUFFICES ASSUME backend = "sqlite"
             PROVE  CompleteInv'
  BY <1>2, <1>3 DEF CompleteInv
<1>4. At(s)
  BY <1>1, <1>2 DEF At
<1> HIDE DEF s
<1>5. RebuildIn(schema, job.dir, applied, job.at)
  BY DEF CompleteInv
<1>6. RebuildIn(SchemaAfter(s), job.dir, applied, job.at + 1)
  BY <1>4, <1>5, RebuildGoesOn
<1>7. ASSUME ~torn
      PROVE  \/ DoomedIn(SchemaAfter(s), job.dir, applied, job.at + 1)
             \/ FineIn(SchemaAfter(s), RowsAfter(s), job.dir, applied, job.at + 1)
  <2>1. CASE DoomedIn(schema, job.dir, applied, job.at)
    BY <1>4, <1>5, <2>1, DoomStays
  <2>2. CASE FineIn(schema, rows, job.dir, applied, job.at)
    BY <1>4, <2>2, FineGoesOn DEF SoundInv
  <2> QED
    BY <1>7, <2>1, <2>2 DEF CompleteInv
<1>8. RebuildIn(schema, job.dir, applied, job.at)'
  BY <1>2, <1>6 DEF RebuildIn, RebuildOf
<1>9. ~torn' => DoomedIn(schema, job.dir, applied, job.at)'
                \/ FineIn(schema, rows, job.dir, applied, job.at)'
  <2>1. /\ schema' = SchemaAfter(s) /\ rows' = RowsAfter(s) /\ applied' = applied /\ torn' = torn
        /\ job'.dir = job.dir /\ job'.at = job.at + 1
    BY <1>2
  <2>2. /\ DoomedIn(schema, job.dir, applied, job.at)' <=>
             DoomedIn(schema', job'.dir, applied', job'.at)
        /\ FineIn(schema, rows, job.dir, applied, job.at)' <=>
             FineIn(schema', rows', job'.dir, applied', job'.at)
    BY DEF DoomedIn, RebuildOf, FineIn, MadeIn, MovedIn, LateIn, PairsIn, DueAt, GoneAt, HoldsIn,
           PlaceAt, MovedAt
  <2> QED
    BY <1>7, <2>1, <2>2
<1> QED
  BY <1>2, <1>3, <1>8, <1>9 DEF CompleteInv

\* What the next state says of itself.
LEMMA NextNames ==
  /\ RebuildIn(schema, job.dir, applied, job.at)' <=> RebuildIn(schema', job'.dir, applied', job'.at)
  /\ DoomedIn(schema, job.dir, applied, job.at)' <=> DoomedIn(schema', job'.dir, applied', job'.at)
  /\ FineIn(schema, rows, job.dir, applied, job.at)' <=>
       FineIn(schema', rows', job'.dir, applied', job'.at)
BY DEF RebuildIn, DoomedIn, RebuildOf, FineIn, MadeIn, MovedIn, LateIn, PairsIn, DueAt, GoneAt,
       HoldsIn, PlaceAt, MovedAt

\* Where a command begins or ends nothing that is due is forgotten.
LEMMA FineAcross ==
  ASSUME NEW S, NEW R, NEW dir, NEW a, NEW i, NEW dir2, NEW a2, NEW i2, FineIn(S, R, dir, a, i),
         \A t, p : \A k \in 1..26, u \in 1..9, d \in 1..9 :
           Made(t, p, k, u, d) /\ DueAt(dir2, a2, i2, k, u, d) => DueAt(dir, a, i, k, u, d),
         \A j \in 1..5 : MovedAt(dir2, a2, i2, j) <=> MovedAt(dir, a, i, j),
         DueAt(dir2, a2, i2, 18, 4, 3) => DueAt(dir, a, i, 18, 4, 3),
         ~GoneAt(dir, a, i, "alert"), dir2 = "none" \/ i2 = 1
  PROVE  FineIn(S, R, dir2, a2, i2)
<1>1. \A t : PlaceAt(dir2, a2, i2, t) = PlaceAt(dir, a, i, t)
  BY PlaceSame
<1>2. \A t : ~GoneAt(dir, a, i, t)
  BY DEF GoneAt
<1>3. MadeIn(S, dir2, a2, i2)
  BY <1>1, <1>2 DEF FineIn, MadeIn
<1>4. MovedIn(S, dir2, a2, i2)
  BY DEF FineIn, MovedIn
<1>5. LateIn(S, dir2, a2, i2)
  BY DEF FineIn, LateIn
<1>6. PairsIn(S, R, dir2, a2, i2)
  BY DEF PairsIn
<1> QED
  BY <1>3, <1>4, <1>5, <1>6 DEF FineIn

\* Starting a command keeps CompleteInv: nothing is due yet that was not.
LEMMA StartComplete ==
  ASSUME Inv, CompleteInv, NEW dir \in {"up", "down"}, NEW n, Start(dir, n)
  PROVE  CompleteInv'
<1>1. /\ job = Idle /\ job' = [dir |-> dir, at |-> 1, left |-> n] /\ outcome' = "running"
      /\ UNCHANGED <<backend, schema, rows, applied, torn>> /\ applied \in 0..26
  BY DEF Start, Running, database, Inv, DataOK, Last
<1>2. job'.at = 1 /\ job'.dir = dir /\ job.dir = "none"
  BY <1>1 DEF Idle
<1>3. ServedInv'
  BY <1>1 DEF ServedInv
<1>4. RebuildIn(schema', job'.dir, applied', job'.at)
  BY <1>2 DEF RebuildIn
<1>5. DoomedIn(schema, job.dir, applied, job.at) => DoomedIn(schema', job'.dir, applied', job'.at)
  BY <1>1, <1>2 DEF DoomedIn, RebuildOf
<1>6. ASSUME FineIn(schema, rows, job.dir, applied, job.at)
      PROVE  FineIn(schema', rows', job'.dir, applied', job'.at)
  <2>1. FineIn(schema, rows, "none", applied, job.at)
    BY <1>2, <1>6
  <2>2. \A k \in 1..26, u \in 1..9, d \in 1..9 :
          DueAt(dir, applied, 1, k, u, d) <=> DueAt("none", applied, job.at, k, u, d)
    BY <1>1 DEF DueAt
  <2>3. ~GoneAt("none", applied, job.at, "alert")
    BY DEF GoneAt
  <2>4. DueAt(dir, applied, 1, 18, 4, 3) => DueAt("none", applied, job.at, 18, 4, 3)
    BY <2>2
  <2>5. \A j \in 1..5 : MovedAt(dir, applied, 1, j) <=> MovedAt("none", applied, job.at, j)
    BY <2>2 DEF MovedAt
  <2>6. \A t, p : \A k \in 1..26, u \in 1..9, d \in 1..9 :
          Made(t, p, k, u, d) /\ DueAt(dir, applied, 1, k, u, d) =>
            DueAt("none", applied, job.at, k, u, d)
    BY <2>2
  <2>7. FineIn(schema, rows, dir, applied, 1)
    BY <2>1, <2>3, <2>4, <2>5, <2>6, FineAcross
  <2> QED
    BY <1>1, <1>2, <2>7
<1> QED
  BY <1>1, <1>3, <1>4, <1>5, <1>6, NextNames DEF CompleteInv

\* Every table of OAuth is there, and where rename_oauth_tables has left it.
LEMMA MovedThere ==
  ASSUME NEW S, NEW dir, NEW a \in 14..26, NEW i, NEW j \in 1..5, MadeIn(S, dir, a, i),
         MovedAt(dir, a, i, j), dir \in {"up", "down", "none"}
  PROVE  New[OAuthNames[j]] \in DOMAIN S
<1> DEFINE t == New[OAuthNames[j]]
<1>1. \E k \in 9..10, u \in 1..9, d \in 1..9 : Made(t, "table", k, u, d)
  <2>1. j = 1 \/ j = 2 \/ j = 3 \/ j = 4 \/ j = 5
    OBVIOUS
  <2>2. \/ Made(t, "table", 9, 1, 9) \/ Made(t, "table", 9, 2, 8) \/ Made(t, "table", 9, 3, 7)
        \/ Made(t, "table", 9, 4, 6) \/ Made(t, "table", 10, 2, 4)
    BY <2>1, MadeTables, OAuthTables
  <2> HIDE DEF t
  <2>3. 9 \in 9..10 /\ 10 \in 9..10 /\ 1 \in 1..9 /\ 2 \in 1..9 /\ 3 \in 1..9 /\ 4 \in 1..9
        /\ 6 \in 1..9 /\ 7 \in 1..9 /\ 8 \in 1..9 /\ 9 \in 1..9
    OBVIOUS
  <2> QED
    BY <2>2, <2>3
<1>2. PICK k \in 9..10, u \in 1..9, d \in 1..9 : Made(t, "table", k, u, d)
  BY <1>1
<1>3. DueAt(dir, a, i, k, u, d) /\ k \in 1..26
  BY DEF DueAt
<1>4. ~GoneAt(dir, a, i, t)
  BY NamesDiffer DEF GoneAt
<1>5. HoldsIn(S, PlaceAt(dir, a, i, t), "table")
  BY <1>2, <1>3, <1>4 DEF MadeIn
<1>6. PlaceAt(dir, a, i, t) = t
  BY NamesDiffer DEF PlaceAt
<1> QED
  BY <1>5, <1>6 DEF HoldsIn

\* An `up` that ends early has left nothing undone that was due, or is doomed.
LEMMA UpEndsEarly ==
  ASSUME applied \in 0..26, job.dir = "up", job.at \in Nat \ {0},
         RebuildIn(schema, job.dir, applied, job.at),
         FineIn(schema, rows, job.dir, applied, job.at), NEW i
  PROVE  \/ DoomedIn(schema, "none", applied, i)
         \/ FineIn(schema, rows, "none", applied, i)
<1>1. CASE applied = 17 /\ job.at = 4
  <2>1. job.at \in 2..4 /\ RebuildOf(job.dir, applied)
    BY <1>1 DEF RebuildOf
  <2>2. "alert_new" \in DOMAIN schema
    BY <2>1 DEF RebuildIn
  <2> QED
    BY <1>1, <2>2 DEF DoomedIn, RebuildOf
<1>2. CASE applied = 14 /\ job.at >= 2
  <2>1. MovedAt(job.dir, applied, job.at, 1)
    BY <1>2 DEF MovedAt, DueAt
  <2>2. New[OAuthNames[1]] \in DOMAIN schema
    BY <1>2, <2>1, MovedThere DEF FineIn
  <2>3. "oauth2_client" \in DOMAIN schema
    BY <2>2, OAuthTables
  <2> QED
    BY <1>2, <2>3 DEF DoomedIn
<1>3. CASE ~(applied = 17 /\ job.at = 4) /\ ~(applied = 14 /\ job.at >= 2)
  <2>1. \A t, p : \A k \in 1..26, u \in 1..9, d \in 1..9 :
          Made(t, p, k, u, d) /\ DueAt("none", applied, i, k, u, d) =>
            DueAt(job.dir, applied, job.at, k, u, d)
    BY DEF DueAt
  <2>2. \A j \in 1..5 : MovedAt("none", applied, i, j) <=> MovedAt(job.dir, applied, job.at, j)
    BY <1>3 DEF MovedAt, DueAt
  <2>3. DueAt("none", applied, i, 18, 4, 3) => DueAt(job.dir, applied, job.at, 18, 4, 3)
    BY DEF DueAt
  <2>4. ~GoneAt(job.dir, applied, job.at, "alert")
    BY <1>3 DEF GoneAt
  <2>5. FineIn(schema, rows, "none", applied, i)
    BY <2>1, <2>2, <2>3, <2>4, FineAcross
  <2> QED
    BY <2>5
<1> QED
  BY <1>1, <1>2, <1>3

\* alert is there, but between the drop and the rename of a rebuild.
LEMMA AlertThere ==
  ASSUME NEW S, NEW dir \in {"up", "down", "none"}, NEW a \in 11..26, NEW i, MadeIn(S, dir, a, i),
         ~GoneAt(dir, a, i, "alert")
  PROVE  "alert" \in DOMAIN S
<1>1. Made("alert", "user_id", 10, 1, 5)
  BY MadeTables
<1>2. DueAt(dir, a, i, 10, 1, 5)
  BY DEF DueAt
<1>3. 10 \in 1..26 /\ 1 \in 1..9 /\ 5 \in 1..9
  OBVIOUS
<1>4. HoldsIn(S, PlaceAt(dir, a, i, "alert"), "user_id")
  BY <1>1, <1>2, <1>3 DEF MadeIn
<1>5. PlaceAt(dir, a, i, "alert") = "alert"
  BY NamesDiffer DEF PlaceAt
<1> QED
  BY <1>4, <1>5 DEF HoldsIn

\* The rollback of fix_oauth_alert_magic_token fails early or not at all.
LEMMA MagicFailsEarly ==
  ASSUME JobOK, DataOK(schema, rows, notify, applied), Running, backend = "sqlite",
         job.at <= Len(Statements), job.dir = "down", applied = 18,
         Sound(schema, rows, notify), RebuildIn(schema, job.dir, applied, job.at),
         FineIn(schema, rows, job.dir, applied, job.at), ~Works(Statements[job.at])
  PROVE  job.at \in 1..2
<1> DEFINE s == Statements[job.at]
<1>1. Migration = 18 /\ Statements = Down[18]
  BY RunningJob DEF Statements
<1>2. job.at \in 1..7 /\ RebuildStep(s, job.at)
  BY <1>1, StatementOf
<1>3. MagicTokenFact(Up[18], Down[18])
  BY RebuildFacts
<1>4. Len(Statements) = 6 /\ job.at \in 1..6
  <2>1. Len(Statements) = 6
    BY <1>1, <1>3 DEF MagicTokenFact
  <2> QED
    BY <1>2, <2>1
<1>5. MadeIn(schema, job.dir, applied, job.at) /\ PairsIn(schema, rows, job.dir, applied, job.at)
  BY DEF FineIn
<1>6. job.at # 4 => "alert" \in DOMAIN schema
  <2>1. ASSUME job.at # 4
        PROVE  ~GoneAt(job.dir, applied, job.at, "alert")
    BY <2>1 DEF GoneAt
  <2> QED
    BY <1>5, <2>1, AlertThere
<1>7. ASSUME job.at = 3
      PROVE  Works(s)
  <2>1. s.op = "drop" /\ s.table = "alert"
    BY <1>2, <1>7 DEF RebuildStep, Drops
  <2> QED
    BY <1>6, <1>7, <2>1 DEF Works, Has
<1>8. ASSUME job.at = 4
      PROVE  Works(s)
  <2>1. s.op = "rename" /\ s.table = "alert_new" /\ s.to = "alert"
    BY <1>2, <1>8 DEF RebuildStep
  <2>2. "alert_new" \in DOMAIN schema
    <3>1. job.at \in 2..4 /\ RebuildOf(job.dir, applied)
      BY <1>8 DEF RebuildOf
    <3> QED
      BY <3>1 DEF RebuildIn
  <2>3. "alert" \notin DOMAIN schema
    BY <1>5, <1>8 DEF PairsIn
  <2> QED
    BY <2>1, <2>2, <2>3 DEF Works, Has
<1>9. ASSUME job.at = 5 \/ job.at = 6
      PROVE  Works(s)
  <2>1. /\ s.op = "add" /\ s.table = "alert" /\ s.lenient
        /\ job.at = 5 => s.part = PairIndex
        /\ job.at = 6 => s.part = "idx_alert_user_id"
    BY <1>1, <1>3, <1>9 DEF MagicTokenFact, Adds
  <2>2. "alert" \in DOMAIN schema
    BY <1>6, <1>9
  <2>3. Fits(schema["alert"], rows["alert"])
    BY <2>2 DEF Sound, Tables
  <2>4. CASE job.at = 5
    <3>1. Pairs(rows["alert"])
      BY <1>5, <2>4 DEF PairsIn
    <3>2. PairIndex \notin {"token not null", "unique email", "unique token",
                            "idx_magic_token_unique"}
      BY DEF PairIndex
    <3>3. Fits(schema["alert"] \cup {PairIndex}, rows["alert"])
      BY <2>3, <3>1, <3>2 DEF Fits, Pairs
    <3> QED
      BY <2>1, <2>2, <2>4, <3>3 DEF Works, Has
  <2>5. CASE job.at = 6
    <3>1. "idx_alert_user_id" \notin {"token not null", "unique email", "unique token",
                                      "idx_magic_token_unique", PairIndex}
      BY DEF PairIndex
    <3>2. Fits(schema["alert"] \cup {"idx_alert_user_id"}, rows["alert"])
      BY <2>3, <3>1 DEF Fits
    <3> QED
      BY <2>1, <2>2, <2>5, <3>2 DEF Works, Has
  <2> QED
    BY <1>9, <2>4, <2>5
<1> QED
  BY <1>4, <1>7, <1>8, <1>9

\* What a rollback calls a table, but for that of rename_oauth_tables.
LEMMA PlaceDown ==
  ASSUME NEW a \in 1..26, a # 15, NEW i, NEW t
  PROVE  PlaceAt("down", a, i, t) = Called(a, t)
<1>1. \A dir : dir = "down" => PlaceAt(dir, a, i, t) = Called(a, t)
  BY PlaceOf
<1> QED
  BY <1>1

\* A rollback that fails has taken away nothing that its migration made.
LEMMA DownFailsEarly ==
  ASSUME JobOK, DataOK(schema, rows, notify, applied), Running, backend = "sqlite",
         job.at <= Len(Statements), job.dir = "down",
         Sound(schema, rows, notify), RebuildIn(schema, job.dir, applied, job.at),
         FineIn(schema, rows, job.dir, applied, job.at), ~Works(Statements[job.at])
  PROVE  /\ applied # 15
         /\ \A t, p : \A u \in 1..9, d \in 1..9 : Made(t, p, applied, u, d) => job.at <= d
<1> DEFINE s == Statements[job.at]
           i == job.at
<1>1. /\ Migration = applied /\ applied \in 1..26 /\ i \in Nat \ {0}
      /\ ~Works(s)
  BY RunningJob DEF Last
<1>2. MadeIn(schema, "down", applied, i) /\ MovedIn(schema, "down", applied, i)
  BY DEF FineIn
<1>3. applied # 15
  <2> SUFFICES ASSUME applied = 15
               PROVE  FALSE
    OBVIOUS
  <2>1. i \in 1..5 /\ s = Rename(New[OAuthNames[i]], Old[OAuthNames[i]])
    BY <1>1, StatementOf
  <2>2. s.op = "rename" /\ s.table = New[OAuthNames[i]] /\ s.to = Old[OAuthNames[i]]
    BY <2>1 DEF Rename
  <2> HIDE DEF s, i
  <2>3. MovedAt("down", 15, i, i)
    BY <2>1 DEF MovedAt, DueAt
  <2>4. New[OAuthNames[i]] \in DOMAIN schema
    <3>1. MadeIn(schema, "down", 15, i) /\ 15 \in 14..26 /\ i \in 1..5
      BY <1>2, <2>1
    <3> QED
      BY <2>3, <3>1, MovedThere
  <2>5. Old[OAuthNames[i]] \notin DOMAIN schema
    BY <1>2, <2>1, <2>3 DEF MovedIn
  <2> QED
    BY <1>1, <2>2, <2>4, <2>5 DEF Works, Has
<1>4. ASSUME NEW t, NEW p, NEW u \in 1..9, NEW d \in 1..9, Made(t, p, applied, u, d), ~(i <= d)
      PROVE  FALSE
  <2>1. applied \notin {2, 5, 15}
    BY <1>1, <1>4, MadeBounds
  <2>2. CASE applied = 18
    <3>1. d = 3
      BY <1>1, <1>4, <2>2, MadeOfAlert
    <3>2. i \in 1..2
      BY <2>2, MagicFailsEarly
    <3> QED
      BY <1>4, <3>1, <3>2
  <2>3. CASE applied # 18
    <3>1. Migration \notin {2, 5, 15, 18}
      BY <1>1, <2>1, <2>3
    <3>2. DownFact(Migration, i, s)
      BY <3>1, StatementOf
    <3>3. OwnFact(applied, i, s)
      BY <1>1, <3>2 DEF DownFact
    <3>4. d < i
      BY <1>1, <1>4
    <3>5. PICK t2, u2 : /\ s.table = Called(applied, t2) /\ s.op \in {"drop", "remove"}
                        /\ s.op = "remove" => s.part # "table"
                        /\ Made(t2, IF s.op = "drop" THEN "table" ELSE s.part, applied, u2, i)
      BY <1>4, <3>3, <3>4 DEF OwnFact
    <3> DEFINE q == IF s.op = "drop" THEN "table" ELSE s.part
    <3>6. Made(t2, q, applied, u2, i)
      BY <3>5
    <3> HIDE DEF q
    <3>7. u2 \in 1..9 /\ i \in 1..9
      BY <1>1, <3>6 DEF Made
    <3>8. DueAt("down", applied, i, applied, u2, i) /\ ~GoneAt("down", applied, i, t2)
      BY <1>1, <2>3 DEF DueAt, GoneAt
    <3>9. HoldsIn(schema, PlaceAt("down", applied, i, t2), q)
      BY <1>1, <1>2, <3>6, <3>7, <3>8 DEF MadeIn
    <3>10. PlaceAt("down", applied, i, t2) = Called(applied, t2)
      <4>1. applied # 15 /\ applied \in 0..26
        BY <1>1, <2>1
      <4> QED
        BY <1>1, <4>1, PlaceDown
    <3>11. HoldsIn(schema, s.table, q)
      BY <3>5, <3>9, <3>10
    <3>12. CASE s.op = "drop"
      BY <1>1, <3>11, <3>12 DEF HoldsIn, Works, Has
    <3>13. CASE s.op = "remove"
      <4>1. q = s.part /\ q # "table"
        BY <3>5, <3>13 DEF q
      <4>2. s.table \in DOMAIN schema /\ s.part \in schema[s.table]
        BY <3>11, <4>1 DEF HoldsIn
      <4>3. Present(s)
        BY <4>2 DEF Present, Has, SamePart
      <4> QED
        BY <1>1, <3>13, <4>3 DEF Works
    <3> QED
      BY <3>5, <3>12, <3>13
  <2> QED
    BY <2>2, <2>3
<1> QED
  BY <1>3, <1>4

\* A rollback that fails at a statement has taken away nothing the server misses: it fails
\* at the first one, or where it restores the addresses before it drops their table.
LEMMA DownEndsEarly ==
  ASSUME JobOK, DataOK(schema, rows, notify, applied), Running, backend = "sqlite",
         job.at <= Len(Statements), job.dir = "down",
         Sound(schema, rows, notify), RebuildIn(schema, job.dir, applied, job.at),
         FineIn(schema, rows, job.dir, applied, job.at), ~Works(Statements[job.at]), NEW i
  PROVE  FineIn(schema, rows, "none", applied, i)
<1>1. applied \in 1..26 /\ job.at \in Nat \ {0}
  BY RunningJob DEF Last
<1>2. /\ applied # 15
      /\ \A t, p : \A u \in 1..9, d \in 1..9 : Made(t, p, applied, u, d) => job.at <= d
  BY DownFailsEarly
<1>3. applied = 18 => job.at \in 1..2
  BY MagicFailsEarly
<1>4. \A t, p : \A k \in 1..26, u \in 1..9, d \in 1..9 :
        Made(t, p, k, u, d) /\ DueAt("none", applied, i, k, u, d) =>
          DueAt("down", applied, job.at, k, u, d)
  <2> SUFFICES ASSUME NEW t, NEW p, NEW k \in 1..26, NEW u \in 1..9, NEW d \in 1..9,
                      Made(t, p, k, u, d), applied >= k
               PROVE  applied > k \/ (applied = k /\ job.at <= d)
    BY DEF DueAt
  <2>1. CASE applied = k
    BY <1>2, <2>1
  <2>2. CASE applied # k
    BY <1>1, <2>2
  <2> QED
    BY <2>1, <2>2
<1>5. \A j \in 1..5 : MovedAt("none", applied, i, j) <=> MovedAt("down", applied, job.at, j)
  BY <1>1, <1>2 DEF MovedAt, DueAt
<1>6. DueAt("none", applied, i, 18, 4, 3) => DueAt("down", applied, job.at, 18, 4, 3)
  BY <1>1, <1>3 DEF DueAt
<1>7. ~GoneAt("down", applied, job.at, "alert")
  BY <1>3 DEF GoneAt
<1>8. FineIn(schema, rows, "down", applied, job.at)
  OBVIOUS
<1> QED
  BY <1>4, <1>5, <1>6, <1>7, <1>8, FineAcross

\* The end of a statement that fails, or of a process that dies, keeps CompleteInv.
LEMMA RollBackComplete ==
  ASSUME Inv, SoundInv, CompleteInv, Running, RollBack, job' = Idle, backend' = backend,
         outcome' # "served", torn => torn',
         \/ job.dir = "down" /\ backend = "sqlite" => torn'
         \/ job.at <= Len(Statements) /\ ~Works(Statements[job.at])
  PROVE  CompleteInv'
<1>1. /\ JobOK /\ DataOK(schema, rows, notify, applied) /\ torn \in BOOLEAN
      /\ applied \in 0..26 /\ job.dir \in {"up", "down"} /\ job.at \in Nat \ {0}
      /\ job'.dir = "none"
  BY RunningJob DEF Inv, DataOK, Last, Idle
<1>2. ServedInv'
  BY DEF ServedInv
<1> SUFFICES ASSUME backend = "sqlite"
             PROVE  CompleteInv'
  BY <1>2 DEF CompleteInv
<1>3. schema' = schema /\ rows' = rows /\ applied' = applied
  BY DEF RollBack, OnSqlite, database
<1>4. RebuildIn(schema', job'.dir, applied', job'.at)
  BY <1>1 DEF RebuildIn, RebuildOf
<1>5. ASSUME ~torn'
      PROVE  \/ DoomedIn(schema', job'.dir, applied', job'.at)
             \/ FineIn(schema', rows', job'.dir, applied', job'.at)
  <2>1. /\ RebuildIn(schema, job.dir, applied, job.at)
        /\ \/ DoomedIn(schema, job.dir, applied, job.at)
           \/ FineIn(schema, rows, job.dir, applied, job.at)
    BY <1>5 DEF CompleteInv
  <2>2. CASE DoomedIn(schema, job.dir, applied, job.at)
    BY <1>1, <1>3, <2>2 DEF DoomedIn, RebuildOf
  <2>3. CASE job.dir = "up" /\ FineIn(schema, rows, job.dir, applied, job.at)
    <3>1. \/ DoomedIn(schema, "none", applied, job'.at)
          \/ FineIn(schema, rows, "none", applied, job'.at)
      BY <1>1, <2>1, <2>3, UpEndsEarly
    <3> QED
      BY <1>1, <1>3, <3>1
  <2>4. CASE job.dir = "down" /\ FineIn(schema, rows, job.dir, applied, job.at)
    <3>1. job.at <= Len(Statements) /\ ~Works(Statements[job.at])
      BY <1>5, <2>4
    <3>2. Sound(schema, rows, notify)
      BY DEF SoundInv
    <3>3. FineIn(schema, rows, "none", applied, job'.at)
      BY <1>1, <2>1, <2>4, <3>1, <3>2, DownEndsEarly
    <3> QED
      BY <1>1, <1>3, <3>3
  <2> QED
    BY <1>1, <2>1, <2>2, <2>3, <2>4
<1> QED
  BY <1>2, <1>4, <1>5, NextNames DEF CompleteInv

\* The lengths of the lists that matter at the end of a migration.
LEMMA LongLists ==
  ASSUME backend = "sqlite"
  PROVE  /\ Len(Up[15]) = 5 /\ Len(Down[15]) = 5 /\ Len(Up[18]) = 7 /\ Len(Down[18]) = 6
<1>1. Len(Up[15]) = 5 /\ Len(Down[15]) = 5
  BY RenameFacts
<1>2. Len(Up[18]) = 7 /\ Len(Down[18]) = 6
  BY RebuildFacts DEF MagicTokenFact
<1> QED
  BY <1>1, <1>2

\* At the end of an Up all it makes is made.
LEMMA UpRecorded ==
  ASSUME Running, JobOK, DataOK(schema, rows, notify, applied), backend = "sqlite",
         job.dir = "up", job.at > Len(Statements), NEW dir \in {"up", "none"}, NEW i,
         dir = "up" => i = 1, RebuildIn(schema, job.dir, applied, job.at)
  PROVE  /\ DoomedIn(schema, job.dir, applied, job.at) => DoomedIn(schema, dir, applied + 1, i)
         /\ FineIn(schema, rows, job.dir, applied, job.at) =>
              FineIn(schema, rows, dir, applied + 1, i)
<1>1. /\ applied \in 0..25 /\ job.at \in Nat /\ Statements = Up[applied + 1]
      /\ job.at > Len(Up[applied + 1])
  <2>1. /\ Migration = applied + 1 /\ Migration \in 1..26 /\ applied \in 0..26 /\ job.at \in Nat
    BY RunningJob DEF DataOK, Last
  <2>2. applied \in 0..25
    BY <2>1
  <2>3. Statements = Up[applied + 1]
    BY <2>1 DEF Statements
  <2> QED
    BY <2>1, <2>2, <2>3
<1>2. /\ applied = 14 => job.at > 5
      /\ applied = 17 => job.at > 7
  <2>1. Len(Up[15]) = 5 /\ Len(Up[18]) = 7 /\ 14 + 1 = 15 /\ 17 + 1 = 18
    BY LongLists
  <2>2. ASSUME applied = 14
        PROVE  job.at > 5
    <3>1. applied + 1 = 15
      BY <2>2
    <3>2. job.at > Len(Up[15])
      BY <1>1, <3>1
    <3> QED
      BY <2>1, <3>2
  <2>3. ASSUME applied = 17
        PROVE  job.at > 7
    <3>1. applied + 1 = 18
      BY <2>3
    <3>2. job.at > Len(Up[18])
      BY <1>1, <3>1
    <3> QED
      BY <2>1, <3>2
  <2> QED
    BY <2>2, <2>3
<1>3. ASSUME DoomedIn(schema, job.dir, applied, job.at)
      PROVE  DoomedIn(schema, dir, applied + 1, i)
  <2>1. CASE applied <= 17 /\ "alert_new" \in DOMAIN schema
    <3>1. applied # 17
      <4>1. applied = 17 => RebuildOf(job.dir, applied) /\ job.at >= 5
        BY <1>1, <1>2 DEF RebuildOf
      <4> QED
        BY <2>1, <4>1 DEF RebuildIn
    <3>2. applied + 1 <= 17 /\ ~(RebuildOf(dir, applied + 1) /\ i \in 2..4)
      BY <1>1, <2>1, <3>1 DEF RebuildOf
    <3> QED
      BY <2>1, <3>2 DEF DoomedIn
  <2>2. CASE applied <= 14 /\ "oauth2_client" \in DOMAIN schema /\ ~(applied = 14 /\ job.at >= 2)
    <3>1. applied + 1 <= 14 /\ ~(dir = "up" /\ i >= 2)
      BY <1>1, <1>2, <2>2
    <3> QED
      BY <2>2, <3>1 DEF DoomedIn
  <2> QED
    BY <1>3, <2>1, <2>2 DEF DoomedIn
<1>4. ASSUME FineIn(schema, rows, job.dir, applied, job.at)
      PROVE  FineIn(schema, rows, dir, applied + 1, i)
  <2>1. \A t, p : \A k \in 1..26, u \in 1..9, d \in 1..9 :
          Made(t, p, k, u, d) /\ DueAt(dir, applied + 1, i, k, u, d) =>
            DueAt("up", applied, job.at, k, u, d)
    <3> SUFFICES ASSUME NEW t, NEW p, NEW k \in 1..26, NEW u \in 1..9, NEW d \in 1..9,
                        Made(t, p, k, u, d), DueAt(dir, applied + 1, i, k, u, d)
                 PROVE  applied >= k \/ (applied + 1 = k /\ job.at > u)
      BY DEF DueAt
    <3>1. applied + 1 >= k
      BY <1>1 DEF DueAt
    <3>2. CASE applied + 1 = k
      BY <1>1, <3>2, MadeWithin
    <3>3. CASE applied + 1 # k
      BY <1>1, <3>1, <3>3
    <3> QED
      BY <3>2, <3>3
  <2>2. \A j \in 1..5 : MovedAt(dir, applied + 1, i, j) <=> MovedAt("up", applied, job.at, j)
    BY <1>1, <1>2 DEF MovedAt, DueAt
  <2>3. DueAt(dir, applied + 1, i, 18, 4, 3) => DueAt("up", applied, job.at, 18, 4, 3)
    BY <1>1, <1>2 DEF DueAt
  <2>4. ~GoneAt("up", applied, job.at, "alert")
    BY <1>2 DEF GoneAt
  <2>5. FineIn(schema, rows, "up", applied, job.at) /\ (dir = "none" \/ i = 1)
    BY <1>4
  <2> QED
    BY <2>1, <2>2, <2>3, <2>4, <2>5, FineAcross
<1> QED
  BY <1>3, <1>4

\* At the end of a Down all its migration made is gone.
LEMMA DownRecorded ==
  ASSUME Running, JobOK, DataOK(schema, rows, notify, applied), backend = "sqlite",
         job.dir = "down", job.at > Len(Statements), NEW i,
         RebuildIn(schema, job.dir, applied, job.at)
  PROVE  /\ DoomedIn(schema, job.dir, applied, job.at) => DoomedIn(schema, "none", applied - 1, i)
         /\ FineIn(schema, rows, job.dir, applied, job.at) =>
              FineIn(schema, rows, "none", applied - 1, i)
<1>1. /\ applied \in 1..26 /\ job.at \in Nat /\ Statements = Down[applied]
      /\ job.at > Len(Down[applied])
  BY RunningJob DEF DataOK, Last, Statements
<1>2. /\ applied = 15 => job.at > 5
      /\ applied = 18 => job.at > 6
  BY <1>1, LongLists
<1>3. ASSUME DoomedIn(schema, job.dir, applied, job.at)
      PROVE  DoomedIn(schema, "none", applied - 1, i)
  BY <1>1, <1>3 DEF DoomedIn, RebuildOf
<1>4. ASSUME FineIn(schema, rows, job.dir, applied, job.at)
      PROVE  FineIn(schema, rows, "none", applied - 1, i)
  <2>1. \A t, p : \A k \in 1..26, u \in 1..9, d \in 1..9 :
          Made(t, p, k, u, d) /\ DueAt("none", applied - 1, i, k, u, d) =>
            DueAt("down", applied, job.at, k, u, d)
    BY <1>1 DEF DueAt
  <2>2. \A j \in 1..5 : MovedAt("none", applied - 1, i, j) <=> MovedAt("down", applied, job.at, j)
    BY <1>1, <1>2 DEF MovedAt, DueAt
  <2>3. DueAt("none", applied - 1, i, 18, 4, 3) => DueAt("down", applied, job.at, 18, 4, 3)
    BY <1>1 DEF DueAt
  <2>4. ~GoneAt("down", applied, job.at, "alert")
    BY <1>2 DEF GoneAt
  <2>5. FineIn(schema, rows, "down", applied, job.at)
    BY <1>4
  <2> QED
    BY <2>1, <2>2, <2>3, <2>4, <2>5, FineAcross
<1> QED
  BY <1>3, <1>4

\* Recording a migration keeps CompleteInv.
LEMMA RecordComplete ==
  ASSUME Inv, CompleteInv, Record
  PROVE  CompleteInv'
<1>1. /\ Running /\ job.at > Len(Statements)
      /\ applied' = IF job.dir = "up" THEN applied + 1 ELSE applied - 1
      /\ \/ /\ job' = Idle
            /\ outcome' = "served" => applied' = Last
         \/ job.left # 1 /\ job' = [job EXCEPT !.at = 1, !.left = @ - 1] /\ outcome' = outcome
      /\ UNCHANGED <<backend, schema, rows, torn>>
  BY DEF Record, Finish
<1>2. JobOK /\ DataOK(schema, rows, notify, applied)
  BY DEF Inv
<1>3. /\ job \in [dir : {"up", "down"}, at : Nat \ {0}, left : Nat \ {0}]
      /\ job.dir \in {"up", "down"} /\ (job.dir = "down" => job.left = 1)
  BY <1>1, <1>2, RunningJob DEF JobOK, Running
<1> DEFINE more == [job EXCEPT !.at = 1, !.left = @ - 1]
<1>4. more.dir = job.dir /\ more.at = 1
  BY <1>3
<1> HIDE DEF more
<1>5. \/ job'.dir = "none"
      \/ job'.dir = "up" /\ job'.at = 1 /\ job.dir = "up"
  <2>1. CASE job' = Idle
    BY <2>1 DEF Idle
  <2>2. CASE job.left # 1 /\ job' = more
    BY <1>3, <1>4, <2>2
  <2> QED
    BY <1>1, <2>1, <2>2 DEF more
<1>6. ServedInv'
  <2>1. outcome # "served"
    BY <1>1 DEF CompleteInv, ServedInv, Running
  <2> QED
    BY <1>1, <2>1 DEF ServedInv
<1> SUFFICES ASSUME backend = "sqlite"
             PROVE  CompleteInv'
  BY <1>1, <1>6 DEF CompleteInv
<1>7. RebuildIn(schema, job.dir, applied, job.at)
  BY DEF CompleteInv
<1>8. RebuildIn(schema', job'.dir, applied', job'.at)
  BY <1>5 DEF RebuildIn, RebuildOf
<1>9. /\ DoomedIn(schema, job.dir, applied, job.at) =>
           DoomedIn(schema, job'.dir, applied', job'.at)
      /\ FineIn(schema, rows, job.dir, applied, job.at) =>
           FineIn(schema, rows, job'.dir, applied', job'.at)
  <2>1. CASE job.dir = "up"
    <3>1. applied' = applied + 1 /\ job'.dir \in {"up", "none"} /\ (job'.dir = "up" => job'.at = 1)
      BY <1>1, <1>5, <2>1
    <3> QED
      BY <1>1, <1>2, <1>7, <2>1, <3>1, UpRecorded
  <2>2. CASE job.dir = "down"
    <3>1. applied' = applied - 1 /\ job'.dir = "none"
      BY <1>1, <1>5, <2>2
    <3> QED
      BY <1>1, <1>2, <1>7, <2>2, <3>1, DownRecorded
  <2> QED
    BY <1>3, <2>1, <2>2
<1> QED
  BY <1>1, <1>6, <1>8, <1>9, NextNames DEF CompleteInv

\* So does what touches no schema.
LEMMA RestComplete ==
  ASSUME CompleteInv, UNCHANGED <<backend, schema, applied, job, torn>>,
         outcome' = "served" => job = Idle /\ applied = Last,
         rows' = rows \/ job = Idle
  PROVE  CompleteInv'
<1>1. ServedInv'
  BY DEF ServedInv
<1>2. rows' = rows \/ job.dir = "none"
  BY DEF Idle
<1>3. FineIn(schema, rows, job.dir, applied, job.at) => FineIn(schema, rows', job.dir, applied, job.at)
  BY <1>2 DEF FineIn, PairsIn
<1>4. CompleteInv => /\ RebuildIn(schema, job.dir, applied, job.at) \/ backend # "sqlite"
                     /\ \/ backend # "sqlite" \/ torn
                        \/ DoomedIn(schema, job.dir, applied, job.at)
                        \/ FineIn(schema, rows, job.dir, applied, job.at)
  BY DEF CompleteInv
<1>5. schema' = schema /\ job' = job /\ applied' = applied /\ backend' = backend /\ torn' = torn
  OBVIOUS
<1>6. /\ RebuildIn(schema', job'.dir, applied', job'.at) \/ backend' # "sqlite"
      /\ \/ backend' # "sqlite" \/ torn'
         \/ DoomedIn(schema', job'.dir, applied', job'.at)
         \/ FineIn(schema', rows', job'.dir, applied', job'.at)
  BY <1>3, <1>4, <1>5
<1> QED
  BY <1>1, <1>6, NextNames DEF CompleteInv

\* On SQLite the schema has all that is due, or a copy or a renaming was left in the middle
\* that stops every later `up`, unless a rollback died under way.
LEMMA CompleteInvIsInductive == Spec => []CompleteInv
<1>1. Init => CompleteInv
  <2> SUFFICES ASSUME Init
               PROVE  CompleteInv
    OBVIOUS
  <2>1. /\ applied = 0 /\ job.dir = "none" /\ DOMAIN schema = {} /\ outcome = "none"
    BY DEF Init, Idle
  <2>2. RebuildIn(schema, job.dir, applied, job.at)
    BY <2>1 DEF RebuildIn, RebuildOf
  <2>3. FineIn(schema, rows, job.dir, applied, job.at)
    BY <2>1 DEF FineIn, MadeIn, MovedIn, MovedAt, LateIn, PairsIn, DueAt
  <2> QED
    BY <2>1, <2>2, <2>3 DEF CompleteInv, ServedInv
<1>2. Inv /\ SoundInv /\ CompleteInv /\ [Next]_vars => CompleteInv'
  <2> SUFFICES ASSUME Inv, SoundInv, CompleteInv, [Next]_vars
               PROVE  CompleteInv'
    OBVIOUS
  <2>1. CASE StartUp
    BY <2>1, StartComplete DEF StartUp
  <2>2. CASE StartDown
    BY <2>2, StartComplete DEF StartDown
  <2>3. CASE Execute
    BY <2>3, ExecuteComplete
  <2>4. CASE Fails
    <3>1. /\ Running /\ job.at <= Len(Statements) /\ ~Works(Statements[job.at]) /\ RollBack
          /\ job' = Idle /\ outcome' # "served" /\ backend' = backend /\ torn' = torn
      BY <2>4 DEF Fails, Finish
    <3> QED
      BY <3>1, RollBackComplete
  <2>5. CASE Record
    BY <2>5, RecordComplete
  <2>6. CASE NothingToDo
    BY <2>6, RestComplete DEF NothingToDo, database, Running
  <2>7. CASE Crash
    <3>1. /\ Running /\ RollBack /\ job' = Idle /\ outcome' # "served" /\ backend' = backend
          /\ torn' = (torn \/ (job.dir = "down" /\ backend = "sqlite"))
      BY <2>7 DEF Crash, Finish
    <3>2. (torn => torn') /\ (job.dir = "down" /\ backend = "sqlite" => torn')
      BY <3>1
    <3> QED
      BY <3>1, <3>2, RollBackComplete
  <2>8. ASSUME NEW r \in Row, Insert(r)
        PROVE  CompleteInv'
    <3>1. /\ job = Idle /\ outcome' = outcome /\ UNCHANGED <<backend, schema, applied, job, torn>>
      BY <2>8 DEF Insert, Running
    <3>2. outcome = "served" => applied = Last
      BY DEF CompleteInv, ServedInv
    <3> QED
      BY <3>1, <3>2, RestComplete
  <2>9. ASSUME NEW i \in Ids, NEW e \in Emails, ReplaceNotify(i, e)
        PROVE  CompleteInv'
    <3>1. /\ job = Idle /\ outcome' = outcome /\ UNCHANGED <<backend, schema, applied, job, torn>>
      BY <2>9 DEF ReplaceNotify, Running
    <3>2. outcome = "served" => applied = Last
      BY DEF CompleteInv, ServedInv
    <3> QED
      BY <3>1, <3>2, RestComplete
  <2>10. CASE UNCHANGED vars
    <3>1. outcome' = outcome /\ rows' = rows /\ UNCHANGED <<backend, schema, applied, job, torn>>
      BY <2>10 DEF vars, database
    <3>2. outcome = "served" => job = Idle /\ applied = Last
      BY DEF CompleteInv, ServedInv
    <3> QED
      BY <3>1, <3>2, RestComplete
  <2> QED
    BY <2>1, <2>2, <2>3, <2>4, <2>5, <2>6, <2>7, <2>8, <2>9, <2>10 DEF Next
<1> QED
  BY <1>1, <1>2, InvIsInductive, SoundInvIsInductive, PTL DEF Spec

-----------------------------------------------------------------------------
(***************************************************************************)
(* What the server needs, and where it comes from.                         *)
(***************************************************************************)

Named(t, p) == \E k \in 1..26, u \in 1..9, d \in 1..9 : Made(t, p, k, u, d)

\* Made names it all.
LEMMA NeedsNamed ==
  /\ Named("alert", "last_check_at") /\ Named("alert", "last_failure_at")
  /\ Named("alert", "last_success_at") /\ Named("alert", "last_email_sent_at")
  /\ Named("alert", "failure_count") /\ Named("alert", "is_currently_failing")
  /\ Named("alert", "user_id") /\ Named("alert", "last_recovery_at") /\ Named("alert", PairIndex)
  /\ Named("alert", "notify_server_name_change") /\ Named("alert", "notify_version_change")
  /\ Named("alert", "notify_tls_cert_change") /\ Named("alert", "notify_tls_expiry")
  /\ Named("alert", "quiet_hours_enabled") /\ Named("alert", "quiet_hours_from")
  /\ Named("alert", "quiet_hours_to")
  /\ Named("federation_stat_aggregate", "unstable_features_enabled")
  /\ Named("federation_stat_aggregate", "unstable_features_announced")
  /\ Named("federation_stat_raw", "unstable_features_enabled")
  /\ Named("federation_stat_raw", "unstable_features_announced") /\ Named("email_log", "table")
  /\ Named("oauth2_client", "table") /\ Named("oauth2_client", "account-internal")
  /\ Named("oauth2_user", "table")
  /\ Named("oauth2_user", "password_hash") /\ Named("oauth2_user", "email_verification_token")
  /\ Named("oauth2_user", "email_verification_expires_at")
  /\ Named("oauth2_user", "receives_alerts") /\ Named("oauth2_user", "password_reset_token")
  /\ Named("oauth2_user", "password_reset_expires_at") /\ Named("oauth2_user", "timezone")
  /\ Named("oauth2_authorization", "table") /\ Named("oauth2_token", "table")
  /\ Named("oauth2_identity", "table")
  /\ Named("oauth2_identity", "idx_oauth2_identity_provider_subject")
  /\ Named("alert_status_history", "failure_reason") /\ Named("user_email", "timezone")
  /\ Named("email_outbox", "table") /\ Named("alert_notification_email", "table")
  /\ Named("alert_notification_email", "idx_alert_notification_email_unique")
  /\ Named("alert_observed_state", "table") /\ Named("alert_notification_webhook", "table")
  /\ Named("alert_notification_webhook", "idx_alert_notification_webhook_unique")
  /\ Named("webhook_outbox", "table")
<1>1. \A t, p : \A k \in 1..26, u \in 1..9, d \in 1..9 : Made(t, p, k, u, d) => Named(t, p)
  BY DEF Named
<1>3. /\ Named("alert", "last_check_at")
      /\ Named("alert", "last_failure_at")
      /\ Named("alert", "last_success_at")
      /\ Named("alert", "last_email_sent_at")
      /\ Named("alert", "failure_count")
      /\ Named("alert", "is_currently_failing")
  <2>1. /\ Made("alert", "last_check_at", 6, 1, 1)
        /\ Made("alert", "last_failure_at", 6, 2, 2)
        /\ Made("alert", "last_success_at", 6, 3, 3)
        /\ Made("alert", "last_email_sent_at", 6, 4, 4)
        /\ Made("alert", "failure_count", 6, 5, 5)
        /\ Made("alert", "is_currently_failing", 6, 6, 6)
    BY DEF Made
  <2>2. /\ 6 \in 1..26 /\ 1 \in 1..9 /\ 2 \in 1..9 /\ 3 \in 1..9
        /\ 4 \in 1..9 /\ 5 \in 1..9 /\ 6 \in 1..9
    OBVIOUS
  <2> QED
    BY <1>1, <2>1, <2>2
<1>4. /\ Named("alert", "user_id")
      /\ Named("alert", "last_recovery_at")
      /\ Named("alert", PairIndex)
      /\ Named("alert", "notify_server_name_change")
      /\ Named("alert", "notify_version_change")
      /\ Named("alert", "notify_tls_cert_change")
  <2>1. /\ Made("alert", "user_id", 10, 1, 5)
        /\ Made("alert", "last_recovery_at", 13, 1, 1)
        /\ Made("alert", PairIndex, 18, 6, 3)
        /\ Made("alert", "notify_server_name_change", 22, 1, 5)
        /\ Made("alert", "notify_version_change", 22, 2, 4)
        /\ Made("alert", "notify_tls_cert_change", 22, 3, 3)
    BY DEF Made
  <2>2. /\ 10 \in 1..26 /\ 13 \in 1..26 /\ 18 \in 1..26 /\ 22 \in 1..26 /\ 1 \in 1..9
        /\ 2 \in 1..9 /\ 3 \in 1..9 /\ 4 \in 1..9 /\ 5 \in 1..9 /\ 6 \in 1..9
    OBVIOUS
  <2> QED
    BY <1>1, <2>1, <2>2
<1>5. /\ Named("alert", "notify_tls_expiry")
      /\ Named("alert", "quiet_hours_enabled")
      /\ Named("alert", "quiet_hours_from")
      /\ Named("alert", "quiet_hours_to")
  <2>1. /\ Made("alert", "notify_tls_expiry", 22, 4, 2)
        /\ Made("alert", "quiet_hours_enabled", 24, 1, 3)
        /\ Made("alert", "quiet_hours_from", 24, 2, 2)
        /\ Made("alert", "quiet_hours_to", 24, 3, 1)
    BY DEF Made
  <2>2. 22 \in 1..26 /\ 24 \in 1..26 /\ 1 \in 1..9 /\ 2 \in 1..9 /\ 3 \in 1..9 /\ 4 \in 1..9
    OBVIOUS
  <2> QED
    BY <1>1, <2>1, <2>2
<1>6. /\ Named("federation_stat_aggregate", "unstable_features_enabled")
      /\ Named("federation_stat_aggregate", "unstable_features_announced")
  <2>1. /\ Made("federation_stat_aggregate", "unstable_features_enabled", 4, 1, 1)
        /\ Made("federation_stat_aggregate", "unstable_features_announced", 4, 2, 2)
    BY DEF Made
  <2>2. 4 \in 1..26 /\ 1 \in 1..9 /\ 2 \in 1..9
    OBVIOUS
  <2> QED
    BY <1>1, <2>1, <2>2
<1>7. /\ Named("federation_stat_raw", "unstable_features_enabled")
      /\ Named("federation_stat_raw", "unstable_features_announced")
  <2>1. /\ Made("federation_stat_raw", "unstable_features_enabled", 4, 3, 3)
        /\ Made("federation_stat_raw", "unstable_features_announced", 4, 4, 4)
    BY DEF Made
  <2>2. 4 \in 1..26 /\ 3 \in 1..9 /\ 4 \in 1..9
    OBVIOUS
  <2> QED
    BY <1>1, <2>1, <2>2
<1>8. Named("email_log", "table")
  <2>1. Made("email_log", "table", 7, 1, 4)
    BY DEF Made
  <2>2. 7 \in 1..26 /\ 1 \in 1..9 /\ 4 \in 1..9
    OBVIOUS
  <2> QED
    BY <1>1, <2>1, <2>2
<1>9. Named("oauth2_client", "table") /\ Named("oauth2_client", "account-internal")
  <2>1. /\ Made("oauth2_client", "table", 9, 1, 9)
        /\ Made("oauth2_client", "account-internal", 17, 1, 1)
    BY DEF Made
  <2>2. 9 \in 1..26 /\ 17 \in 1..26 /\ 1 \in 1..9 /\ 9 \in 1..9
    OBVIOUS
  <2> QED
    BY <1>1, <2>1, <2>2
<1>10. /\ Named("oauth2_user", "table")
       /\ Named("oauth2_user", "password_hash")
       /\ Named("oauth2_user", "email_verification_token")
       /\ Named("oauth2_user", "email_verification_expires_at")
       /\ Named("oauth2_user", "receives_alerts")
       /\ Named("oauth2_user", "password_reset_token")
  <2>1. /\ Made("oauth2_user", "table", 9, 2, 8)
        /\ Made("oauth2_user", "password_hash", 11, 1, 1)
        /\ Made("oauth2_user", "email_verification_token", 11, 2, 2)
        /\ Made("oauth2_user", "email_verification_expires_at", 11, 3, 3)
        /\ Made("oauth2_user", "receives_alerts", 16, 1, 1)
        /\ Made("oauth2_user", "password_reset_token", 20, 1, 1)
    BY DEF Made
  <2>2. /\ 9 \in 1..26 /\ 11 \in 1..26 /\ 16 \in 1..26 /\ 20 \in 1..26
        /\ 1 \in 1..9 /\ 2 \in 1..9 /\ 3 \in 1..9 /\ 8 \in 1..9
    OBVIOUS
  <2> QED
    BY <1>1, <2>1, <2>2
<1>11. /\ Named("oauth2_user", "password_reset_expires_at")
       /\ Named("oauth2_user", "timezone")
  <2>1. /\ Made("oauth2_user", "password_reset_expires_at", 20, 2, 2)
        /\ Made("oauth2_user", "timezone", 25, 2, 1)
    BY DEF Made
  <2>2. 20 \in 1..26 /\ 25 \in 1..26 /\ 1 \in 1..9 /\ 2 \in 1..9
    OBVIOUS
  <2> QED
    BY <1>1, <2>1, <2>2
<1>12. Named("oauth2_authorization", "table")
  <2>1. Made("oauth2_authorization", "table", 9, 3, 7)
    BY DEF Made
  <2>2. 9 \in 1..26 /\ 3 \in 1..9 /\ 7 \in 1..9
    OBVIOUS
  <2> QED
    BY <1>1, <2>1, <2>2
<1>13. Named("oauth2_token", "table")
  <2>1. Made("oauth2_token", "table", 9, 4, 6)
    BY DEF Made
  <2>2. 9 \in 1..26 /\ 4 \in 1..9 /\ 6 \in 1..9
    OBVIOUS
  <2> QED
    BY <1>1, <2>1, <2>2
<1>14. /\ Named("oauth2_identity", "table")
       /\ Named("oauth2_identity", "idx_oauth2_identity_provider_subject")
  <2>1. /\ Made("oauth2_identity", "table", 10, 2, 4)
        /\ Made("oauth2_identity", "idx_oauth2_identity_provider_subject", 10, 3, 3)
    BY DEF Made
  <2>2. 10 \in 1..26 /\ 2 \in 1..9 /\ 3 \in 1..9 /\ 4 \in 1..9
    OBVIOUS
  <2> QED
    BY <1>1, <2>1, <2>2
<1>15. Named("alert_status_history", "failure_reason")
  <2>1. Made("alert_status_history", "failure_reason", 14, 1, 1)
    BY DEF Made
  <2>2. 14 \in 1..26 /\ 1 \in 1..9
    OBVIOUS
  <2> QED
    BY <1>1, <2>1, <2>2
<1>16. Named("user_email", "timezone")
  <2>1. Made("user_email", "timezone", 25, 1, 2)
    BY DEF Made
  <2>2. 25 \in 1..26 /\ 1 \in 1..9 /\ 2 \in 1..9
    OBVIOUS
  <2> QED
    BY <1>1, <2>1, <2>2
<1>17. Named("email_outbox", "table")
  <2>1. Made("email_outbox", "table", 19, 1, 2)
    BY DEF Made
  <2>2. 19 \in 1..26 /\ 1 \in 1..9 /\ 2 \in 1..9
    OBVIOUS
  <2> QED
    BY <1>1, <2>1, <2>2
<1>18. /\ Named("alert_notification_email", "table")
       /\ Named("alert_notification_email", "idx_alert_notification_email_unique")
  <2>1. /\ Made("alert_notification_email", "table", 21, 1, 3)
        /\ Made("alert_notification_email", "idx_alert_notification_email_unique", 21, 2, 2)
    BY DEF Made
  <2>2. 21 \in 1..26 /\ 1 \in 1..9 /\ 2 \in 1..9 /\ 3 \in 1..9
    OBVIOUS
  <2> QED
    BY <1>1, <2>1, <2>2
<1>19. Named("alert_observed_state", "table")
  <2>1. Made("alert_observed_state", "table", 22, 5, 1)
    BY DEF Made
  <2>2. 22 \in 1..26 /\ 1 \in 1..9 /\ 5 \in 1..9
    OBVIOUS
  <2> QED
    BY <1>1, <2>1, <2>2
<1>20. /\ Named("alert_notification_webhook", "table")
       /\ Named("alert_notification_webhook", "idx_alert_notification_webhook_unique")
  <2>1. /\ Made("alert_notification_webhook", "table", 26, 1, 5)
        /\ Made("alert_notification_webhook", "idx_alert_notification_webhook_unique", 26, 2, 4)
    BY DEF Made
  <2>2. 26 \in 1..26 /\ 1 \in 1..9 /\ 2 \in 1..9 /\ 4 \in 1..9 /\ 5 \in 1..9
    OBVIOUS
  <2> QED
    BY <1>1, <2>1, <2>2
<1>21. Named("webhook_outbox", "table")
  <2>1. Made("webhook_outbox", "table", 26, 3, 3)
    BY DEF Made
  <2>2. 26 \in 1..26 /\ 3 \in 1..9
    OBVIOUS
  <2> QED
    BY <1>1, <2>1, <2>2
<1> QED
  BY <1>3, <1>4, <1>5, <1>6, <1>7, <1>8, <1>9, <1>10, <1>11, <1>12, <1>13, <1>14, <1>15, <1>16,
     <1>17, <1>18, <1>19, <1>20, <1>21

\* What the server needs is made by some migration.
LEMMA NeedsMade ==
  ASSUME NEW t \in DOMAIN Needs
  PROVE  (\E p : Named(t, p)) /\ \A p \in Needs[t] : Named(t, p)
<1>1. DOMAIN Needs = {"alert", "federation_stat_aggregate", "federation_stat_raw", "email_log",
                     "oauth2_client", "oauth2_user", "oauth2_authorization", "oauth2_token",
                     "oauth2_identity", "alert_status_history", "user_email", "email_outbox",
                     "alert_notification_email", "alert_observed_state",
                     "alert_notification_webhook", "webhook_outbox"}
  BY DEF Needs
<1>2. DOMAIN Tracking = 1..6 /\ DOMAIN Flags = 1..4 /\ DOMAIN Quiet = 1..3 /\ DOMAIN Password = 1..3
      /\ DOMAIN Reset = 1..2
  BY DEF Tracking, Flags, Quiet, Password, Reset
<1>3. CASE t = "alert"
  <2>1. Needs[t] = AlertNeeds
    BY <1>3 DEF Needs
  <2>2. \A i \in 1..6 : Named("alert", Tracking[i])
    BY NeedsNamed DEF Tracking
  <2>3. \A i \in 1..4 : Named("alert", Flags[i])
    BY NeedsNamed DEF Flags
  <2>4. \A i \in 1..3 : Named("alert", Quiet[i])
    BY NeedsNamed DEF Quiet
  <2> QED
    BY <1>2, <1>3, <2>1, <2>2, <2>3, <2>4, NeedsNamed DEF AlertNeeds
<1>4. CASE t = "oauth2_user"
  <2>1. Needs[t] = UserNeeds
    BY <1>4 DEF Needs
  <2>2. \A i \in 1..3 : Named("oauth2_user", Password[i])
    BY NeedsNamed DEF Password
  <2>3. \A i \in 1..2 : Named("oauth2_user", Reset[i])
    BY NeedsNamed DEF Reset
  <2> QED
    BY <1>2, <1>4, <2>1, <2>2, <2>3, NeedsNamed DEF UserNeeds
<1>5. CASE t = "federation_stat_aggregate"
  <2>1. Needs[t] = {"unstable_features_enabled", "unstable_features_announced"}
    BY <1>5 DEF Needs, Unstable
  <2> QED
    BY <1>5, <2>1, NeedsNamed
<1>6. CASE t = "federation_stat_raw"
  <2>1. Needs[t] = {"unstable_features_enabled", "unstable_features_announced"}
    BY <1>6 DEF Needs, Unstable
  <2> QED
    BY <1>6, <2>1, NeedsNamed
<1>7. CASE t = "email_log"
  <2>1. Needs[t] = {}
    BY <1>7 DEF Needs
  <2> QED
    BY <1>7, <2>1, NeedsNamed
<1>8. CASE t = "oauth2_client"
  <2>1. Needs[t] = {"account-internal"}
    BY <1>8 DEF Needs
  <2> QED
    BY <1>8, <2>1, NeedsNamed
<1>9. CASE t = "oauth2_authorization"
  <2>1. Needs[t] = {}
    BY <1>9 DEF Needs
  <2> QED
    BY <1>9, <2>1, NeedsNamed
<1>10. CASE t = "oauth2_token"
  <2>1. Needs[t] = {}
    BY <1>10 DEF Needs
  <2> QED
    BY <1>10, <2>1, NeedsNamed
<1>11. CASE t = "oauth2_identity"
  <2>1. Needs[t] = {"idx_oauth2_identity_provider_subject"}
    BY <1>11 DEF Needs
  <2> QED
    BY <1>11, <2>1, NeedsNamed
<1>12. CASE t = "alert_status_history"
  <2>1. Needs[t] = {"failure_reason"}
    BY <1>12 DEF Needs
  <2> QED
    BY <1>12, <2>1, NeedsNamed
<1>13. CASE t = "user_email"
  <2>1. Needs[t] = {"timezone"}
    BY <1>13 DEF Needs
  <2> QED
    BY <1>13, <2>1, NeedsNamed
<1>14. CASE t = "email_outbox"
  <2>1. Needs[t] = {}
    BY <1>14 DEF Needs
  <2> QED
    BY <1>14, <2>1, NeedsNamed
<1>15. CASE t = "alert_notification_email"
  <2>1. Needs[t] = {"idx_alert_notification_email_unique"}
    BY <1>15 DEF Needs
  <2> QED
    BY <1>15, <2>1, NeedsNamed
<1>16. CASE t = "alert_observed_state"
  <2>1. Needs[t] = {}
    BY <1>16 DEF Needs
  <2> QED
    BY <1>16, <2>1, NeedsNamed
<1>17. CASE t = "alert_notification_webhook"
  <2>1. Needs[t] = {"idx_alert_notification_webhook_unique"}
    BY <1>17 DEF Needs
  <2> QED
    BY <1>17, <2>1, NeedsNamed
<1>18. CASE t = "webhook_outbox"
  <2>1. Needs[t] = {}
    BY <1>18 DEF Needs
  <2> QED
    BY <1>18, <2>1, NeedsNamed
<1> QED
  BY <1>1, <1>3, <1>4, <1>5, <1>6, <1>7, <1>8, <1>9, <1>10, <1>11, <1>12, <1>13, <1>14, <1>15,
     <1>16, <1>17, <1>18

\* "table" stands for the table itself and names no column or index.
LEMMA NeedsNoTable == \A t \in DOMAIN Needs : \A q \in Needs[t] : q # "table"
<1> SUFFICES ASSUME NEW t \in DOMAIN Needs, NEW q \in Needs[t]
             PROVE  q # "table"
  OBVIOUS
<1>1. CASE t = "alert"
  <2>1. q \in AlertNeeds
    BY <1>1 DEF Needs
  <2>2. \A i \in DOMAIN Tracking : Tracking[i] # "table"
    BY DEF Tracking
  <2>3. \A i \in DOMAIN Flags : Flags[i] # "table"
    BY DEF Flags
  <2>4. \A i \in DOMAIN Quiet : Quiet[i] # "table"
    BY DEF Quiet
  <2>5. PairIndex # "table"
    BY DEF PairIndex
  <2> QED
    BY <2>1, <2>2, <2>3, <2>4, <2>5 DEF AlertNeeds
<1>2. CASE t = "oauth2_user"
  <2>1. q \in UserNeeds
    BY <1>2 DEF Needs
  <2>2. \A i \in DOMAIN Password : Password[i] # "table"
    BY DEF Password
  <2>3. \A i \in DOMAIN Reset : Reset[i] # "table"
    BY DEF Reset
  <2> QED
    BY <2>1, <2>2, <2>3 DEF UserNeeds
<1>3. CASE t \notin {"alert", "oauth2_user"}
  BY <1>3 DEF Needs, Unstable
<1> QED
  BY <1>1, <1>2, <1>3

\* ServedSchemaIsComplete: when the server starts the schema is what it needs, whatever died
\* or failed on the way, but a rollback that died under way.
THEOREM SchemaIsComplete == Spec => []ServedSchemaIsComplete
<1>1. CompleteInv /\ SoundInv => ServedSchemaIsComplete
  <2> SUFFICES ASSUME CompleteInv, SoundInv, outcome = "served", ~torn
               PROVE  /\ \A t \in DOMAIN Needs : Has(t) /\ Needs[t] \subseteq schema[t]
                      /\ {UniqueEmail, TokenNotNull} \cap schema["alert"] = {}
    BY DEF ServedSchemaIsComplete, UniqueEmail, TokenNotNull
  <2>1. job = Idle /\ applied = 26 /\ job.dir = "none"
    BY DEF CompleteInv, ServedInv, Idle, Last
  <2>2. backend = "sqlite"
    BY <2>1 DEF SoundInv, PostgresInv
  <2>3. ~DoomedIn(schema, job.dir, applied, job.at)
    BY <2>1 DEF DoomedIn
  <2>4. FineIn(schema, rows, "none", 26, job.at)
    BY <2>1, <2>2, <2>3 DEF CompleteInv
  <2>5. ASSUME NEW t, NEW p, Named(t, p)
        PROVE  HoldsIn(schema, t, p)
    <3>1. PICK k \in 1..26, u \in 1..9, d \in 1..9 : Made(t, p, k, u, d)
      BY <2>5 DEF Named
    <3>2. DueAt("none", 26, job.at, k, u, d) /\ ~GoneAt("none", 26, job.at, t)
      BY DEF DueAt, GoneAt
    <3>3. PlaceAt("none", 26, job.at, t) = t
      BY DEF PlaceAt, MovedAt, DueAt
    <3> QED
      BY <2>4, <3>1, <3>2, <3>3 DEF FineIn, MadeIn
  <2>6. ASSUME NEW t \in DOMAIN Needs
        PROVE  Has(t) /\ Needs[t] \subseteq schema[t]
    <3>1. PICK p : Named(t, p)
      BY NeedsMade
    <3>2. t \in DOMAIN schema
      BY <2>5, <3>1 DEF HoldsIn
    <3>3. \A q \in Needs[t] : HoldsIn(schema, t, q)
      BY <2>5, NeedsMade
    <3>4. "table" \notin Needs[t]
      BY NeedsNoTable
    <3> QED
      BY <3>2, <3>3, <3>4 DEF HoldsIn, Has
  <2>7. UniqueEmail \notin schema["alert"] /\ TokenNotNull \notin schema["alert"]
    <3>1. DueAt("none", 26, job.at, 18, 4, 3)
      BY DEF DueAt
    <3>2. "alert" \in DOMAIN schema
      BY <2>5, NeedsNamed DEF HoldsIn
    <3> QED
      BY <2>4, <3>1, <3>2 DEF FineIn, LateIn
  <2> QED
    BY <2>6, <2>7
<1> QED
  BY <1>1, SoundInvIsInductive, CompleteInvIsInductive, PTL
=============================================================================
