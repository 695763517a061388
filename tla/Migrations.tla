----------------------------- MODULE Migrations -----------------------------
(***************************************************************************)
(* The 26 database migrations of crates/migration and the program that     *)
(* runs them.                                                              *)
(*                                                                         *)
(* A migration is a list of statements for each direction.  On SQLite      *)
(* every statement takes effect at once, and so does the row that records  *)
(* the migration when its last statement is done: a process that dies in   *)
(* between leaves part of a migration behind.  On PostgreSQL the whole     *)
(* command is one transaction.  The server starts after a successful       *)
(* `migration up` (Dockerfile:101) and not before, so rows change only     *)
(* between two commands.                                                   *)
(*                                                                         *)
(* The schema is a function from the tables that exist to their parts:     *)
(* indexes, constraints, and the columns a later migration added.  Of the  *)
(* data the rows of alert are kept, the only table that is rebuilt, with   *)
(* the columns its constraints speak of, and each alert's oldest           *)
(* notification address.                                                   *)
(***************************************************************************)
EXTENDS Integers, Sequences, FiniteSets

CONSTANTS Backends,     \* a subset of {"sqlite", "postgres"}
          Emails, Servers, Nobody,
          MaxRows,      \* alerts ever entrusted to the database at a time
          MaxCrashes    \* commands that die

ASSUME MigrationsAssumption == MaxRows \in Nat

VARIABLES
  backend,
  schema,      \* table -> its parts
  rows,        \* the rows of alert and of alert_new
  notify,      \* alert id -> its oldest notification address
  applied,     \* the migrations recorded in seaql_migrations: the first so many
  job,         \* the command that runs
  saved,       \* what a transaction would restore
  outcome,     \* how the last command ended
  entrusted,   \* history: the alerts inserted since the table was last created
  crashes,
  torn         \* history: a rollback died under way on SQLite

database == <<schema, rows, notify, applied>>
vars == <<backend, schema, rows, notify, applied, job, saved, outcome, entrusted, crashes, torn>>

Ids == 1..MaxRows
Row == [id : Ids, email : Emails, server : Servers, token : {"own", "empty", "null"},
        owned : BOOLEAN]

(***************************************************************************)
(* Statements.  A lenient one says IF (NOT) EXISTS.                        *)
(***************************************************************************)
Create(t, parts) == [op |-> "create", table |-> t, parts |-> parts, lenient |-> FALSE]
CreateMissing(t, parts) == [op |-> "create", table |-> t, parts |-> parts, lenient |-> TRUE]
Drop(t) == [op |-> "drop", table |-> t]
Rename(t, u) == [op |-> "rename", table |-> t, to |-> u]
Add(t, p) == [op |-> "add", table |-> t, part |-> p, lenient |-> FALSE]
AddMissing(t, p) == [op |-> "add", table |-> t, part |-> p, lenient |-> TRUE]
Remove(t, p) == [op |-> "remove", table |-> t, part |-> p, lenient |-> FALSE]
RemoveAny(t, p) == [op |-> "remove", table |-> t, part |-> p, lenient |-> TRUE]
Copy(tokens) == [op |-> "copy", tokens |-> tokens]
Convert(tokens) == [op |-> "convert", tokens |-> tokens]
Backfill == [op |-> "backfill"]
RestoreEmails == [op |-> "restore"]

AddAll(t, parts) == [i \in DOMAIN parts |-> Add(t, parts[i])]
RemoveAll(t, parts) == [i \in DOMAIN parts |-> Remove(t, parts[i])]

\* Two indexes of one name, idx_email_server_name_unique, on different columns.
RowIndex == "unique index on id, email, server_name"
PairIndex == "unique index on email, server_name"
SamePart(p, q) == p = q \/ {p, q} = {RowIndex, PairIndex}

\* What the parts of a table demand of the rows of alert.
Fits(parts, R) ==
  \A r, s \in R :
    /\ "token not null" \in parts => r.token # "null"
    /\ r # s => /\ r.id # s.id
                /\ "unique email" \in parts => r.email # s.email
                /\ PairIndex \in parts => <<r.email, r.server>> # <<s.email, s.server>>
                /\ {"unique token", "idx_magic_token_unique"} \cap parts # {} =>
                     ~(r.token = "empty" /\ s.token = "empty")

Converted(R, tokens) ==
  {[r EXCEPT !.token = IF tokens = "empty to null" /\ @ = "empty" THEN "null"
                       ELSE IF tokens = "null to empty" /\ @ = "null" THEN "empty" ELSE @] : r \in R}

\* The address a rollback puts back: the oldest notification address of an owned alert.
Restored(r) == IF r.owned /\ notify[r.id] # Nobody THEN [r EXCEPT !.email = notify[r.id]] ELSE r

\* An UPDATE checks the unique index row by row.
RestoreUnchecked == FALSE
RestoreClashes ==
  \E r, s \in rows["alert"] :
    /\ r.id # s.id /\ r # Restored(r) /\ r.server = s.server
    /\ Restored(r).email = IF s.id < r.id THEN Restored(s).email ELSE s.email

Has(t) == t \in DOMAIN schema
Present(s) == Has(s.table) /\ \E p \in schema[s.table] : SamePart(p, s.part)

Works(s) ==
  \/ s.op = "create" /\ (Has(s.table) => s.lenient)
  \/ s.op = "drop" /\ Has(s.table)
  \/ s.op = "rename" /\ Has(s.table) /\ ~Has(s.to)
  \/ /\ s.op = "add" /\ Has(s.table) /\ (Present(s) => s.lenient)
     /\ s.table = "alert" => Fits(schema["alert"] \cup {s.part}, rows["alert"])
  \/ s.op = "remove" /\ (Present(s) \/ s.lenient)
  \/ /\ s.op = "copy" /\ Has("alert") /\ Has("alert_new")
     /\ Fits(schema["alert_new"], rows["alert_new"] \cup Converted(rows["alert"], s.tokens))
  \/ /\ s.op = "convert" /\ Has("alert")
     /\ Fits(schema["alert"], Converted(rows["alert"], s.tokens))
  \/ s.op = "backfill" /\ Has("alert") /\ Has("alert_notification_email")
  \/ s.op = "restore" /\ Has("alert") /\ Has("alert_notification_email") /\ ~RestoreClashes

SchemaAfter(s) ==
  CASE s.op = "create" /\ ~Has(s.table) ->
         [t \in DOMAIN schema \cup {s.table} |-> IF t = s.table THEN s.parts ELSE schema[t]]
    [] s.op = "drop" -> [t \in DOMAIN schema \ {s.table} |-> schema[t]]
    [] s.op = "rename" ->
         [t \in (DOMAIN schema \ {s.table}) \cup {s.to} |->
            IF t = s.to THEN schema[s.table] ELSE schema[t]]
    [] s.op = "add" /\ ~Present(s) -> [schema EXCEPT ![s.table] = @ \cup {s.part}]
    [] s.op = "remove" /\ Present(s) ->
         [schema EXCEPT ![s.table] = {p \in @ : ~SamePart(p, s.part)}]
    [] OTHER -> schema

RowsAfter(s) ==
  CASE s.op = "drop" /\ s.table = "alert" -> [rows EXCEPT !["alert"] = {}]
    [] s.op = "rename" /\ s.table = "alert_new" ->
         [rows EXCEPT !["alert"] = rows["alert_new"], !["alert_new"] = {}]
    [] s.op = "remove" /\ s.part = "user_id" ->
         [rows EXCEPT !["alert"] = {[r EXCEPT !.owned = FALSE] : r \in @}]
    [] s.op = "copy" -> [rows EXCEPT !["alert_new"] = @ \cup Converted(rows["alert"], s.tokens)]
    [] s.op = "convert" -> [rows EXCEPT !["alert"] = Converted(@, s.tokens)]
    [] s.op = "restore" -> [rows EXCEPT !["alert"] = {Restored(r) : r \in @}]
    [] OTHER -> rows

\* Dropping a table deletes its rows, and with an alert go its addresses.
NotifyAfter(s) ==
  CASE s.op = "drop" /\ s.table \in {"alert", "alert_notification_email"} ->
         [i \in Ids |-> Nobody]
    [] s.op = "backfill" ->
         [i \in Ids |-> IF \E r \in rows["alert"] : r.id = i /\ r.owned
                        THEN (CHOOSE r \in rows["alert"] : r.id = i).email ELSE notify[i]]
    [] OTHER -> notify

(***************************************************************************)
(* The migrations, in the order of lib.rs.                                 *)
(***************************************************************************)
OnSqlite(a, b) == IF backend = "sqlite" THEN a ELSE b

\* SQLite cannot alter a column: the table is created anew, filled, and put in place.
RebuildDroppingFirst(parts, tokens) ==
  <<Create("alert_new", parts), Drop("alert"), Copy(tokens), Rename("alert_new", "alert")>>
Rebuild(parts, tokens) ==
  <<Create("alert_new", parts), Copy(tokens), Drop("alert"), Rename("alert_new", "alert")>>

FirstConstraints == {"unique email", "unique token", "token not null"}

AlertTableUp == <<CreateMissing("alert", FirstConstraints), Add("alert", RowIndex)>>
AlertTableDown == <<Remove("alert", RowIndex), Drop("alert")>>

FixTimezoneUp ==
  OnSqlite(Rebuild(FirstConstraints \cup {"created_at with time zone"}, "same")
             \o <<Add("alert", PairIndex)>>,
           <<AddMissing("alert", "created_at with time zone")>>)
FixTimezoneDown ==
  OnSqlite(Rebuild(FirstConstraints, "same") \o <<Add("alert", PairIndex)>>,
           <<RemoveAny("alert", "created_at with time zone")>>)

FederationStatsUp ==
  <<CreateMissing("federation_stat_raw", {}),
    Add("federation_stat_raw", "idx_fed_stat_raw_ts"),
    Add("federation_stat_raw", "idx_fed_stat_raw_server"),
    CreateMissing("federation_stat_aggregate", {})>>
FederationStatsDown ==
  <<Drop("federation_stat_aggregate"),
    Remove("federation_stat_raw", "idx_fed_stat_raw_server"),
    Remove("federation_stat_raw", "idx_fed_stat_raw_ts"),
    Drop("federation_stat_raw")>>

Unstable == <<"unstable_features_enabled", "unstable_features_announced">>
UnstableUp == AddAll("federation_stat_aggregate", Unstable) \o AddAll("federation_stat_raw", Unstable)
UnstableDown ==
  RemoveAll("federation_stat_aggregate", Unstable) \o RemoveAll("federation_stat_raw", Unstable)

\* PostgreSQL: the constraint takes the name of the first migration's index, and redefining
\* the column's type does not drop its unique constraint.
FixUniquenessUp ==
  OnSqlite(Rebuild({"unique token", "token not null", "created_at with time zone"}, "same")
             \o <<Add("alert", PairIndex)>>,
           <<Add("alert", PairIndex)>>)
FixUniquenessDown ==
  OnSqlite(Rebuild(FirstConstraints \cup {"created_at with time zone"}, "same")
             \o <<Add("alert", RowIndex)>>,
           <<Remove("alert", "alert_email_server_name_key"), Add("alert", "unique email")>>)

Tracking == <<"last_check_at", "last_failure_at", "last_success_at", "last_email_sent_at",
              "failure_count", "is_currently_failing">>
TrackingUp == AddAll("alert", Tracking)
TrackingDown == RemoveAll("alert", Tracking)

EmailLogUp ==
  <<CreateMissing("email_log", {})>>
    \o AddAll("email_log", <<"idx_email_log_sent_at", "idx_email_log_alert_id",
                             "idx_email_log_server_name">>)
EmailLogDown ==
  RemoveAll("email_log", <<"idx_email_log_server_name", "idx_email_log_alert_id",
                           "idx_email_log_sent_at">>)
    \o <<Drop("email_log")>>

OptimizeStatsUp ==
  <<AddMissing("federation_stat_raw", "idx_federation_stat_raw_ts"),
    AddMissing("federation_stat_raw", "idx_federation_stat_raw_server_name")>>
OptimizeStatsDown ==
  RemoveAll("federation_stat_raw", <<"idx_federation_stat_raw_ts",
                                     "idx_federation_stat_raw_server_name">>)

\* DeriveIden spells the tables o_auth2_*.
OAuthTablesUp ==
  <<CreateMissing("o_auth2_client", {}), CreateMissing("o_auth2_user", {}),
    CreateMissing("o_auth2_authorization", {}), CreateMissing("o_auth2_token", {}),
    AddMissing("o_auth2_authorization", "idx_oauth2_authorization_client_id"),
    AddMissing("o_auth2_authorization", "idx_oauth2_authorization_expires_at"),
    AddMissing("o_auth2_token", "idx_oauth2_token_client_id"),
    AddMissing("o_auth2_token", "idx_oauth2_token_user_id"),
    AddMissing("o_auth2_token", "idx_oauth2_token_expires_at")>>
OAuthTablesDown ==
  RemoveAll("o_auth2_token", <<"idx_oauth2_token_expires_at", "idx_oauth2_token_user_id",
                               "idx_oauth2_token_client_id">>)
    \o RemoveAll("o_auth2_authorization", <<"idx_oauth2_authorization_expires_at",
                                            "idx_oauth2_authorization_client_id">>)
    \o <<Drop("o_auth2_token"), Drop("o_auth2_authorization"), Drop("o_auth2_user"),
         Drop("o_auth2_client")>>

LinkAlertsUp ==
  <<Add("alert", "user_id"), CreateMissing("o_auth2_identity", {}),
    AddMissing("o_auth2_identity", "idx_oauth2_identity_provider_subject"),
    AddMissing("o_auth2_identity", "idx_oauth2_identity_user_id"),
    AddMissing("alert", "idx_alert_user_id")>>
LinkAlertsDown ==
  <<Remove("alert", "idx_alert_user_id"),
    Remove("o_auth2_identity", "idx_oauth2_identity_user_id"),
    Remove("o_auth2_identity", "idx_oauth2_identity_provider_subject"),
    Drop("o_auth2_identity"), Remove("alert", "user_id")>>

Password == <<"password_hash", "email_verification_token", "email_verification_expires_at">>
PasswordUp == AddAll("o_auth2_user", Password)
PasswordDown == RemoveAll("o_auth2_user", Password)

StatusHistoryUp ==
  <<CreateMissing("alert_status_history", {})>>
    \o AddAll("alert_status_history", <<"idx_alert_status_history_alert_id",
                                        "idx_alert_status_history_created_at">>)
StatusHistoryDown ==
  RemoveAll("alert_status_history", <<"idx_alert_status_history_created_at",
                                      "idx_alert_status_history_alert_id">>)
    \o <<Drop("alert_status_history")>>

LastRecoveryUp == <<Add("alert", "last_recovery_at")>>
LastRecoveryDown == <<Remove("alert", "last_recovery_at")>>

FailureReasonUp == <<Add("alert_status_history", "failure_reason")>>
FailureReasonDown == <<Remove("alert_status_history", "failure_reason")>>

OAuthNames == <<"client", "user", "authorization", "token", "identity">>
Old == [client |-> "o_auth2_client", user |-> "o_auth2_user", token |-> "o_auth2_token",
        authorization |-> "o_auth2_authorization", identity |-> "o_auth2_identity"]
New == [client |-> "oauth2_client", user |-> "oauth2_user", token |-> "oauth2_token",
        authorization |-> "oauth2_authorization", identity |-> "oauth2_identity"]
RenameUp == [i \in 1..5 |-> Rename(Old[OAuthNames[i]], New[OAuthNames[i]])]
\* Without the last table.
RenameFourDown == [i \in 1..4 |-> Rename(New[OAuthNames[i]], Old[OAuthNames[i]])]
RenameDown == [i \in 1..5 |-> Rename(New[OAuthNames[i]], Old[OAuthNames[i]])]

\* The rollback leaves the column in place.
AccountFeaturesUp == <<Add("oauth2_user", "receives_alerts"), CreateMissing("user_email", {})>>
AccountFeaturesDown == <<Drop("user_email")>>

AccountClientUp == <<AddMissing("oauth2_client", "account-internal")>>
AccountClientDown == <<RemoveAny("oauth2_client", "account-internal")>>

\* Without the index on (email, server_name), which the rebuild dropped.
MagicTokenUpNoPairs ==
  Rebuild({"user_id", "last_recovery_at"} \cup {Tracking[i] : i \in DOMAIN Tracking}, "empty to null")
    \o <<AddMissing("alert", "idx_magic_token_unique"), AddMissing("alert", "idx_alert_user_id")>>
MagicTokenUp ==
  OnSqlite(Rebuild({"user_id", "last_recovery_at"} \cup {Tracking[i] : i \in DOMAIN Tracking},
                   "empty to null")
             \o <<AddMissing("alert", "idx_magic_token_unique"), AddMissing("alert", PairIndex),
                  AddMissing("alert", "idx_alert_user_id")>>,
           <<RemoveAny("alert", "token not null"), Convert("empty to null"),
             AddMissing("alert", "idx_magic_token_unique")>>)
MagicTokenDown ==
  OnSqlite(Rebuild({"user_id", "last_recovery_at", "unique token", "token not null"}
                     \cup {Tracking[i] : i \in DOMAIN Tracking}, "null to empty")
             \o <<AddMissing("alert", PairIndex), AddMissing("alert", "idx_alert_user_id")>>,
           <<Convert("null to empty"), AddMissing("alert", "token not null"),
             AddMissing("alert", "idx_magic_token_unique")>>)

EmailOutboxUp ==
  <<CreateMissing("email_outbox", {}), Add("email_outbox", "idx_email_outbox_status_next_attempt")>>
EmailOutboxDown ==
  <<Remove("email_outbox", "idx_email_outbox_status_next_attempt"), Drop("email_outbox")>>

Reset == <<"password_reset_token", "password_reset_expires_at">>
PasswordResetUp == [i \in 1..2 |-> AddMissing("oauth2_user", Reset[i])]
PasswordResetDown == RemoveAll("oauth2_user", Reset)

NotificationEmailsUp ==
  <<CreateMissing("alert_notification_email", {}),
    Add("alert_notification_email", "idx_alert_notification_email_unique"), Backfill>>
NotificationEmailsDown ==
  <<RestoreEmails, Remove("alert_notification_email", "idx_alert_notification_email_unique"),
    Drop("alert_notification_email")>>

Flags == <<"notify_server_name_change", "notify_version_change", "notify_tls_cert_change",
           "notify_tls_expiry">>
ChangeAlertsUp == AddAll("alert", Flags) \o <<CreateMissing("alert_observed_state", {})>>
ChangeAlertsDown ==
  <<Drop("alert_observed_state")>> \o [i \in 1..4 |-> Remove("alert", Flags[5 - i])]

Indexes == <<<<"alert", "idx_alert_verified_failing">>, <<"alert", "idx_alert_verified_created_at">>,
             <<"federation_stat_aggregate", "idx_federation_stat_aggregate_last_seen_at">>,
             <<"oauth2_authorization", "idx_oauth2_authorization_user_id">>>>
MissingIndexesUp == [i \in 1..4 |-> AddMissing(Indexes[i][1], Indexes[i][2])]
MissingIndexesDown == [i \in 1..4 |-> RemoveAny(Indexes[5 - i][1], Indexes[5 - i][2])]

Quiet == <<"quiet_hours_enabled", "quiet_hours_from", "quiet_hours_to">>
QuietHoursUp == AddAll("alert", Quiet)
QuietHoursDown == [i \in 1..3 |-> Remove("alert", Quiet[4 - i])]

TimezoneUp == <<Add("user_email", "timezone"), Add("oauth2_user", "timezone")>>
TimezoneDown == <<Remove("oauth2_user", "timezone"), Remove("user_email", "timezone")>>

WebhooksUp ==
  <<CreateMissing("alert_notification_webhook", {}),
    Add("alert_notification_webhook", "idx_alert_notification_webhook_unique"),
    CreateMissing("webhook_outbox", {}), Add("webhook_outbox", "idx_webhook_outbox_pending"),
    Add("webhook_outbox", "idx_webhook_outbox_webhook_id")>>
WebhooksDown ==
  <<Remove("webhook_outbox", "idx_webhook_outbox_webhook_id"),
    Remove("webhook_outbox", "idx_webhook_outbox_pending"), Drop("webhook_outbox"),
    Remove("alert_notification_webhook", "idx_alert_notification_webhook_unique"),
    Drop("alert_notification_webhook")>>

Last == 26
Up == <<AlertTableUp, FixTimezoneUp, FederationStatsUp, UnstableUp, FixUniquenessUp, TrackingUp,
        EmailLogUp, OptimizeStatsUp, OAuthTablesUp, LinkAlertsUp, PasswordUp, StatusHistoryUp,
        LastRecoveryUp, FailureReasonUp, RenameUp, AccountFeaturesUp, AccountClientUp, MagicTokenUp,
        EmailOutboxUp, PasswordResetUp, NotificationEmailsUp, ChangeAlertsUp, MissingIndexesUp,
        QuietHoursUp, TimezoneUp, WebhooksUp>>
Down == <<AlertTableDown, FixTimezoneDown, FederationStatsDown, UnstableDown, FixUniquenessDown,
          TrackingDown, EmailLogDown, OptimizeStatsDown, OAuthTablesDown, LinkAlertsDown,
          PasswordDown, StatusHistoryDown, LastRecoveryDown, FailureReasonDown, RenameDown,
          AccountFeaturesDown, AccountClientDown, MagicTokenDown, EmailOutboxDown,
          PasswordResetDown, NotificationEmailsDown, ChangeAlertsDown, MissingIndexesDown,
          QuietHoursDown, TimezoneDown, WebhooksDown>>

(***************************************************************************)
(* Commands: `migration up`, with or without a number, and `migration      *)
(* down`, which undoes the last migration.                                 *)
(***************************************************************************)
Idle == [dir |-> "none"]
Running == job # Idle
Migration == IF job.dir = "up" THEN applied + 1 ELSE applied
Statements == IF job.dir = "up" THEN Up[Migration] ELSE Down[Migration]

Transaction == [schema |-> schema, rows |-> rows, notify |-> notify, applied |-> applied]

Start(dir, n) ==
  /\ ~Running /\ n > 0
  /\ job' = [dir |-> dir, at |-> 1, left |-> n]
  /\ saved' = OnSqlite(<<>>, Transaction)
  /\ outcome' = "running"
  /\ UNCHANGED <<backend, database, entrusted, crashes, torn>>

StartUp == \E n \in {1, Last - applied} : n <= Last - applied /\ Start("up", n)
StartDown == applied > 0 /\ Start("down", 1)

Finish(result) == job' = Idle /\ saved' = <<>> /\ outcome' = result

\* PostgreSQL takes the whole command back; on SQLite what was done stays.
RollBack ==
  OnSqlite(UNCHANGED database,
           /\ schema' = saved.schema /\ rows' = saved.rows
           /\ notify' = saved.notify /\ applied' = saved.applied)

Execute ==
  /\ Running /\ job.at <= Len(Statements)
  /\ LET s == Statements[job.at] IN
     /\ Works(s)
     /\ schema' = SchemaAfter(s) /\ rows' = RowsAfter(s) /\ notify' = NotifyAfter(s)
  /\ job' = [job EXCEPT !.at = @ + 1]
  /\ UNCHANGED <<backend, applied, saved, outcome, entrusted, crashes, torn>>

Fails ==
  /\ Running /\ job.at <= Len(Statements) /\ ~Works(Statements[job.at])
  /\ RollBack
  /\ Finish(IF job.dir = "up" THEN "up failed" ELSE "down failed")
  /\ UNCHANGED <<backend, entrusted, crashes, torn>>

\* The row in seaql_migrations is written, or deleted, after the last statement.
Record ==
  /\ Running /\ job.at > Len(Statements)
  /\ applied' = IF job.dir = "up" THEN applied + 1 ELSE applied - 1
  /\ entrusted' = IF applied' = 0 THEN {} ELSE entrusted
  /\ IF job.left = 1
     THEN Finish(IF job.dir = "down" THEN "down"
                 ELSE IF applied' = Last THEN "served" ELSE "up")
     ELSE job' = [job EXCEPT !.at = 1, !.left = @ - 1] /\ UNCHANGED <<saved, outcome>>
  /\ UNCHANGED <<backend, schema, rows, notify, crashes, torn>>

\* `up` with nothing left to do succeeds, and the server starts.
NothingToDo ==
  /\ ~Running /\ applied = Last /\ outcome # "served"
  /\ outcome' = "served"
  /\ UNCHANGED <<backend, database, job, saved, entrusted, crashes, torn>>

Crash ==
  /\ Running /\ crashes < MaxCrashes
  /\ RollBack
  /\ Finish("crashed")
  /\ crashes' = crashes + 1
  /\ torn' = (torn \/ (job.dir = "down" /\ backend = "sqlite"))
  /\ UNCHANGED <<backend, entrusted>>

(***************************************************************************)
(* What servers of the versions in between do to the rows.                 *)
(***************************************************************************)
Insert(r) ==
  /\ ~Running /\ Has("alert") /\ entrusted # Ids
  /\ r.id = CHOOSE i \in Ids \ entrusted : \A j \in Ids \ entrusted : i <= j
  /\ r.owned => "user_id" \in schema["alert"]
  /\ r.token = IF ~r.owned THEN "own"
               ELSE IF "token not null" \in schema["alert"] THEN "empty" ELSE "null"
  /\ Fits(schema["alert"], rows["alert"] \cup {r})
  /\ rows' = [rows EXCEPT !["alert"] = @ \cup {r}]
  /\ notify' = IF r.owned /\ Has("alert_notification_email") THEN [notify EXCEPT ![r.id] = r.email]
               ELSE notify
  /\ entrusted' = entrusted \cup {r.id}
  /\ UNCHANGED <<backend, schema, applied, job, saved, outcome, crashes, torn>>

\* update_notify_emails replaces an alert's list.
ReplaceNotify(i, e) ==
  /\ ~Running /\ Has("alert_notification_email") /\ notify[i] \notin {e, Nobody}
  /\ notify' = [notify EXCEPT ![i] = e]
  /\ UNCHANGED <<backend, schema, rows, applied, job, saved, outcome, entrusted, crashes, torn>>

Init ==
  /\ backend \in Backends
  /\ schema = [t \in {} |-> {}]
  /\ rows = [t \in {"alert", "alert_new"} |-> {}]
  /\ notify = [i \in Ids |-> Nobody]
  /\ applied = 0
  /\ job = Idle /\ saved = <<>> /\ outcome = "none"
  /\ entrusted = {} /\ crashes = 0 /\ torn = FALSE

Next ==
  \/ StartUp \/ StartDown \/ Execute \/ Fails \/ Record \/ NothingToDo \/ Crash
  \/ \E r \in Row : Insert(r)
  \/ \E i \in Ids, e \in Emails : ReplaceNotify(i, e)

Spec == Init /\ [][Next]_vars

(***************************************************************************)
(* Properties.                                                             *)
(***************************************************************************)

\* What the entities of the server and its ON CONFLICT and uniqueness rules need beyond
\* the tables' first columns.
AlertNeeds ==
  {PairIndex, "user_id", "last_recovery_at"}
    \cup {Tracking[i] : i \in DOMAIN Tracking} \cup {Flags[i] : i \in DOMAIN Flags}
    \cup {Quiet[i] : i \in DOMAIN Quiet}
UserNeeds ==
  {"receives_alerts", "timezone"} \cup {Password[i] : i \in DOMAIN Password}
    \cup {Reset[i] : i \in DOMAIN Reset}
Needs ==
  [alert |-> AlertNeeds, oauth2_user |-> UserNeeds,
   alert_notification_email |-> {"idx_alert_notification_email_unique"},
   alert_notification_webhook |-> {"idx_alert_notification_webhook_unique"},
   alert_observed_state |-> {}, alert_status_history |-> {"failure_reason"},
   email_log |-> {}, email_outbox |-> {}, webhook_outbox |-> {},
   federation_stat_raw |-> {Unstable[1], Unstable[2]},
   federation_stat_aggregate |-> {Unstable[1], Unstable[2]},
   oauth2_authorization |-> {}, oauth2_token |-> {}, oauth2_client |-> {"account-internal"},
   oauth2_identity |-> {"idx_oauth2_identity_provider_subject"},
   user_email |-> {"timezone"}]

\* The rows that stand in a table satisfy its constraints, and the table a rebuild fills
\* holds nothing before it exists.
TypeOK ==
  /\ applied \in 0..Last
  /\ \A t \in {"alert", "alert_new"} :
       /\ rows[t] \subseteq Row
       /\ IF Has(t) THEN Fits(schema[t], rows[t]) ELSE rows[t] = {}
  /\ \A i \in Ids : notify[i] # Nobody => Has("alert_notification_email")

\* No alert is lost: whatever dies, fails or is rolled back, every alert is in the table
\* or in the copy a rebuild was making of it, until the first migration itself is undone
\* (the rebuilds of fix_timezone, fix_uniqueness and fix_oauth_alert_magic_token).
AlertsSurvive ==
  (applied > 1 \/ (applied = 1 /\ job.dir # "down" /\ ~torn)) =>
    \A i \in entrusted : \E r \in rows["alert"] \cup rows["alert_new"] : r.id = i

\* When `up` has succeeded, and the server starts, the schema is what the server needs,
\* whatever runs of it died or failed before and whatever was rolled back in whole: no
\* IF NOT EXISTS hides something missing.
ServedSchemaIsComplete ==
  outcome = "served" /\ ~torn =>
    /\ \A t \in DOMAIN Needs : Has(t) /\ Needs[t] \subseteq schema[t]
    /\ {"unique email", "token not null"} \cap schema["alert"] = {}

\* Without a crash a rollback fails on SQLite only for the rows: two alerts of one address
\* (fix_uniqueness) or without a token (fix_oauth_alert_magic_token), or an address that is
\* already subscribed (add_alert_notification_emails).  `up` fails only where the rollback
\* of account_features has left its column behind.  And a rebuild that failed leaves
\* alert_new in the way of every later one, in either direction.  PostgreSQL does not get
\* past fix_uniqueness, and nothing else fails there.
CommandsFailOnlyAsKnown ==
  [][Running /\ crashes = 0 =>
       /\ backend = "sqlite" /\ outcome' = "up failed" =>
            \/ applied = 15 /\ "receives_alerts" \in schema["oauth2_user"]
            \/ applied \in {1, 4, 17} /\ Has("alert_new")
       /\ backend = "sqlite" /\ outcome' = "down failed" =>
            \/ applied \in {2, 5, 18} /\ Has("alert_new")
            \/ applied = 21 /\ RestoreClashes
       /\ backend = "postgres" =>
            /\ applied' <= 4 /\ outcome' # "down failed"
            /\ outcome' = "up failed" => applied = 4]_vars
=============================================================================
