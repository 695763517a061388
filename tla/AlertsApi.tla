------------------------------ MODULE AlertsApi ------------------------------
(***************************************************************************)
(* The two HTTP interfaces to alert subscriptions and the housekeeping     *)
(* that shares their tables: the mail-link interface of api/alerts.rs      *)
(* (register, verify, delete), the OAuth2 interface of api/alerts_v2.rs    *)
(* (create, delete, settings, notification addresses, webhooks), the       *)
(* alerts part of delete_account of api/account.rs and run_housekeeping of *)
(* alerts/checks.rs.                                                       *)
(*                                                                         *)
(* Every handler is a process that makes one database call per step; no    *)
(* handler but update_notify_emails uses a transaction.  A register or     *)
(* delete link is a signed token: it is not stored and works any number of *)
(* times until it expires.  The accounts behind the callers are those of   *)
(* module AccountEmails; here they only change between two requests.       *)
(***************************************************************************)
EXTENDS Naturals, FiniteSets

CONSTANTS Users, Addresses, Servers, Requests, Nobody,
          MaxRows,            \* alert rows ever inserted
          MaxHooks,           \* webhook rows ever inserted
          MaxWebhooks,        \* config.max_webhooks_per_alert
          MaxStarts,          \* requests made
          MaxAccountChanges,  \* changes of an account's addresses
          MaxFaults           \* database calls that fail

ASSUME AlertsAssumption ==
  Requests # {} /\ IsFiniteSet(Requests) /\ MaxWebhooks \in Nat

VARIABLES
  alert,      \* the alert table: id -> row
  notify,     \* alert_notification_email: id -> addresses
  hooks,      \* alert_notification_webhook: id -> webhook ids
  lastHook,   \* the last webhook id given out
  account,    \* each user's primary and verified addresses
  links,      \* unexpired links mailed to the address they name
  req,        \* the running handlers
  followed,   \* history: (address, server) whose register link was followed
  proven,     \* history: addresses that some account had verified
  starts, changes, faults

tableVars == <<alert, notify, hooks, lastHook>>
historyVars == <<followed, proven>>
boundVars == <<starts, changes, faults>>
vars == <<alert, notify, hooks, lastHook, account, links, req, followed, proven, starts,
          changes, faults>>

Rows == 1..MaxRows
Hooks == 1..MaxHooks

Never == [is |-> "never"]
Deleted == [is |-> "deleted"]
Alert == [is : {"alert"}, email : Addresses, server : Servers, verified : BOOLEAN,
          old : BOOLEAN, quiet : BOOLEAN, owner : Users \cup {Nobody}]

Exists(i) == alert[i].is = "alert"
FreeRow(i) == alert[i] = Never /\ \A j \in 1..(i - 1) : alert[j] # Never
NextRow == CHOOSE i \in Rows : FreeRow(i)
HasRoom == \E i \in Rows : FreeRow(i)

\* The rows of an address and a server: at most one, by the unique index.
Subscription(e, s) == {i \in Rows : Exists(i) /\ alert[i].email = e /\ alert[i].server = s}

NewAlert(e, s, verified, owner) ==
  [is |-> "alert", email |-> e, server |-> s, verified |-> verified, old |-> FALSE,
   quiet |-> FALSE, owner |-> owner]

\* Without the unique index.
InsertAnyway(row) == HasRoom /\ alert' = [alert EXCEPT ![NextRow] = row]

\* An insert the unique index refuses fails.
Insert(row) ==
  IF Subscription(row.email, row.server) # {} THEN UNCHANGED alert
  ELSE HasRoom /\ alert' = [alert EXCEPT ![NextRow] = row]

\* Deleting alerts takes their addresses and webhooks along (ON DELETE CASCADE).
DeleteRows(S) ==
  /\ alert' = [i \in Rows |-> IF i \in S THEN Deleted ELSE alert[i]]
  /\ notify' = [i \in Rows |-> IF i \in S THEN {} ELSE notify[i]]
  /\ hooks' = [i \in Rows |-> IF i \in S THEN {} ELSE hooks[i]]

\* ActiveModel::update writes the columns that were set, and only to a row that exists.
Update(i, row) ==
  alert' = IF Exists(i) THEN [alert EXCEPT ![i] = row] ELSE alert

Idle == [at |-> "idle"]
At(r, step) == req[r].at = step
Become(r, state) == req' = [req EXCEPT ![r] = state]
Begin(r, state) == At(r, "idle") /\ starts > 0 /\ starts' = starts - 1 /\ Become(r, state)
Done(r) == Become(r, Idle)

RegisterLink(e, s) == [act |-> "register", email |-> e, server |-> s]
DeleteLink(i) == [act |-> "delete", row |-> i, email |-> alert[i].email]

(***************************************************************************)
(* The mail-link interface.                                                *)
(***************************************************************************)

\* register_alert: a verified row is left alone, an unverified one renewed, a missing
\* one inserted.
Register(r, e, s) ==
  /\ \/ \E i \in Subscription(e, s) :
          /\ ~alert[i].verified
          /\ Begin(r, [at |-> "renew", row |-> i, link |-> RegisterLink(e, s)])
     \/ /\ Subscription(e, s) = {}
        /\ Begin(r, [at |-> "insert", link |-> RegisterLink(e, s)])
  /\ UNCHANGED <<tableVars, account, links, historyVars, changes, faults>>

\* What a handler that saved the row it had read, with every column, would write.
RenewedWhole(i) == [alert[i] EXCEPT !.old = FALSE, !.verified = FALSE]
Renewed(i) == [alert[i] EXCEPT !.old = FALSE]

Renew(r) ==
  /\ At(r, "renew")
  /\ LET i == req[r].row IN
     IF Exists(i)
     THEN Update(i, Renewed(i)) /\ Become(r, [at |-> "mail", link |-> req[r].link])
     ELSE UNCHANGED alert /\ Done(r)
  /\ UNCHANGED <<notify, hooks, lastHook, account, links, historyVars, boundVars>>

InsertUnverified(r) ==
  /\ At(r, "insert")
  /\ LET l == req[r].link IN
     /\ Insert(NewAlert(l.email, l.server, FALSE, Nobody))
     /\ IF Subscription(l.email, l.server) = {} THEN Become(r, [at |-> "mail", link |-> l])
                                                ELSE Done(r)
  /\ UNCHANGED <<notify, hooks, lastHook, account, links, historyVars, boundVars>>

\* delete_alert: anybody may ask; the link goes to the row's address.
AskForDeletion(r, i) ==
  /\ Exists(i)
  /\ Begin(r, [at |-> "mail", link |-> DeleteLink(i)])
  /\ UNCHANGED <<tableVars, account, links, historyVars, changes, faults>>

Mail(r) ==
  /\ At(r, "mail")
  /\ links' = links \cup {req[r].link}
  /\ Done(r)
  /\ UNCHANGED <<tableVars, account, historyVars, boundVars>>

\* verify_alert, "register": the row is looked up by address and server ...
FollowRegister(r, l) ==
  /\ l.act = "register"
  /\ \E i \in Subscription(l.email, l.server) : Begin(r, [at |-> "confirm", row |-> i])
  /\ followed' = followed \cup {<<l.email, l.server>>}
  /\ UNCHANGED <<tableVars, account, links, proven, changes, faults>>

\* ... and set verified.
Confirm(r) ==
  /\ At(r, "confirm")
  /\ Update(req[r].row, [alert[req[r].row] EXCEPT !.verified = TRUE])
  /\ Done(r)
  /\ UNCHANGED <<notify, hooks, lastHook, account, links, historyVars, boundVars>>

\* verify_alert, "delete": one statement, by id and address.
FollowDeletion(l) ==
  /\ l.act = "delete" /\ Exists(l.row) /\ alert[l.row].email = l.email
  /\ DeleteRows({l.row})
  /\ UNCHANGED <<lastHook, account, links, req, historyVars, boundVars>>

LinkExpires(l) ==
  /\ links' = links \ {l}
  /\ UNCHANGED <<tableVars, account, req, historyVars, boundVars>>

(***************************************************************************)
(* The OAuth2 interface.  OAuth2Auth reads the caller's account once, when *)
(* the request arrives.                                                    *)
(***************************************************************************)
Auth(u) == [user |-> u, email |-> account[u].primary,
            verified |-> account[u].primary \in account[u].verified]

\* get_alert_v2, update_alert_settings and update_notify_emails.
Owns(u, i) ==
  /\ Exists(i)
  /\ \/ alert[i].owner = u
     \/ alert[i].owner = Nobody /\ alert[i].email = Auth(u).email

\* The rows of a caller by user or address.
Belongs(i, auth) ==
  /\ Exists(i)
  /\ alert[i].owner = auth.user \/ alert[i].email = auth.email

\* delete_alert_v2 and the webhook handlers: the address alone is enough.
OwnsOrMatches(u, i) == Belongs(i, Auth(u))

\* create_alert_v2: no row of the caller's present primary address for this server, ...
CreateAlert(r, u, s) ==
  /\ Subscription(Auth(u).email, s) = {}
  /\ Begin(r, [at |-> "create", auth |-> Auth(u), server |-> s])
  /\ UNCHANGED <<tableVars, account, links, historyVars, changes, faults>>

\* Whether an alert made by this caller starts out verified.
StartsVerifiedAlways(auth) == TRUE
StartsVerified(auth) == auth.verified

\* ... the row, verified if the address is, ...
InsertOwned(r) ==
  /\ At(r, "create")
  /\ LET a == req[r].auth IN
     /\ Insert(NewAlert(a.email, req[r].server, StartsVerified(a), a.user))
     /\ IF Subscription(a.email, req[r].server) = {}
        THEN Become(r, [at |-> "seed", row |-> NextRow, email |-> a.email])
        ELSE Done(r)
  /\ UNCHANGED <<notify, hooks, lastHook, account, links, historyVars, boundVars>>

\* ... and its first notification address, unless the alert is gone (foreign key).
Seed(r) ==
  /\ At(r, "seed")
  /\ notify' = IF Exists(req[r].row) THEN [notify EXCEPT ![req[r].row] = @ \cup {req[r].email}]
                                     ELSE notify
  /\ Done(r)
  /\ UNCHANGED <<alert, hooks, lastHook, account, links, historyVars, boundVars>>

DeleteAlert(r, u, i) ==
  /\ OwnsOrMatches(u, i)
  /\ Begin(r, [at |-> "delete", row |-> i])
  /\ UNCHANGED <<tableVars, account, links, historyVars, changes, faults>>

DeleteById(r) ==
  /\ At(r, "delete")
  /\ IF Exists(req[r].row) THEN DeleteRows({req[r].row}) ELSE UNCHANGED <<alert, notify, hooks>>
  /\ Done(r)
  /\ UNCHANGED <<lastHook, account, links, historyVars, boundVars>>

\* update_alert_settings writes the settings of the row it found, nothing else.
ChangeSettings(r, u, i) ==
  /\ Owns(u, i)
  /\ Begin(r, [at |-> "settings", row |-> i])
  /\ UNCHANGED <<tableVars, account, links, historyVars, changes, faults>>

SaveSettings(r) ==
  /\ At(r, "settings")
  /\ Update(req[r].row, [alert[req[r].row] EXCEPT !.quiet = TRUE])
  /\ Done(r)
  /\ UNCHANGED <<notify, hooks, lastHook, account, links, historyVars, boundVars>>

\* update_notify_emails: verified_email_set reads the user's row ...
ChangeNotify(r, u, i, S) ==
  /\ Owns(u, i)
  /\ Begin(r, [at |-> "extras", row |-> i, user |-> u, emails |-> S,
               verified |-> {account[u].primary} \cap account[u].verified])
  /\ UNCHANGED <<tableVars, account, links, historyVars, changes, faults>>

\* ... and then the additional addresses; the list must lie within both.
ReadExtras(r) ==
  /\ At(r, "extras")
  /\ LET a == account[req[r].user]
         verified == req[r].verified \cup (a.verified \ {a.primary})
     IN IF req[r].emails \subseteq verified
        THEN Become(r, [at |-> "replace", row |-> req[r].row, user |-> req[r].user,
                        emails |-> req[r].emails])
        ELSE Done(r)
  /\ UNCHANGED <<tableVars, account, links, historyVars, boundVars>>

\* One transaction: the old list out, the new one in.
ReplaceNotify(r) ==
  /\ At(r, "replace")
  /\ notify' = IF Exists(req[r].row) THEN [notify EXCEPT ![req[r].row] = req[r].emails]
                                     ELSE notify
  /\ Done(r)
  /\ UNCHANGED <<alert, hooks, lastHook, account, links, historyVars, boundVars>>

\* Off by one.
HasRoomForHookOrOne(i) == Cardinality(hooks[i]) <= MaxWebhooks
HasRoomForHook(i) == Cardinality(hooks[i]) < MaxWebhooks

\* add_webhook: the webhooks are counted, and the new one inserted in another call.
AddWebhook(r, u, i) ==
  /\ OwnsOrMatches(u, i) /\ HasRoomForHook(i)
  /\ Begin(r, [at |-> "hook", row |-> i])
  /\ UNCHANGED <<tableVars, account, links, historyVars, changes, faults>>

InsertHook(r) ==
  /\ At(r, "hook")
  /\ IF Exists(req[r].row)
     THEN /\ lastHook < MaxHooks /\ lastHook' = lastHook + 1
          /\ hooks' = [hooks EXCEPT ![req[r].row] = @ \cup {lastHook + 1}]
     ELSE UNCHANGED <<hooks, lastHook>>
  /\ Done(r)
  /\ UNCHANGED <<alert, notify, account, links, historyVars, boundVars>>

\* delete_webhook: the webhook must be one of the alert's; it is deleted by its id.
DeleteWebhook(r, u, i, h) ==
  /\ OwnsOrMatches(u, i) /\ h \in hooks[i]
  /\ Begin(r, [at |-> "unhook", hook |-> h])
  /\ UNCHANGED <<tableVars, account, links, historyVars, changes, faults>>

RemoveHook(r) ==
  /\ At(r, "unhook")
  /\ hooks' = [i \in Rows |-> hooks[i] \ {req[r].hook}]
  /\ Done(r)
  /\ UNCHANGED <<alert, notify, lastHook, account, links, historyVars, boundVars>>

\* delete_account: after the histories and logs of the caller's alerts, the alerts that
\* belong to the caller now, by the account read when the request arrived.  The rest of
\* it is in AccountEmails; a user who goes on here is one for whom the rest failed.
DeleteAccount(r, u) ==
  /\ Begin(r, [at |-> "close", auth |-> Auth(u)])
  /\ UNCHANGED <<tableVars, account, links, historyVars, changes, faults>>

DeleteOwned(r) ==
  /\ At(r, "close")
  /\ DeleteRows({i \in Rows : Belongs(i, req[r].auth)})
  /\ Done(r)
  /\ UNCHANGED <<lastHook, account, links, historyVars, boundVars>>

(***************************************************************************)
(* Time, failures, housekeeping and the accounts.                          *)
(***************************************************************************)

\* A database call fails, or the client goes away: the handler ends where it is.
Fail(r) ==
  /\ ~At(r, "idle") /\ faults > 0
  /\ faults' = faults - 1 /\ Done(r)
  /\ UNCHANGED <<tableVars, account, links, historyVars, starts, changes>>

\* A day after its creation or renewal the row is stale; the links of an hour are not left.
GrowOld(i) ==
  /\ Exists(i) /\ ~alert[i].old
  /\ alert' = [alert EXCEPT ![i].old = TRUE]
  /\ links' = links \ {RegisterLink(alert[i].email, alert[i].server)}
  /\ UNCHANGED <<notify, hooks, lastHook, account, req, historyVars, boundVars>>

StaleWrongFlag == {i \in Rows : Exists(i) /\ alert[i].old /\ alert[i].verified}
Stale == {i \in Rows : Exists(i) /\ alert[i].old /\ ~alert[i].verified}

\* run_housekeeping: one DELETE over the unverified rows older than a day.
Housekeep ==
  /\ Stale # {}
  /\ DeleteRows(Stale)
  /\ UNCHANGED <<lastHook, account, links, req, historyVars, boundVars>>

\* AccountEmails: an address is verified, removed or promoted.
ChangeAccount(u) ==
  /\ changes > 0 /\ changes' = changes - 1
  /\ \E p \in account[u].verified \cup {account[u].primary}, V \in SUBSET Addresses :
       /\ p \in V /\ <<p, V>> # <<account[u].primary, account[u].verified>>
       /\ account' = [account EXCEPT ![u] = [primary |-> p, verified |-> V]]
       /\ proven' = proven \cup V
  /\ UNCHANGED <<tableVars, links, req, followed, starts, faults>>

Init ==
  /\ alert = [i \in Rows |-> Never]
  /\ notify = [i \in Rows |-> {}] /\ hooks = [i \in Rows |-> {}] /\ lastHook = 0
  /\ account \in [Users -> [primary : Addresses, verified : SUBSET Addresses]]
  /\ \A u, v \in Users : /\ account[u].verified \subseteq {account[u].primary}
                         /\ account[u].primary = account[v].primary => u = v
  /\ links = {}
  /\ req = [r \in Requests |-> Idle]
  /\ followed = {} /\ proven = UNION {account[u].verified : u \in Users}
  /\ starts = MaxStarts /\ changes = MaxAccountChanges /\ faults = MaxFaults

MailRequest(r) ==
  \/ \E e \in Addresses, s \in Servers : Register(r, e, s)
  \/ \E i \in Rows : AskForDeletion(r, i)
  \/ \E l \in links : FollowRegister(r, l)

OAuthRequest(r) ==
  \E u \in Users :
    \/ \E s \in Servers : CreateAlert(r, u, s)
    \/ DeleteAccount(r, u)
    \/ \E i \in Rows :
         \/ DeleteAlert(r, u, i)
         \/ ChangeSettings(r, u, i)
         \/ \E S \in SUBSET Addresses : ChangeNotify(r, u, i, S)
         \/ AddWebhook(r, u, i)
         \/ \E h \in Hooks : DeleteWebhook(r, u, i, h)

Continue(r) ==
  \/ Renew(r) \/ InsertUnverified(r) \/ Mail(r) \/ Confirm(r)
  \/ InsertOwned(r) \/ Seed(r) \/ DeleteById(r) \/ SaveSettings(r)
  \/ ReadExtras(r) \/ ReplaceNotify(r) \/ InsertHook(r) \/ RemoveHook(r)
  \/ DeleteOwned(r)

Next ==
  \/ \E r \in Requests : MailRequest(r) \/ OAuthRequest(r) \/ Continue(r) \/ Fail(r)
  \/ \E l \in links : FollowDeletion(l) \/ LinkExpires(l)
  \/ \E i \in Rows : GrowOld(i)
  \/ Housekeep
  \/ \E u \in Users : ChangeAccount(u)

Spec == Init /\ [][Next]_vars

\* Time passes, and the healthy loop keeps running (LoopNeverStops of LoopLock).
FairSpec == Spec /\ WF_vars(Housekeep) /\ WF_vars(\E i \in Rows : GrowOld(i))

(***************************************************************************)
(* Properties.                                                             *)
(***************************************************************************)

\* The tables hold what their schema allows: one subscription per address and server,
\* and nothing refers to an alert that is gone.
TypeOK ==
  /\ \A i \in Rows : alert[i] \in {Never, Deleted} \/ alert[i] \in Alert
  /\ \A i, j \in Rows :
       Exists(i) /\ Exists(j) /\ alert[i].email = alert[j].email /\ alert[i].server = alert[j].server
         => i = j
  /\ \A i \in Rows : ~Exists(i) => notify[i] = {} /\ hooks[i] = {}

\* An alert is verified only if its address answered for it: its register link was
\* followed, or an account had verified the address (verify_alert, create_alert_v2).
VerifiedWasConfirmed ==
  \A i \in Rows : Exists(i) /\ alert[i].verified =>
    <<alert[i].email, alert[i].server>> \in followed \/ alert[i].email \in proven

\* Somebody asked for this alert, or for the account it belongs to, to be deleted.
Condemned(i) ==
  \/ \E l \in links : l.act = "delete" /\ l.row = i
  \/ \E r \in Requests : At(r, "delete") /\ req[r].row = i
  \/ \E r \in Requests : At(r, "close") /\ Belongs(i, req[r].auth)

\* Once verified, an alert stays so until it is deleted on request: neither a second
\* registration, which races the click on the first link, nor the settings, nor the
\* housekeeping takes it away (register_alert, update_alert_settings, run_housekeeping).
VerifiedStays ==
  [][\A i \in Rows : Exists(i) /\ alert[i].verified =>
       (Exists(i)' /\ alert'[i].verified) \/ Condemned(i)]_vars

\* The webhooks of an alert exceed the configured maximum by no more than the requests
\* that counted them at the same time (add_webhook).
HooksBounded ==
  \A i \in Rows : Cardinality(hooks[i]) < MaxWebhooks + Cardinality(Requests)

\* A subscription nobody confirms does not stay: it is verified, or deleted after its day
\* (run_housekeeping).
UnconfirmedIsSwept ==
  \A i \in Rows : Exists(i) /\ ~alert[i].verified ~> ~Exists(i) \/ alert[i].verified
=============================================================================
