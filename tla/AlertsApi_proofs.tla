-------------------------- MODULE AlertsApi_proofs --------------------------
(***************************************************************************)
(* AlertsApi for every set of users, addresses, servers and handlers and   *)
(* any number of rows, requests, account changes and failing calls.        *)
(***************************************************************************)
EXTENDS AlertsApi, FiniteSetTheorems, TLAPS

-----------------------------------------------------------------------------
(* Types *)

Row == {Never, Deleted} \cup Alert

TablesOK ==
  /\ alert \in [Rows -> Row]
  /\ notify \in [Rows -> SUBSET Addresses]
  /\ hooks \in [Rows -> SUBSET Nat] /\ lastHook \in Nat
AccountsOK == account \in [Users -> [primary : Addresses, verified : SUBSET Addresses]]

\* One subscription per address and server, and nothing refers to a row that is gone.
SchemaOK ==
  /\ \A i, j \in Rows :
       Exists(i) /\ Exists(j) /\ alert[i].email = alert[j].email /\ alert[i].server = alert[j].server
         => i = j
  /\ \A i \in Rows : ~Exists(i) => notify[i] = {} /\ hooks[i] = {}

\* What a handler knows at its steps, as far as a later step writes it.
Knows(x) ==
  /\ x.at \in {"renew", "confirm", "seed", "delete", "settings", "extras", "replace", "hook"}
       => x.row \in Rows
  /\ x.at = "insert" => x.link.email \in Addresses /\ x.link.server \in Servers
  /\ x.at = "create" => x.auth \in [user : Users, email : Addresses, verified : BOOLEAN]
                        /\ x.server \in Servers
  /\ x.at = "seed" => x.email \in Addresses
  /\ x.at \in {"extras", "replace"} => x.emails \subseteq Addresses
  /\ x.at = "extras" => x.user \in Users
ReqOK == req = [r \in Requests |-> req[r]] /\ \A r \in Requests : Knows(req[r])

TypeInv == TablesOK /\ AccountsOK /\ SchemaOK /\ ReqOK

LEMMA RowKinds ==
  /\ Never \in Row /\ Deleted \in Row /\ Never.is = "never" /\ Deleted.is = "deleted"
  /\ \A x \in Row : x.is = "alert" <=> x \in Alert
  /\ \A e \in Addresses, s \in Servers, v \in BOOLEAN, o \in Users \cup {Nobody} :
       NewAlert(e, s, v, o) \in Alert
BY DEF Row, Never, Deleted, Alert, NewAlert

LEMMA RowEdits ==
  ASSUME NEW x \in Alert, NEW v \in BOOLEAN
  PROVE  /\ [x EXCEPT !.old = v] \in Alert /\ [x EXCEPT !.quiet = v] \in Alert
         /\ [x EXCEPT !.verified = v] \in Alert
BY DEF Alert

LEMMA BecomeOK ==
  ASSUME ReqOK, NEW r \in Requests, NEW x, Knows(x), Become(r, x)
  PROVE  ReqOK'
BY DEF ReqOK, Become

LEMMA DoneOK ==
  ASSUME ReqOK, NEW r \in Requests, Done(r)
  PROVE  ReqOK'
<1>1. Knows(Idle)
  BY DEF Knows, Idle
<1> QED BY <1>1, BecomeOK DEF Done

LEMMA FreeRowIsFree == HasRoom => NextRow \in Rows /\ alert[NextRow] = Never
BY DEF HasRoom, NextRow, FreeRow

\* The tables after an insert, an update and a deletion.
LEMMA InsertOK ==
  ASSUME TablesOK, SchemaOK, NEW row \in Alert, Insert(row), UNCHANGED <<notify, hooks, lastHook>>
  PROVE  TablesOK' /\ SchemaOK'
<1>1. CASE UNCHANGED alert
  BY <1>1 DEF TablesOK, SchemaOK, Exists
<1>2. CASE /\ Subscription(row.email, row.server) = {} /\ HasRoom
           /\ alert' = [alert EXCEPT ![NextRow] = row]
  <2>1. NextRow \in Rows /\ alert[NextRow] = Never
    BY <1>2, FreeRowIsFree
  <2>2. TablesOK'
    BY <1>2, <2>1 DEF TablesOK, Row
  <2>3. \A i \in Rows : Exists(i) => alert[i].email # row.email \/ alert[i].server # row.server
    BY <1>2 DEF Subscription
  <2>4. alert'[NextRow] = row /\ \A i \in Rows : i # NextRow => alert'[i] = alert[i]
    BY <1>2, <2>1 DEF TablesOK
  <2>5. SchemaOK'
    <3>1. \A i, j \in Rows :
            Exists(i)' /\ Exists(j)' /\ alert'[i].email = alert'[j].email
              /\ alert'[i].server = alert'[j].server => i = j
      BY <2>3, <2>4 DEF SchemaOK, Exists
    <3>2. \A i \in Rows : ~Exists(i)' => notify'[i] = {} /\ hooks'[i] = {}
      <4>1. ~Exists(NextRow)
        BY <2>1, RowKinds DEF Exists
      <4>2. row.is = "alert"
        BY RowKinds DEF Row
      <4> QED BY <2>1, <2>4, <4>1, <4>2 DEF SchemaOK, Exists
    <3> QED BY <3>1, <3>2 DEF SchemaOK
  <2> QED BY <2>2, <2>5
<1> QED BY <1>1, <1>2 DEF Insert

LEMMA UpdateOK ==
  ASSUME TablesOK, SchemaOK, NEW i \in Rows, NEW row,
         Exists(i) => row \in Alert /\ row.email = alert[i].email /\ row.server = alert[i].server,
         Update(i, row), UNCHANGED <<notify, hooks, lastHook>>
  PROVE  TablesOK' /\ SchemaOK'
<1>1. CASE ~Exists(i)
  BY <1>1 DEF Update, TablesOK, SchemaOK, Exists
<1>2. CASE Exists(i)
  <2>1. alert' = [alert EXCEPT ![i] = row] /\ row \in Alert /\ row.is = "alert"
    BY <1>2, RowKinds DEF Update, Row
  <2>2. TablesOK'
    BY <2>1 DEF TablesOK, Row
  <2>3. \A j \in Rows : /\ Exists(j)' <=> Exists(j)
                        /\ Exists(j) => alert'[j].email = alert[j].email
                                        /\ alert'[j].server = alert[j].server
    BY <1>2, <2>1 DEF TablesOK, Exists
  <2> QED BY <2>2, <2>3 DEF SchemaOK
<1> QED BY <1>1, <1>2

LEMMA DeleteOK ==
  ASSUME TablesOK, SchemaOK, NEW S, DeleteRows(S), UNCHANGED lastHook
  PROVE  TablesOK' /\ SchemaOK'
<1>1. TablesOK'
  BY RowKinds DEF TablesOK, DeleteRows
<1>2. \A i \in Rows : IF i \in S THEN ~Exists(i)' /\ notify'[i] = {} /\ hooks'[i] = {}
                                 ELSE /\ alert'[i] = alert[i] /\ notify'[i] = notify[i]
                                      /\ hooks'[i] = hooks[i] /\ Exists(i)' = Exists(i)
  BY RowKinds DEF DeleteRows, Exists
<1> QED BY <1>1, <1>2 DEF SchemaOK

\* The lists of a row that is there.
LEMMA ListsOK ==
  ASSUME TablesOK, SchemaOK, NEW i \in Rows, Exists(i), UNCHANGED alert,
         notify' \in [Rows -> SUBSET Addresses], hooks' \in [Rows -> SUBSET Nat], lastHook' \in Nat,
         \A j \in Rows \ {i} : notify'[j] = notify[j] /\ hooks'[j] = hooks[j]
  PROVE  TablesOK' /\ SchemaOK'
BY DEF TablesOK, SchemaOK, Exists

LEMMA TablesKept ==
  ASSUME TablesOK, SchemaOK, UNCHANGED tableVars
  PROVE  TablesOK' /\ SchemaOK'
BY DEF TablesOK, SchemaOK, Exists, tableVars

LEMMA TypeStep ==
  ASSUME TypeInv, Next
  PROVE  TypeInv'
<1>0. TablesOK /\ AccountsOK /\ SchemaOK /\ ReqOK
  BY DEF TypeInv
<1>1. AccountsOK'
  <2>1. CASE UNCHANGED account
    BY <1>0, <2>1 DEF AccountsOK
  <2>2. CASE \E u \in Users : ChangeAccount(u)
    BY <1>0, <2>2 DEF AccountsOK, ChangeAccount
  <2>3. ASSUME NEW r \in Requests, MailRequest(r) \/ OAuthRequest(r)
        PROVE  UNCHANGED account
    BY <2>3 DEF MailRequest, OAuthRequest, Register, AskForDeletion, FollowRegister, CreateAlert,
       DeleteAccount, DeleteAlert, ChangeSettings, ChangeNotify, AddWebhook, DeleteWebhook
  <2>4. ASSUME NEW r \in Requests, Continue(r) \/ Fail(r)
        PROVE  UNCHANGED account
    BY <2>4 DEF Continue, Renew, InsertUnverified, Mail, Confirm, InsertOwned, Seed, DeleteById,
       SaveSettings, ReadExtras, ReplaceNotify, InsertHook, RemoveHook, DeleteOwned, Fail
  <2> QED BY <2>1, <2>2, <2>3, <2>4 DEF Next, FollowDeletion, LinkExpires, GrowOld, Housekeep
<1> SUFFICES TablesOK' /\ SchemaOK' /\ ReqOK'
  BY <1>1 DEF TypeInv
<1>2. ASSUME NEW r \in Requests, MailRequest(r)
      PROVE  TablesOK' /\ SchemaOK' /\ ReqOK'
  <2>1. TablesOK' /\ SchemaOK'
    BY <1>0, <1>2, TablesKept DEF MailRequest, Register, AskForDeletion, FollowRegister
  <2>2. \E x : Knows(x) /\ Become(r, x)
    <3>1. ASSUME NEW e \in Addresses, NEW s \in Servers, Register(r, e, s)
          PROVE  \E x : Knows(x) /\ Become(r, x)
      BY <3>1 DEF Register, Begin, Knows, Subscription, RegisterLink
    <3>2. ASSUME NEW i \in Rows, AskForDeletion(r, i)
          PROVE  \E x : Knows(x) /\ Become(r, x)
      BY <3>2 DEF AskForDeletion, Begin, Knows
    <3>3. ASSUME NEW l \in links, FollowRegister(r, l)
          PROVE  \E x : Knows(x) /\ Become(r, x)
      BY <3>3 DEF FollowRegister, Begin, Knows, Subscription
    <3> QED BY <1>2, <3>1, <3>2, <3>3 DEF MailRequest
  <2> QED BY <1>0, <2>1, <2>2, BecomeOK
<1>3. ASSUME NEW r \in Requests, OAuthRequest(r)
      PROVE  TablesOK' /\ SchemaOK' /\ ReqOK'
  <2>1. TablesOK' /\ SchemaOK'
    BY <1>0, <1>3, TablesKept DEF OAuthRequest, CreateAlert, DeleteAccount, DeleteAlert, ChangeSettings,
       ChangeNotify, AddWebhook, DeleteWebhook
  <2>2. \E x : Knows(x) /\ Become(r, x)
    <3>1. ASSUME NEW u \in Users, NEW s \in Servers, CreateAlert(r, u, s)
          PROVE  \E x : Knows(x) /\ Become(r, x)
      <4>1. Auth(u) \in [user : Users, email : Addresses, verified : BOOLEAN]
        BY <1>0 DEF AccountsOK, Auth
      <4> QED BY <3>1, <4>1 DEF CreateAlert, Begin, Knows
    <3>2. ASSUME NEW u \in Users, NEW i \in Rows, NEW S \in SUBSET Addresses,
                 ChangeNotify(r, u, i, S)
          PROVE  \E x : Knows(x) /\ Become(r, x)
      BY <3>2 DEF ChangeNotify, Begin, Knows
    <3>3. ASSUME NEW u \in Users, NEW i \in Rows, NEW h,
                 \/ DeleteAlert(r, u, i) \/ ChangeSettings(r, u, i) \/ AddWebhook(r, u, i)
                 \/ DeleteWebhook(r, u, i, h)
          PROVE  \E x : Knows(x) /\ Become(r, x)
      BY <3>3 DEF DeleteAlert, ChangeSettings, AddWebhook, DeleteWebhook, Begin, Knows
    <3>4. ASSUME NEW u \in Users, DeleteAccount(r, u)
          PROVE  \E x : Knows(x) /\ Become(r, x)
      BY <3>4 DEF DeleteAccount, Begin, Knows
    <3> QED BY <1>3, <3>1, <3>2, <3>3, <3>4 DEF OAuthRequest
  <2> QED BY <1>0, <2>1, <2>2, BecomeOK
<1>4. ASSUME NEW r \in Requests, Renew(r) \/ Confirm(r) \/ SaveSettings(r)
      PROVE  TablesOK' /\ SchemaOK' /\ ReqOK'
  <2>1. req[r].row \in Rows
    BY <1>0, <1>4 DEF ReqOK, Knows, Renew, Confirm, SaveSettings, At
  <2>2. \/ UNCHANGED tableVars
        \/ \E row : /\ Update(req[r].row, row) /\ UNCHANGED <<notify, hooks, lastHook>>
                    /\ Exists(req[r].row) => row \in Alert /\ row.email = alert[req[r].row].email
                                             /\ row.server = alert[req[r].row].server
    <3>1. Exists(req[r].row) => alert[req[r].row] \in Alert
      BY <1>0, <2>1, RowKinds DEF TablesOK, Exists
    <3> DEFINE x == alert[req[r].row]
    <3>2. Exists(req[r].row) =>
            \A y \in {[x EXCEPT !.old = FALSE], [x EXCEPT !.verified = TRUE],
                      [x EXCEPT !.quiet = TRUE]} :
              y \in Alert /\ y.email = x.email /\ y.server = x.server
      <4> SUFFICES ASSUME x \in Alert
                   PROVE  \A y \in {[x EXCEPT !.old = FALSE], [x EXCEPT !.verified = TRUE],
                                    [x EXCEPT !.quiet = TRUE]} :
                            y \in Alert /\ y.email = x.email /\ y.server = x.server
        BY <3>1
      <4> HIDE DEF x
      <4> QED BY DEF Alert
    <3> QED BY <1>4, <3>2 DEF Renew, Confirm, SaveSettings, Renewed, tableVars
  <2>3. TablesOK' /\ SchemaOK'
    BY <1>0, <2>1, <2>2, UpdateOK, TablesKept
  <2>4. \E x : Knows(x) /\ Become(r, x)
    BY <1>4 DEF Renew, Confirm, SaveSettings, Done, Idle, Knows
  <2> QED BY <1>0, <2>3, <2>4, BecomeOK
<1>5. ASSUME NEW r \in Requests, InsertUnverified(r)
      PROVE  TablesOK' /\ SchemaOK' /\ ReqOK'
  <2> DEFINE l == req[r].link
             row == NewAlert(l.email, l.server, FALSE, Nobody)
  <2>1. l.email \in Addresses /\ l.server \in Servers
    BY <1>0, <1>5 DEF ReqOK, Knows, InsertUnverified, At
  <2>2. row \in Alert /\ Insert(row) /\ UNCHANGED <<notify, hooks, lastHook>>
    BY <1>5, <2>1, RowKinds DEF InsertUnverified
  <2>3. TablesOK' /\ SchemaOK'
    BY <1>0, <2>2, InsertOK
  <2>4. \E x : Knows(x) /\ Become(r, x)
    BY <1>5 DEF InsertUnverified, Done, Idle, Knows
  <2> QED BY <1>0, <2>3, <2>4, BecomeOK
<1>6. ASSUME NEW r \in Requests, InsertOwned(r)
      PROVE  TablesOK' /\ SchemaOK' /\ ReqOK'
  <2> DEFINE a == req[r].auth
             row == NewAlert(a.email, req[r].server, StartsVerified(a), a.user)
  <2>1. a \in [user : Users, email : Addresses, verified : BOOLEAN] /\ req[r].server \in Servers
    BY <1>0, <1>6 DEF ReqOK, Knows, InsertOwned, At
  <2>2. a.user \in Users /\ a.email \in Addresses /\ StartsVerified(a) \in BOOLEAN
    BY <2>1 DEF StartsVerified
  <2>3. row \in Alert /\ Insert(row) /\ UNCHANGED <<notify, hooks, lastHook>>
    BY <1>6, <2>1, <2>2, RowKinds DEF InsertOwned
  <2>4. TablesOK' /\ SchemaOK'
    BY <1>0, <2>3, InsertOK
  <2>5. \E x : Knows(x) /\ Become(r, x)
    <3>1. CASE Subscription(a.email, req[r].server) = {}
      <4>1. NextRow \in Rows
        BY <2>3, <3>1, FreeRowIsFree DEF Insert, NewAlert
      <4> QED BY <1>6, <2>2, <3>1, <4>1 DEF InsertOwned, Knows
    <3>2. CASE Subscription(a.email, req[r].server) # {}
      BY <1>6, <3>2 DEF InsertOwned, Done, Idle, Knows
    <3> QED BY <3>1, <3>2
  <2> QED BY <1>0, <2>4, <2>5, BecomeOK
<1>7. ASSUME NEW r \in Requests, Seed(r) \/ ReplaceNotify(r) \/ InsertHook(r)
      PROVE  TablesOK' /\ SchemaOK' /\ ReqOK'
  <2>1. /\ req[r].row \in Rows
        /\ At(r, "seed") => req[r].email \in Addresses
        /\ At(r, "replace") => req[r].emails \subseteq Addresses
    BY <1>0, <1>7 DEF ReqOK, Knows, Seed, ReplaceNotify, InsertHook, At
  <2>2. ASSUME ~Exists(req[r].row)
        PROVE  TablesOK' /\ SchemaOK'
    <3>1. UNCHANGED tableVars
      BY <1>7, <2>2 DEF Seed, ReplaceNotify, InsertHook, tableVars
    <3> QED BY <1>0, <3>1, TablesKept
  <2>3. ASSUME Exists(req[r].row)
        PROVE  TablesOK' /\ SchemaOK'
    <3>1. CASE Seed(r)
      BY <1>0, <2>1, <2>3, <3>1, ListsOK DEF Seed, TablesOK
    <3>2. CASE ReplaceNotify(r)
      BY <1>0, <2>1, <2>3, <3>2, ListsOK DEF ReplaceNotify, TablesOK
    <3>3. CASE InsertHook(r)
      BY <1>0, <2>1, <2>3, <3>3, ListsOK DEF InsertHook, TablesOK
    <3> QED BY <1>7, <3>1, <3>2, <3>3
  <2>4. Done(r)
    BY <1>7 DEF Seed, ReplaceNotify, InsertHook
  <2> QED BY <1>0, <2>2, <2>3, <2>4, DoneOK
<1>8. ASSUME NEW r \in Requests, RemoveHook(r)
      PROVE  TablesOK' /\ SchemaOK' /\ ReqOK'
  <2>1. TablesOK' /\ SchemaOK'
    BY <1>0, <1>8 DEF RemoveHook, TablesOK, SchemaOK, Exists
  <2> QED BY <1>0, <1>8, <2>1, DoneOK DEF RemoveHook
<1>9. ASSUME NEW r \in Requests, DeleteById(r) \/ DeleteOwned(r)
      PROVE  TablesOK' /\ SchemaOK' /\ ReqOK'
  <2>1. CASE DeleteById(r)
    BY <1>0, <2>1, DeleteOK, TablesKept, DoneOK DEF DeleteById, tableVars
  <2>2. CASE DeleteOwned(r)
    BY <1>0, <2>2, DeleteOK, DoneOK DEF DeleteOwned
  <2> QED BY <1>9, <2>1, <2>2
<1>10. ASSUME NEW r \in Requests, ReadExtras(r)
       PROVE  TablesOK' /\ SchemaOK' /\ ReqOK'
  <2>1. req[r].row \in Rows /\ req[r].emails \subseteq Addresses
    BY <1>0, <1>10 DEF ReqOK, Knows, ReadExtras, At
  <2>2. \E x : Knows(x) /\ Become(r, x)
    BY <1>10, <2>1 DEF ReadExtras, Done, Idle, Knows
  <2> QED BY <1>0, <1>10, <2>2, BecomeOK, TablesKept DEF ReadExtras
<1>11. ASSUME NEW r \in Requests, Mail(r) \/ Fail(r)
       PROVE  TablesOK' /\ SchemaOK' /\ ReqOK'
  BY <1>0, <1>11, DoneOK, TablesKept DEF Mail, Fail
<1>12. ASSUME NEW l \in links, FollowDeletion(l) \/ LinkExpires(l)
       PROVE  TablesOK' /\ SchemaOK' /\ ReqOK'
  <2>1. TablesOK' /\ SchemaOK'
    BY <1>0, <1>12, DeleteOK, TablesKept DEF FollowDeletion, LinkExpires
  <2> QED BY <1>0, <1>12, <2>1 DEF FollowDeletion, LinkExpires, ReqOK
<1>13. ASSUME NEW i \in Rows, GrowOld(i)
       PROVE  TablesOK' /\ SchemaOK' /\ ReqOK'
  <2>1. alert[i] \in Alert
    BY <1>0, <1>13, RowKinds DEF TablesOK, Exists, GrowOld
  <2> DEFINE row == [alert[i] EXCEPT !.old = TRUE]
  <2>2. row \in Alert /\ row.email = alert[i].email /\ row.server = alert[i].server
    BY <2>1 DEF Alert
  <2>3. Update(i, row) /\ UNCHANGED <<notify, hooks, lastHook>>
    BY <1>13 DEF GrowOld, Update
  <2>4. TablesOK' /\ SchemaOK'
    BY <1>0, <2>2, <2>3, UpdateOK
  <2> QED BY <1>0, <1>13, <2>4 DEF GrowOld, ReqOK
<1>14. ASSUME Housekeep \/ \E u \in Users : ChangeAccount(u)
       PROVE  TablesOK' /\ SchemaOK' /\ ReqOK'
  <2>1. TablesOK' /\ SchemaOK'
    BY <1>0, <1>14, DeleteOK, TablesKept DEF Housekeep, ChangeAccount
  <2> QED BY <1>0, <1>14, <2>1 DEF Housekeep, ChangeAccount, ReqOK
<1> QED BY <1>2, <1>3, <1>4, <1>5, <1>6, <1>7, <1>8, <1>9, <1>10, <1>11, <1>12, <1>13, <1>14
     DEF Next, Continue

THEOREM TypeInvariant == Spec => []TypeInv
<1>1. Init => TypeInv
  BY RowKinds DEF Init, TypeInv, TablesOK, AccountsOK, SchemaOK, ReqOK, Knows, Idle, Exists
<1>2. TypeInv /\ [Next]_vars => TypeInv'
  <2>1. CASE UNCHANGED vars
    BY <2>1 DEF vars, TypeInv, TablesOK, AccountsOK, SchemaOK, ReqOK, Exists
  <2> QED BY <2>1, TypeStep
<1> QED BY <1>1, <1>2, PTL DEF Spec

\* The tables keep to their schema, one subscription per address and server and no list
\* without its alert, whatever handlers race.
THEOREM TypeCorrect == Spec => []TypeOK
<1>1. TypeInv => TypeOK
  BY DEF TypeInv, TablesOK, SchemaOK, TypeOK, Row
<1> QED BY <1>1, TypeInvariant, PTL

-----------------------------------------------------------------------------
(* Who confirmed a verified alert                                            *)

SameSubscription(i) == alert'[i].email = alert[i].email /\ alert'[i].server = alert[i].server

\* Ids are not used again; a row keeps its subscription; what is verified now was, or
\* answered for itself.
RowsKeep ==
  \A i \in Rows :
    /\ alert[i] # Never =>
         alert'[i] # Never /\ (Exists(i)' => Exists(i) /\ SameSubscription(i))
    /\ Exists(i)' /\ alert'[i].verified =>
         \/ Exists(i) /\ SameSubscription(i) /\ alert[i].verified
         \/ <<alert'[i].email, alert'[i].server>> \in followed
         \/ alert'[i].email \in proven

AccountsProven == \A u \in Users : account[u].verified \subseteq proven
\* A register link was followed, or the address was verified, when the handler asked.
Justified(x) ==
  /\ x.at = "confirm" => /\ alert[x.row] # Never
                         /\ Exists(x.row) => <<alert[x.row].email, alert[x.row].server>> \in followed
  /\ x.at = "create" => (x.auth.verified => x.auth.email \in proven)
AllJustified == \A r \in Requests : Justified(req[r])

ConfirmInv == VerifiedWasConfirmed /\ AccountsProven /\ AllJustified

LEMMA AlertKept ==
  ASSUME UNCHANGED alert
  PROVE  RowsKeep
BY DEF RowsKeep, Exists, SameSubscription

LEMMA RowsDeleted ==
  ASSUME TablesOK, NEW S, DeleteRows(S)
  PROVE  RowsKeep
<1>1. \A i \in Rows : alert'[i] = Deleted \/ alert'[i] = alert[i]
  BY DEF TablesOK, DeleteRows
<1> QED BY <1>1, RowKinds DEF RowsKeep, Exists, SameSubscription

LEMMA RowInserted ==
  ASSUME TablesOK, NEW row, Insert(row), row.verified => row.email \in proven
  PROVE  RowsKeep
<1>1. CASE UNCHANGED alert
  BY <1>1, AlertKept
<1>2. CASE HasRoom /\ alert' = [alert EXCEPT ![NextRow] = row]
  <2>1. NextRow \in Rows /\ alert[NextRow] = Never
    BY <1>2, FreeRowIsFree
  <2>2. alert'[NextRow] = row /\ \A i \in Rows : i # NextRow => alert'[i] = alert[i]
    BY <1>2, <2>1 DEF TablesOK
  <2> QED BY <2>1, <2>2 DEF RowsKeep, Exists, SameSubscription
<1> QED BY <1>1, <1>2 DEF Insert

LEMMA RowUpdated ==
  ASSUME TablesOK, NEW i \in Rows, NEW row, Update(i, row),
         Exists(i) => /\ row \in Alert /\ row.email = alert[i].email /\ row.server = alert[i].server
                      /\ row.verified => alert[i].verified
                                         \/ <<alert[i].email, alert[i].server>> \in followed
  PROVE  RowsKeep
<1>1. CASE ~Exists(i)
  BY <1>1, AlertKept DEF Update
<1>2. CASE Exists(i)
  <2>1. alert'[i] = row /\ \A j \in Rows : j # i => alert'[j] = alert[j]
    BY <1>2 DEF Update, TablesOK
  <2>2. row.is = "alert"
    BY <1>2, RowKinds DEF Row
  <2> QED BY <1>2, <2>1, <2>2, RowKinds DEF RowsKeep, Exists, SameSubscription
<1> QED BY <1>1, <1>2

\* The columns an update writes.
LEMMA Edited ==
  ASSUME TablesOK, NEW i \in Rows, Exists(i)
  PROVE  LET x == alert[i]
         IN /\ \A y \in {[x EXCEPT !.old = FALSE], [x EXCEPT !.old = TRUE], [x EXCEPT !.quiet = TRUE]} :
                 y \in Alert /\ y.email = x.email /\ y.server = x.server /\ y.verified = x.verified
            /\ LET y == [x EXCEPT !.verified = TRUE]
               IN y \in Alert /\ y.email = x.email /\ y.server = x.server
<1>1. alert[i] \in Alert
  BY RowKinds DEF TablesOK, Exists
<1> QED BY <1>1 DEF Alert

LEMMA RowsStep ==
  ASSUME TypeInv, AllJustified, Next
  PROVE  RowsKeep
<1>0. TablesOK /\ ReqOK
  BY DEF TypeInv
<1>1. ASSUME NEW r \in Requests, Renew(r) \/ Confirm(r) \/ SaveSettings(r)
      PROVE  RowsKeep
  <2>1. req[r].row \in Rows
    BY <1>0, <1>1 DEF ReqOK, Knows, Renew, Confirm, SaveSettings, At
  <2>2. At(r, "confirm") /\ Exists(req[r].row) =>
          <<alert[req[r].row].email, alert[req[r].row].server>> \in followed
    BY DEF AllJustified, Justified, At
  <2>3. CASE Renew(r)
    BY <1>0, <2>1, <2>3, Edited, RowUpdated, AlertKept DEF Renew, Renewed
  <2>4. CASE Confirm(r)
    BY <1>0, <2>1, <2>2, <2>4, Edited, RowUpdated DEF Confirm
  <2>5. CASE SaveSettings(r)
    BY <1>0, <2>1, <2>5, Edited, RowUpdated DEF SaveSettings
  <2> QED BY <1>1, <2>3, <2>4, <2>5
<1>2. ASSUME NEW r \in Requests, InsertUnverified(r) \/ InsertOwned(r)
      PROVE  RowsKeep
  <2>1. \E row : Insert(row) /\ (row.verified => row.email \in proven)
    <3>1. CASE InsertUnverified(r)
      <4> DEFINE row == NewAlert(req[r].link.email, req[r].link.server, FALSE, Nobody)
      <4>1. row.verified = FALSE
        BY DEF NewAlert
      <4> QED BY <3>1, <4>1 DEF InsertUnverified
    <3>2. CASE InsertOwned(r)
      <4> DEFINE a == req[r].auth
                 row == NewAlert(a.email, req[r].server, StartsVerified(a), a.user)
      <4>1. row.verified = a.verified /\ row.email = a.email
        BY DEF NewAlert, StartsVerified
      <4>2. a.verified => a.email \in proven
        BY <3>2 DEF AllJustified, Justified, InsertOwned, At
      <4> QED BY <3>2, <4>1, <4>2 DEF InsertOwned
    <3> QED BY <1>2, <3>1, <3>2
  <2> QED BY <1>0, <2>1, RowInserted
<1>3. ASSUME NEW r \in Requests, DeleteById(r) \/ DeleteOwned(r)
      PROVE  RowsKeep
  BY <1>0, <1>3, RowsDeleted, AlertKept DEF DeleteById, DeleteOwned
<1>4. ASSUME NEW l \in links, FollowDeletion(l)
      PROVE  RowsKeep
  BY <1>0, <1>4, RowsDeleted DEF FollowDeletion
<1>5. ASSUME NEW i \in Rows, GrowOld(i)
      PROVE  RowsKeep
  <2>1. Update(i, [alert[i] EXCEPT !.old = TRUE]) /\ Exists(i)
    BY <1>5 DEF GrowOld, Update
  <2> QED BY <1>0, <2>1, Edited, RowUpdated
<1>6. ASSUME Housekeep
      PROVE  RowsKeep
  BY <1>0, <1>6, RowsDeleted DEF Housekeep
<1>7. ASSUME NEW r \in Requests, MailRequest(r) \/ OAuthRequest(r)
      PROVE  UNCHANGED alert
  BY <1>7 DEF MailRequest, OAuthRequest, Register, AskForDeletion, FollowRegister, CreateAlert,
     DeleteAccount, DeleteAlert, ChangeSettings, ChangeNotify, AddWebhook, DeleteWebhook, tableVars
<1>8. ASSUME NEW r \in Requests, \/ Mail(r) \/ Seed(r) \/ ReadExtras(r) \/ ReplaceNotify(r)
                                 \/ InsertHook(r) \/ RemoveHook(r) \/ Fail(r)
      PROVE  UNCHANGED alert
  BY <1>8 DEF Mail, Seed, ReadExtras, ReplaceNotify, InsertHook, RemoveHook, Fail, tableVars
<1>9. CASE \/ \E l \in links : LinkExpires(l)
           \/ \E u \in Users : ChangeAccount(u)
  BY <1>9, AlertKept DEF LinkExpires, ChangeAccount, tableVars
<1> QED BY <1>1, <1>2, <1>3, <1>4, <1>5, <1>6, <1>7, <1>8, <1>9, AlertKept DEF Next, Continue

\* What was answered stays answered.
Grown == followed \subseteq followed' /\ proven \subseteq proven'

LEMMA HistoryGrows ==
  ASSUME Next
  PROVE  Grown
<1>1. ASSUME NEW r \in Requests, MailRequest(r) \/ OAuthRequest(r)
      PROVE  Grown
  BY <1>1 DEF Grown, MailRequest, OAuthRequest, Register, AskForDeletion, FollowRegister,
     CreateAlert, DeleteAccount, DeleteAlert, ChangeSettings, ChangeNotify, AddWebhook, DeleteWebhook,
     historyVars
<1>2. ASSUME NEW r \in Requests, Continue(r) \/ Fail(r)
      PROVE  Grown
  BY <1>2 DEF Grown, Continue, Renew, InsertUnverified, Mail, Confirm, InsertOwned, Seed,
     DeleteById, SaveSettings, ReadExtras, ReplaceNotify, InsertHook, RemoveHook, DeleteOwned, Fail, historyVars
<1>3. CASE \E u \in Users : ChangeAccount(u)
  BY <1>3 DEF Grown, ChangeAccount
<1> QED BY <1>1, <1>2, <1>3 DEF Next, Grown, FollowDeletion, LinkExpires, GrowOld, Housekeep, historyVars

\* A handler that goes on justifies its next step, if that writes verified.
LEMMA BecomeJustified ==
  ASSUME AllJustified, ReqOK, RowsKeep, Grown, NEW r \in Requests, NEW x, Become(r, x), Justified(x)'
  PROVE  AllJustified'
<1> SUFFICES ASSUME NEW s \in Requests
             PROVE  Justified(req[s])'
  BY DEF AllJustified
<1>1. CASE s = r
  <2>1. req'[s] = x
    BY <1>1 DEF ReqOK, Become
  <2> QED BY <2>1 DEF Justified, Exists
<1>2. CASE s # r
  <2>1. req'[s] = req[s]
    BY <1>2 DEF ReqOK, Become
  <2>2. Justified(req[s]) /\ Knows(req[s])
    BY DEF AllJustified, ReqOK
  <2> QED BY <2>1, <2>2 DEF Justified, Knows, RowsKeep, Grown, SameSubscription, Exists
<1> QED BY <1>1, <1>2

LEMMA ConfirmStep ==
  ASSUME TypeInv, ConfirmInv, Next
  PROVE  ConfirmInv'
<1>0. ReqOK /\ AllJustified /\ RowsKeep /\ Grown
  BY RowsStep, HistoryGrows DEF TypeInv, ConfirmInv
<1>1. VerifiedWasConfirmed'
  BY <1>0 DEF ConfirmInv, VerifiedWasConfirmed, RowsKeep, Grown, SameSubscription, Exists
<1>2. UNCHANGED account \/ \E u \in Users : ChangeAccount(u)
  <2>1. ASSUME NEW r \in Requests, MailRequest(r) \/ OAuthRequest(r)
        PROVE  UNCHANGED account
    BY <2>1 DEF MailRequest, OAuthRequest, Register, AskForDeletion, FollowRegister, CreateAlert,
       DeleteAccount, DeleteAlert, ChangeSettings, ChangeNotify, AddWebhook, DeleteWebhook
  <2>2. ASSUME NEW r \in Requests, Continue(r) \/ Fail(r)
        PROVE  UNCHANGED account
    BY <2>2 DEF Continue, Renew, InsertUnverified, Mail, Confirm, InsertOwned, Seed, DeleteById,
       SaveSettings, ReadExtras, ReplaceNotify, InsertHook, RemoveHook, DeleteOwned, Fail
  <2> QED BY <2>1, <2>2 DEF Next, FollowDeletion, LinkExpires, GrowOld, Housekeep
<1>3. AccountsProven'
  <2>1. CASE UNCHANGED account
    BY <1>0, <2>1 DEF ConfirmInv, AccountsProven, Grown
  <2>2. CASE \E u \in Users : ChangeAccount(u)
    BY <1>0, <2>2 DEF ConfirmInv, AccountsProven, Grown, ChangeAccount, TypeInv, AccountsOK
  <2> QED BY <1>2, <2>1, <2>2
<1>4. ASSUME UNCHANGED req
      PROVE  AllJustified'
  <2> SUFFICES ASSUME NEW s \in Requests
               PROVE  Justified(req[s])'
    BY DEF AllJustified
  <2>1. Justified(req[s]) /\ Knows(req[s])
    BY <1>0 DEF AllJustified, ReqOK
  <2> QED BY <1>0, <1>4, <2>1 DEF Justified, Knows, RowsKeep, Grown, SameSubscription, Exists
<1>5. ASSUME NEW r \in Requests, NEW x, Become(r, x), x.at \notin {"confirm", "create"}
      PROVE  AllJustified'
  <2>1. Justified(x)'
    BY <1>5 DEF Justified
  <2> QED BY <1>0, <1>5, <2>1, BecomeJustified
<1>6. ASSUME NEW r \in Requests, NEW l \in links, FollowRegister(r, l)
      PROVE  AllJustified'
  <2>1. PICK i \in Subscription(l.email, l.server) : Become(r, [at |-> "confirm", row |-> i])
    BY <1>6 DEF FollowRegister, Begin
  <2>2. UNCHANGED alert /\ <<l.email, l.server>> \in followed'
    BY <1>6 DEF FollowRegister, tableVars
  <2>3. Justified([at |-> "confirm", row |-> i])'
    BY <2>1, <2>2, RowKinds DEF Justified, Subscription, Exists
  <2> QED BY <1>0, <2>1, <2>3, BecomeJustified
<1>7. ASSUME NEW r \in Requests, NEW u \in Users, NEW s \in Servers, CreateAlert(r, u, s)
      PROVE  AllJustified'
  <2>1. Auth(u).verified => Auth(u).email \in proven
    BY DEF ConfirmInv, AccountsProven, Auth
  <2>2. UNCHANGED proven
    BY <1>7 DEF CreateAlert, historyVars
  <2>3. PICK x : x = [at |-> "create", auth |-> Auth(u), server |-> s] /\ Become(r, x)
    BY <1>7 DEF CreateAlert, Begin
  <2>4. x.at = "create" /\ (x.auth.verified => x.auth.email \in proven)
    BY <2>1, <2>3
  <2>5. Justified(x)'
    BY <2>2, <2>4 DEF Justified
  <2> QED BY <1>0, <2>3, <2>5, BecomeJustified
<1>8. ASSUME NEW r \in Requests, MailRequest(r) \/ OAuthRequest(r)
      PROVE  AllJustified'
  <2>1. ASSUME NEW e \in Addresses, NEW s \in Servers, Register(r, e, s)
        PROVE  AllJustified'
    BY <1>5, <2>1 DEF Register, Begin
  <2>2. ASSUME NEW i \in Rows, AskForDeletion(r, i)
        PROVE  AllJustified'
    BY <1>5, <2>2 DEF AskForDeletion, Begin
  <2>3. ASSUME NEW u \in Users, NEW i \in Rows, NEW h,
               \/ DeleteAlert(r, u, i) \/ ChangeSettings(r, u, i)
               \/ AddWebhook(r, u, i) \/ DeleteWebhook(r, u, i, h)
        PROVE  AllJustified'
    BY <1>5, <2>3 DEF DeleteAlert, ChangeSettings, AddWebhook, DeleteWebhook, Begin
  <2>4. ASSUME NEW u \in Users, NEW i \in Rows, NEW S, ChangeNotify(r, u, i, S)
        PROVE  AllJustified'
    BY <1>5, <2>4 DEF ChangeNotify, Begin
  <2>5. ASSUME NEW u \in Users, DeleteAccount(r, u)
        PROVE  AllJustified'
    BY <1>5, <2>5 DEF DeleteAccount, Begin
  <2> QED BY <1>6, <1>7, <1>8, <2>1, <2>2, <2>3, <2>4, <2>5 DEF MailRequest, OAuthRequest
<1>9. ASSUME NEW r \in Requests, Continue(r) \/ Fail(r)
      PROVE  AllJustified'
  <2>1. Idle.at \notin {"confirm", "create"}
    BY DEF Idle
  <2>2. CASE Done(r)
    BY <1>5, <2>1, <2>2 DEF Done
  <2>3. CASE Renew(r) \/ InsertUnverified(r)
    BY <1>5, <2>2, <2>3 DEF Renew, InsertUnverified
  <2>4. CASE InsertOwned(r)
    BY <1>5, <2>2, <2>4 DEF InsertOwned
  <2>5. CASE ReadExtras(r)
    BY <1>5, <2>2, <2>5 DEF ReadExtras
  <2> QED BY <1>9, <2>2, <2>3, <2>4, <2>5 DEF Continue, Mail, Confirm, Seed, DeleteById,
          SaveSettings, ReplaceNotify, InsertHook, RemoveHook, DeleteOwned, Fail
<1>10. AllJustified'
  BY <1>4, <1>8, <1>9 DEF Next, FollowDeletion, LinkExpires, GrowOld, Housekeep, ChangeAccount
<1> QED BY <1>1, <1>3, <1>10 DEF ConfirmInv

\* Whatever handlers race, an alert is verified only if its address answered for it.
THEOREM VerifiedMeansConfirmed == Spec => []VerifiedWasConfirmed
<1>1. Init => ConfirmInv
  BY RowKinds DEF Init, ConfirmInv, VerifiedWasConfirmed, AccountsProven, AllJustified, Justified,
     Idle, Exists
<1>2. TypeInv /\ ConfirmInv /\ [Next]_vars => ConfirmInv'
  <2>1. CASE UNCHANGED vars
    BY <2>1 DEF vars, ConfirmInv, VerifiedWasConfirmed, AccountsProven, AllJustified, Justified, Exists
  <2> QED BY <2>1, ConfirmStep
<1>3. ConfirmInv => VerifiedWasConfirmed
  BY DEF ConfirmInv
<1> QED BY <1>1, <1>2, <1>3, TypeInvariant, PTL DEF Spec

-----------------------------------------------------------------------------
(* A verified alert stays verified                                           *)

VerifiedRow(i) == Exists(i) /\ alert[i].verified
StillVerified(i) == Exists(i)' /\ alert'[i].verified

LEMMA StaysByUpdate ==
  ASSUME TablesOK, NEW i \in Rows, VerifiedRow(i), NEW j \in Rows, NEW row, Update(j, row),
         Exists(j) => row \in Alert /\ (alert[j].verified => row.verified)
  PROVE  StillVerified(i)
<1>1. row \in Row /\ row \in Alert => row.is = "alert"
  BY RowKinds
<1>2. CASE Exists(j)
  <2>1. alert'[j] = row /\ \A k \in Rows : k # j => alert'[k] = alert[k]
    BY <1>2 DEF Update, TablesOK
  <2>2. row.is = "alert"
    BY <1>1, <1>2 DEF Row
  <2> QED BY <1>2, <2>1, <2>2 DEF VerifiedRow, StillVerified, Exists
<1>3. CASE ~Exists(j)
  BY <1>3 DEF Update, VerifiedRow, StillVerified, Exists
<1> QED BY <1>2, <1>3

LEMMA StaysByInsert ==
  ASSUME TablesOK, NEW i \in Rows, VerifiedRow(i), NEW row, Insert(row)
  PROVE  StillVerified(i)
<1>1. UNCHANGED alert \/ (HasRoom /\ alert' = [alert EXCEPT ![NextRow] = row])
  BY DEF Insert
<1>2. CASE HasRoom /\ alert' = [alert EXCEPT ![NextRow] = row]
  <2>1. i # NextRow
    BY <1>2, FreeRowIsFree, RowKinds DEF VerifiedRow, Exists
  <2> QED BY <1>2, <2>1 DEF TablesOK, VerifiedRow, StillVerified, Exists
<1> QED BY <1>1, <1>2 DEF VerifiedRow, StillVerified, Exists

LEMMA StaysStep ==
  ASSUME TypeInv, NEW i \in Rows, VerifiedRow(i), Next
  PROVE  StillVerified(i) \/ Condemned(i)
<1>0. TablesOK /\ ReqOK
  BY DEF TypeInv
<1>k. UNCHANGED alert => StillVerified(i)
  BY DEF VerifiedRow, StillVerified, Exists
<1>d. ASSUME NEW S, DeleteRows(S), i \notin S
      PROVE  StillVerified(i)
  BY <1>d DEF DeleteRows, VerifiedRow, StillVerified, Exists
<1>1. ASSUME NEW r \in Requests, Renew(r) \/ Confirm(r) \/ SaveSettings(r)
      PROVE  StillVerified(i)
  <2>1. req[r].row \in Rows
    BY <1>0, <1>1 DEF ReqOK, Knows, Renew, Confirm, SaveSettings, At
  <2>2. CASE Renew(r)
    BY <1>0, <1>k, <2>1, <2>2, Edited, StaysByUpdate DEF Renew, Renewed
  <2>3. CASE Confirm(r)
    <3>1. Exists(req[r].row) => [alert[req[r].row] EXCEPT !.verified = TRUE].verified
      <4>1. Exists(req[r].row) => alert[req[r].row] \in Alert
        BY <1>0, <2>1, RowKinds DEF TablesOK, Exists
      <4> QED BY <4>1 DEF Alert
    <3> QED BY <1>0, <2>1, <2>3, <3>1, Edited, StaysByUpdate DEF Confirm
  <2>4. CASE SaveSettings(r)
    BY <1>0, <2>1, <2>4, Edited, StaysByUpdate DEF SaveSettings
  <2> QED BY <1>1, <2>2, <2>3, <2>4
<1>2. ASSUME NEW r \in Requests, InsertUnverified(r) \/ InsertOwned(r)
      PROVE  StillVerified(i)
  BY <1>0, <1>2, StaysByInsert DEF InsertUnverified, InsertOwned
<1>3. ASSUME NEW r \in Requests, DeleteById(r) \/ DeleteOwned(r)
      PROVE  StillVerified(i) \/ Condemned(i)
  BY <1>3, <1>k, <1>d DEF DeleteById, DeleteOwned, Condemned
<1>4. ASSUME NEW l \in links, FollowDeletion(l)
      PROVE  StillVerified(i) \/ Condemned(i)
  BY <1>4, <1>d DEF FollowDeletion, Condemned
<1>5. ASSUME NEW j \in Rows, GrowOld(j)
      PROVE  StillVerified(i)
  <2>1. Update(j, [alert[j] EXCEPT !.old = TRUE]) /\ Exists(j)
    BY <1>5 DEF GrowOld, Update
  <2> QED BY <1>0, <2>1, Edited, StaysByUpdate
<1>6. ASSUME Housekeep
      PROVE  StillVerified(i)
  BY <1>6, <1>d DEF Housekeep, Stale, VerifiedRow
<1>7. ASSUME NEW r \in Requests, MailRequest(r) \/ OAuthRequest(r)
      PROVE  UNCHANGED alert
  BY <1>7 DEF MailRequest, OAuthRequest, Register, AskForDeletion, FollowRegister, CreateAlert,
     DeleteAccount, DeleteAlert, ChangeSettings, ChangeNotify, AddWebhook, DeleteWebhook, tableVars
<1>8. ASSUME NEW r \in Requests, \/ Mail(r) \/ Seed(r) \/ ReadExtras(r) \/ ReplaceNotify(r)
                                 \/ InsertHook(r) \/ RemoveHook(r) \/ Fail(r)
      PROVE  UNCHANGED alert
  BY <1>8 DEF Mail, Seed, ReadExtras, ReplaceNotify, InsertHook, RemoveHook, Fail, tableVars
<1>9. CASE \/ \E l \in links : LinkExpires(l)
           \/ \E u \in Users : ChangeAccount(u)
  BY <1>9, <1>k DEF LinkExpires, ChangeAccount, tableVars
<1> QED BY <1>k, <1>1, <1>2, <1>3, <1>4, <1>5, <1>6, <1>7, <1>8, <1>9 DEF Next, Continue

\* No step takes the verified mark from an alert, or the alert away, unless somebody
\* asked for its deletion.
THEOREM VerifiedAlertsStay == Spec => VerifiedStays
<1>1. TypeInv /\ [Next]_vars =>
        [\A i \in Rows : Exists(i) /\ alert[i].verified =>
           (Exists(i)' /\ alert'[i].verified) \/ Condemned(i)]_vars
  BY StaysStep DEF VerifiedRow, StillVerified
<1> QED BY <1>1, TypeInvariant, PTL DEF Spec, VerifiedStays

-----------------------------------------------------------------------------
(* How far the webhooks of an alert exceed their maximum                     *)

\* Handlers that counted the webhooks of i and have not inserted theirs.
Adding(i) == {r \in Requests : At(r, "hook") /\ req[r].row = i}
HooksInv ==
  \A i \in Rows : /\ IsFiniteSet(hooks[i])
                  /\ Cardinality(hooks[i]) + Cardinality(Adding(i))
                       <= MaxWebhooks + Cardinality(Requests) - 1

LEMMA AddingFinite ==
  ASSUME NEW i
  PROVE  /\ Adding(i) \subseteq Requests /\ IsFiniteSet(Adding(i))
         /\ Cardinality(Adding(i)) \in Nat /\ Cardinality(Adding(i)) <= Cardinality(Requests)
         /\ IsFiniteSet(Adding(i)') /\ Cardinality(Adding(i)') \in Nat
         /\ Cardinality(Adding(i)') <= Cardinality(Requests)
         /\ Cardinality(Requests) \in Nat /\ Cardinality(Requests) >= 1
<1>1. Adding(i) \subseteq Requests /\ Adding(i)' \subseteq Requests
  BY DEF Adding
<1>2. IsFiniteSet(Requests) /\ Cardinality(Requests) \in Nat /\ Cardinality(Requests) # 0
  BY AlertsAssumption, FS_CardinalityType, FS_EmptySet
<1> QED BY <1>1, <1>2, FS_Subset, FS_CardinalityType

\* A step that adds no webhook and starts no such handler.
LEMMA HooksShrink ==
  ASSUME HooksInv, \A i \in Rows : hooks'[i] \subseteq hooks[i] /\ Adding(i)' \subseteq Adding(i)
  PROVE  HooksInv'
<1> SUFFICES ASSUME NEW i \in Rows
             PROVE  /\ IsFiniteSet(hooks'[i])
                    /\ Cardinality(hooks'[i]) + Cardinality(Adding(i)')
                         <= MaxWebhooks + Cardinality(Requests) - 1
  BY DEF HooksInv
<1>1. /\ IsFiniteSet(hooks'[i]) /\ Cardinality(hooks'[i]) <= Cardinality(hooks[i])
      /\ Cardinality(hooks'[i]) \in Nat /\ Cardinality(hooks[i]) \in Nat
  BY FS_Subset, FS_CardinalityType DEF HooksInv
<1>2. /\ Cardinality(Adding(i)') <= Cardinality(Adding(i))
      /\ Cardinality(Adding(i)') \in Nat /\ Cardinality(Adding(i)) \in Nat
  BY AddingFinite, FS_Subset
<1> QED BY <1>1, <1>2, AddingFinite, AlertsAssumption DEF HooksInv

LEMMA NotAdding ==
  ASSUME ReqOK, NEW r \in Requests, NEW x, Become(r, x), x.at # "hook", NEW i
  PROVE  Adding(i)' \subseteq Adding(i)
BY DEF ReqOK, Become, Adding, At

LEMMA HooksStep ==
  ASSUME TypeInv, HooksInv, Next
  PROVE  HooksInv'
<1>0. TablesOK /\ ReqOK
  BY DEF TypeInv
<1>1. ASSUME UNCHANGED hooks, NEW r \in Requests, NEW x, Become(r, x), x.at # "hook"
      PROVE  HooksInv'
  BY <1>0, <1>1, NotAdding, HooksShrink
<1>2. ASSUME NEW r \in Requests, NEW u \in Users, NEW i \in Rows, AddWebhook(r, u, i)
      PROVE  HooksInv'
  <2> DEFINE x == [at |-> "hook", row |-> i]
  <2>1. Become(r, x) /\ At(r, "idle") /\ UNCHANGED hooks /\ Cardinality(hooks[i]) < MaxWebhooks
    BY <1>2 DEF AddWebhook, Begin, HasRoomForHook, tableVars
  <2>2. IsFiniteSet(hooks[i]) /\ Cardinality(hooks[i]) \in Nat
    BY FS_CardinalityType DEF HooksInv
  <2>3. Cardinality(hooks'[i]) + Cardinality(Adding(i)') <= MaxWebhooks + Cardinality(Requests) - 1
    BY <2>1, <2>2, AddingFinite, AlertsAssumption
  <2>4. \A j \in Rows : j # i => Adding(j)' = Adding(j)
    BY <1>0, <2>1 DEF ReqOK, Become, Adding, At
  <2> QED BY <2>1, <2>3, <2>4 DEF HooksInv
<1>3. ASSUME NEW r \in Requests, InsertHook(r)
      PROVE  HooksInv'
  <2> DEFINE i == req[r].row
  <2>1. Done(r) /\ Idle.at # "hook" /\ i \in Rows /\ r \in Adding(i)
    BY <1>0, <1>3 DEF InsertHook, Idle, ReqOK, Knows, Adding, At
  <2>2. CASE ~Exists(i)
    BY <1>1, <1>3, <2>1, <2>2 DEF InsertHook, Done
  <2>3. CASE Exists(i)
    <3> SUFFICES ASSUME NEW j \in Rows
                 PROVE  /\ IsFiniteSet(hooks'[j])
                        /\ Cardinality(hooks'[j]) + Cardinality(Adding(j)')
                             <= MaxWebhooks + Cardinality(Requests) - 1
      BY DEF HooksInv
    <3>1. hooks' = [hooks EXCEPT ![i] = @ \cup {lastHook + 1}]
      BY <1>3, <2>3 DEF InsertHook
    <3>2. Adding(j)' \subseteq Adding(j) /\ Adding(j)' \subseteq Adding(j) \ {r}
      BY <1>0, <2>1, NotAdding DEF Done, ReqOK, Become, Adding, At
    <3>3. CASE j = i
      <4>1. hooks'[j] = hooks[j] \cup {lastHook + 1}
        BY <1>0, <2>1, <3>1, <3>3 DEF TablesOK
      <4>2. /\ IsFiniteSet(hooks'[j]) /\ Cardinality(hooks'[j]) <= Cardinality(hooks[j]) + 1
            /\ Cardinality(hooks'[j]) \in Nat /\ Cardinality(hooks[j]) \in Nat
        <5>1. IsFiniteSet(hooks[j])
          BY DEF HooksInv
        <5>2. /\ IsFiniteSet(hooks[j] \cup {lastHook + 1})
              /\ \/ Cardinality(hooks[j] \cup {lastHook + 1}) = Cardinality(hooks[j])
                 \/ Cardinality(hooks[j] \cup {lastHook + 1}) = Cardinality(hooks[j]) + 1
          BY <5>1, FS_AddElement
        <5>3. Cardinality(hooks[j]) \in Nat
          BY <5>1, FS_CardinalityType
        <5> QED BY <4>1, <5>2, <5>3
      <4>3. /\ IsFiniteSet(Adding(j) \ {r}) /\ Cardinality(Adding(j) \ {r}) = Cardinality(Adding(j)) - 1
            /\ Cardinality(Adding(j)') <= Cardinality(Adding(j) \ {r})
        BY <2>1, <3>2, <3>3, AddingFinite, FS_RemoveElement, FS_Subset
      <4> QED BY <4>2, <4>3, AddingFinite, AlertsAssumption DEF HooksInv
    <3>4. CASE j # i
      <4>1. hooks'[j] = hooks[j]
        BY <1>0, <3>1, <3>4 DEF TablesOK
      <4>2. Cardinality(Adding(j)') <= Cardinality(Adding(j)) /\ Cardinality(hooks[j]) \in Nat
        BY <3>2, AddingFinite, FS_Subset, FS_CardinalityType DEF HooksInv
      <4> QED BY <4>1, <4>2, AddingFinite, AlertsAssumption DEF HooksInv
    <3> QED BY <3>3, <3>4
  <2> QED BY <2>2, <2>3
<1>4. ASSUME UNCHANGED req, \A i \in Rows : hooks'[i] \subseteq hooks[i]
      PROVE  HooksInv'
  BY <1>4, HooksShrink DEF Adding, At
<1>5. ASSUME NEW S, DeleteRows(S)
      PROVE  \A i \in Rows : hooks'[i] \subseteq hooks[i]
  BY <1>5 DEF DeleteRows
<1>6. ASSUME NEW r \in Requests, DeleteById(r) \/ DeleteOwned(r) \/ RemoveHook(r)
      PROVE  HooksInv'
  <2>1. \A i \in Rows : hooks'[i] \subseteq hooks[i]
    BY <1>5, <1>6 DEF DeleteById, DeleteOwned, RemoveHook
  <2>2. \A i : Adding(i)' \subseteq Adding(i)
    BY <1>0, <1>6, NotAdding DEF DeleteById, DeleteOwned, RemoveHook, Done, Idle
  <2> QED BY <2>1, <2>2, HooksShrink
<1>7. ASSUME NEW r \in Requests, MailRequest(r)
      PROVE  HooksInv'
  <2>1. UNCHANGED hooks
    BY <1>7 DEF MailRequest, Register, AskForDeletion, FollowRegister, tableVars
  <2>2. \E x : Become(r, x) /\ x.at # "hook"
    <3>1. ASSUME NEW e \in Addresses, NEW s \in Servers, Register(r, e, s)
          PROVE  \E x : Become(r, x) /\ x.at # "hook"
      <4>1. \/ Become(r, [at |-> "insert", link |-> RegisterLink(e, s)])
            \/ \E i : Become(r, [at |-> "renew", row |-> i, link |-> RegisterLink(e, s)])
        BY <3>1 DEF Register, Begin
      <4>2. /\ [at |-> "insert", link |-> RegisterLink(e, s)].at # "hook"
            /\ \A i : [at |-> "renew", row |-> i, link |-> RegisterLink(e, s)].at # "hook"
        OBVIOUS
      <4> QED BY <4>1, <4>2
    <3>2. ASSUME NEW i \in Rows, AskForDeletion(r, i)
          PROVE  \E x : Become(r, x) /\ x.at # "hook"
      BY <3>2 DEF AskForDeletion, Begin
    <3>3. ASSUME NEW l \in links, FollowRegister(r, l)
          PROVE  \E x : Become(r, x) /\ x.at # "hook"
      BY <3>3 DEF FollowRegister, Begin
    <3> QED BY <1>7, <3>1, <3>2, <3>3 DEF MailRequest
  <2> QED BY <1>1, <2>1, <2>2
<1>8. ASSUME NEW r \in Requests, NEW u \in Users, NEW s,
             CreateAlert(r, u, s) \/ DeleteAccount(r, u)
      PROVE  HooksInv'
  BY <1>1, <1>8 DEF CreateAlert, DeleteAccount, Begin, tableVars
<1>9. ASSUME NEW r \in Requests, NEW u \in Users, NEW i \in Rows, NEW h, NEW S,
             \/ DeleteAlert(r, u, i) \/ ChangeSettings(r, u, i)
             \/ ChangeNotify(r, u, i, S) \/ DeleteWebhook(r, u, i, h)
      PROVE  HooksInv'
  <2>1. UNCHANGED hooks
    BY <1>9 DEF DeleteAlert, ChangeSettings, ChangeNotify, DeleteWebhook, tableVars
  <2>2. CASE DeleteAlert(r, u, i) \/ ChangeSettings(r, u, i) \/ DeleteWebhook(r, u, i, h)
    BY <1>1, <2>1, <2>2 DEF DeleteAlert, ChangeSettings, DeleteWebhook, Begin
  <2>3. CASE ChangeNotify(r, u, i, S)
    BY <1>1, <2>1, <2>3 DEF ChangeNotify, Begin
  <2> QED BY <1>9, <2>2, <2>3
<1>10. ASSUME NEW r \in Requests, OAuthRequest(r)
       PROVE  HooksInv'
  BY <1>2, <1>8, <1>9, <1>10 DEF OAuthRequest
<1>11. ASSUME NEW r \in Requests,
              \/ Renew(r) \/ InsertUnverified(r) \/ Mail(r) \/ Confirm(r) \/ InsertOwned(r)
              \/ Seed(r) \/ SaveSettings(r) \/ ReadExtras(r) \/ ReplaceNotify(r) \/ Fail(r)
       PROVE  HooksInv'
  <2>1. UNCHANGED hooks /\ Idle.at # "hook"
    BY <1>11 DEF Renew, InsertUnverified, Mail, Confirm, InsertOwned, Seed, SaveSettings,
       ReadExtras, ReplaceNotify, Fail, tableVars, Idle
  <2>2. CASE Done(r)
    BY <1>1, <2>1, <2>2 DEF Done
  <2>3. CASE Renew(r) \/ InsertUnverified(r)
    BY <1>1, <2>1, <2>2, <2>3 DEF Renew, InsertUnverified
  <2>4. CASE InsertOwned(r)
    BY <1>1, <2>1, <2>2, <2>4 DEF InsertOwned
  <2>5. CASE ReadExtras(r)
    BY <1>1, <2>1, <2>2, <2>5 DEF ReadExtras
  <2> QED BY <1>11, <2>2, <2>3, <2>4, <2>5 DEF Mail, Confirm, Seed, SaveSettings, ReplaceNotify, Fail
<1>12. CASE \/ \E l \in links : FollowDeletion(l) \/ LinkExpires(l)
            \/ \E i \in Rows : GrowOld(i)
            \/ Housekeep
            \/ \E u \in Users : ChangeAccount(u)
  BY <1>4, <1>5, <1>12 DEF FollowDeletion, LinkExpires, GrowOld, Housekeep, ChangeAccount, tableVars
<1> QED BY <1>3, <1>6, <1>7, <1>10, <1>11, <1>12 DEF Next, Continue

\* The webhooks of an alert exceed their maximum by fewer than the handlers that may
\* count them at the same time.
THEOREM HooksStayBounded == Spec => []HooksBounded
<1>1. Init => HooksInv
  <2> SUFFICES ASSUME Init, NEW i \in Rows
               PROVE  /\ IsFiniteSet(hooks[i])
                      /\ Cardinality(hooks[i]) + Cardinality(Adding(i))
                           <= MaxWebhooks + Cardinality(Requests) - 1
    BY DEF HooksInv
  <2>1. hooks[i] = {} /\ Adding(i) = {}
    BY DEF Init, Adding, At, Idle
  <2> QED BY <2>1, FS_EmptySet, AddingFinite, AlertsAssumption
<1>2. TypeInv /\ HooksInv /\ [Next]_vars => HooksInv'
  <2>1. CASE UNCHANGED vars
    BY <2>1 DEF vars, HooksInv, Adding, At
  <2> QED BY <2>1, HooksStep
<1>3. HooksInv => HooksBounded
  <2> SUFFICES ASSUME HooksInv, NEW i \in Rows
               PROVE  Cardinality(hooks[i]) < MaxWebhooks + Cardinality(Requests)
    BY DEF HooksBounded
  <2>1. Cardinality(hooks[i]) \in Nat
    BY FS_CardinalityType DEF HooksInv
  <2> QED BY <2>1, AddingFinite, AlertsAssumption DEF HooksInv
<1> QED BY <1>1, <1>2, <1>3, TypeInvariant, PTL DEF Spec

=============================================================================
