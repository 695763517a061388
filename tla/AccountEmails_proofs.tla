------------------------ MODULE AccountEmails_proofs ------------------------
(***************************************************************************)
(* Proofs about the accounts of module AccountEmails.                      *)
(***************************************************************************)
EXTENDS AccountEmails, FiniteSetTheorems, TLAPS

UserSteps == {"register", "confirm", "magic", "reset", "setPassword", "add", "remove",
              "sweepExtras", "sweepSessions", "sweepUser"} \cup PromotionSteps
RowSteps == {"verify", "discard", "resend", "remove"} \cup PromotionSteps

-----------------------------------------------------------------------------
(* Types *)

\* The rows that are there, as the tables' columns.
HereRow  == User \ Absent
ThereRow == Extra \ Absent

LEMMA UserColumns ==
  ASSUME NEW row \in User, row.row = "here"
  PROVE /\ row \in HereRow
        /\ row.email \in Addresses /\ row.verified \in BOOLEAN /\ row.password \in BOOLEAN
        /\ row.pending \in Tokens /\ row.stale \in BOOLEAN /\ row.reset \in Tokens
  BY DEF HereRow, User, Absent

LEMMA ExtraColumns ==
  ASSUME NEW row \in Extra, row.row = "here"
  PROVE /\ row \in ThereRow
        /\ row.owner \in Users /\ row.email \in Addresses /\ row.verified \in BOOLEAN
        /\ row.pending \in Tokens /\ row.stale \in BOOLEAN
  BY DEF ThereRow, Extra, Absent

LEMMA UserUpdates ==
  ASSUME NEW row \in User, row.row = "here"
  PROVE /\ [row EXCEPT !.password = TRUE] \in User /\ [row EXCEPT !.stale = TRUE] \in User
        /\ [row EXCEPT !.verified = TRUE] \in User
        /\ \A a \in Addresses : [row EXCEPT !.email = a, !.verified = TRUE] \in User
        /\ \A n \in Tokens :
             /\ [row EXCEPT !.reset = n] \in User
             /\ [row EXCEPT !.password = TRUE, !.pending = n, !.stale = FALSE] \in User
             /\ [row EXCEPT !.verified = TRUE, !.pending = n, !.stale = FALSE] \in User
             /\ [row EXCEPT !.password = TRUE, !.reset = n] \in User
  BY DEF User, Absent

LEMMA ExtraUpdates ==
  ASSUME NEW row \in Extra, row.row = "here"
  PROVE /\ [row EXCEPT !.stale = TRUE] \in Extra
        /\ \A n \in Tokens :
             /\ [row EXCEPT !.verified = TRUE, !.pending = n, !.stale = FALSE] \in Extra
             /\ [row EXCEPT !.pending = n, !.stale = FALSE] \in Extra
  BY DEF Extra, Absent

LEMMA HandlerFields ==
  ASSUME NEW h \in Handler
  PROVE /\ h.at \in UserSteps => h.user \in Users
        /\ h.at \in RowSteps => h.extra \in Rows
        /\ h.at = "register" => h.read \in HereRow
        /\ h.at \in {"reset", "add"} => h.email \in Addresses
        /\ h.at = "setPassword" => h.token \in Tokens
        /\ h.at = "remove" => h.beside \in BOOLEAN
        /\ h.at \in PromotionSteps => h.old \in Addresses /\ h.new \in Addresses /\ h.kept \in 0 .. MaxRows
  BY DEF Handler, UserSteps, RowSteps, PromotionSteps, HereRow

LEMMA HandlerKinds ==
  /\ Idle \in Handler
  /\ \A u \in Users :
       /\ \A row \in HereRow : [at |-> "register", user |-> u, read |-> row] \in Handler
       /\ \A s \in {"confirm", "magic", "sweepExtras", "sweepSessions", "sweepUser"} :
            [at |-> s, user |-> u] \in Handler
       /\ \A s \in {"reset", "add"}, a \in Addresses :
            [at |-> s, user |-> u, email |-> a] \in Handler
       /\ \A n \in Tokens : [at |-> "setPassword", user |-> u, token |-> n] \in Handler
       /\ \A x \in Rows, y \in BOOLEAN :
            [at |-> "remove", user |-> u, extra |-> x, beside |-> y] \in Handler
       /\ \A x \in Rows, a, b \in Addresses :
            [at |-> "demote", user |-> u, extra |-> x, old |-> a, new |-> b, kept |-> 0] \in Handler
  /\ \A x \in Rows : \A s \in {"verify", "discard", "resend"} : [at |-> s, extra |-> x] \in Handler
<1>1. 0 \in 0 .. MaxRows
  BY AccountsAssumption
<1> QED BY <1>1 DEF Handler, HereRow, Idle, PromotionSteps

LEMMA HandlerUpdates ==
  ASSUME NEW h \in Handler
  PROVE /\ h.at = "remove" => [h EXCEPT !.beside = TRUE] \in Handler
        /\ h.at = "demote" => \A k \in 0 .. MaxRows : [h EXCEPT !.at = "promote", !.kept = k] \in Handler
        /\ h.at = "promote" => [h EXCEPT !.at = "drop"] \in Handler
        /\ h.at = "sweepExtras" => [h EXCEPT !.at = "sweepSessions"] \in Handler
        /\ h.at = "sweepSessions" => [h EXCEPT !.at = "sweepUser"] \in Handler
  BY DEF Handler, PromotionSteps

-----------------------------------------------------------------------------
(* What a step does to a row of either table *)

Born(u)     == users[u].row # "never"
Inserted(x) == extras[x].row # "never"

Fresh(n) == n = lastToken + 1 /\ lastToken' = n

InsertsUser(u) ==
  /\ ~Born(u) /\ Here(u)' /\ ~IsPrimary(users'[u].email)
  /\ users'[u].reset = 0 /\ (users'[u].pending = 0 \/ Fresh(users'[u].pending))
  /\ users'[u].verified => users'[u].email \in followed'

UpdatesUser(u) ==
  /\ Here(u) /\ Here(u)' /\ users'[u].email = users[u].email
  /\ users[u].verified => users'[u].verified
  /\ users'[u].verified =>
       users[u].verified \/ \E r \in Requests : req[r].at \in {"confirm", "magic"} /\ req[r].user = u
  /\ users'[u].pending \in {users[u].pending, 0} \/ Fresh(users'[u].pending)
  /\ users'[u].reset \in {users[u].reset, 0} \/ Fresh(users'[u].reset)

PromotesUser(u) ==
  /\ Here(u)
  /\ \E r \in Requests :
       /\ At(r, "promote") /\ req[r].user = u /\ req'[r].at = "drop"
       /\ users'[u] = [users[u] EXCEPT !.email = req[r].new, !.verified = TRUE]
       /\ \A v \in Users \ {u} : ~(Here(v) /\ users[v].email = req[r].new)

DeletesUser(u) == Born(u) /\ users'[u] = Deleted

UserMove(u) ==
  users'[u] = users[u] \/ InsertsUser(u) \/ UpdatesUser(u) \/ PromotesUser(u) \/ DeletesUser(u)

InsertsRow(x) ==
  /\ ~Inserted(x) /\ There(x)' /\ ~IsAdditional(extras'[x].email)
  /\ extras'[x].pending = 0 \/ Fresh(extras'[x].pending)
  /\ extras'[x].verified =>
       \E r \in Requests : /\ At(r, "demote") /\ Here(req[r].user) /\ users[req[r].user].verified
                           /\ extras'[x].email = req[r].old

UpdatesRow(x) ==
  /\ There(x) /\ There(x)'
  /\ extras'[x].email = extras[x].email /\ extras'[x].owner = extras[x].owner
  /\ extras[x].verified => extras'[x].verified
  /\ extras'[x].verified => extras[x].verified \/ \E r \in Requests : At(r, "verify") /\ req[r].extra = x
  /\ extras'[x].pending \in {extras[x].pending, 0} \/ Fresh(extras'[x].pending)

\* The handlers that delete a row; a removal that runs beside one of them learns of it.
DeletesRow(x) ==
  /\ Inserted(x) /\ extras'[x] = Deleted
  /\ There(x) => \E r \in Requests :
       \/ /\ At(r, "discard") /\ req[r].extra = x
          /\ \A s \in Requests : Removing(s, extras[x].owner) => req'[s].beside
       \/ req[r].at \in {"remove", "drop"} /\ req[r].extra = x /\ req'[r].at = "idle"
       \/ /\ At(r, "sweepExtras") /\ Owns(req[r].user, x)
          /\ \A y \in Rows : Owns(req[r].user, y) => extras'[y] = Deleted

RowMove(x) == extras'[x] = extras[x] \/ InsertsRow(x) \/ UpdatesRow(x) \/ DeletesRow(x)

UsersMove ==
  /\ users' \in [Users -> User]
  /\ \A u \in Users : UserMove(u)
  /\ \A u, v \in Users : users'[u] # users[u] /\ users'[v] # users[v] => u = v

RowsMove ==
  /\ extras' \in [Rows -> Extra]
  /\ \A x \in Rows : RowMove(x)
  /\ \A x, y \in Rows : InsertsRow(x) /\ InsertsRow(y) => x = y

LEMMA NoUserMoves ==
  ASSUME TypeOK, users' = users
  PROVE UsersMove
  BY DEF TypeOK, UsersMove, UserMove

LEMMA NoRowMoves ==
  ASSUME TypeOK, extras' = extras
  PROVE RowsMove
  BY DEF TypeOK, RowsMove, RowMove, InsertsRow, Inserted, There

LEMMA OneUserMoves ==
  ASSUME TypeOK, NEW u \in Users, NEW row \in User, users' = [users EXCEPT ![u] = row], UserMove(u)
  PROVE UsersMove
  BY DEF TypeOK, UsersMove, UserMove

LEMMA OneRowMoves ==
  ASSUME TypeOK, NEW x \in Rows, NEW row \in Extra, extras' = [extras EXCEPT ![x] = row], RowMove(x)
  PROVE RowsMove
<1>1. extras' \in [Rows -> Extra] /\ \A y \in Rows \ {x} : extras'[y] = extras[y]
  BY DEF TypeOK
<1>2. \A y \in Rows : InsertsRow(y) => y = x
  BY <1>1 DEF InsertsRow, Inserted, There
<1> QED BY <1>1, <1>2 DEF RowsMove, RowMove

LEMMA SetUserMoves ==
  ASSUME TypeOK, NEW u \in Users, NEW row, SetUser(u, row),
         Here(u) => /\ row \in User /\ row.row = "here" /\ row.email = users[u].email
                    /\ users[u].verified => row.verified
                    /\ row.verified => users[u].verified
                         \/ \E r \in Requests : req[r].at \in {"confirm", "magic"} /\ req[r].user = u
                    /\ row.pending \in {users[u].pending, 0} \/ Fresh(row.pending)
                    /\ row.reset \in {users[u].reset, 0} \/ Fresh(row.reset)
  PROVE UsersMove
<1>1. CASE ~Here(u)
  BY <1>1, NoUserMoves DEF SetUser
<1>2. CASE Here(u)
  <2>1. users' = [users EXCEPT ![u] = row] /\ users'[u] = row
    BY <1>2 DEF SetUser, TypeOK
  <2>2. UpdatesUser(u)
    BY <1>2, <2>1 DEF UpdatesUser, Here
  <2> QED BY <1>2, <2>1, <2>2, OneUserMoves DEF UserMove
<1> QED BY <1>1, <1>2

LEMMA InsertUserMoves ==
  ASSUME TypeOK, NEW u \in Users, NEW row \in User, FreeUser(u), users' = [users EXCEPT ![u] = row],
         row.row = "here", ~IsPrimary(row.email), row.reset = 0,
         row.pending = 0 \/ Fresh(row.pending), row.verified => row.email \in followed'
  PROVE UsersMove
<1>1. users'[u] = row
  BY DEF TypeOK
<1>2. InsertsUser(u)
  BY <1>1 DEF InsertsUser, FreeUser, Born, Here
<1> QED BY <1>2, OneUserMoves DEF UserMove

LEMMA SetExtraMoves ==
  ASSUME TypeOK, NEW x \in Rows, NEW row, SetExtra(x, row),
         There(x) => /\ row \in Extra /\ row.row = "here"
                     /\ row.email = extras[x].email /\ row.owner = extras[x].owner
                     /\ extras[x].verified => row.verified
                     /\ row.verified => extras[x].verified
                          \/ \E r \in Requests : At(r, "verify") /\ req[r].extra = x
                     /\ row.pending \in {extras[x].pending, 0} \/ Fresh(row.pending)
  PROVE RowsMove
<1>1. CASE ~There(x)
  BY <1>1, NoRowMoves DEF SetExtra
<1>2. CASE There(x)
  <2>1. extras' = [extras EXCEPT ![x] = row] /\ extras'[x] = row
    BY <1>2 DEF SetExtra, TypeOK
  <2>2. UpdatesRow(x)
    BY <1>2, <2>1 DEF UpdatesRow, There
  <2> QED BY <1>2, <2>1, <2>2, OneRowMoves DEF RowMove
<1> QED BY <1>1, <1>2

LEMMA DeleteExtraMoves ==
  ASSUME TypeOK, NEW x \in Rows, Inserted(x), DeleteExtra(x),
         There(x) => \E r \in Requests :
           \/ /\ At(r, "discard") /\ req[r].extra = x
              /\ \A s \in Requests : Removing(s, extras[x].owner) => req'[s].beside
           \/ req[r].at \in {"remove", "drop"} /\ req[r].extra = x /\ req'[r].at = "idle"
  PROVE RowsMove
<1>1. Deleted \in Extra
  BY DEF Deleted, Extra, Absent
<1>2. extras' = [extras EXCEPT ![x] = Deleted] /\ extras'[x] = Deleted
  BY DEF DeleteExtra, TypeOK
<1>3. DeletesRow(x)
  BY <1>2 DEF DeletesRow
<1> QED BY <1>1, <1>2, <1>3, OneRowMoves DEF RowMove

LEMMA InsertExtraMoves ==
  ASSUME TypeOK, NEW x \in Rows, NEW row \in Extra, FreeRow(x), extras' = [extras EXCEPT ![x] = row],
         row.row = "here", ~IsAdditional(row.email), row.pending = 0 \/ Fresh(row.pending),
         row.verified => \E r \in Requests :
           At(r, "demote") /\ Here(req[r].user) /\ users[req[r].user].verified /\ row.email = req[r].old
  PROVE RowsMove
<1>1. extras'[x] = row
  BY DEF TypeOK
<1>2. InsertsRow(x)
  BY <1>1 DEF InsertsRow, FreeRow, Inserted, There
<1> QED BY <1>2, OneRowMoves DEF RowMove

-----------------------------------------------------------------------------
(* What a step does to the mail and the tokens *)

\* A link that was just sent: where its token is and whose address it carries.
NewLink(l) ==
  \/ l.kind = "magic" /\ l.token = 0
  \/ l.kind = "reset" /\ Fresh(l.token)
  \/ /\ l.kind = "register" /\ Fresh(l.token)
     /\ \E u \in Users :
          /\ \A v \in Users \ {u} : users'[v] = users[v]
          /\ \/ ~Born(u) /\ users'[u].email = l.to
             \/ /\ Here(u) /\ users'[u].email = users[u].email
                /\ \E r \in Requests : At(r, "register") /\ req[r].user = u /\ l.to = req[r].read.email
  \/ /\ l.kind = "register" /\ users' = users /\ lastToken' = lastToken
     /\ \E r \in Requests : /\ At(r, "register") /\ l.to = req[r].read.email
                            /\ l.token = req[r].read.pending /\ l.token # 0
  \/ /\ l.kind = "extra" /\ Fresh(l.token)
     /\ \E x \in Rows : /\ \A y \in Rows \ {x} : extras'[y] = extras[y]
                        /\ There(x)' /\ extras'[x].email = l.to

MailMove ==
  /\ mail' \subseteq Links /\ lastToken' \in Tokens
  /\ lastToken' = lastToken \/ lastToken' = lastToken + 1
  /\ \A l \in mail' : l \in mail \/ NewLink(l)

LEMMA NoMail ==
  ASSUME TypeOK, mail' \subseteq mail, lastToken' = lastToken \/ NewToken
  PROVE MailMove
  BY AccountsAssumption DEF TypeOK, MailMove, NewToken, Tokens

LEMMA OneMail ==
  ASSUME TypeOK, NEW l \in Links, mail' = mail \cup {l}, NewLink(l), lastToken' = lastToken \/ NewToken
  PROVE MailMove
  BY AccountsAssumption DEF TypeOK, MailMove, NewToken, Tokens

-----------------------------------------------------------------------------
(* What a step does to the handlers *)

Stays(r) ==
  \/ req'[r] = req[r]
  \/ At(r, "remove") /\ req'[r] = [req[r] EXCEPT !.beside = TRUE]

Ends(r) ==
  /\ req'[r].at = "idle"
  /\ req[r].at \in PromotionSteps \cup {"remove"} =>
       /\ users' = users
       /\ extras' = extras \/ (req[r].at \in {"drop", "remove"} /\ DeleteExtra(req[r].extra))

\* A handler that starts reads the tables and writes nothing.
Reads == users' = users /\ extras' = extras /\ mail' = mail /\ lastToken' = lastToken

Starts(r, h) ==
  /\ At(r, "idle") /\ Reads
  /\ \A s \in Requests \ {r} : Stays(s)
  /\ \/ h.at \in {"reset", "add", "sweepExtras"} /\ Here(h.user)
     \/ h.at = "register" /\ Here(h.user) /\ h.read = users[h.user]
     \/ /\ h.at = "confirm" /\ Here(h.user)
        /\ \E l \in mail : /\ l.kind = "register" /\ users[h.user].pending = l.token
                           /\ l.to \in followed'
     \/ h.at = "setPassword" /\ Here(h.user)
     \/ /\ h.at \in {"verify", "discard"} /\ There(h.extra)
        /\ \E l \in mail : /\ l.kind = "extra" /\ extras[h.extra].pending = l.token
                           /\ l.to \in followed'
     \/ h.at = "resend" /\ There(h.extra)
     \/ /\ h.at = "remove" /\ Here(h.user) /\ Owns(h.user, h.extra)
        /\ users[h.user].verified \/ VerifiedBeside(h.user, h.extra)
        /\ h.beside <=> \E s \in Requests : Removing(s, h.user)
        /\ \A s \in Requests \ {r} : Removing(s, h.user) => req'[s].beside
     \/ /\ h.at = "demote" /\ Here(h.user) /\ Owns(h.user, h.extra) /\ extras[h.extra].verified
        /\ h.old = users[h.user].email /\ h.new = extras[h.extra].email
        /\ h.user \in sessions
        /\ \A s \in Requests \ {r} : req'[s] = req[s]

Opens(r, h) ==
  /\ At(r, "idle") /\ extras' = extras /\ mail' = mail /\ lastToken' = lastToken
  /\ h.at = "magic" /\ users'[h.user].row = "here" /\ users'[h.user].email \in followed'
  /\ \A s \in Requests \ {r} : req'[s] = req[s]

Continues(r, h) ==
  /\ \A s \in Requests \ {r} : req'[s] = req[s]
  /\ \/ /\ At(r, "demote") /\ h.at = "promote" /\ users' = users /\ Here(req[r].user)
        /\ h.user = req[r].user /\ h.extra = req[r].extra /\ h.old = req[r].old /\ h.new = req[r].new
        /\ h.kept \in Rows /\ extras'[h.kept].row = "here"
        /\ extras'[h.kept].owner = h.user /\ extras'[h.kept].email = h.old
        /\ \A x \in Rows : There(x) => extras'[x] = extras[x]
     \/ /\ At(r, "promote") /\ h.at = "drop" /\ extras' = extras
        /\ h.user = req[r].user /\ h.extra = req[r].extra /\ h.old = req[r].old /\ h.new = req[r].new
        /\ Here(h.user) /\ users'[h.user] = [users[h.user] EXCEPT !.email = h.new, !.verified = TRUE]
        /\ \A v \in Users \ {h.user} : users'[v] = users[v]
     \/ /\ At(r, "add") /\ h.at = "discard" /\ users' = users /\ extras'[h.extra].row = "here"
     \/ /\ h.at \in {"sweepSessions", "sweepUser"} /\ users' = users
        /\ req[r].at \in {"sweepExtras", "sweepSessions"} /\ h.user = req[r].user

HandlerMove(r) ==
  Stays(r) \/ Ends(r) \/ Starts(r, req'[r]) \/ Opens(r, req'[r]) \/ Continues(r, req'[r])

HandlersMove ==
  /\ req' \in [Requests -> Handler]
  /\ \A r \in Requests : HandlerMove(r)

LEMMA NoHandlerMoves ==
  ASSUME TypeOK, req' = req
  PROVE HandlersMove
  BY DEF TypeOK, HandlersMove, HandlerMove, Stays

LEMMA OneHandlerMoves ==
  ASSUME TypeOK, NEW r \in Requests, NEW h \in Handler, Become(r, h), HandlerMove(r)
  PROVE HandlersMove
  BY DEF TypeOK, HandlersMove, HandlerMove, Stays, Become

LEMMA HandlerEnds ==
  ASSUME TypeOK, NEW r \in Requests, Become(r, Idle),
         req[r].at \in PromotionSteps \cup {"remove"} =>
           /\ users' = users
           /\ extras' = extras \/ (req[r].at \in {"drop", "remove"} /\ DeleteExtra(req[r].extra))
  PROVE HandlersMove
<1>1. Idle \in Handler /\ Idle.at = "idle"
  BY HandlerKinds DEF Idle
<1>2. req'[r] = Idle
  BY DEF TypeOK, Become
<1>3. HandlerMove(r)
  BY <1>1, <1>2 DEF HandlerMove, Ends
<1> QED BY <1>1, <1>3, OneHandlerMoves

-----------------------------------------------------------------------------
(* What a step does to the history and the budgets *)

ResetsMove ==
  \/ /\ resets' = resets /\ overlaps' = overlaps
     /\ \A r \in Requests : req'[r].at = "setPassword" => req'[r] = req[r]
  \/ \E r \in Requests :
       /\ resets' = resets /\ Reads /\ req'[r].at = "setPassword" /\ Here(req'[r].user)
       /\ At(r, "idle") /\ \A s \in Requests \ {r} : req'[s] = req[s]
       /\ users[req'[r].user].reset = req'[r].token
       /\ \E l \in mail : l.kind = "reset" /\ l.token = req'[r].token
       /\ overlaps' = IF \E s \in Requests : At(s, "setPassword") /\ req[s].token = req'[r].token
                      THEN [overlaps EXCEPT ![req'[r].token] = @ + 1] ELSE overlaps
  \/ \E r \in Requests :
       /\ At(r, "setPassword") /\ overlaps' = overlaps /\ lastToken' = lastToken
       /\ resets' = [resets EXCEPT ![req[r].token] = @ + 1]
       /\ req'[r].at = "idle" /\ \A s \in Requests \ {r} : req'[s] = req[s]
       /\ users' = IF Here(req[r].user) THEN [users EXCEPT ![req[r].user].password = TRUE,
                                                            ![req[r].user].reset = 0] ELSE users

HistoryMove ==
  /\ sessions' \subseteq Users
  /\ followed \subseteq followed' /\ followed' \subseteq Addresses
  /\ resets' \in [Tokens -> Nat] /\ overlaps' \in [Tokens -> Nat]
  /\ starts' \in 0 .. MaxStarts /\ faults' \in 0 .. MaxFaults
  /\ ResetsMove

LEMMA NoHistory ==
  ASSUME TypeOK, sessions' \subseteq Users, followed \subseteq followed', followed' \subseteq Addresses,
         resets' = resets, overlaps' = overlaps, starts' = starts \/ SpendStart,
         faults' = faults \/ SpendFault,
         \A r \in Requests : req'[r].at = "setPassword" => req'[r] = req[r]
  PROVE HistoryMove
<1>1. ResetsMove
  BY DEF ResetsMove
<1> QED BY <1>1, AccountsAssumption DEF TypeOK, HistoryMove, SpendStart, SpendFault

\* No other variable matters.
Moves == UsersMove /\ RowsMove /\ MailMove /\ HandlersMove /\ HistoryMove

\* The rows that the handlers work on have been there.
HandlersKnow ==
  \A r \in Requests :
    /\ req[r].at \in UserSteps => Born(req[r].user)
    /\ req[r].at \in RowSteps => Inserted(req[r].extra)

Basic == TypeOK /\ HandlersKnow

-----------------------------------------------------------------------------
(* Every step is such a move: the handlers that start *)

LEMMA ReadsMove ==
  ASSUME TypeOK, Reads
  PROVE UsersMove /\ RowsMove /\ MailMove
  BY NoUserMoves, NoRowMoves, NoMail DEF Reads

LEMMA HandlerStarts ==
  ASSUME TypeOK, NEW r \in Requests, NEW h \in Handler, Become(r, h), Starts(r, h)
  PROVE HandlersMove /\ req'[r] = h
<1>1. req'[r] = h
  BY DEF TypeOK, Become
<1> QED BY <1>1, OneHandlerMoves DEF HandlerMove

LEMMA Others ==
  ASSUME TypeOK, NEW r \in Requests, NEW h, Become(r, h)
  PROVE /\ req'[r] = h /\ \A s \in Requests \ {r} : req'[s] = req[s] /\ Stays(s)
        /\ h.at # "setPassword" => \A s \in Requests : req'[s].at = "setPassword" => req'[s] = req[s]
  BY DEF TypeOK, Become, Stays

LEMMA RegisterAgainMoves ==
  ASSUME Basic, NEW r \in Requests, NEW u \in Users, RegisterAgain(r, u)
  PROVE Moves
<1> DEFINE h == [at |-> "register", user |-> u, read |-> users[u]]
<1>1. h \in Handler
  BY HandlerKinds, UserColumns DEF Basic, TypeOK, RegisterAgain, Here
<1>2. Reads /\ Become(r, h) /\ At(r, "idle") /\ Here(u)
  BY DEF RegisterAgain, Reads, tableVars
<1>3. Starts(r, h)
  BY <1>2, Others DEF Basic, Starts
<1>4. HistoryMove
  BY <1>2, Others, NoHistory DEF Basic, TypeOK, RegisterAgain, historyVars
<1> QED BY <1>1, <1>2, <1>3, <1>4, ReadsMove, HandlerStarts DEF Basic, Moves

LEMMA AskForResetMoves ==
  ASSUME Basic, NEW r \in Requests, NEW u \in Users, AskForReset(r, u)
  PROVE Moves
<1> DEFINE h == [at |-> "reset", user |-> u, email |-> users[u].email]
<1>1. h \in Handler
  BY HandlerKinds, UserColumns DEF Basic, TypeOK, AskForReset, Here
<1>2. Reads /\ Become(r, h) /\ At(r, "idle") /\ Here(u)
  BY DEF AskForReset, Reads, tableVars
<1>3. Starts(r, h)
  BY <1>2, Others DEF Basic, Starts
<1>4. HistoryMove
  BY <1>2, Others, NoHistory DEF Basic, TypeOK, AskForReset, historyVars
<1> QED BY <1>1, <1>2, <1>3, <1>4, ReadsMove, HandlerStarts DEF Basic, Moves

LEMMA AddEmailMoves ==
  ASSUME Basic, NEW r \in Requests, NEW u \in Users, NEW a \in Addresses, AddEmail(r, u, a)
  PROVE Moves
<1> DEFINE h == [at |-> "add", user |-> u, email |-> a]
<1>1. h \in Handler
  BY HandlerKinds
<1>2. Reads /\ Become(r, h) /\ At(r, "idle") /\ Here(u)
  BY DEF AddEmail, SignedIn, Reads, tableVars
<1>3. Starts(r, h)
  BY <1>2, Others DEF Basic, Starts
<1>4. HistoryMove
  BY <1>2, Others, NoHistory DEF Basic, TypeOK, AddEmail, historyVars
<1> QED BY <1>1, <1>2, <1>3, <1>4, ReadsMove, HandlerStarts DEF Basic, Moves

LEMMA FollowRegistrationMoves ==
  ASSUME Basic, NEW r \in Requests, NEW l \in mail, FollowRegistration(r, l)
  PROVE Moves
<1>1. PICK u \in Users : /\ Here(u) /\ users[u].pending = l.token
                         /\ Become(r, [at |-> "confirm", user |-> u])
  BY DEF FollowRegistration
<1> DEFINE h == [at |-> "confirm", user |-> u]
<1>2. h \in Handler
  BY HandlerKinds
<1>3. Reads /\ At(r, "idle") /\ l.kind = "register" /\ followed' = followed \cup {l.to} /\ l.to \in Addresses
  BY DEF FollowRegistration, Reads, tableVars, Basic, TypeOK, Links
<1>4. Starts(r, h)
  BY <1>1, <1>3, Others DEF Basic, Starts
<1>5. HistoryMove
  BY <1>1, <1>3, Others, NoHistory DEF Basic, TypeOK, FollowRegistration
<1> QED BY <1>1, <1>2, <1>3, <1>4, <1>5, ReadsMove, HandlerStarts DEF Basic, Moves

LEMMA FollowVerificationMoves ==
  ASSUME Basic, NEW r \in Requests, NEW l \in mail, FollowVerification(r, l)
  PROVE Moves
<1>1. PICK x \in Rows : /\ There(x) /\ extras[x].pending = l.token
                        /\ Become(r, [at |-> IF extras[x].stale THEN "discard" ELSE "verify", extra |-> x])
  BY DEF FollowVerification
<1> DEFINE h == [at |-> IF extras[x].stale THEN "discard" ELSE "verify", extra |-> x]
<1>2. h \in Handler
  BY HandlerKinds
<1>3. Reads /\ At(r, "idle") /\ l.kind = "extra" /\ followed' = followed \cup {l.to} /\ l.to \in Addresses
  BY DEF FollowVerification, Reads, tableVars, Basic, TypeOK, Links
<1>4. Starts(r, h)
  BY <1>1, <1>3, Others DEF Basic, Starts
<1>5. HistoryMove
  BY <1>1, <1>3, Others, NoHistory DEF Basic, TypeOK, FollowVerification
<1> QED BY <1>1, <1>2, <1>3, <1>4, <1>5, ReadsMove, HandlerStarts DEF Basic, Moves

LEMMA FollowResetMoves ==
  ASSUME Basic, NEW r \in Requests, NEW l \in mail, FollowReset(r, l)
  PROVE Moves
<1>1. PICK u \in Users : /\ Here(u) /\ users[u].reset = l.token
                         /\ Become(r, [at |-> "setPassword", user |-> u, token |-> l.token])
  BY DEF FollowReset
<1> DEFINE h == [at |-> "setPassword", user |-> u, token |-> l.token]
<1>2. h \in Handler
  BY HandlerKinds DEF Basic, TypeOK, Links
<1>3. Reads /\ At(r, "idle") /\ l.kind = "reset" /\ l.token \in Tokens
  BY DEF FollowReset, Reads, tableVars, Basic, TypeOK, Links
<1>4. Starts(r, h)
  BY <1>1, <1>3, Others DEF Basic, Starts
<1>5. req'[r] = h /\ \A s \in Requests \ {r} : req'[s] = req[s]
  BY <1>1, Others DEF Basic
<1>6. ResetsMove
  BY <1>1, <1>3, <1>5 DEF ResetsMove, FollowReset
<1>7. overlaps' \in [Tokens -> Nat]
  BY <1>3 DEF FollowReset, Basic, TypeOK
<1>8. HistoryMove
  BY <1>6, <1>7, AccountsAssumption DEF HistoryMove, Basic, TypeOK, FollowReset, SpendStart
<1> QED BY <1>1, <1>2, <1>3, <1>4, <1>8, ReadsMove, HandlerStarts DEF Basic, Moves

LEMMA AskForResendMoves ==
  ASSUME Basic, NEW r \in Requests, NEW u \in Users, NEW x \in Rows, AskForResend(r, u, x)
  PROVE Moves
<1> DEFINE h == [at |-> "resend", extra |-> x]
<1>1. h \in Handler
  BY HandlerKinds
<1>2. Reads /\ Become(r, h) /\ At(r, "idle") /\ There(x)
  BY DEF AskForResend, Owns, Reads, tableVars
<1>3. Starts(r, h)
  BY <1>2, Others DEF Basic, Starts
<1>4. HistoryMove
  BY <1>2, Others, NoHistory DEF Basic, TypeOK, AskForResend, historyVars
<1> QED BY <1>1, <1>2, <1>3, <1>4, ReadsMove, HandlerStarts DEF Basic, Moves

LEMMA MakePrimaryMoves ==
  ASSUME Basic, NEW r \in Requests, NEW u \in Users, NEW x \in Rows, MakePrimary(r, u, x)
  PROVE Moves
<1> DEFINE h == [at |-> "demote", user |-> u, extra |-> x,
                 old |-> users[u].email, new |-> extras[x].email, kept |-> 0]
<1>1. h \in Handler
  BY HandlerKinds, UserColumns, ExtraColumns DEF Basic, TypeOK, MakePrimary, SignedIn, Owns, Here, There
<1>2. /\ Reads /\ Become(r, h) /\ At(r, "idle") /\ Here(u) /\ Owns(u, x) /\ extras[x].verified
      /\ u \in sessions
  BY DEF MakePrimary, SignedIn, Reads, tableVars
<1>3. Starts(r, h)
  BY <1>2, Others DEF Basic, Starts, MakePrimary
<1>4. HistoryMove
  BY <1>2, Others, NoHistory DEF Basic, TypeOK, MakePrimary, historyVars
<1> QED BY <1>1, <1>2, <1>3, <1>4, ReadsMove, HandlerStarts DEF Basic, Moves

LEMMA DeleteAccountMoves ==
  ASSUME Basic, NEW r \in Requests, NEW u \in Users, DeleteAccount(r, u)
  PROVE Moves
<1> DEFINE h == [at |-> "sweepExtras", user |-> u]
<1>1. h \in Handler
  BY HandlerKinds
<1>2. Reads /\ Become(r, h) /\ At(r, "idle") /\ Here(u)
  BY DEF DeleteAccount, SignedIn, Reads, tableVars
<1>3. Starts(r, h)
  BY <1>2, Others DEF Basic, Starts
<1>4. HistoryMove
  BY <1>2, Others, NoHistory DEF Basic, TypeOK, DeleteAccount, historyVars
<1> QED BY <1>1, <1>2, <1>3, <1>4, ReadsMove, HandlerStarts DEF Basic, Moves

\* What the other handlers see of a removal or a discarded row.
LEMMA OverlapIsSeen ==
  ASSUME TypeOK, NEW u \in Users, NEW r \in Requests, NEW h \in Handler,
         req' = [Overlapped(u) EXCEPT ![r] = h]
  PROVE /\ req' \in [Requests -> Handler] /\ req'[r] = h
        /\ \A s \in Requests \ {r} : /\ Stays(s) /\ req'[s].at = req[s].at
                                     /\ Removing(s, u) => req'[s].beside
                                     /\ ~Removing(s, u) => req'[s] = req[s]
<1>1. ASSUME NEW s \in Requests, Removing(s, u)
      PROVE /\ [req[s] EXCEPT !.beside = TRUE] \in Handler
            /\ [req[s] EXCEPT !.beside = TRUE].beside
            /\ [req[s] EXCEPT !.beside = TRUE].at = req[s].at
  <2>1. req[s] \in Handler /\ req[s].at = "remove"
    BY <1>1 DEF TypeOK, Removing, At
  <2>2. req[s] \in [at : {"remove"}, user : Users, extra : Rows, beside : BOOLEAN]
    BY <2>1 DEF Handler, PromotionSteps
  <2> QED BY <2>1, <2>2, HandlerUpdates
<1>2. Overlapped(u) \in [Requests -> Handler]
  BY <1>1 DEF Overlapped, TypeOK
<1>3. req' \in [Requests -> Handler] /\ req'[r] = h
      /\ \A s \in Requests \ {r} : req'[s] = Overlapped(u)[s]
  BY <1>2
<1>4. ASSUME NEW s \in Requests \ {r}
      PROVE req'[s] = IF Removing(s, u) THEN [req[s] EXCEPT !.beside = TRUE] ELSE req[s]
  BY <1>3, <1>4 DEF Overlapped
<1> QED BY <1>1, <1>3, <1>4 DEF Stays, Removing

LEMMA AskForRemovalMoves ==
  ASSUME Basic, NEW r \in Requests, NEW u \in Users, NEW x \in Rows, AskForRemoval(r, u, x)
  PROVE Moves
<1> DEFINE h == [at |-> "remove", user |-> u, extra |-> x,
                 beside |-> \E s \in Requests : Removing(s, u)]
<1>1. h \in Handler
  BY HandlerKinds
<1>2. req' = [Overlapped(u) EXCEPT ![r] = h]
  BY DEF AskForRemoval
<1>3. /\ req' \in [Requests -> Handler] /\ req'[r] = h
      /\ \A s \in Requests \ {r} : /\ Stays(s) /\ req'[s].at = req[s].at
                                   /\ Removing(s, u) => req'[s].beside
                                   /\ ~Removing(s, u) => req'[s] = req[s]
  <2> HIDE DEF h
  <2> QED BY <1>1, <1>2, OverlapIsSeen DEF Basic
<1>4. Reads /\ At(r, "idle") /\ Here(u) /\ Owns(u, x)
  BY DEF AskForRemoval, SignedIn, Reads, tableVars
<1>5. Starts(r, h)
  BY <1>3, <1>4 DEF Starts, AskForRemoval
<1>6. HandlersMove
  BY <1>3, <1>5 DEF HandlersMove, HandlerMove
<1>7. \A s \in Requests : req'[s].at = "setPassword" => req'[s] = req[s]
  BY <1>3 DEF Removing, At
<1>8. HistoryMove
  BY <1>7, NoHistory DEF Basic, TypeOK, AskForRemoval, historyVars
<1> QED BY <1>4, <1>6, <1>8, ReadsMove DEF Basic, Moves

-----------------------------------------------------------------------------
(* Every step is such a move: registration and sign-in *)

LEMMA RegisterMoves ==
  ASSUME Basic, NEW a \in Addresses, Register(a)
  PROVE Moves
<1>1. PICK u \in Users : /\ FreeUser(u)
                         /\ users' = [users EXCEPT ![u] = [NewUser(a) EXCEPT !.password = TRUE,
                                                             !.pending = lastToken + 1]]
  BY DEF Register
<1> DEFINE row == [NewUser(a) EXCEPT !.password = TRUE, !.pending = lastToken + 1]
           l == [kind |-> "register", token |-> lastToken + 1, to |-> a]
<1>2. NewToken /\ lastToken + 1 \in Tokens /\ Fresh(lastToken + 1)
  BY AccountsAssumption DEF Register, NewToken, Basic, TypeOK, Tokens, Fresh
<1>3. /\ row \in User /\ row.row = "here" /\ row.email = a /\ row.reset = 0
      /\ row.pending = lastToken + 1 /\ row.verified = FALSE
  <2>1. 0 \in Tokens
    BY AccountsAssumption DEF Tokens
  <2> QED BY <1>2, <2>1 DEF NewUser, User
<1>4. UsersMove
  <2> HIDE DEF row
  <2> QED BY <1>1, <1>2, <1>3, InsertUserMoves DEF Basic, Register, row
<1>5. RowsMove /\ HandlersMove
  BY NoRowMoves, NoHandlerMoves DEF Basic, Register
<1>6. l \in Links /\ mail' = mail \cup {l}
  BY <1>2 DEF Links, Register, Send
<1>7. users'[u].email = a /\ (\A v \in Users \ {u} : users'[v] = users[v]) /\ ~Born(u)
  BY <1>1, <1>3 DEF Basic, TypeOK, FreeUser, Born
<1>8. NewLink(l)
  BY <1>2, <1>7 DEF NewLink
<1>9. MailMove
  BY <1>2, <1>6, <1>8, OneMail DEF Basic
<1>10. HistoryMove
  BY NoHistory DEF Basic, TypeOK, Register, historyVars
<1> QED BY <1>4, <1>5, <1>9, <1>10 DEF Moves

LEMMA UpgradeMoves ==
  ASSUME Basic, NEW r \in Requests, Upgrade(r)
  PROVE Moves
<1>1. req[r].user \in Users
  BY HandlerFields DEF Basic, TypeOK, Upgrade, At, UserSteps
<1>2. UsersMove
  <2>1. Here(req[r].user) => users[req[r].user] \in User /\ users[req[r].user].row = "here"
    BY <1>1 DEF Basic, TypeOK, Here
  <2> DEFINE row == [users[req[r].user] EXCEPT !.password = TRUE]
  <2>2. Here(req[r].user) =>
          /\ row \in User /\ row.row = "here" /\ row.email = users[req[r].user].email
          /\ row.verified = users[req[r].user].verified
          /\ row.pending = users[req[r].user].pending /\ row.reset = users[req[r].user].reset
    BY <2>1 DEF User, Absent
  <2>3. SetUser(req[r].user, row)
    BY DEF Upgrade
  <2> HIDE DEF row
  <2> QED BY <1>1, <2>2, <2>3, SetUserMoves DEF Basic
<1>3. RowsMove /\ MailMove
  BY NoRowMoves, NoMail DEF Basic, Upgrade
<1>4. HandlersMove
  BY HandlerEnds DEF Basic, Upgrade, At, PromotionSteps
<1>5. HistoryMove
  BY Others, NoHistory DEF Basic, TypeOK, Upgrade, historyVars, Idle
<1> QED BY <1>2, <1>3, <1>4, <1>5 DEF Moves

LEMMA SendAgainMoves ==
  ASSUME Basic, NEW r \in Requests, SendAgain(r)
  PROVE Moves
<1>1. req[r].read \in HereRow
  BY HandlerFields DEF Basic, TypeOK, SendAgain, At
<1> DEFINE l == [kind |-> "register", token |-> req[r].read.pending, to |-> req[r].read.email]
<1>2. l \in Links
  BY <1>1 DEF HereRow, User, Absent, Links
<1>3. NewLink(l)
  BY DEF NewLink, SendAgain, Pending, tableVars
<1>4. UsersMove /\ RowsMove /\ MailMove
  BY <1>2, <1>3, NoUserMoves, NoRowMoves, OneMail DEF Basic, SendAgain, Send, tableVars
<1>5. HandlersMove
  BY HandlerEnds DEF Basic, SendAgain, At, PromotionSteps
<1>6. HistoryMove
  BY Others, NoHistory DEF Basic, TypeOK, SendAgain, historyVars, Idle
<1> QED BY <1>4, <1>5, <1>6 DEF Moves

LEMMA ReregisterMoves ==
  ASSUME Basic, NEW r \in Requests, Reregister(r)
  PROVE Moves
<1>1. req[r].user \in Users /\ req[r].read \in HereRow
  BY HandlerFields DEF Basic, TypeOK, Reregister, At, UserSteps
<1>2. NewToken /\ lastToken + 1 \in Tokens /\ Fresh(lastToken + 1)
  BY AccountsAssumption DEF Reregister, NewToken, Basic, TypeOK, Tokens, Fresh
<1> DEFINE u == req[r].user
           row == [users[u] EXCEPT !.password = TRUE, !.pending = lastToken + 1, !.stale = FALSE]
           l == [kind |-> "register", token |-> lastToken + 1, to |-> req[r].read.email]
<1>3. Here(u) => /\ row \in User /\ row.row = "here" /\ row.email = users[u].email
                 /\ row.verified = users[u].verified
                 /\ row.pending = lastToken + 1 /\ row.reset = users[u].reset
  <2>1. users[u] \in User
    BY <1>1 DEF Basic, TypeOK
  <2>2. Here(u) => row \in User
    BY <1>2, <2>1, UserUpdates DEF Here
  <2> QED BY <2>1, <2>2 DEF User, Absent, Here
<1>4. SetUser(u, row)
  BY DEF Reregister
<1>5. UsersMove
  <2> HIDE DEF row
  <2> QED BY <1>1, <1>2, <1>3, <1>4, SetUserMoves DEF Basic
<1>6. ASSUME Here(u) PROVE MailMove
  <2>1. l \in Links /\ mail' = mail \cup {l}
    BY <1>1, <1>2, <1>6 DEF HereRow, User, Absent, Links, Reregister, Send
  <2>2. users'[u] = row /\ \A v \in Users \ {u} : users'[v] = users[v]
    BY <1>1, <1>4, <1>6 DEF SetUser, Basic, TypeOK
  <2>3. At(r, "register") /\ users'[u].email = users[u].email
    BY <1>3, <1>6, <2>2 DEF Reregister
  <2> HIDE DEF row
  <2>4. NewLink(l)
    BY <1>1, <1>2, <1>6, <2>2, <2>3 DEF NewLink
  <2> QED BY <1>2, <2>1, <2>4, OneMail DEF Basic
<1>7. ASSUME ~Here(u) PROVE MailMove
  BY <1>2, <1>7, NoMail DEF Basic, Reregister
<1>8. RowsMove /\ HandlersMove
  BY NoRowMoves, HandlerEnds DEF Basic, Reregister, At, PromotionSteps
<1>9. HistoryMove
  BY Others, NoHistory DEF Basic, TypeOK, Reregister, historyVars, Idle
<1> QED BY <1>5, <1>6, <1>7, <1>8, <1>9 DEF Moves

LEMMA ConfirmRegistrationMoves ==
  ASSUME Basic, NEW r \in Requests, ConfirmRegistration(r)
  PROVE Moves
<1>1. req[r].user \in Users
  BY HandlerFields DEF Basic, TypeOK, ConfirmRegistration, At, UserSteps
<1> DEFINE u == req[r].user
           row == [users[u] EXCEPT !.verified = TRUE, !.pending = 0, !.stale = FALSE]
<1>2. Here(u) => /\ row \in User /\ row.row = "here" /\ row.email = users[u].email
                 /\ row.verified = TRUE /\ row.pending = 0 /\ row.reset = users[u].reset
  <2>1. users[u] \in User /\ 0 \in Tokens
    BY <1>1, AccountsAssumption DEF Basic, TypeOK, Tokens
  <2>2. Here(u) => row \in User
    BY <2>1, UserUpdates DEF Here
  <2> QED BY <2>1, <2>2 DEF User, Absent, Here
<1>3. SetUser(u, row) /\ At(r, "confirm")
  BY DEF ConfirmRegistration
<1>4. UsersMove
  <2> HIDE DEF row
  <2> QED BY <1>1, <1>2, <1>3, SetUserMoves DEF Basic, At
<1>5. RowsMove /\ MailMove
  BY NoRowMoves, NoMail DEF Basic, ConfirmRegistration
<1>6. HandlersMove
  BY HandlerEnds DEF Basic, ConfirmRegistration, At, PromotionSteps
<1>7. HistoryMove
  BY Others, NoHistory DEF Basic, TypeOK, ConfirmRegistration, historyVars, Idle
<1> QED BY <1>4, <1>5, <1>6, <1>7 DEF Moves

LEMMA PendingExpiresMoves ==
  ASSUME Basic, NEW u \in Users, PendingExpires(u)
  PROVE Moves
<1> DEFINE row == [users[u] EXCEPT !.stale = TRUE]
<1>1. /\ row \in User /\ row.row = "here" /\ row.email = users[u].email
      /\ row.verified = users[u].verified
      /\ row.pending = users[u].pending /\ row.reset = users[u].reset
  BY DEF User, Absent, Basic, TypeOK, Here, PendingExpires
<1>2. SetUser(u, row)
  BY DEF PendingExpires, SetUser
<1>3. UsersMove
  <2> HIDE DEF row
  <2> QED BY <1>1, <1>2, SetUserMoves DEF Basic
<1>4. RowsMove /\ MailMove /\ HandlersMove
  BY NoRowMoves, NoMail, NoHandlerMoves DEF Basic, PendingExpires
<1>5. HistoryMove
  BY NoHistory DEF Basic, TypeOK, PendingExpires, historyVars
<1> QED BY <1>3, <1>4, <1>5 DEF Moves

LEMMA LoginMoves ==
  ASSUME Basic, NEW u \in Users, Login(u)
  PROVE Moves
<1>1. UsersMove /\ RowsMove /\ MailMove /\ HandlersMove
  BY NoUserMoves, NoRowMoves, NoMail, NoHandlerMoves DEF Basic, Login, tableVars
<1>2. HistoryMove
  BY NoHistory DEF Basic, TypeOK, Login, historyVars
<1> QED BY <1>1, <1>2 DEF Moves

LEMMA GetOrCreateMoves ==
  ASSUME Basic, NEW a \in Addresses, NEW b \in BOOLEAN, GetOrCreate(a, b), b => a \in followed'
  PROVE UsersMove
<1>1. CASE IsPrimary(a)
  BY <1>1, NoUserMoves DEF GetOrCreate, Basic
<1>2. CASE ~IsPrimary(a)
  <2>1. PICK u \in Users : /\ FreeUser(u)
                           /\ users' = [users EXCEPT ![u] = [NewUser(a) EXCEPT !.verified = b]]
    BY <1>2 DEF GetOrCreate
  <2> DEFINE row == [NewUser(a) EXCEPT !.verified = b]
  <2>2. /\ row \in User /\ row.row = "here" /\ row.email = a /\ row.reset = 0
        /\ row.pending = 0 /\ row.verified = b
    <3>1. 0 \in Tokens
      BY AccountsAssumption DEF Tokens
    <3> QED BY <3>1 DEF NewUser, User
  <2> HIDE DEF row
  <2> QED BY <1>2, <2>1, <2>2, InsertUserMoves DEF Basic, row
<1> QED BY <1>1, <1>2

LEMMA RequestMagicLinkMoves ==
  ASSUME Basic, NEW a \in Addresses, RequestMagicLink(a)
  PROVE Moves
<1> DEFINE l == [kind |-> "magic", token |-> 0, to |-> a]
<1>1. l \in Links /\ NewLink(l)
  BY AccountsAssumption DEF Links, Tokens, NewLink
<1>2. UsersMove
  BY GetOrCreateMoves DEF RequestMagicLink
<1>3. RowsMove /\ MailMove /\ HandlersMove
  BY <1>1, NoRowMoves, OneMail, NoHandlerMoves DEF Basic, RequestMagicLink, Send
<1>4. HistoryMove
  BY NoHistory DEF Basic, TypeOK, RequestMagicLink, historyVars
<1> QED BY <1>2, <1>3, <1>4 DEF Moves

LEMMA MagicLinkExpiresMoves ==
  ASSUME Basic, NEW l \in mail, MagicLinkExpires(l)
  PROVE Moves
<1>1. UsersMove /\ RowsMove /\ MailMove /\ HandlersMove
  BY NoUserMoves, NoRowMoves, NoMail, NoHandlerMoves DEF Basic, MagicLinkExpires, tableVars
<1>2. HistoryMove
  BY NoHistory DEF Basic, TypeOK, MagicLinkExpires, historyVars
<1> QED BY <1>1, <1>2 DEF Moves

LEMMA FollowMagicLinkMoves ==
  ASSUME Basic, NEW r \in Requests, NEW l \in mail, FollowMagicLink(r, l)
  PROVE Moves
<1>1. PICK u \in Users : /\ users'[u].row = "here" /\ users'[u].email = l.to
                         /\ Become(r, [at |-> "magic", user |-> u])
  BY DEF FollowMagicLink
<1> DEFINE h == [at |-> "magic", user |-> u]
<1>2. h \in Handler
  BY HandlerKinds
<1>3. l.to \in Addresses /\ followed' = followed \cup {l.to}
  BY DEF FollowMagicLink, Basic, TypeOK, Links
<1>4. req'[r] = h /\ \A s \in Requests \ {r} : req'[s] = req[s]
  BY <1>1, Others DEF Basic
<1>5. HandlersMove
  <2>1. Opens(r, h)
    BY <1>1, <1>3, <1>4 DEF Opens, FollowMagicLink
  <2> QED BY <1>1, <1>2, <1>4, <2>1, OneHandlerMoves DEF Basic, HandlerMove
<1>6. UsersMove
  BY <1>3, GetOrCreateMoves DEF FollowMagicLink
<1>7. RowsMove /\ MailMove
  BY NoRowMoves, NoMail DEF Basic, FollowMagicLink
<1>8. HistoryMove
  BY <1>3, <1>4, NoHistory DEF Basic, TypeOK, FollowMagicLink
<1> QED BY <1>5, <1>6, <1>7, <1>8 DEF Moves

LEMMA VerifyByMagicLinkMoves ==
  ASSUME Basic, NEW r \in Requests, VerifyByMagicLink(r)
  PROVE Moves
<1>1. req[r].user \in Users
  BY HandlerFields DEF Basic, TypeOK, VerifyByMagicLink, At, UserSteps
<1> DEFINE u == req[r].user
           row == [users[u] EXCEPT !.verified = TRUE]
<1>2. Here(u) => /\ row \in User /\ row.row = "here" /\ row.email = users[u].email
                 /\ row.verified = TRUE
                 /\ row.pending = users[u].pending /\ row.reset = users[u].reset
  <2>1. users[u] \in User
    BY <1>1 DEF Basic, TypeOK
  <2>2. Here(u) => row \in User
    BY <2>1, UserUpdates DEF Here
  <2> QED BY <2>1, <2>2 DEF User, Absent, Here
<1>3. SetUser(u, row) /\ At(r, "magic")
  BY DEF VerifyByMagicLink
<1>4. UsersMove
  <2> HIDE DEF row
  <2> QED BY <1>1, <1>2, <1>3, SetUserMoves DEF Basic, At
<1>5. RowsMove /\ MailMove
  BY NoRowMoves, NoMail DEF Basic, VerifyByMagicLink
<1>6. HandlersMove
  BY HandlerEnds DEF Basic, VerifyByMagicLink, At, PromotionSteps
<1>7. HistoryMove
  BY <1>1, Others, NoHistory DEF Basic, TypeOK, VerifyByMagicLink, historyVars, Idle
<1> QED BY <1>4, <1>5, <1>6, <1>7 DEF Moves

LEMMA VerifyByMagicLinkFailsMoves ==
  ASSUME Basic, NEW r \in Requests, VerifyByMagicLinkFails(r)
  PROVE Moves
<1>1. req[r].user \in Users
  BY HandlerFields DEF Basic, TypeOK, VerifyByMagicLinkFails, At, UserSteps
<1>2. UsersMove /\ RowsMove /\ MailMove
  BY NoUserMoves, NoRowMoves, NoMail DEF Basic, VerifyByMagicLinkFails, tableVars
<1>3. HandlersMove
  BY HandlerEnds DEF Basic, VerifyByMagicLinkFails, At, PromotionSteps
<1>4. HistoryMove
  BY <1>1, Others, NoHistory DEF Basic, TypeOK, VerifyByMagicLinkFails, historyVars, Idle
<1> QED BY <1>2, <1>3, <1>4 DEF Moves

LEMMA IssueResetMoves ==
  ASSUME Basic, NEW r \in Requests, IssueReset(r)
  PROVE Moves
<1>1. req[r].user \in Users /\ req[r].email \in Addresses
  BY HandlerFields DEF Basic, TypeOK, IssueReset, At, UserSteps
<1>2. NewToken /\ lastToken + 1 \in Tokens /\ Fresh(lastToken + 1)
  BY AccountsAssumption DEF IssueReset, NewToken, Basic, TypeOK, Tokens, Fresh
<1> DEFINE u == req[r].user
           row == [users[u] EXCEPT !.reset = lastToken + 1]
           l == [kind |-> "reset", token |-> lastToken + 1, to |-> req[r].email]
<1>3. Here(u) => /\ row \in User /\ row.row = "here" /\ row.email = users[u].email
                 /\ row.verified = users[u].verified
                 /\ row.pending = users[u].pending /\ row.reset = lastToken + 1
  <2>1. users[u] \in User
    BY <1>1 DEF Basic, TypeOK
  <2>2. Here(u) => row \in User
    BY <1>2, <2>1, UserUpdates DEF Here
  <2> QED BY <2>1, <2>2 DEF User, Absent, Here
<1>4. SetUser(u, row)
  BY DEF IssueReset
<1>5. UsersMove
  <2> HIDE DEF row
  <2> QED BY <1>1, <1>2, <1>3, <1>4, SetUserMoves DEF Basic
<1>6. ASSUME Here(u) PROVE MailMove
  <2>1. l \in Links /\ mail' = mail \cup {l}
    BY <1>1, <1>2, <1>6 DEF Links, IssueReset, Send
  <2>2. NewLink(l)
    BY <1>2 DEF NewLink
  <2> QED BY <1>2, <2>1, <2>2, OneMail DEF Basic
<1>7. ASSUME ~Here(u) PROVE MailMove
  BY <1>2, <1>7, NoMail DEF Basic, IssueReset
<1>8. RowsMove /\ HandlersMove
  BY NoRowMoves, HandlerEnds DEF Basic, IssueReset, At, PromotionSteps
<1>9. HistoryMove
  BY Others, NoHistory DEF Basic, TypeOK, IssueReset, historyVars, Idle
<1> QED BY <1>5, <1>6, <1>7, <1>8, <1>9 DEF Moves

LEMMA SetPasswordMoves ==
  ASSUME Basic, NEW r \in Requests, SetPassword(r)
  PROVE Moves
<1>1. req[r].user \in Users /\ req[r].token \in Tokens
  BY HandlerFields DEF Basic, TypeOK, SetPassword, At, UserSteps
<1> DEFINE u == req[r].user
           row == WithPassword(users[u])
<1>2. Here(u) => /\ row \in User /\ row.row = "here" /\ row.email = users[u].email
                 /\ row.verified = users[u].verified
                 /\ row.pending = users[u].pending /\ row.reset = 0
  <2>1. users[u] \in User /\ 0 \in Tokens
    BY <1>1, AccountsAssumption DEF Basic, TypeOK, Tokens
  <2>2. Here(u) => row \in User
    BY <2>1, UserUpdates DEF Here, WithPassword
  <2> QED BY <2>1, <2>2 DEF User, Absent, Here, WithPassword
<1>3. SetUser(u, row)
  BY DEF SetPassword
<1>4. UsersMove
  <2> HIDE DEF row
  <2> QED BY <1>1, <1>2, <1>3, SetUserMoves DEF Basic
<1>5. RowsMove /\ MailMove
  BY NoRowMoves, NoMail DEF Basic, SetPassword
<1>6. HandlersMove
  BY HandlerEnds DEF Basic, SetPassword, At, PromotionSteps
<1>7. req'[r].at = "idle" /\ \A s \in Requests \ {r} : req'[s] = req[s]
  BY Others DEF Basic, SetPassword, Idle
<1>8. users' = IF Here(u) THEN [users EXCEPT ![u].password = TRUE, ![u].reset = 0] ELSE users
  <2>1. Here(u) => [users EXCEPT ![u] = WithPassword(users[u])]
                     = [users EXCEPT ![u].password = TRUE, ![u].reset = 0]
    BY <1>1 DEF WithPassword, Basic, TypeOK
  <2> QED BY <1>3, <2>1 DEF SetUser
<1>9. ResetsMove
  BY <1>7, <1>8 DEF ResetsMove, SetPassword
<1>10. resets' \in [Tokens -> Nat]
  BY <1>1 DEF SetPassword, Basic, TypeOK
<1>11. HistoryMove
  BY <1>9, <1>10 DEF HistoryMove, Basic, TypeOK, SetPassword
<1> QED BY <1>4, <1>5, <1>6, <1>11 DEF Moves

-----------------------------------------------------------------------------
(* Every step is such a move: the addresses of an account *)

LEMMA InsertEmailMoves ==
  ASSUME Basic, NEW r \in Requests, InsertEmail(r)
  PROVE Moves
<1>1. req[r].user \in Users /\ req[r].email \in Addresses
  BY HandlerFields DEF Basic, TypeOK, InsertEmail, At, UserSteps
<1>2. At(r, "add") /\ UsersMove /\ users' = users
  BY NoUserMoves DEF Basic, InsertEmail
<1>3. Idle \in Handler /\ Idle.at = "idle"
  BY HandlerKinds DEF Idle
<1>4. CASE IsAdditional(req[r].email)
  <2>1. RowsMove /\ MailMove
    BY <1>4, NoRowMoves, NoMail DEF Basic, InsertEmail
  <2>2. HandlersMove
    BY <1>2, <1>4, HandlerEnds DEF Basic, InsertEmail, At, PromotionSteps
  <2>3. HistoryMove
    BY <1>3, <1>4, Others, NoHistory DEF Basic, TypeOK, InsertEmail, historyVars
  <2> QED BY <1>2, <2>1, <2>2, <2>3 DEF Moves
<1>5. CASE ~IsAdditional(req[r].email)
  <2> DEFINE row == [row |-> "here", owner |-> req[r].user, email |-> req[r].email,
                     verified |-> FALSE, pending |-> lastToken + 1, stale |-> FALSE]
             l == [kind |-> "extra", token |-> lastToken + 1, to |-> req[r].email]
             d(x) == [at |-> "discard", extra |-> x]
  <2>1. PICK x \in Rows :
          /\ FreeRow(x) /\ extras' = [extras EXCEPT ![x] = row]
          /\ \/ mail' = mail \cup {l} /\ Become(r, Idle) /\ faults' = faults
             \/ mail' = mail /\ Become(r, d(x)) /\ SpendFault
    BY <1>5 DEF InsertEmail, Send
  <2>2. NewToken /\ lastToken + 1 \in Tokens /\ Fresh(lastToken + 1)
    BY <1>5, AccountsAssumption DEF InsertEmail, NewToken, Basic, TypeOK, Tokens, Fresh
  <2>3. row \in Extra /\ l \in Links /\ d(x) \in Handler
    BY <1>1, <2>2, HandlerKinds DEF Extra, Links
  <2>4. RowsMove
    BY <1>5, <2>1, <2>2, <2>3, InsertExtraMoves DEF Basic
  <2>5. extras'[x] = row /\ \A y \in Rows \ {x} : extras'[y] = extras[y]
    BY <2>1 DEF Basic, TypeOK
  <2>6. NewLink(l)
    BY <2>2, <2>5 DEF NewLink, There
  <2>7. MailMove
    BY <2>1, <2>2, <2>3, <2>6, OneMail, NoMail DEF Basic
  <2>8. CASE Become(r, Idle) /\ faults' = faults
    <3>1. HandlersMove
      BY <1>2, <2>8, HandlerEnds DEF Basic, At, PromotionSteps
    <3>2. HistoryMove
      BY <1>3, <2>8, Others, NoHistory DEF Basic, TypeOK, InsertEmail, historyVars
    <3> QED BY <1>2, <2>4, <2>7, <3>1, <3>2 DEF Moves
  <2>9. CASE Become(r, d(x)) /\ SpendFault
    <3>1. req'[r] = d(x) /\ d(x).at = "discard" /\ d(x).extra = x /\ d(x).at # "setPassword"
      BY <2>9, Others DEF Basic
    <3>2. Continues(r, req'[r])
      BY <1>2, <2>5, <2>9, <3>1, Others DEF Basic, Continues
    <3>3. HandlersMove
      BY <2>3, <2>9, <3>2, OneHandlerMoves DEF Basic, HandlerMove
    <3>4. \A s \in Requests : req'[s].at = "setPassword" => req'[s] = req[s]
      BY <2>9, <3>1, Others DEF Basic
    <3>5. HistoryMove
      BY <2>9, <3>4, NoHistory DEF Basic, TypeOK, InsertEmail, historyVars
    <3> QED BY <1>2, <2>4, <2>7, <3>3, <3>5 DEF Moves
  <2> QED BY <2>1, <2>8, <2>9
<1> QED BY <1>4, <1>5

LEMMA TokenExpiresMoves ==
  ASSUME Basic, NEW x \in Rows, TokenExpires(x)
  PROVE Moves
<1> DEFINE row == [extras[x] EXCEPT !.stale = TRUE]
<1>1. /\ row \in Extra /\ row.row = "here" /\ row.email = extras[x].email
      /\ row.owner = extras[x].owner /\ row.verified = extras[x].verified
      /\ row.pending = extras[x].pending
  BY DEF Extra, Absent, Basic, TypeOK, There, TokenExpires
<1>2. SetExtra(x, row)
  BY DEF TokenExpires, SetExtra
<1>3. RowsMove
  <2> HIDE DEF row
  <2> QED BY <1>1, <1>2, SetExtraMoves DEF Basic
<1>4. UsersMove /\ MailMove /\ HandlersMove
  BY NoUserMoves, NoMail, NoHandlerMoves DEF Basic, TokenExpires
<1>5. HistoryMove
  BY NoHistory DEF Basic, TypeOK, TokenExpires, historyVars
<1> QED BY <1>3, <1>4, <1>5 DEF Moves

LEMMA VerifyMoves ==
  ASSUME Basic, NEW r \in Requests, Verify(r)
  PROVE Moves
<1>1. req[r].extra \in Rows
  BY HandlerFields DEF Basic, TypeOK, Verify, At, RowSteps
<1> DEFINE x == req[r].extra
           row == [extras[x] EXCEPT !.verified = TRUE, !.pending = 0, !.stale = FALSE]
<1>2. There(x) => /\ row \in Extra /\ row.row = "here" /\ row.email = extras[x].email
                  /\ row.owner = extras[x].owner /\ row.verified = TRUE /\ row.pending = 0
  <2>1. extras[x] \in Extra /\ 0 \in Tokens
    BY <1>1, AccountsAssumption DEF Basic, TypeOK, Tokens
  <2>2. There(x) => row \in Extra
    BY <2>1, ExtraUpdates DEF There
  <2> QED BY <2>1, <2>2 DEF Extra, Absent, There
<1>3. SetExtra(x, row) /\ At(r, "verify")
  BY DEF Verify
<1>4. RowsMove
  <2> HIDE DEF row
  <2> QED BY <1>1, <1>2, <1>3, SetExtraMoves DEF Basic
<1>5. UsersMove /\ MailMove
  BY NoUserMoves, NoMail DEF Basic, Verify
<1>6. HandlersMove
  BY HandlerEnds DEF Basic, Verify, At, PromotionSteps
<1>7. HistoryMove
  BY Others, NoHistory DEF Basic, TypeOK, Verify, historyVars, Idle
<1> QED BY <1>4, <1>5, <1>6, <1>7 DEF Moves

LEMMA ResendMoves ==
  ASSUME Basic, NEW r \in Requests, Resend(r)
  PROVE Moves
<1>1. req[r].extra \in Rows
  BY HandlerFields DEF Basic, TypeOK, Resend, At, RowSteps
<1>2. NewToken /\ lastToken + 1 \in Tokens /\ Fresh(lastToken + 1)
  BY AccountsAssumption DEF Resend, NewToken, Basic, TypeOK, Tokens, Fresh
<1> DEFINE x == req[r].extra
           row == [extras[x] EXCEPT !.pending = lastToken + 1, !.stale = FALSE]
           l == [kind |-> "extra", token |-> lastToken + 1, to |-> extras[x].email]
<1>3. There(x) => /\ row \in Extra /\ row.row = "here" /\ row.email = extras[x].email
                  /\ row.owner = extras[x].owner /\ row.verified = extras[x].verified
                  /\ row.pending = lastToken + 1
  <2>1. extras[x] \in Extra
    BY <1>1 DEF Basic, TypeOK
  <2>2. There(x) => row \in Extra
    BY <1>2, <2>1, ExtraUpdates DEF There
  <2> QED BY <2>1, <2>2 DEF Extra, Absent, There
<1>4. SetExtra(x, row)
  BY DEF Resend
<1>5. RowsMove
  <2> HIDE DEF row
  <2> QED BY <1>1, <1>2, <1>3, <1>4, SetExtraMoves DEF Basic
<1>6. ASSUME There(x) PROVE MailMove
  <2>1. l \in Links /\ mail' = mail \cup {l}
    BY <1>1, <1>2, <1>6, ExtraColumns DEF Links, Resend, Send, Basic, TypeOK, There
  <2>2. /\ extras'[x] = row /\ row.row = "here" /\ row.email = extras[x].email
        /\ \A y \in Rows \ {x} : extras'[y] = extras[y]
    BY <1>1, <1>3, <1>4, <1>6 DEF SetExtra, Basic, TypeOK
  <2> HIDE DEF row
  <2>3. NewLink(l)
    BY <1>1, <1>2, <2>2 DEF NewLink, There
  <2> QED BY <1>2, <2>1, <2>3, OneMail DEF Basic
<1>7. ASSUME ~There(x) PROVE MailMove
  BY <1>2, <1>7, NoMail DEF Basic, Resend
<1>8. UsersMove /\ HandlersMove
  BY NoUserMoves, HandlerEnds DEF Basic, Resend, At, PromotionSteps
<1>9. HistoryMove
  BY Others, NoHistory DEF Basic, TypeOK, Resend, historyVars, Idle
<1> QED BY <1>5, <1>6, <1>7, <1>8, <1>9 DEF Moves

LEMMA RemoveMoves ==
  ASSUME Basic, NEW r \in Requests, Remove(r) \/ DropPromoted(r)
  PROVE Moves
<1>1. req[r].extra \in Rows /\ Inserted(req[r].extra) /\ req[r].at \in {"remove", "drop"}
  BY HandlerFields DEF Basic, TypeOK, HandlersKnow, Remove, DropPromoted, At, RowSteps, PromotionSteps
<1>2. Become(r, Idle) /\ DeleteExtra(req[r].extra) /\ users' = users /\ mail' = mail /\ lastToken' = lastToken
  BY DEF Remove, DropPromoted
<1>3. req'[r].at = "idle"
  BY <1>2, Others DEF Basic, Idle
<1>4. RowsMove
  BY <1>1, <1>2, <1>3, DeleteExtraMoves DEF Basic
<1>5. UsersMove /\ MailMove
  BY <1>2, NoUserMoves, NoMail DEF Basic
<1>6. HandlersMove
  BY <1>1, <1>2, HandlerEnds DEF Basic
<1>7. HistoryMove
  BY <1>2, Others, NoHistory DEF Basic, TypeOK, Remove, DropPromoted, historyVars, Idle
<1> QED BY <1>4, <1>5, <1>6, <1>7 DEF Moves

LEMMA DiscardMoves ==
  ASSUME Basic, NEW r \in Requests, Discard(r)
  PROVE Moves
<1>1. req[r].extra \in Rows /\ Inserted(req[r].extra) /\ At(r, "discard")
  BY HandlerFields DEF Basic, TypeOK, HandlersKnow, Discard, At, RowSteps
<1> DEFINE x == req[r].extra
<1>2. DeleteExtra(x) /\ users' = users /\ mail' = mail /\ lastToken' = lastToken
  BY DEF Discard
<1>3. Idle \in Handler /\ Idle.at = "idle"
  BY HandlerKinds DEF Idle
<1>4. ASSUME There(x)
      PROVE /\ req' \in [Requests -> Handler] /\ req'[r] = Idle
            /\ \A s \in Requests \ {r} : /\ Stays(s) /\ req'[s].at = req[s].at
                                         /\ Removing(s, extras[x].owner) => req'[s].beside
                                         /\ ~Removing(s, extras[x].owner) => req'[s] = req[s]
  <2>1. extras[x].owner \in Users
    BY <1>1, <1>4, ExtraColumns DEF Basic, TypeOK, There
  <2> QED BY <1>3, <1>4, <2>1, OverlapIsSeen DEF Basic, Discard
<1>5. ASSUME ~There(x)
      PROVE /\ req' \in [Requests -> Handler] /\ req'[r] = Idle
            /\ \A s \in Requests \ {r} : Stays(s) /\ req'[s] = req[s]
  BY <1>3, <1>5, Others DEF Basic, Discard, TypeOK, Become
<1>6. ~Removing(r, extras[x].owner)
  BY <1>1 DEF Removing, At
<1>7. RowsMove
  BY <1>1, <1>2, <1>4, <1>6, DeleteExtraMoves DEF Basic
<1>8. UsersMove /\ MailMove
  BY <1>2, NoUserMoves, NoMail DEF Basic
<1>9. Ends(r)
  BY <1>1, <1>3, <1>4, <1>5 DEF Ends, At, PromotionSteps
<1>10. HandlersMove
  BY <1>4, <1>5, <1>9 DEF HandlersMove, HandlerMove
<1>11. \A s \in Requests : req'[s].at = "setPassword" => req'[s] = req[s]
  BY <1>3, <1>4, <1>5 DEF Removing, At
<1>12. HistoryMove
  BY <1>11, NoHistory DEF Basic, TypeOK, Discard, historyVars
<1> QED BY <1>7, <1>8, <1>10, <1>12 DEF Moves

LEMMA DemoteMoves ==
  ASSUME Basic, NEW r \in Requests, Demote(r)
  PROVE Moves
<1>1. /\ req[r] \in Handler /\ req[r].at = "demote" /\ req[r].user \in Users
      /\ req[r].old \in Addresses
  BY HandlerFields DEF Basic, TypeOK, Demote, At, UserSteps, PromotionSteps
<1> DEFINE u == req[r].user
           a == req[r].old
           h(x) == [req[r] EXCEPT !.at = "promote", !.kept = x]
<1>2. users' = users /\ mail' = mail /\ lastToken' = lastToken
  BY DEF Demote
<1>3. \A x \in Rows : /\ h(x) \in Handler /\ h(x).at = "promote" /\ h(x).user = u /\ h(x).kept = x
                      /\ h(x).extra = req[r].extra /\ h(x).old = a /\ h(x).new = req[r].new
  <2>1. Rows \subseteq 0 .. MaxRows
    BY AccountsAssumption DEF Rows
  <2>2. req[r] \in [at : PromotionSteps, user : Users, extra : Rows, old : Addresses,
                    new : Addresses, kept : 0 .. MaxRows]
    BY <1>1 DEF Handler, PromotionSteps
  <2> QED BY <1>1, <2>1, <2>2, HandlerUpdates
<1>4. ASSUME NEW x \in Rows, Here(u), Become(r, h(x)), \A y \in Rows : There(y) => extras'[y] = extras[y],
             extras'[x].row = "here", extras'[x].owner = u, extras'[x].email = a
      PROVE HandlersMove
  <2>1. req'[r] = h(x) /\ \A s \in Requests \ {r} : req'[s] = req[s]
    BY <1>4, Others DEF Basic
  <2> HIDE DEF h
  <2>2. Continues(r, h(x))
    BY <1>1, <1>2, <1>3, <1>4, <2>1 DEF Continues, At
  <2> QED BY <1>3, <1>4, <2>1, <2>2, OneHandlerMoves DEF Basic, HandlerMove
<1>5. CASE \E x \in Rows : Owns(u, x) /\ extras[x].email = a /\ Here(u) /\ Become(r, h(x)) /\ extras' = extras
  <2>1. HandlersMove
    BY <1>4, <1>5 DEF Owns, There
  <2>2. UsersMove /\ RowsMove /\ MailMove
    BY <1>2, <1>5, NoUserMoves, NoRowMoves, NoMail DEF Basic
  <2>3. HistoryMove
    <3>1. \A s \in Requests : req'[s].at = "setPassword" => req'[s] = req[s]
      BY <1>3, <1>5, Others DEF Basic
    <3> QED BY <3>1, NoHistory DEF Basic, TypeOK, Demote, historyVars
  <2> QED BY <2>1, <2>2, <2>3 DEF Moves
<1>6. CASE /\ Here(u) /\ ~IsAdditional(a)
           /\ \E x \in Rows :
                /\ FreeRow(x) /\ Become(r, h(x))
                /\ extras' = [extras EXCEPT ![x] = [row |-> "here", owner |-> u, email |-> a,
                     verified |-> users[u].verified, pending |-> 0, stale |-> FALSE]]
  <2> DEFINE row == [row |-> "here", owner |-> u, email |-> a, verified |-> users[u].verified,
                     pending |-> 0, stale |-> FALSE]
  <2>1. PICK x \in Rows : FreeRow(x) /\ Become(r, h(x)) /\ extras' = [extras EXCEPT ![x] = row]
    BY <1>6
  <2>2. row \in Extra
    BY <1>1, <1>6, UserColumns, AccountsAssumption DEF Extra, Basic, TypeOK, Here, Tokens
  <2>3. extras'[x] = row /\ \A y \in Rows \ {x} : extras'[y] = extras[y]
    BY <2>1 DEF Basic, TypeOK
  <2>4. HandlersMove
    <3>1. \A y \in Rows : There(y) => extras'[y] = extras[y]
      BY <2>1, <2>3 DEF FreeRow, There
    <3>2. extras'[x].row = "here" /\ extras'[x].owner = u /\ extras'[x].email = a
      BY <2>3
    <3> HIDE DEF h, row
    <3> QED BY <1>4, <1>6, <2>1, <3>1, <3>2
  <2>5. RowsMove
    BY <1>1, <1>6, <2>1, <2>2, InsertExtraMoves DEF Basic, At
  <2>6. UsersMove /\ MailMove
    BY <1>2, NoUserMoves, NoMail DEF Basic
  <2>7. HistoryMove
    <3>1. \A s \in Requests : req'[s].at = "setPassword" => req'[s] = req[s]
      BY <1>3, <2>1, Others DEF Basic
    <3> QED BY <3>1, NoHistory DEF Basic, TypeOK, Demote, historyVars
  <2> QED BY <2>4, <2>5, <2>6, <2>7 DEF Moves
<1>7. CASE Become(r, Idle) /\ extras' = extras
  <2>1. UsersMove /\ RowsMove /\ MailMove /\ HandlersMove
    BY <1>2, <1>7, NoUserMoves, NoRowMoves, NoMail, HandlerEnds DEF Basic
  <2>2. HistoryMove
    BY <1>7, Others, NoHistory DEF Basic, TypeOK, Demote, historyVars, Idle
  <2> QED BY <2>1, <2>2 DEF Moves
<1> QED BY <1>5, <1>6, <1>7 DEF Demote

LEMMA PromoteMoves ==
  ASSUME Basic, NEW r \in Requests, Promote(r)
  PROVE Moves
<1>1. /\ req[r] \in Handler /\ req[r].at = "promote" /\ req[r].user \in Users
      /\ req[r].new \in Addresses
  BY HandlerFields DEF Basic, TypeOK, Promote, At, UserSteps, PromotionSteps
<1> DEFINE u == req[r].user
           taken == \E v \in Users \ {u} : Here(v) /\ users[v].email = req[r].new
           h == [req[r] EXCEPT !.at = "drop"]
           row == [users[u] EXCEPT !.email = req[r].new, !.verified = TRUE]
<1>2. extras' = extras /\ mail' = mail /\ lastToken' = lastToken
  BY DEF Promote
<1>3. RowsMove /\ MailMove
  BY <1>2, NoRowMoves, NoMail DEF Basic
<1>4. CASE ~Here(u) \/ taken
  <2>1. Become(r, Idle) /\ users' = users
    BY <1>4 DEF Promote
  <2>2. UsersMove /\ HandlersMove
    BY <1>2, <2>1, NoUserMoves, HandlerEnds DEF Basic
  <2>3. HistoryMove
    BY <2>1, Others, NoHistory DEF Basic, TypeOK, Promote, historyVars, Idle
  <2> QED BY <1>3, <2>2, <2>3 DEF Moves
<1>5. CASE Here(u) /\ ~taken
  <2>1. Become(r, h) /\ users' = [users EXCEPT ![u].email = req[r].new, ![u].verified = TRUE]
    BY <1>5 DEF Promote
  <2>2. users' = [users EXCEPT ![u] = row]
    BY <1>1, <2>1 DEF Basic, TypeOK
  <2>3. row \in User
    BY <1>1, <1>5, UserUpdates DEF Basic, TypeOK, Here
  <2>4. /\ h \in Handler /\ h.at = "drop" /\ h.user = u /\ h.extra = req[r].extra
        /\ h.old = req[r].old /\ h.new = req[r].new
    <3>1. req[r] \in [at : PromotionSteps, user : Users, extra : Rows, old : Addresses,
                      new : Addresses, kept : 0 .. MaxRows]
      BY <1>1 DEF Handler, PromotionSteps
    <3> QED BY <1>1, <3>1, HandlerUpdates
  <2>5. req'[r] = h /\ (\A s \in Requests \ {r} : req'[s] = req[s])
        /\ \A s \in Requests : req'[s].at = "setPassword" => req'[s] = req[s]
    BY <2>1, <2>4, Others DEF Basic
  <2>6. users'[u] = row /\ \A v \in Users \ {u} : users'[v] = users[v]
    BY <1>1, <2>2 DEF Basic, TypeOK
  <2>7. PromotesUser(u)
    BY <1>1, <1>5, <2>4, <2>5, <2>6 DEF PromotesUser, At
  <2>8. UsersMove
    <3> HIDE DEF row
    <3> QED BY <1>1, <2>2, <2>3, <2>7, OneUserMoves DEF Basic, UserMove
  <2>9. Continues(r, h)
    BY <1>1, <1>2, <1>5, <2>4, <2>5, <2>6 DEF Continues, At
  <2>10. HandlersMove
    <3> HIDE DEF h
    <3> QED BY <2>1, <2>4, <2>5, <2>9, OneHandlerMoves DEF Basic, HandlerMove
  <2>11. HistoryMove
    BY <2>5, NoHistory DEF Basic, TypeOK, Promote, historyVars
  <2> QED BY <1>3, <2>8, <2>10, <2>11 DEF Moves
<1> QED BY <1>4, <1>5

-----------------------------------------------------------------------------
(* Every step is such a move: the end of an account, and failures *)

LEMMA SweepExtrasMoves ==
  ASSUME Basic, NEW r \in Requests, SweepExtras(r)
  PROVE Moves
<1>1. req[r] \in Handler /\ req[r].at = "sweepExtras" /\ req[r].user \in Users
  BY HandlerFields DEF Basic, TypeOK, SweepExtras, At, UserSteps
<1> DEFINE h == [req[r] EXCEPT !.at = "sweepSessions"]
<1>2. h \in Handler /\ h.at = "sweepSessions" /\ h.user = req[r].user
  <2>1. req[r] \in [at : {"confirm", "magic", "sweepExtras", "sweepSessions", "sweepUser"}, user : Users]
    BY <1>1 DEF Handler, PromotionSteps
  <2> QED BY <1>1, <2>1, HandlerUpdates
<1>3. /\ users' = users /\ mail' = mail /\ lastToken' = lastToken /\ Become(r, h)
      /\ \A x \in Rows : extras'[x] = IF Owns(req[r].user, x) THEN Deleted ELSE extras[x]
  BY DEF SweepExtras
<1>4. RowsMove
  <2>1. Deleted \in Extra
    BY DEF Deleted, Extra, Absent
  <2>2. extras' \in [Rows -> Extra]
    BY <2>1 DEF SweepExtras, Basic, TypeOK
  <2>3. \A x \in Rows : Owns(req[r].user, x) => DeletesRow(x)
    BY <1>1, <1>3 DEF DeletesRow, Owns, There, Inserted, At
  <2>4. \A x \in Rows : ~InsertsRow(x)
    BY <1>3 DEF InsertsRow, Inserted, There, Deleted
  <2> QED BY <1>3, <2>2, <2>3, <2>4 DEF RowsMove, RowMove
<1>5. HandlersMove /\ \A s \in Requests : req'[s].at = "setPassword" => req'[s] = req[s]
  <2>1. req'[r] = h /\ \A s \in Requests \ {r} : req'[s] = req[s]
    BY <1>3, Others DEF Basic
  <2>2. Continues(r, h)
    BY <1>1, <1>2, <1>3, <2>1 DEF Continues
  <2> HIDE DEF h
  <2> QED BY <1>2, <1>3, <2>1, <2>2, OneHandlerMoves DEF Basic, HandlerMove
<1>6. UsersMove /\ MailMove
  BY <1>3, NoUserMoves, NoMail DEF Basic
<1>7. HistoryMove
  BY <1>5, NoHistory DEF Basic, TypeOK, SweepExtras, historyVars
<1> QED BY <1>4, <1>5, <1>6, <1>7 DEF Moves

LEMMA SweepSessionsMoves ==
  ASSUME Basic, NEW r \in Requests, SweepSessions(r)
  PROVE Moves
<1>1. req[r] \in Handler /\ req[r].at = "sweepSessions" /\ req[r].user \in Users
  BY HandlerFields DEF Basic, TypeOK, SweepSessions, At, UserSteps
<1> DEFINE h == [req[r] EXCEPT !.at = "sweepUser"]
<1>2. h \in Handler /\ h.at = "sweepUser" /\ h.user = req[r].user
  <2>1. req[r] \in [at : {"confirm", "magic", "sweepExtras", "sweepSessions", "sweepUser"}, user : Users]
    BY <1>1 DEF Handler, PromotionSteps
  <2> QED BY <1>1, <2>1, HandlerUpdates
<1>3. users' = users /\ extras' = extras /\ mail' = mail /\ lastToken' = lastToken /\ Become(r, h)
  BY DEF SweepSessions, tableVars
<1>4. HandlersMove /\ \A s \in Requests : req'[s].at = "setPassword" => req'[s] = req[s]
  <2>1. req'[r] = h /\ \A s \in Requests \ {r} : req'[s] = req[s]
    BY <1>3, Others DEF Basic
  <2>2. Continues(r, h)
    BY <1>1, <1>2, <1>3, <2>1 DEF Continues
  <2> HIDE DEF h
  <2> QED BY <1>2, <1>3, <2>1, <2>2, OneHandlerMoves DEF Basic, HandlerMove
<1>5. UsersMove /\ RowsMove /\ MailMove
  BY <1>3, NoUserMoves, NoRowMoves, NoMail DEF Basic
<1>6. HistoryMove
  BY <1>4, NoHistory DEF Basic, TypeOK, SweepSessions, historyVars
<1> QED BY <1>4, <1>5, <1>6 DEF Moves

LEMMA SweepUserMoves ==
  ASSUME Basic, NEW r \in Requests, SweepUser(r)
  PROVE Moves
<1>1. req[r].user \in Users /\ Born(req[r].user)
  BY HandlerFields DEF Basic, TypeOK, HandlersKnow, SweepUser, At, UserSteps
<1>2. Deleted \in User
  BY DEF Deleted, User, Absent
<1>3. users' = [users EXCEPT ![req[r].user] = Deleted] /\ users'[req[r].user] = Deleted
  BY <1>1 DEF SweepUser, Basic, TypeOK
<1>4. UsersMove
  BY <1>1, <1>2, <1>3, OneUserMoves DEF Basic, UserMove, DeletesUser
<1>5. RowsMove /\ MailMove
  BY NoRowMoves, NoMail DEF Basic, SweepUser
<1>6. HandlersMove
  BY HandlerEnds DEF Basic, SweepUser, At, PromotionSteps
<1>7. HistoryMove
  BY Others, NoHistory DEF Basic, TypeOK, SweepUser, historyVars, Idle
<1> QED BY <1>4, <1>5, <1>6, <1>7 DEF Moves

LEMMA CallFailsMoves ==
  ASSUME Basic, NEW r \in Requests, CallFails(r)
  PROVE Moves
<1>1. UsersMove /\ RowsMove /\ MailMove
  BY NoUserMoves, NoRowMoves, NoMail DEF Basic, CallFails, tableVars
<1>2. HandlersMove
  BY HandlerEnds DEF Basic, CallFails, tableVars
<1>3. HistoryMove
  BY Others, NoHistory DEF Basic, TypeOK, CallFails, historyVars, Idle
<1> QED BY <1>1, <1>2, <1>3 DEF Moves

LEMMA NextMoves ==
  ASSUME Basic, Next
  PROVE Moves
<1>1. CASE SignIn
  <2>1. CASE \E a \in Addresses : Register(a) \/ RequestMagicLink(a)
    BY <2>1, RegisterMoves, RequestMagicLinkMoves
  <2>2. CASE \E u \in Users : PendingExpires(u) \/ Login(u)
    BY <2>2, PendingExpiresMoves, LoginMoves
  <2>3. CASE \E l \in mail : MagicLinkExpires(l)
    BY <2>3, MagicLinkExpiresMoves
  <2>4. ASSUME NEW r \in Requests,
               \/ \E u \in Users : RegisterAgain(r, u) \/ AskForReset(r, u)
               \/ \E l \in mail : FollowRegistration(r, l) \/ FollowMagicLink(r, l) \/ FollowReset(r, l)
        PROVE Moves
    BY <2>4, RegisterAgainMoves, AskForResetMoves, FollowRegistrationMoves, FollowMagicLinkMoves,
       FollowResetMoves
  <2>5. ASSUME NEW r \in Requests,
               \/ Upgrade(r) \/ SendAgain(r) \/ Reregister(r) \/ ConfirmRegistration(r)
               \/ VerifyByMagicLink(r) \/ VerifyByMagicLinkFails(r)
               \/ IssueReset(r) \/ SetPassword(r)
        PROVE Moves
    BY <2>5, UpgradeMoves, SendAgainMoves, ReregisterMoves, ConfirmRegistrationMoves,
       VerifyByMagicLinkMoves, VerifyByMagicLinkFailsMoves, IssueResetMoves, SetPasswordMoves
  <2> QED BY <1>1, <2>1, <2>2, <2>3, <2>4, <2>5 DEF SignIn
<1>2. CASE ManageEmails
  <2>1. CASE \E x \in Rows : TokenExpires(x)
    BY <2>1, TokenExpiresMoves
  <2>2. ASSUME NEW r \in Requests,
               \/ \E u \in Users, a \in Addresses : AddEmail(r, u, a)
               \/ \E l \in mail : FollowVerification(r, l)
               \/ \E u \in Users, x \in Rows : AskForResend(r, u, x) \/ AskForRemoval(r, u, x) \/ MakePrimary(r, u, x)
               \/ \E u \in Users : DeleteAccount(r, u)
        PROVE Moves
    BY <2>2, AddEmailMoves, FollowVerificationMoves, AskForResendMoves, AskForRemovalMoves,
       MakePrimaryMoves, DeleteAccountMoves
  <2>3. ASSUME NEW r \in Requests,
               \/ InsertEmail(r) \/ Discard(r) \/ Verify(r) \/ Resend(r) \/ Remove(r)
               \/ Demote(r) \/ Promote(r) \/ DropPromoted(r)
               \/ SweepExtras(r) \/ SweepSessions(r) \/ SweepUser(r)
               \/ CallFails(r)
        PROVE Moves
    BY <2>3, InsertEmailMoves, DiscardMoves, VerifyMoves, ResendMoves, RemoveMoves, DemoteMoves,
       PromoteMoves, SweepExtrasMoves, SweepSessionsMoves, SweepUserMoves, CallFailsMoves
  <2> QED BY <1>2, <2>1, <2>2, <2>3 DEF ManageEmails
<1> QED BY <1>1, <1>2 DEF Next

-----------------------------------------------------------------------------
(* Types *)

LEMMA RowsPersist ==
  ASSUME Basic, Moves
  PROVE /\ \A u \in Users : Born(u) => Born(u)'
        /\ \A x \in Rows : Inserted(x) => Inserted(x)'
        /\ \A u \in Users : Born(u) /\ Here(u)' => Here(u)
        /\ \A x \in Rows : Inserted(x) /\ There(x)' => There(x)
<1>1. ASSUME NEW u \in Users PROVE (Born(u) => Born(u)') /\ (Born(u) /\ Here(u)' => Here(u))
  <2>1. UserMove(u) /\ users[u] \in User /\ users'[u] \in User
    BY DEF Moves, UsersMove, Basic, TypeOK
  <2>2. CASE users'[u] = users[u]
    BY <2>2 DEF Born, Here
  <2>3. CASE InsertsUser(u)
    BY <2>3 DEF InsertsUser
  <2>4. CASE UpdatesUser(u) \/ PromotesUser(u)
    <3>1. Here(u) /\ users'[u].row = "here"
      BY <2>1, <2>4 DEF UpdatesUser, PromotesUser, Here, User, Absent
    <3> QED BY <3>1 DEF Born
  <2>5. CASE DeletesUser(u)
    BY <2>5 DEF DeletesUser, Born, Here, Deleted
  <2> QED BY <2>1, <2>2, <2>3, <2>4, <2>5 DEF UserMove
<1>2. ASSUME NEW x \in Rows PROVE (Inserted(x) => Inserted(x)') /\ (Inserted(x) /\ There(x)' => There(x))
  <2>1. RowMove(x)
    BY DEF Moves, RowsMove
  <2> QED BY <2>1 DEF RowMove, InsertsRow, UpdatesRow, DeletesRow, Inserted, There, Deleted
<1> QED BY <1>1, <1>2

LEMMA HandlersStayKnown ==
  ASSUME Basic, Moves
  PROVE HandlersKnow'
<1> SUFFICES ASSUME NEW r \in Requests
             PROVE /\ req'[r].at \in UserSteps => users'[req'[r].user].row # "never"
                   /\ req'[r].at \in RowSteps => extras'[req'[r].extra].row # "never"
  BY DEF HandlersKnow, Born, Inserted
<1>1. req[r] \in Handler /\ req'[r] \in Handler /\ HandlerMove(r)
  BY DEF Moves, HandlersMove, Basic, TypeOK
<1>2. /\ req'[r].at \in UserSteps => req'[r].user \in Users
      /\ req'[r].at \in RowSteps => req'[r].extra \in Rows
      /\ req[r].at \in UserSteps => req[r].user \in Users /\ Born(req[r].user)
      /\ req[r].at \in RowSteps => req[r].extra \in Rows /\ Inserted(req[r].extra)
  BY <1>1, HandlerFields DEF Basic, HandlersKnow
<1>3. SUFFICES /\ req'[r].at \in UserSteps => Born(req'[r].user) \/ users'[req'[r].user].row = "here"
               /\ req'[r].at \in RowSteps =>
                    Inserted(req'[r].extra) \/ extras'[req'[r].extra].row = "here"
  BY <1>2, RowsPersist DEF Born, Inserted
<1>4. CASE Stays(r)
  <2>1. req'[r].at = req[r].at
    BY <1>1, <1>4 DEF Stays, At, Handler, PromotionSteps
  <2>2. req[r].at \in UserSteps => req'[r].user = req[r].user
    BY <1>1, <1>4 DEF Stays, At, Handler, PromotionSteps, UserSteps
  <2>3. req[r].at \in RowSteps => req'[r].extra = req[r].extra
    BY <1>1, <1>4 DEF Stays, At, Handler, PromotionSteps, RowSteps
  <2> QED BY <1>2, <2>1, <2>2, <2>3
<1>5. CASE Ends(r)
  BY <1>5 DEF Ends, UserSteps, RowSteps, PromotionSteps
<1>6. CASE Starts(r, req'[r])
  BY <1>6 DEF Starts, UserSteps, RowSteps, PromotionSteps, Here, Born, There, Inserted, Owns
<1>7. CASE Opens(r, req'[r])
  BY <1>7 DEF Opens, RowSteps, PromotionSteps
<1>8. CASE Continues(r, req'[r])
  BY <1>2, <1>8 DEF Continues, At, UserSteps, RowSteps, PromotionSteps
<1> QED BY <1>1, <1>4, <1>5, <1>6, <1>7, <1>8 DEF HandlerMove

LEMMA PrimaryStaysUnique ==
  ASSUME Basic, Moves, NEW u \in Users, NEW v \in Users, Here(u)', Here(v)',
         users'[u].email = users'[v].email
  PROVE u = v
<1>1. /\ users[u] \in User /\ users[v] \in User /\ UserMove(u) /\ UserMove(v)
      /\ users'[u] = users[u] \/ users'[v] = users[v] \/ u = v
  BY DEF Moves, UsersMove, Basic, TypeOK
<1>2. ASSUME NEW w \in Users, NEW z \in Users, UserMove(w), w # z, users'[z] = users[z], Here(w)', Here(z)',
             users'[w].email = users'[z].email
      PROVE FALSE
  <2>1. Here(z) /\ users[z].email = users'[w].email
    BY <1>2 DEF Here
  <2>2. CASE users'[w] = users[w] \/ UpdatesUser(w)
    BY <1>2, <2>1, <2>2 DEF UpdatesUser, Here, Basic, TypeOK
  <2>3. CASE InsertsUser(w)
    BY <2>1, <2>3 DEF InsertsUser, IsPrimary
  <2>4. CASE PromotesUser(w)
    <3>1. PICK r \in Requests :
            /\ users'[w] = [users[w] EXCEPT !.email = req[r].new, !.verified = TRUE]
            /\ \A y \in Users \ {w} : ~(Here(y) /\ users[y].email = req[r].new)
      BY <2>4 DEF PromotesUser
    <3>2. users[w] \in User /\ users[w].row = "here"
      BY <2>4 DEF PromotesUser, Here, Basic, TypeOK
    <3>3. users'[w].email = req[r].new
      BY <3>1, <3>2 DEF User, Absent
    <3> QED BY <1>2, <2>1, <3>1, <3>3
  <2>5. CASE DeletesUser(w)
    BY <1>2, <2>5 DEF DeletesUser, Deleted, Here
  <2> QED BY <1>2, <2>2, <2>3, <2>4, <2>5 DEF UserMove
<1> QED BY <1>1, <1>2

LEMMA AdditionalStaysUnique ==
  ASSUME Basic, Moves, NEW x \in Rows, NEW y \in Rows, There(x)', There(y)',
         extras'[x].email = extras'[y].email
  PROVE x = y
<1>1. RowMove(x) /\ RowMove(y) /\ (InsertsRow(x) /\ InsertsRow(y) => x = y)
  BY DEF Moves, RowsMove
<1>2. ASSUME NEW z \in Rows, RowMove(z), There(z)', ~InsertsRow(z)
      PROVE There(z) /\ extras'[z].email = extras[z].email
  BY <1>2 DEF RowMove, UpdatesRow, DeletesRow, There, Deleted
<1>3. ASSUME NEW z \in Rows, NEW w \in Rows, InsertsRow(z), There(w), extras'[z].email = extras[w].email
      PROVE FALSE
  BY <1>3 DEF InsertsRow, IsAdditional
<1> QED BY <1>1, <1>2, <1>3 DEF Basic, TypeOK

LEMMA BasicStep ==
  ASSUME Basic, [Next]_vars
  PROVE Basic'
<1>1. CASE UNCHANGED vars
  BY <1>1 DEF vars, Basic, TypeOK, HandlersKnow, Here, There, Born, Inserted
<1>2. CASE Next
  <2>1. Moves
    BY <1>2, NextMoves
  <2>2. TypeOK'
    <3>1. /\ users' \in [Users -> User] /\ extras' \in [Rows -> Extra]
          /\ sessions' \subseteq Users /\ mail' \subseteq Links /\ lastToken' \in Tokens
          /\ req' \in [Requests -> Handler] /\ followed' \subseteq Addresses
          /\ resets' \in [Tokens -> Nat] /\ overlaps' \in [Tokens -> Nat]
          /\ starts' \in 0 .. MaxStarts /\ faults' \in 0 .. MaxFaults
      BY <2>1 DEF Moves, UsersMove, RowsMove, MailMove, HandlersMove, HistoryMove
    <3>2. \A u, v \in Users : Here(u)' /\ Here(v)' /\ users'[u].email = users'[v].email => u = v
      BY <2>1, PrimaryStaysUnique
    <3>3. \A x, y \in Rows : There(x)' /\ There(y)' /\ extras'[x].email = extras'[y].email => x = y
      BY <2>1, AdditionalStaysUnique
    <3> QED BY <3>1, <3>2, <3>3 DEF TypeOK, Here, There
  <2>3. HandlersKnow'
    BY <2>1, HandlersStayKnown
  <2> QED BY <2>2, <2>3 DEF Basic
<1> QED BY <1>1, <1>2

LEMMA BasicInit ==
  ASSUME Init
  PROVE Basic
<1>1. Never \in User /\ Never \in Extra /\ 0 \in Tokens
  BY AccountsAssumption DEF Never, User, Extra, Absent, Tokens
<1>2. TypeOK
  BY <1>1, HandlerKinds, AccountsAssumption DEF Init, TypeOK, Here, There, Never
<1>3. HandlersKnow
  BY DEF Init, HandlersKnow, Idle, UserSteps, RowSteps, PromotionSteps
<1> QED BY <1>2, <1>3 DEF Basic

\* Every variable stays in its range, and both address columns stay unique, for every
\* number of users, addresses and handlers (Accounts!TypeOK): a promotion that races a
\* registration or an add_email is refused by the column and nothing else.
THEOREM TypeCorrect == Spec => []TypeOK
<1>1. Init => Basic
  BY BasicInit
<1>2. Basic /\ [Next]_vars => Basic'
  BY BasicStep
<1>3. Basic => TypeOK
  BY DEF Basic
<1> QED BY <1>1, <1>2, <1>3, PTL DEF Spec

-----------------------------------------------------------------------------
(* Tokens *)

\* No token in use was generated later than the last one; a link that needs one has one.
TokensAreOld ==
  /\ \A u \in Users : Here(u) => users[u].pending <= lastToken /\ users[u].reset <= lastToken
  /\ \A x \in Rows : There(x) => extras[x].pending <= lastToken
  /\ \A l \in mail : l.token <= lastToken /\ (l.kind # "magic" => l.token # 0)
  /\ \A r \in Requests : At(r, "register") => req[r].read.pending <= lastToken

\* A token is pending for one user and resets the password of one user.
TokensAreOwn ==
  \A u, v \in Users : Here(u) /\ Here(v) =>
    /\ users[u].pending # 0 /\ users[u].pending = users[v].pending => u = v
    /\ users[u].reset # 0 /\ users[u].reset = users[v].reset => u = v

TokenInv == Basic /\ TokensAreOld /\ TokensAreOwn

\* What a row that is there after a step comes from.
LEMMA UserAfter ==
  ASSUME Basic, Moves, NEW u \in Users, Here(u)'
  PROVE /\ \/ users'[u].pending = 0 \/ Fresh(users'[u].pending)
           \/ Here(u) /\ users'[u].pending = users[u].pending
        /\ \/ users'[u].reset = 0 \/ Fresh(users'[u].reset)
           \/ Here(u) /\ users'[u].reset = users[u].reset
        /\ \/ /\ Here(u) /\ users'[u].email = users[u].email
              /\ users[u].verified => users'[u].verified
              /\ users'[u].verified => users[u].verified \/
                   \E r \in Requests : req[r].at \in {"confirm", "magic"} /\ req[r].user = u
           \/ \E r \in Requests : /\ At(r, "promote") /\ req[r].user = u /\ Here(u) /\ req'[r].at = "drop"
                                  /\ users'[u].email = req[r].new
           \/ ~Born(u) /\ (users'[u].verified => users'[u].email \in followed')
<1>1. UserMove(u) /\ users[u] \in User /\ users'[u] \in User
  BY DEF Moves, UsersMove, Basic, TypeOK
<1>2. CASE users'[u] = users[u]
  BY <1>2 DEF Here
<1>3. CASE InsertsUser(u)
  BY <1>3 DEF InsertsUser
<1>4. CASE UpdatesUser(u)
  BY <1>4 DEF UpdatesUser
<1>5. CASE PromotesUser(u)
  <2>1. PICK r \in Requests :
          /\ At(r, "promote") /\ req[r].user = u /\ req'[r].at = "drop"
          /\ users'[u] = [users[u] EXCEPT !.email = req[r].new, !.verified = TRUE]
    BY <1>5 DEF PromotesUser
  <2>2. Here(u) /\ users[u].row = "here"
    BY <1>5 DEF PromotesUser, Here
  <2>3. /\ users'[u].email = req[r].new /\ users'[u].pending = users[u].pending
        /\ users'[u].reset = users[u].reset
    BY <1>1, <2>1, <2>2 DEF User, Absent
  <2> QED BY <2>1, <2>2, <2>3
<1>6. CASE DeletesUser(u)
  BY <1>6 DEF DeletesUser, Deleted, Here
<1> QED BY <1>1, <1>2, <1>3, <1>4, <1>5, <1>6 DEF UserMove

LEMMA RowAfter ==
  ASSUME Basic, Moves, NEW x \in Rows, There(x)'
  PROVE /\ \/ extras'[x].pending = 0 \/ Fresh(extras'[x].pending)
           \/ There(x) /\ extras'[x].pending = extras[x].pending
        /\ \/ /\ There(x) /\ extras'[x].email = extras[x].email /\ extras'[x].owner = extras[x].owner
              /\ extras[x].verified => extras'[x].verified
              /\ extras'[x].verified =>
                   extras[x].verified \/ \E r \in Requests : At(r, "verify") /\ req[r].extra = x
           \/ /\ ~Inserted(x)
              /\ extras'[x].verified =>
                   \E r \in Requests : /\ At(r, "demote") /\ Here(req[r].user)
                                       /\ users[req[r].user].verified /\ extras'[x].email = req[r].old
<1>1. RowMove(x)
  BY DEF Moves, RowsMove
<1> QED BY <1>1 DEF RowMove, InsertsRow, UpdatesRow, DeletesRow, There, Deleted

LEMMA LastTokenMoves ==
  ASSUME Basic, Moves
  PROVE /\ lastToken \in Nat /\ lastToken' \in Nat /\ lastToken <= lastToken'
        /\ \A n : Fresh(n) => n = lastToken + 1 /\ n = lastToken' /\ n # 0 /\ ~(n <= lastToken)
<1>1. lastToken \in Nat /\ lastToken' \in Nat
  BY AccountsAssumption DEF Basic, TypeOK, Moves, MailMove, Tokens
<1> QED BY <1>1 DEF Moves, MailMove, Fresh

LEMMA StoredTokens ==
  ASSUME TypeOK
  PROVE /\ \A u \in Users : Here(u) => users[u].pending \in Nat /\ users[u].reset \in Nat
        /\ \A x \in Rows : There(x) => extras[x].pending \in Nat
        /\ \A l \in mail : l.token \in Nat
        /\ \A r \in Requests : At(r, "register") => req[r].read.pending \in Nat
<1>1. Tokens \subseteq Nat
  BY AccountsAssumption DEF Tokens
<1>2. \A r \in Requests : At(r, "register") => req[r].read \in HereRow
  BY HandlerFields DEF TypeOK, At
<1> QED BY <1>1, <1>2, UserColumns, ExtraColumns DEF TypeOK, Here, There, Links, HereRow, User, Absent

LEMMA ReadStays ==
  ASSUME Basic, Moves, NEW r \in Requests, req'[r].at = "register"
  PROVE req'[r] = req[r] \/ (Starts(r, req'[r]) /\ Here(req'[r].user) /\ req'[r].read = users[req'[r].user])
<1>1. HandlerMove(r) /\ req[r] \in Handler /\ req'[r] \in Handler
  BY DEF Moves, HandlersMove, Basic, TypeOK
<1>2. CASE Stays(r)
  BY <1>1, <1>2 DEF Stays, At, Handler, PromotionSteps
<1>3. CASE Ends(r) \/ Opens(r, req'[r]) \/ Continues(r, req'[r])
  BY <1>3 DEF Ends, Opens, Continues
<1>4. CASE Starts(r, req'[r])
  BY <1>4 DEF Starts
<1> QED BY <1>1, <1>2, <1>3, <1>4 DEF HandlerMove

LEMMA TokensStayOld ==
  ASSUME TokenInv, Moves, TypeOK'
  PROVE TokensAreOld'
<1>1. Basic /\ TokensAreOld
  BY DEF TokenInv
<1>2. ASSUME NEW u \in Users, Here(u)'
      PROVE users'[u].pending <= lastToken' /\ users'[u].reset <= lastToken'
  <2>1. Here(u) => /\ users[u].pending \in Nat /\ users[u].reset \in Nat
                   /\ users[u].pending <= lastToken /\ users[u].reset <= lastToken
    BY <1>1, StoredTokens DEF TokensAreOld, Basic
  <2> QED BY <1>1, <1>2, <2>1, UserAfter, LastTokenMoves
<1>3. ASSUME NEW x \in Rows, There(x)'
      PROVE extras'[x].pending <= lastToken'
  <2>1. There(x) => extras[x].pending \in Nat /\ extras[x].pending <= lastToken
    BY <1>1, StoredTokens DEF TokensAreOld, Basic
  <2> QED BY <1>1, <1>3, <2>1, RowAfter, LastTokenMoves
<1>4. ASSUME NEW r \in Requests, req'[r].at = "register"
      PROVE req'[r].read.pending <= lastToken'
  <2>1. req'[r].read.pending \in Nat /\ req'[r].user \in Users
    BY <1>4, HandlerFields DEF TypeOK, HereRow, User, Absent, Tokens, UserSteps
  <2>2. req'[r].read.pending <= lastToken
    BY <1>1, <1>4, <2>1, ReadStays DEF TokensAreOld, At
  <2> QED BY <1>1, <2>1, <2>2, LastTokenMoves
<1>5. ASSUME NEW l \in mail'
      PROVE l.token <= lastToken' /\ (l.kind # "magic" => l.token # 0)
  <2>1. l \in mail \/ NewLink(l)
    BY <1>5 DEF Moves, MailMove
  <2>2. CASE l \in mail
    BY <1>1, <2>2, StoredTokens, LastTokenMoves DEF TokensAreOld, Basic
  <2>3. CASE NewLink(l)
    <3>1. CASE Fresh(l.token)
      BY <1>1, <3>1, LastTokenMoves
    <3>2. CASE l.kind = "magic" /\ l.token = 0
      BY <1>1, <3>2, LastTokenMoves
    <3>3. CASE /\ lastToken' = lastToken
               /\ \E r \in Requests : At(r, "register") /\ l.token = req[r].read.pending /\ l.token # 0
      BY <1>1, <3>3 DEF TokensAreOld
    <3> QED BY <2>3, <3>1, <3>2, <3>3 DEF NewLink
  <2> QED BY <2>1, <2>2, <2>3
<1> QED BY <1>2, <1>3, <1>4, <1>5 DEF TokensAreOld, Here, There, At

LEMMA TokensStayOwn ==
  ASSUME TokenInv, Moves
  PROVE TokensAreOwn'
<1>1. Basic /\ TokensAreOld /\ TokensAreOwn
  BY DEF TokenInv
<1>2. SUFFICES ASSUME NEW u \in Users, NEW v \in Users, Here(u)', Here(v)',
                      \/ users'[u].pending # 0 /\ users'[u].pending = users'[v].pending
                      \/ users'[u].reset # 0 /\ users'[u].reset = users'[v].reset
               PROVE u = v
  BY DEF TokensAreOwn, Here
<1>3. \A w \in {u, v} : Here(w) => /\ users[w].pending \in Nat /\ users[w].reset \in Nat
                                   /\ users[w].pending <= lastToken /\ users[w].reset <= lastToken
  BY <1>1, StoredTokens DEF TokensAreOld, Basic
<1>4. users'[u] = users[u] \/ users'[v] = users[v] \/ u = v
  BY DEF Moves, UsersMove
<1>5. \A w \in {u, v} : users'[w] = users[w] =>
        Here(w) /\ ~Fresh(users'[w].pending) /\ ~Fresh(users'[w].reset)
  BY <1>1, <1>2, <1>3, LastTokenMoves DEF Here
<1>6. CASE users'[u].pending # 0 /\ users'[u].pending = users'[v].pending
  <2>1. CASE Fresh(users'[u].pending)
    BY <1>4, <1>5, <1>6, <2>1
  <2>2. CASE ~Fresh(users'[u].pending)
    BY <1>1, <1>2, <1>6, <2>2, UserAfter DEF TokensAreOwn
  <2> QED BY <2>1, <2>2
<1>7. CASE users'[u].reset # 0 /\ users'[u].reset = users'[v].reset
  <2>1. CASE Fresh(users'[u].reset)
    BY <1>4, <1>5, <1>7, <2>1
  <2>2. CASE ~Fresh(users'[u].reset)
    BY <1>1, <1>2, <1>7, <2>2, UserAfter DEF TokensAreOwn
  <2> QED BY <2>1, <2>2
<1> QED BY <1>2, <1>6, <1>7

-----------------------------------------------------------------------------
(* Addresses are verified by those who read their mail *)

Followed(u) == users[u].email \in followed

\* A link carries the address of the row its token is pending for, unless the user has
\* moved on to an address that is verified already.
LinksNameRows ==
  \A l \in mail :
    /\ l.kind = "register" =>
         \A u \in Users : Here(u) /\ users[u].pending = l.token =>
           users[u].email = l.to \/ Followed(u)
    /\ l.kind = "extra" =>
         \A x \in Rows : There(x) /\ extras[x].pending = l.token => extras[x].email = l.to

\* register_submit may send the token it read again: it is still nobody else's.
RegisterKnows(r) ==
  At(r, "register") =>
    /\ Here(req[r].user) => users[req[r].user].email = req[r].read.email \/ Followed(req[r].user)
    /\ \A u \in Users :
         Here(u) /\ req[r].read.pending # 0 /\ users[u].pending = req[r].read.pending
           => u = req[r].user

\* The handlers that are about to mark a row as verified know that somebody reads its mail.
VerifierKnows(r) ==
  /\ req[r].at \in {"confirm", "magic"} => (Here(req[r].user) => Followed(req[r].user))
  /\ At(r, "verify") => (There(req[r].extra) => extras[req[r].extra].email \in followed)

\* make_primary_email works on addresses that somebody reads, and on the rows it read.
PromotionKnows(r) ==
  req[r].at \in PromotionSteps =>
    /\ req[r].old \in followed /\ req[r].new \in followed
    /\ There(req[r].extra) =>
         Owns(req[r].user, req[r].extra) /\ extras[req[r].extra].email = req[r].new
    /\ At(r, "drop") /\ Here(req[r].user) => users[req[r].user].verified
    /\ At(r, "promote") =>
         /\ req[r].kept \in Rows /\ Inserted(req[r].kept)
         /\ There(req[r].kept) =>
              Owns(req[r].user, req[r].kept) /\ extras[req[r].kept].email = req[r].old

\* A user has signed in by answering for the address, or has promoted one that answered.
SessionsKnow == \A u \in sessions : Born(u) /\ (Here(u) => Followed(u))

FollowedInv ==
  /\ TokenInv
  /\ VerifiedWasFollowed
  /\ LinksNameRows
  /\ \A r \in Requests : RegisterKnows(r) /\ VerifierKnows(r) /\ PromotionKnows(r)
  /\ SessionsKnow

\* Where an address a user has after a step comes from.
LEMMA AddressAfter ==
  ASSUME FollowedInv, Moves, NEW u \in Users, Here(u)', Here(u)
  PROVE users'[u].email = users[u].email \/ users'[u].email \in followed'
<1>1. Basic
  BY DEF FollowedInv, TokenInv
<1>2. followed \subseteq followed'
  BY DEF Moves, HistoryMove
<1>3. ~(~Born(u))
  BY DEF Born, Here
<1>4. CASE \E r \in Requests : At(r, "promote") /\ users'[u].email = req[r].new
  BY <1>2, <1>4 DEF FollowedInv, PromotionKnows, At, PromotionSteps
<1> QED BY <1>1, <1>3, <1>4, UserAfter

LEMMA VerifiedStaysFollowed ==
  ASSUME FollowedInv, Moves
  PROVE VerifiedWasFollowed'
<1>1. Basic /\ followed \subseteq followed'
  BY DEF FollowedInv, TokenInv, Moves, HistoryMove
<1>2. ASSUME NEW u \in Users, Here(u)', users'[u].verified
      PROVE users'[u].email \in followed'
  <2>1. CASE Here(u) /\ users'[u].email = users[u].email /\ users[u].verified
    BY <1>1, <2>1 DEF FollowedInv, VerifiedWasFollowed
  <2>2. CASE /\ Here(u) /\ users'[u].email = users[u].email
             /\ \E r \in Requests : req[r].at \in {"confirm", "magic"} /\ req[r].user = u
    BY <1>1, <2>2 DEF FollowedInv, VerifierKnows, Followed
  <2>3. CASE \E r \in Requests : At(r, "promote") /\ users'[u].email = req[r].new
    BY <1>1, <2>3 DEF FollowedInv, PromotionKnows, At, PromotionSteps
  <2> QED BY <1>1, <1>2, <2>1, <2>2, <2>3, UserAfter
<1>3. ASSUME NEW x \in Rows, There(x)', extras'[x].verified
      PROVE extras'[x].email \in followed'
  <2>1. CASE There(x) /\ extras'[x].email = extras[x].email /\ extras[x].verified
    BY <1>1, <2>1 DEF FollowedInv, VerifiedWasFollowed
  <2>2. CASE /\ There(x) /\ extras'[x].email = extras[x].email
             /\ \E r \in Requests : At(r, "verify") /\ req[r].extra = x
    BY <1>1, <2>2 DEF FollowedInv, VerifierKnows
  <2>3. ASSUME NEW r \in Requests, At(r, "demote"), Here(req[r].user), users[req[r].user].verified,
               extras'[x].email = req[r].old
        PROVE extras'[x].email \in followed'
    BY <1>1, <2>3 DEF FollowedInv, PromotionKnows, At, PromotionSteps
  <2> QED BY <1>1, <1>3, <2>1, <2>2, <2>3, RowAfter
<1> QED BY <1>2, <1>3 DEF VerifiedWasFollowed, Here, There

LEMMA LinksStayNamed ==
  ASSUME FollowedInv, Moves
  PROVE LinksNameRows'
<1>1. Basic /\ TokensAreOld /\ followed \subseteq followed'
  BY DEF FollowedInv, TokenInv, Moves, HistoryMove
<1>2. \A u \in Users : Here(u) => users[u].pending \in Nat /\ users[u].pending <= lastToken
  BY <1>1, StoredTokens DEF TokensAreOld, Basic
<1>3. \A x \in Rows : There(x) => extras[x].pending \in Nat /\ extras[x].pending <= lastToken
  BY <1>1, StoredTokens DEF TokensAreOld, Basic
<1>4. ASSUME NEW l \in mail', l.kind = "register", NEW u \in Users, Here(u)', users'[u].pending = l.token
      PROVE users'[u].email = l.to \/ users'[u].email \in followed'
  <2>1. CASE l \in mail
    <3>1. l.token # 0 /\ l.token <= lastToken
      BY <1>1, <1>4, <2>1 DEF TokensAreOld
    <3>2. Here(u) /\ users[u].pending = l.token
      BY <1>1, <1>4, <3>1, UserAfter, LastTokenMoves
    <3>3. users[u].email = l.to \/ users[u].email \in followed
      BY <1>4, <2>1, <3>2 DEF FollowedInv, LinksNameRows, Followed
    <3> QED BY <1>1, <1>4, <3>2, <3>3, AddressAfter
  <2>2. ASSUME Fresh(l.token), NEW v \in Users, \A w \in Users \ {v} : users'[w] = users[w],
               \/ ~Born(v) /\ users'[v].email = l.to
               \/ /\ Here(v) /\ users'[v].email = users[v].email
                  /\ \E r \in Requests : At(r, "register") /\ req[r].user = v /\ l.to = req[r].read.email
        PROVE users'[u].email = l.to \/ users'[u].email \in followed'
    <3>1. u = v
      BY <1>1, <1>2, <1>4, <2>2, LastTokenMoves DEF Here
    <3>2. ASSUME Here(u), users'[u].email = users[u].email,
                 NEW r \in Requests, At(r, "register"), req[r].user = u, l.to = req[r].read.email
          PROVE users'[u].email = l.to \/ users'[u].email \in followed'
      BY <1>1, <3>2 DEF FollowedInv, RegisterKnows, Followed
    <3> QED BY <2>2, <3>1, <3>2
  <2>3. ASSUME users' = users, NEW r \in Requests, At(r, "register"), l.to = req[r].read.email,
               l.token = req[r].read.pending, l.token # 0
        PROVE users'[u].email = l.to \/ users'[u].email \in followed'
    BY <1>1, <1>4, <2>3 DEF FollowedInv, RegisterKnows, Followed, Here
  <2>4. l \in mail \/ NewLink(l)
    BY <1>4 DEF Moves, MailMove
  <2> QED BY <1>4, <2>1, <2>2, <2>3, <2>4 DEF NewLink
<1>5. ASSUME NEW l \in mail', l.kind = "extra", NEW x \in Rows, There(x)', extras'[x].pending = l.token
      PROVE extras'[x].email = l.to
  <2>1. CASE l \in mail
    <3>1. l.token # 0 /\ l.token <= lastToken
      BY <1>1, <1>5, <2>1 DEF TokensAreOld
    <3>2. There(x) /\ extras[x].pending = l.token
      BY <1>1, <1>5, <3>1, RowAfter, LastTokenMoves
    <3>3. extras[x].email = l.to
      BY <1>5, <2>1, <3>2 DEF FollowedInv, LinksNameRows
    <3>4. Inserted(x)
      BY <3>2 DEF Inserted, There
    <3> QED BY <1>1, <1>5, <3>3, <3>4, RowAfter
  <2>2. ASSUME Fresh(l.token), NEW y \in Rows, \A z \in Rows \ {y} : extras'[z] = extras[z],
               extras'[y].email = l.to
        PROVE extras'[x].email = l.to
    BY <1>1, <1>3, <1>5, <2>2, LastTokenMoves DEF There
  <2>3. l \in mail \/ NewLink(l)
    BY <1>5 DEF Moves, MailMove
  <2> QED BY <1>5, <2>1, <2>2, <2>3 DEF NewLink
<1> QED BY <1>4, <1>5 DEF LinksNameRows, Here, There, Followed

LEMMA RegisterStaysKnowing ==
  ASSUME FollowedInv, Moves, NEW r \in Requests, req'[r].at = "register"
  PROVE /\ users'[req'[r].user].row = "here" =>
             \/ users'[req'[r].user].email = req'[r].read.email
             \/ users'[req'[r].user].email \in followed'
        /\ \A u \in Users :
             Here(u)' /\ req'[r].read.pending # 0 /\ users'[u].pending = req'[r].read.pending
               => u = req'[r].user
<1>1. Basic /\ TokensAreOld /\ TokensAreOwn /\ followed \subseteq followed'
  BY DEF FollowedInv, TokenInv, Moves, HistoryMove
<1>2. CASE req'[r] = req[r]
  <2>1. At(r, "register") /\ req[r].user \in Users /\ Born(req[r].user)
    BY <1>1, <1>2, HandlerFields DEF Basic, TypeOK, HandlersKnow, At, UserSteps
  <2>2. users'[req[r].user].row = "here" =>
          users'[req[r].user].email = req[r].read.email \/ users'[req[r].user].email \in followed'
    <3> DEFINE u == req[r].user
    <3> SUFFICES ASSUME users'[u].row = "here"
                 PROVE users'[u].email = req[r].read.email \/ users'[u].email \in followed'
      OBVIOUS
    <3>1. PICK v \in Users : v = req[r].user
      BY <2>1
    <3>2. Here(v)' /\ Here(v)
      BY <1>1, <2>1, <3>1, RowsPersist DEF Here
    <3>3. users[v].email = req[r].read.email \/ users[v].email \in followed
      BY <2>1, <3>1, <3>2 DEF FollowedInv, RegisterKnows, Followed
    <3> QED BY <1>1, <3>1, <3>2, <3>3, AddressAfter
  <2>3. ASSUME NEW u \in Users, Here(u)', req[r].read.pending # 0, users'[u].pending = req[r].read.pending
        PROVE u = req[r].user
    <3>1. req[r].read.pending <= lastToken
      BY <1>1, <2>1 DEF TokensAreOld
    <3>2. Here(u) /\ users[u].pending = req[r].read.pending
      BY <1>1, <2>3, <3>1, UserAfter, LastTokenMoves
    <3> QED BY <2>1, <2>3, <3>2 DEF FollowedInv, RegisterKnows
  <2> QED BY <1>2, <2>2, <2>3
<1>3. CASE Starts(r, req'[r]) /\ Here(req'[r].user) /\ req'[r].read = users[req'[r].user]
  <2>1. users' = users
    BY <1>3 DEF Starts, Reads
  <2>2. req'[r].user \in Users
    BY HandlerFields DEF Moves, HandlersMove, UserSteps
  <2> QED BY <1>1, <1>3, <2>1, <2>2 DEF TokensAreOwn, Here
<1> QED BY <1>1, <1>2, <1>3, ReadStays

LEMMA StaysSame ==
  ASSUME Basic, NEW r \in Requests, Stays(r), req'[r].at # "remove"
  PROVE req'[r] = req[r]
<1>1. req[r] \in Handler
  BY DEF Basic, TypeOK
<1> QED BY <1>1 DEF Stays, At, Handler, PromotionSteps

LEMMA VerifierStaysKnowing ==
  ASSUME FollowedInv, Moves, NEW r \in Requests
  PROVE /\ req'[r].at \in {"confirm", "magic"} =>
             (users'[req'[r].user].row = "here" => users'[req'[r].user].email \in followed')
        /\ req'[r].at = "verify" =>
             (extras'[req'[r].extra].row = "here" => extras'[req'[r].extra].email \in followed')
<1>1. Basic /\ followed \subseteq followed' /\ HandlerMove(r) /\ req'[r] \in Handler
  BY DEF FollowedInv, TokenInv, Moves, HistoryMove, HandlersMove
<1>2. CASE Stays(r)
  <2>1. SUFFICES ASSUME req'[r].at \in {"confirm", "magic", "verify"}
                 PROVE /\ req'[r].at \in {"confirm", "magic"} =>
                            (users'[req'[r].user].row = "here" => users'[req'[r].user].email \in followed')
                       /\ req'[r].at = "verify" =>
                            (extras'[req'[r].extra].row = "here" => extras'[req'[r].extra].email \in followed')
    OBVIOUS
  <2>2. req'[r] = req[r]
    BY <1>1, <1>2, <2>1, StaysSame
  <2>3. ASSUME req[r].at \in {"confirm", "magic"}, users'[req[r].user].row = "here"
        PROVE users'[req[r].user].email \in followed'
    <3>1. PICK u \in Users : u = req[r].user /\ Born(u)
      BY <1>1, <2>2, <2>3, HandlerFields DEF Basic, HandlersKnow, UserSteps
    <3>2. Here(u)' /\ Here(u)
      BY <1>1, <2>3, <3>1, RowsPersist DEF Here
    <3>3. users[u].email \in followed
      BY <2>3, <3>1, <3>2 DEF FollowedInv, VerifierKnows, Followed
    <3> QED BY <1>1, <3>1, <3>2, <3>3, AddressAfter
  <2>4. ASSUME req[r].at = "verify", extras'[req[r].extra].row = "here"
        PROVE extras'[req[r].extra].email \in followed'
    <3>1. PICK x \in Rows : x = req[r].extra /\ Inserted(x)
      BY <1>1, <2>2, <2>4, HandlerFields DEF Basic, HandlersKnow, RowSteps
    <3>2. There(x)' /\ There(x)
      BY <1>1, <2>4, <3>1, RowsPersist DEF There
    <3>3. extras[x].email \in followed
      BY <2>4, <3>1, <3>2 DEF FollowedInv, VerifierKnows, At
    <3> QED BY <1>1, <3>1, <3>2, <3>3, RowAfter
  <2> QED BY <2>2, <2>3, <2>4
<1>3. CASE Ends(r)
  BY <1>3 DEF Ends
<1>4. CASE Starts(r, req'[r])
  <2>1. users' = users /\ extras' = extras
    BY <1>4 DEF Starts, Reads
  <2>2. ASSUME req'[r].at \in {"confirm", "magic"}
        PROVE users[req'[r].user].email \in followed'
    <3>1. PICK u \in Users : u = req'[r].user
      BY <1>1, <2>2, HandlerFields DEF UserSteps
    <3>2. Here(u) /\ \E l \in mail : /\ l.kind = "register" /\ users[u].pending = l.token
                                     /\ l.to \in followed'
      BY <1>4, <2>2, <3>1 DEF Starts
    <3> QED BY <1>1, <3>1, <3>2 DEF FollowedInv, LinksNameRows, Followed
  <2>3. ASSUME req'[r].at = "verify"
        PROVE extras[req'[r].extra].email \in followed'
    <3>1. PICK x \in Rows : x = req'[r].extra
      BY <1>1, <2>3, HandlerFields DEF RowSteps
    <3>2. There(x) /\ \E l \in mail : /\ l.kind = "extra" /\ extras[x].pending = l.token
                                      /\ l.to \in followed'
      BY <1>4, <2>3, <3>1 DEF Starts
    <3> QED BY <1>1, <3>1, <3>2 DEF FollowedInv, LinksNameRows
  <2> QED BY <2>1, <2>2, <2>3
<1>5. CASE Opens(r, req'[r])
  BY <1>5 DEF Opens
<1>6. CASE Continues(r, req'[r])
  BY <1>6 DEF Continues
<1> QED BY <1>1, <1>2, <1>3, <1>4, <1>5, <1>6 DEF HandlerMove

\* Whoever is signed in after a step and was not before has just been found verified, or
\* followed a magic link.
SignsIn(u) ==
  \/ Here(u) /\ users[u].verified /\ users' = users
  \/ \E r \in Requests : At(r, "magic") /\ req[r].user = u

LEMMA SessionsMove ==
  ASSUME Basic, Next, NEW u \in sessions', u \notin sessions
  PROVE SignsIn(u)
<1>1. CASE SignIn
  <2>1. CASE \E a \in Addresses : Register(a) \/ RequestMagicLink(a)
    BY <2>1 DEF Register, RequestMagicLink
  <2>2. CASE \E v \in Users : PendingExpires(v)
    BY <2>2 DEF PendingExpires
  <2>3. CASE \E v \in Users : Login(v)
    BY <2>3 DEF Login, tableVars, SignsIn
  <2>4. CASE \E l \in mail : MagicLinkExpires(l)
    BY <2>4 DEF MagicLinkExpires
  <2>5. ASSUME NEW r \in Requests,
               \/ \E v \in Users : RegisterAgain(r, v) \/ AskForReset(r, v)
               \/ \E l \in mail : FollowRegistration(r, l) \/ FollowMagicLink(r, l) \/ FollowReset(r, l)
        PROVE FALSE
    BY <2>5 DEF RegisterAgain, AskForReset, FollowRegistration, FollowMagicLink, FollowReset
  <2>6. ASSUME NEW r \in Requests,
               \/ Upgrade(r) \/ SendAgain(r) \/ Reregister(r) \/ ConfirmRegistration(r)
               \/ IssueReset(r) \/ SetPassword(r)
        PROVE FALSE
    BY <2>6 DEF Upgrade, SendAgain, Reregister, ConfirmRegistration, IssueReset, SetPassword
  <2>7. ASSUME NEW r \in Requests, VerifyByMagicLink(r) \/ VerifyByMagicLinkFails(r)
        PROVE SignsIn(u)
    BY <2>7 DEF VerifyByMagicLink, VerifyByMagicLinkFails, SignsIn
  <2> QED BY <1>1, <2>1, <2>2, <2>3, <2>4, <2>5, <2>6, <2>7 DEF SignIn
<1>2. CASE ManageEmails
  <2>1. CASE \E x \in Rows : TokenExpires(x)
    BY <2>1 DEF TokenExpires
  <2>2. ASSUME NEW r \in Requests,
               \/ \E v \in Users, a \in Addresses : AddEmail(r, v, a)
               \/ \E l \in mail : FollowVerification(r, l)
               \/ \E v \in Users, x \in Rows : AskForResend(r, v, x) \/ AskForRemoval(r, v, x) \/ MakePrimary(r, v, x)
               \/ \E v \in Users : DeleteAccount(r, v)
        PROVE FALSE
    BY <2>2 DEF AddEmail, FollowVerification, AskForResend, AskForRemoval, MakePrimary, DeleteAccount
  <2>3. ASSUME NEW r \in Requests,
               \/ InsertEmail(r) \/ Discard(r) \/ Verify(r) \/ Resend(r) \/ Remove(r)
               \/ Demote(r) \/ Promote(r) \/ DropPromoted(r)
        PROVE FALSE
    BY <2>3 DEF InsertEmail, Discard, Verify, Resend, Remove, Demote, Promote, DropPromoted
  <2>4. ASSUME NEW r \in Requests, SweepExtras(r) \/ SweepSessions(r) \/ SweepUser(r) \/ CallFails(r)
        PROVE FALSE
    BY <2>4 DEF SweepExtras, SweepSessions, SweepUser, CallFails
  <2> QED BY <1>2, <2>1, <2>2, <2>3, <2>4 DEF ManageEmails
<1> QED BY <1>1, <1>2 DEF Next

LEMMA SessionsStayKnowing ==
  ASSUME FollowedInv, Moves, Next, NEW u \in sessions'
  PROVE Born(u)' /\ (Here(u)' => users'[u].email \in followed')
<1>1. Basic /\ u \in Users
  BY DEF FollowedInv, TokenInv, Moves, HistoryMove
<1>2. CASE u \in sessions
  BY <1>1, <1>2, RowsPersist, AddressAfter DEF FollowedInv, SessionsKnow, Followed, Moves, HistoryMove
<1>3. CASE Here(u) /\ users[u].verified /\ users' = users
  <2>1. users[u].email \in followed /\ followed \subseteq followed'
    BY <1>1, <1>3 DEF FollowedInv, VerifiedWasFollowed, Moves, HistoryMove
  <2> QED BY <1>3, <2>1 DEF Born, Here
<1>4. ASSUME NEW r \in Requests, At(r, "magic"), req[r].user = u
      PROVE Born(u)' /\ (Here(u)' => users'[u].email \in followed')
  <2>1. Born(u)
    BY <1>1, <1>4 DEF Basic, HandlersKnow, At, UserSteps
  <2>2. Here(u) => Followed(u)
    BY <1>4 DEF FollowedInv, VerifierKnows, At
  <2> QED BY <1>1, <2>1, <2>2, RowsPersist, AddressAfter DEF Followed, Moves, HistoryMove
<1> QED BY <1>1, <1>2, <1>3, <1>4, SessionsMove DEF SignsIn

\* No handler takes the mark from a user that stays.
LEMMA UserStaysVerified ==
  ASSUME Basic, Moves, NEW u \in Users, Born(u), Here(u)'
  PROVE users[u].verified => users'[u].verified
<1>1. UserMove(u) /\ Here(u) /\ users[u] \in User
  BY RowsPersist DEF Moves, UsersMove, Basic, TypeOK
<1>2. CASE PromotesUser(u)
  BY <1>1, <1>2 DEF PromotesUser, Here, User, Absent
<1> QED BY <1>1, <1>2 DEF UserMove, InsertsUser, UpdatesUser, DeletesUser, Born, Here, Deleted

LEMMA RowKeeps ==
  ASSUME Basic, Moves, NEW x \in Rows, Inserted(x), There(x)'
  PROVE There(x) /\ extras'[x].email = extras[x].email /\ extras'[x].owner = extras[x].owner
  BY RowAfter, RowsPersist

LEMMA PromotionStaysKnowing ==
  ASSUME FollowedInv, Moves, NEW r \in Requests, req'[r].at \in PromotionSteps
  PROVE /\ req'[r].old \in followed' /\ req'[r].new \in followed'
        /\ \A x \in Rows : x = req'[r].extra /\ There(x)' =>
             extras'[x].owner = req'[r].user /\ extras'[x].email = req'[r].new
        /\ \A u \in Users : req'[r].at = "drop" /\ u = req'[r].user /\ Here(u)' => users'[u].verified
        /\ req'[r].at = "promote" =>
             /\ req'[r].kept \in Rows
             /\ \A x \in Rows : x = req'[r].kept =>
                  /\ Inserted(x)'
                  /\ There(x)' => extras'[x].owner = req'[r].user /\ extras'[x].email = req'[r].old
<1>1. Basic /\ followed \subseteq followed' /\ HandlerMove(r) /\ req[r] \in Handler /\ req'[r] \in Handler
  BY DEF FollowedInv, TokenInv, Basic, TypeOK, Moves, HistoryMove, HandlersMove
\* The row that is to be removed.
<1>2. ASSUME req[r].at \in PromotionSteps, NEW x \in Rows, x = req[r].extra, There(x)'
      PROVE /\ Owns(req[r].user, x) /\ extras'[x].owner = req[r].user
            /\ extras'[x].email = req[r].new
  <2>1. Inserted(x)
    BY <1>1, <1>2 DEF Basic, HandlersKnow, RowSteps
  <2> QED BY <1>1, <1>2, <2>1, RowKeeps DEF FollowedInv, PromotionKnows, Owns
<1>3. CASE Stays(r)
  <2>1. req'[r] = req[r]
    BY <1>1, <1>3, StaysSame DEF PromotionSteps
  <2>2. ASSUME At(r, "drop"), NEW u \in Users, u = req[r].user, Here(u)'
        PROVE users'[u].verified
    <3>1. Born(u)
      BY <1>1, <2>1, <2>2 DEF Basic, HandlersKnow, UserSteps
    <3>2. Here(u)
      BY <1>1, <2>2, <3>1, RowsPersist
    <3>3. users[u].verified
      BY <2>1, <2>2, <3>2 DEF FollowedInv, PromotionKnows
    <3> QED BY <1>1, <2>2, <3>1, <3>3, UserStaysVerified
  <2>3. ASSUME At(r, "promote"), NEW x \in Rows, x = req[r].kept
        PROVE Inserted(x)' /\ (There(x)' => extras'[x].owner = req[r].user /\ extras'[x].email = req[r].old)
    <3>1. Inserted(x) /\ (There(x) => Owns(req[r].user, x) /\ extras[x].email = req[r].old)
      BY <2>3 DEF FollowedInv, PromotionKnows, PromotionSteps, At
    <3> QED BY <1>1, <3>1, RowKeeps, RowsPersist DEF Owns
  <2>4. /\ req[r].old \in followed /\ req[r].new \in followed
        /\ At(r, "promote") => req[r].kept \in Rows
    BY <2>1 DEF FollowedInv, PromotionKnows
  <2> QED BY <1>1, <1>2, <2>1, <2>2, <2>3, <2>4 DEF At
<1>4. CASE Ends(r) \/ Opens(r, req'[r])
  BY <1>4 DEF Ends, Opens, PromotionSteps
<1>5. CASE Starts(r, req'[r])
  <2>1. /\ req'[r].at = "demote" /\ Owns(req'[r].user, req'[r].extra) /\ extras[req'[r].extra].verified
        /\ req'[r].old = users[req'[r].user].email /\ req'[r].new = extras[req'[r].extra].email
        /\ req'[r].user \in sessions /\ Here(req'[r].user)
        /\ users' = users /\ extras' = extras
    BY <1>5 DEF Starts, Reads, PromotionSteps
  <2>2. req'[r].extra \in Rows
    BY <1>1, HandlerFields DEF RowSteps
  <2>3. req'[r].new \in followed
    BY <2>1, <2>2 DEF FollowedInv, VerifiedWasFollowed, Owns
  <2>4. req'[r].old \in followed
    BY <2>1 DEF FollowedInv, SessionsKnow, Followed
  <2> QED BY <1>1, <2>1, <2>3, <2>4 DEF Owns
<1>6. CASE Continues(r, req'[r])
  <2>1. /\ req[r].at \in PromotionSteps /\ req'[r].user = req[r].user /\ req'[r].extra = req[r].extra
        /\ req'[r].old = req[r].old /\ req'[r].new = req[r].new
    BY <1>6 DEF Continues, At, PromotionSteps
  <2>2. req[r].old \in followed /\ req[r].new \in followed
    BY <2>1 DEF FollowedInv, PromotionKnows
  <2>3. CASE req'[r].at = "promote"
    <3>1. /\ req'[r].kept \in Rows /\ extras'[req'[r].kept].row = "here"
          /\ extras'[req'[r].kept].owner = req'[r].user /\ extras'[req'[r].kept].email = req'[r].old
      BY <1>6, <2>3 DEF Continues
    <3> QED BY <1>1, <1>2, <2>1, <2>2, <2>3, <3>1 DEF Inserted
  <2>4. CASE req'[r].at = "drop"
    <3>1. Here(req[r].user) /\ users'[req[r].user] = [users[req[r].user] EXCEPT !.email = req[r].new, !.verified = TRUE]
      BY <1>6, <2>1, <2>4 DEF Continues
    <3>2. users[req[r].user] \in User
      BY <1>1, <2>1, HandlerFields DEF Basic, TypeOK, UserSteps
    <3>3. users'[req[r].user].verified
      BY <3>1, <3>2 DEF Here, User, Absent
    <3> QED BY <1>1, <1>2, <2>1, <2>2, <2>4, <3>3
  <2> QED BY <1>6, <2>3, <2>4 DEF Continues, PromotionSteps
<1> QED BY <1>1, <1>3, <1>4, <1>5, <1>6 DEF HandlerMove

LEMMA FollowedStep ==
  ASSUME FollowedInv, [Next]_vars
  PROVE FollowedInv'
<1>1. CASE UNCHANGED vars
  BY <1>1 DEF vars, FollowedInv, TokenInv, Basic, TypeOK, HandlersKnow, TokensAreOld, TokensAreOwn,
     VerifiedWasFollowed, LinksNameRows, RegisterKnows, VerifierKnows, PromotionKnows, SessionsKnow,
     Followed, Owns, Here, There, Born, Inserted, At
<1>2. CASE Next
  <2>1. Basic /\ Basic'
    BY BasicStep DEF FollowedInv, TokenInv
  <2>2. Moves /\ TypeOK'
    BY <1>2, <2>1, NextMoves DEF Basic
  <2>3. TokenInv'
    BY <2>1, <2>2, TokensStayOld, TokensStayOwn DEF TokenInv, FollowedInv
  <2>4. ASSUME NEW r \in Requests
        PROVE RegisterKnows(r)' /\ VerifierKnows(r)' /\ PromotionKnows(r)'
    <3>1. RegisterKnows(r)'
      BY <2>2, RegisterStaysKnowing DEF RegisterKnows, At, Here, Followed
    <3>2. VerifierKnows(r)'
      BY <2>2, VerifierStaysKnowing DEF VerifierKnows, At, Here, There, Followed
    <3>3. PromotionKnows(r)'
      <4>1. req'[r].at \in PromotionSteps => req'[r].extra \in Rows /\ req'[r].user \in Users
        BY <2>2, HandlerFields DEF TypeOK, UserSteps, RowSteps
      <4> QED BY <2>2, <4>1, PromotionStaysKnowing DEF PromotionKnows, At, Here, There, Inserted, Owns
    <3> QED BY <3>1, <3>2, <3>3
  <2>5. SessionsKnow'
    BY <1>2, <2>2, SessionsStayKnowing DEF SessionsKnow, Followed, Born, Here
  <2> QED BY <2>2, <2>3, <2>4, <2>5, VerifiedStaysFollowed, LinksStayNamed DEF FollowedInv
<1> QED BY <1>1, <1>2

LEMMA TokenStep ==
  ASSUME TokenInv, [Next]_vars
  PROVE TokenInv'
<1>1. CASE UNCHANGED vars
  BY <1>1 DEF vars, TokenInv, Basic, TypeOK, HandlersKnow, TokensAreOld, TokensAreOwn,
     Here, There, Born, Inserted, At
<1>2. CASE Next
  <2>1. Basic /\ Basic' /\ Moves /\ TypeOK'
    BY <1>2, BasicStep, NextMoves DEF TokenInv, Basic
  <2> QED BY <2>1, TokensStayOld, TokensStayOwn DEF TokenInv
<1> QED BY <1>1, <1>2

LEMMA TokenInit ==
  ASSUME Init
  PROVE TokenInv
  BY BasicInit DEF TokenInv, TokensAreOld, TokensAreOwn, Init, Here, There, Never, At, Idle

LEMMA FollowedInit ==
  ASSUME Init
  PROVE FollowedInv
<1>1. VerifiedWasFollowed /\ LinksNameRows
  BY DEF Init, VerifiedWasFollowed, LinksNameRows, Here, There, Never
<1>2. \A r \in Requests : req[r].at = "idle"
  BY DEF Init, Idle
<1>3. SessionsKnow
  BY DEF Init, SessionsKnow
<1>4. \A r \in Requests : RegisterKnows(r) /\ VerifierKnows(r) /\ PromotionKnows(r)
  BY <1>2 DEF RegisterKnows, VerifierKnows, PromotionKnows, At, PromotionSteps
<1> QED BY <1>1, <1>3, <1>4, TokenInit DEF FollowedInv

\* Whoever a handler verifies, promotes, demotes or registers again, and however many do
\* so at the same time, an address is marked as verified only after somebody who reads its
\* mail followed a link to it.
THEOREM AddressesAreFollowed == Spec => []VerifiedWasFollowed
<1>1. Init => FollowedInv
  BY FollowedInit
<1>2. FollowedInv /\ [Next]_vars => FollowedInv'
  BY FollowedStep
<1>3. FollowedInv => VerifiedWasFollowed
  BY DEF FollowedInv
<1> QED BY <1>1, <1>2, <1>3, PTL DEF Spec

-----------------------------------------------------------------------------
(* A reset link sets one password *)

\* The confirmations that have found token n and not yet written the password.
Holders(n) == {r \in Requests : At(r, "setPassword") /\ req[r].token = n}

HoldersKnow ==
  \A r \in Requests : At(r, "setPassword") =>
    /\ req[r].token # 0 /\ req[r].token <= lastToken
    /\ \A u \in Users : Here(u) /\ users[u].reset = req[r].token => u = req[r].user

\* A token that was not generated yet, or that a user still has, has set no password.
UnusedTokens ==
  /\ \A n \in Tokens : ~(n <= lastToken) => resets[n] = 0
  /\ \A u \in Users : Here(u) /\ users[u].reset # 0 => resets[users[u].reset] = 0

UsesAreCounted == \A n \in Tokens : resets[n] + Cardinality(Holders(n)) <= 1 + overlaps[n]

ResetInv == TokenInv /\ HoldersKnow /\ UnusedTokens /\ UsesAreCounted

LEMMA HoldersFinite ==
  \A n : IsFiniteSet(Holders(n)) /\ Cardinality(Holders(n)) \in Nat
<1>1. ASSUME NEW n PROVE IsFiniteSet(Holders(n))
  BY AccountsAssumption, FS_Subset DEF Holders
<1> QED BY <1>1, FS_CardinalityType

\* A user's reset token after a step was there before, or is new.
LEMMA ResetAfter ==
  ASSUME TokenInv, Moves, NEW u \in Users, Here(u)', users'[u].reset # 0
  PROVE \/ users'[u].reset = lastToken + 1
        \/ Here(u) /\ users'[u].reset = users[u].reset
  BY UserAfter DEF TokenInv, Fresh

LEMMA ResetsUnchanged ==
  ASSUME ResetInv, Moves, resets' = resets, overlaps' = overlaps,
         \A r \in Requests : req'[r].at = "setPassword" => req'[r] = req[r]
  PROVE HoldersKnow' /\ UnusedTokens' /\ UsesAreCounted'
<1>1. TokenInv /\ Basic /\ TypeOK /\ lastToken \in Nat /\ lastToken' \in Nat /\ lastToken <= lastToken'
  BY LastTokenMoves DEF ResetInv, TokenInv, Basic
<1>2. Tokens \subseteq Nat
  BY AccountsAssumption DEF Tokens
<1>3. \A u \in Users : Here(u)' => users'[u].reset \in Tokens
  BY DEF Moves, UsersMove, Here, User, Absent
<1>4. HoldersKnow'
  <2>1. SUFFICES ASSUME NEW r \in Requests, req[r].at = "setPassword", req'[r] = req[r]
                 PROVE /\ req[r].token # 0 /\ req[r].token <= lastToken'
                       /\ \A u \in Users : Here(u)' /\ users'[u].reset = req[r].token => u = req[r].user
    BY DEF HoldersKnow, At, Here
  <2>2. req[r].token \in Nat /\ req[r].token # 0 /\ req[r].token <= lastToken
    BY <1>1, <1>2, <2>1, HandlerFields DEF TypeOK, ResetInv, HoldersKnow, At
  <2>3. ASSUME NEW u \in Users, Here(u)', users'[u].reset = req[r].token
        PROVE u = req[r].user
    BY <1>1, <2>1, <2>2, <2>3, ResetAfter DEF ResetInv, HoldersKnow, At
  <2> QED BY <1>1, <2>2, <2>3
<1>5. UnusedTokens'
  <2>1. \A n \in Tokens : ~(n <= lastToken') => resets'[n] = 0
    BY <1>1, <1>2 DEF ResetInv, UnusedTokens
  <2>2. ASSUME NEW u \in Users, Here(u)', users'[u].reset # 0
        PROVE resets'[users'[u].reset] = 0
    BY <1>1, <1>2, <1>3, <2>2, ResetAfter DEF ResetInv, UnusedTokens
  <2> QED BY <2>1, <2>2 DEF UnusedTokens, Here
<1>6. UsesAreCounted'
  <2>1. ASSUME NEW n \in Tokens
        PROVE resets[n] + Cardinality(Holders(n)') <= 1 + overlaps[n]
    <3>1. Holders(n)' \subseteq Holders(n)
      BY DEF Holders, At
    <3>2. Cardinality(Holders(n)') <= Cardinality(Holders(n)) /\ Cardinality(Holders(n)') \in Nat
      BY <3>1, HoldersFinite, FS_Subset, FS_CardinalityType
    <3> QED BY <1>1, <3>2, HoldersFinite DEF ResetInv, UsesAreCounted, TypeOK
  <2> QED BY <2>1 DEF UsesAreCounted
<1> QED BY <1>4, <1>5, <1>6

LEMMA ConfirmationStarts ==
  ASSUME ResetInv, NEW r \in Requests,
         resets' = resets, Reads, req'[r].at = "setPassword", Here(req'[r].user),
         At(r, "idle"), \A s \in Requests \ {r} : req'[s] = req[s],
         users[req'[r].user].reset = req'[r].token,
         req'[r].user \in Users, req'[r].token \in Tokens,
         \E l \in mail : l.kind = "reset" /\ l.token = req'[r].token,
         overlaps' = IF \E s \in Requests : At(s, "setPassword") /\ req[s].token = req'[r].token
                     THEN [overlaps EXCEPT ![req'[r].token] = @ + 1] ELSE overlaps
  PROVE HoldersKnow' /\ UnusedTokens' /\ UsesAreCounted'
<1>1. TypeOK /\ TokensAreOld /\ TokensAreOwn
  BY DEF ResetInv, TokenInv, Basic
<1>2. PICK n \in Tokens : n = req'[r].token
  OBVIOUS
<1>3. n # 0 /\ n <= lastToken
  BY <1>1, <1>2 DEF TokensAreOld
<1>4. HoldersKnow'
  <2>1. ASSUME NEW u \in Users, Here(u), users[u].reset = n
        PROVE u = req'[r].user
    BY <1>1, <1>2, <1>3, <2>1 DEF TokensAreOwn
  <2> QED BY <1>2, <1>3, <2>1 DEF ResetInv, HoldersKnow, At, Here, Reads
<1>5. UnusedTokens'
  BY DEF ResetInv, UnusedTokens, Reads, Here
<1>6. resets[n] = 0
  BY <1>2, <1>3 DEF ResetInv, UnusedTokens
<1>7. ASSUME NEW m \in Tokens
      PROVE resets[m] + Cardinality(Holders(m)') <= 1 + overlaps'[m]
  <2>1. overlaps[m] \in Nat /\ resets[m] \in Nat /\ Cardinality(Holders(m)) \in Nat
    BY <1>1, HoldersFinite DEF TypeOK
  <2>2. CASE m # n
    <3>1. Holders(m)' = Holders(m)
      BY <1>2, <2>2 DEF Holders, At
    <3>2. overlaps'[m] = overlaps[m]
      BY <1>1, <1>2, <2>2 DEF TypeOK
    <3> QED BY <3>1, <3>2 DEF ResetInv, UsesAreCounted
  <2>3. CASE m = n
    <3>1. Holders(n)' = Holders(n) \cup {r} /\ r \notin Holders(n)
      BY <1>2 DEF Holders, At
    <3>2. Cardinality(Holders(n)') = Cardinality(Holders(n)) + 1
      BY <3>1, HoldersFinite, FS_AddElement
    <3>3. CASE Holders(n) = {}
      <4>1. overlaps' = overlaps
        BY <1>2, <3>3 DEF Holders
      <4>2. Cardinality(Holders(n)) = 0
        BY <3>3, FS_EmptySet
      <4> QED BY <1>6, <2>1, <2>3, <3>2, <4>1, <4>2
    <3>4. CASE Holders(n) # {}
      <4>1. \E s \in Requests : At(s, "setPassword") /\ req[s].token = req'[r].token
        BY <1>2, <3>4 DEF Holders
      <4>2. overlaps'[n] = overlaps[n] + 1
        BY <1>1, <1>2, <4>1 DEF TypeOK
      <4>3. resets[n] + Cardinality(Holders(n)) <= 1 + overlaps[n]
        BY DEF ResetInv, UsesAreCounted
      <4> QED BY <2>1, <2>3, <3>2, <4>2, <4>3
    <3> QED BY <3>3, <3>4
  <2> QED BY <2>2, <2>3
<1> QED BY <1>4, <1>5, <1>7 DEF UsesAreCounted

LEMMA ConfirmationEnds ==
  ASSUME ResetInv, NEW r \in Requests,
         At(r, "setPassword"), overlaps' = overlaps, lastToken' = lastToken,
         resets' = [resets EXCEPT ![req[r].token] = @ + 1],
         req'[r].at = "idle", \A s \in Requests \ {r} : req'[s] = req[s],
         users' = IF Here(req[r].user) THEN [users EXCEPT ![req[r].user].password = TRUE,
                                                          ![req[r].user].reset = 0] ELSE users
  PROVE HoldersKnow' /\ UnusedTokens' /\ UsesAreCounted'
<1>1. TypeOK
  BY DEF ResetInv, TokenInv, Basic
<1>2. req[r].user \in Users /\ req[r].token \in Tokens
  BY <1>1, HandlerFields DEF TypeOK, At, UserSteps
<1>3. PICK n \in Tokens : n = req[r].token
  BY <1>2
<1>4. n # 0 /\ n <= lastToken /\ \A u \in Users : Here(u) /\ users[u].reset = n => u = req[r].user
  BY <1>3 DEF ResetInv, HoldersKnow
<1>5. ASSUME NEW u \in Users, Here(u)'
      PROVE Here(u) /\ (users'[u].reset = 0 \/ (users'[u].reset = users[u].reset /\ u # req[r].user))
  <2>1. CASE Here(req[r].user) /\ u = req[r].user
    <3>1. users'[u] = [users[u] EXCEPT !.password = TRUE, !.reset = 0]
      BY <1>1, <1>2, <2>1 DEF TypeOK
    <3>2. users[u] \in User /\ users[u].row = "here"
      BY <1>1, <2>1 DEF TypeOK, Here
    <3> QED BY <2>1, <3>1, <3>2 DEF User, Absent
  <2>2. CASE Here(req[r].user) /\ u # req[r].user
    BY <1>1, <1>2, <1>5, <2>2 DEF TypeOK, Here
  <2>3. CASE ~Here(req[r].user)
    BY <1>5, <2>3 DEF Here
  <2> QED BY <2>1, <2>2, <2>3
<1>6. HoldersKnow'
  <2>1. ASSUME NEW s \in Requests, req'[s].at = "setPassword"
        PROVE /\ req'[s].token # 0 /\ req'[s].token <= lastToken'
              /\ \A u \in Users : Here(u)' /\ users'[u].reset = req'[s].token => u = req'[s].user
    <3>1. req'[s] = req[s] /\ At(s, "setPassword")
      BY <2>1 DEF At
    <3>2. req[s].token # 0 /\ req[s].token <= lastToken
          /\ \A u \in Users : Here(u) /\ users[u].reset = req[s].token => u = req[s].user
      BY <3>1 DEF ResetInv, HoldersKnow
    <3> QED BY <1>5, <3>1, <3>2
  <2> QED BY <2>1 DEF HoldersKnow, At, Here
<1>7. \A m \in Tokens : resets'[m] = IF m = n THEN resets[m] + 1 ELSE resets[m]
  BY <1>1, <1>3 DEF TypeOK
<1>8. UnusedTokens'
  <2>1. ASSUME NEW u \in Users, Here(u)', users'[u].reset # 0
        PROVE resets'[users'[u].reset] = 0
    <3>1. Here(u) /\ users'[u].reset = users[u].reset /\ users[u].reset # n
      BY <1>4, <1>5, <2>1
    <3>2. users[u].reset \in Tokens
      BY <1>1, <3>1 DEF TypeOK, Here, User, Absent
    <3> QED BY <1>7, <2>1, <3>1, <3>2 DEF ResetInv, UnusedTokens
  <2>2. \A m \in Tokens : ~(m <= lastToken') => resets'[m] = 0
    BY <1>4, <1>7 DEF ResetInv, UnusedTokens
  <2> QED BY <2>1, <2>2 DEF UnusedTokens, Here
<1>9. ASSUME NEW m \in Tokens
      PROVE resets'[m] + Cardinality(Holders(m)') <= 1 + overlaps'[m]
  <2>1. overlaps[m] \in Nat /\ resets[m] \in Nat /\ Cardinality(Holders(m)) \in Nat
        /\ resets[m] + Cardinality(Holders(m)) <= 1 + overlaps[m]
    BY <1>1, HoldersFinite DEF TypeOK, ResetInv, UsesAreCounted
  <2>2. CASE m # n
    <3>1. Holders(m)' = Holders(m)
      BY <1>3, <2>2 DEF Holders, At
    <3> QED BY <1>7, <2>1, <2>2, <3>1
  <2>3. CASE m = n
    <3>1. Holders(n)' = Holders(n) \ {r} /\ r \in Holders(n)
      BY <1>3 DEF Holders, At
    <3>2. Cardinality(Holders(n)') = Cardinality(Holders(n)) - 1
      BY <3>1, HoldersFinite, FS_RemoveElement
    <3> QED BY <1>7, <2>1, <2>3, <3>2
  <2> QED BY <2>2, <2>3
<1> QED BY <1>6, <1>8, <1>9 DEF UsesAreCounted

LEMMA ResetStep ==
  ASSUME ResetInv, [Next]_vars
  PROVE ResetInv'
<1>1. TokenInv /\ TokenInv'
  BY TokenStep DEF ResetInv
<1>2. CASE UNCHANGED vars
  BY <1>1, <1>2 DEF vars, ResetInv, HoldersKnow, UnusedTokens, UsesAreCounted, Holders, At, Here
<1>3. CASE Next
  <2>1. Moves /\ Basic
    BY <1>1, <1>3, NextMoves DEF TokenInv
  <2>2. ResetsMove /\ \A r \in Requests : req'[r].at = "setPassword" =>
                                              req'[r].user \in Users /\ req'[r].token \in Tokens
    BY <2>1, HandlerFields DEF Moves, HistoryMove, HandlersMove, UserSteps
  <2> QED BY <1>1, <2>1, <2>2, ResetsUnchanged, ConfirmationStarts, ConfirmationEnds DEF ResetsMove, ResetInv
<1> QED BY <1>2, <1>3

LEMMA ResetInit ==
  ASSUME Init
  PROVE ResetInv
<1>1. TokenInv
  BY TokenInit
<1>2. HoldersKnow /\ UnusedTokens
  BY <1>1 DEF Init, HoldersKnow, UnusedTokens, At, Idle, Here, Never
<1>3. \A n \in Tokens : Holders(n) = {} /\ resets[n] = 0 /\ overlaps[n] = 0
  BY DEF Init, Holders, At, Idle
<1>4. UsesAreCounted
  BY <1>3, FS_EmptySet DEF UsesAreCounted
<1> QED BY <1>1, <1>2, <1>4 DEF ResetInv

\* A reset link sets one password for each time that confirmations of it overlap, and one
\* besides (oauth2/password_reset.rs apply_password_reset), however many links are asked
\* for and followed, and whoever promotes addresses meanwhile.
THEOREM LinksAreSingleUse == Spec => []ResetsAreSingleUse
<1>1. Init => ResetInv
  BY ResetInit
<1>2. ResetInv /\ [Next]_vars => ResetInv'
  BY ResetStep
<1>3. ResetInv => ResetsAreSingleUse
  <2> SUFFICES ASSUME ResetInv, NEW n \in Tokens
               PROVE  resets[n] <= 1 + overlaps[n]
    BY DEF ResetsAreSingleUse
  <2>1. resets[n] \in Nat /\ overlaps[n] \in Nat /\ Cardinality(Holders(n)) \in Nat
    BY HoldersFinite DEF ResetInv, TokenInv, Basic, TypeOK
  <2> QED BY <2>1 DEF ResetInv, UsesAreCounted
<1> QED BY <1>1, <1>2, <1>3, PTL DEF Spec

-----------------------------------------------------------------------------
(* What a promotion keeps *)

LEMMA KnownGrows ==
  ASSUME NEW u \in Users,
         Here(u) => \/ Here(u)' /\ users'[u].email = users[u].email
                    \/ \E y \in Rows : There(y)' /\ extras'[y].owner = u /\ extras'[y].email = users[u].email,
         \A x \in Rows : Owns(u, x) =>
           \/ Here(u)' /\ users'[u].email = extras[x].email
           \/ \E y \in Rows : There(y)' /\ extras'[y].owner = u /\ extras'[y].email = extras[x].email
  PROVE Known(u) \subseteq Known(u)'
  BY DEF Known, Owns, Here, There

LEMMA VerifiedGrows ==
  ASSUME NEW u \in Users,
         Here(u) /\ users[u].verified =>
           \/ Here(u)' /\ users'[u].verified /\ users'[u].email = users[u].email
           \/ \E y \in Rows : /\ There(y)' /\ extras'[y].owner = u /\ extras'[y].verified
                              /\ extras'[y].email = users[u].email,
         \A x \in Rows : Owns(u, x) /\ extras[x].verified =>
           \/ Here(u)' /\ users'[u].verified /\ users'[u].email = extras[x].email
           \/ \E y \in Rows : /\ There(y)' /\ extras'[y].owner = u /\ extras'[y].verified
                              /\ extras'[y].email = extras[x].email
  PROVE Verified(u) \subseteq Verified(u)'
  BY DEF Verified, Owns, Here, There

LEMMA PromotionStep ==
  ASSUME FollowedInv, Moves, NEW r \in Requests, NEW u \in Users, Promotes(r, u)
  PROVE /\ Known(u) \subseteq Known(u)'
        /\ KeptAsVerified(r) => Verified(u) \subseteq Verified(u)'
<1>1. Basic /\ HandlerMove(r) /\ req[r] \in Handler /\ req'[r] \in Handler /\ users[u] \in User /\ Here(u)
  BY DEF FollowedInv, TokenInv, Basic, TypeOK, Moves, HandlersMove, Promotes
<1>2. ASSUME users' = users, \A x \in Rows : There(x) => extras'[x] = extras[x]
      PROVE Known(u) \subseteq Known(u)' /\ Verified(u) \subseteq Verified(u)'
  BY <1>2, KnownGrows, VerifiedGrows DEF Owns, Here, There
<1>3. CASE Stays(r)
  <2>1. At(r, "remove")
    BY <1>3 DEF Stays, Promotes
  <2> QED BY <2>1 DEF Promotes, At, PromotionSteps
<1>4. CASE Ends(r)
  <2>1. /\ req[r].at \in PromotionSteps /\ req[r].user = u /\ users' = users
        /\ extras' = extras \/ (At(r, "drop") /\ DeleteExtra(req[r].extra))
    BY <1>4 DEF Ends, Promotes, At, PromotionSteps
  <2>2. CASE extras' = extras
    BY <1>2, <2>1, <2>2
  <2>3. CASE At(r, "drop") /\ DeleteExtra(req[r].extra)
    <3>1. users[u].email = req[r].new /\ users[u].verified
      BY <1>1, <2>1, <2>3 DEF Promotes, FollowedInv, PromotionKnows
    <3>2. ASSUME NEW x \in Rows, There(x), extras'[x] # extras[x]
          PROVE extras[x].email = users[u].email
      <4>1. x = req[r].extra
        BY <1>1, <2>3, <3>2 DEF DeleteExtra, Basic, TypeOK
      <4> QED BY <2>1, <3>1, <3>2, <4>1 DEF FollowedInv, PromotionKnows
    <3> QED BY <1>1, <2>1, <3>1, <3>2, KnownGrows, VerifiedGrows DEF Owns, Here, There
  <2> QED BY <2>1, <2>2, <2>3
<1>5. CASE Starts(r, req'[r])
  BY <1>2, <1>5 DEF Starts, Reads
<1>6. CASE Opens(r, req'[r])
  BY <1>6 DEF Opens, Promotes, At, PromotionSteps
<1>7. CASE Continues(r, req'[r])
  <2>1. req[r].at \in PromotionSteps /\ req[r].user = u
    BY <1>7 DEF Continues, Promotes, At
  <2>2. CASE At(r, "demote")
    <3>1. users' = users /\ \A x \in Rows : There(x) => extras'[x] = extras[x]
      BY <1>7, <2>2 DEF Continues, At
    <3> QED BY <1>2, <3>1
  <2>3. CASE At(r, "promote")
    <3>1. extras' = extras /\ users'[u] = [users[u] EXCEPT !.email = req[r].new, !.verified = TRUE]
      BY <1>7, <2>1, <2>3 DEF Continues, At
    <3>2. Here(u)' /\ users'[u].verified
      BY <1>1, <3>1 DEF Here, User, Absent
    <3>3. PICK y \in Rows : /\ y = req[r].kept /\ There(y) /\ extras[y].owner = u
                            /\ extras[y].email = users[u].email
      BY <1>1, <2>1, <2>3 DEF Promotes, FollowedInv, PromotionKnows, Owns, At
    <3>4. There(y)' /\ extras'[y].owner = u /\ extras'[y].email = users[u].email
      BY <3>1, <3>3 DEF There
    <3>5. Known(u) \subseteq Known(u)'
      BY <3>1, <3>4, KnownGrows DEF Owns, There
    <3>6. ASSUME KeptAsVerified(r)
          PROVE Verified(u) \subseteq Verified(u)'
      <4>1. users[u].verified => extras'[y].verified
        BY <2>1, <2>3, <3>1, <3>3, <3>6 DEF KeptAsVerified
      <4> QED BY <3>1, <3>4, <4>1, VerifiedGrows DEF Owns, There
    <3> QED BY <3>5, <3>6
  <2>4. CASE At(r, "drop")
    BY <1>7, <2>4 DEF Continues, At
  <2> QED BY <2>1, <2>2, <2>3, <2>4 DEF PromotionSteps, At
<1> QED BY <1>1, <1>3, <1>4, <1>5, <1>6, <1>7 DEF HandlerMove

\* No step of make_primary_email takes an address from a user that exists, nor a verified
\* one its mark, wherever a database call fails and whatever other handlers do between its
\* steps, unless it writes over the primary address that another promotion has written.
THEOREM PromotionsKeepAddresses == Spec => PromotionKeepsAddresses
<1>1. Init => FollowedInv
  BY FollowedInit
<1>2. FollowedInv /\ [Next]_vars => FollowedInv'
  BY FollowedStep
<1>3. FollowedInv /\ [Next]_vars =>
        [\A r \in Requests, u \in Users : Promotes(r, u) =>
           /\ Known(u) \subseteq Known(u)'
           /\ KeptAsVerified(r) => Verified(u) \subseteq Verified(u)']_vars
  BY NextMoves, PromotionStep DEF FollowedInv, TokenInv
<1> QED BY <1>1, <1>2, <1>3, PTL DEF Spec, PromotionKeepsAddresses

-----------------------------------------------------------------------------
(* What a removal leaves *)

\* A handler that removes a row removes one of its user's.
RemoversOwn ==
  \A r \in Requests : req[r].at \in PromotionSteps \cup {"remove"} =>
    (There(req[r].extra) => Owns(req[r].user, req[r].extra))

\* A promotion that is about to remove the row has left the user verified.
DroppersVerified == \A r \in Requests : At(r, "drop") /\ Here(req[r].user) => users[req[r].user].verified

\* What a removal counted is still there, unless it knows better.
RemovalKnows(r) ==
  At(r, "remove") /\ ~req[r].beside =>
    /\ \A s \in Requests : Removing(s, req[r].user) => s = r
    /\ Here(req[r].user) /\ There(req[r].extra) =>
         users[req[r].user].verified \/ VerifiedBeside(req[r].user, req[r].extra)

RemovalInv == Basic /\ RemoversOwn /\ DroppersVerified /\ \A r \in Requests : RemovalKnows(r)

LEMMA StaysKeeps ==
  ASSUME Basic, NEW r \in Requests, Stays(r)
  PROVE /\ req'[r].at = req[r].at
        /\ req[r].at \in UserSteps => req'[r].user = req[r].user
        /\ req[r].at \in RowSteps => req'[r].extra = req[r].extra
        /\ At(r, "remove") /\ ~req'[r].beside => req'[r] = req[r]
<1>1. req[r] \in Handler
  BY DEF Basic, TypeOK
<1> QED BY <1>1 DEF Stays, At, Handler, PromotionSteps, UserSteps, RowSteps

LEMMA RemoversStayOwners ==
  ASSUME RemovalInv, Moves, NEW r \in Requests, req'[r].at \in PromotionSteps \cup {"remove"},
         NEW x \in Rows, x = req'[r].extra, There(x)'
  PROVE extras'[x].owner = req'[r].user
<1>1. Basic /\ HandlerMove(r)
  BY DEF RemovalInv, Moves, HandlersMove
<1>2. ASSUME req[r].at \in PromotionSteps \cup {"remove"}, req'[r].user = req[r].user, req'[r].extra = req[r].extra
      PROVE extras'[x].owner = req'[r].user
  <2>1. Inserted(x)
    BY <1>1, <1>2 DEF Basic, HandlersKnow, RowSteps
  <2> QED BY <1>1, <1>2, <2>1, RowKeeps DEF RemovalInv, RemoversOwn, Owns
<1>3. CASE Stays(r)
  BY <1>1, <1>2, <1>3, StaysKeeps DEF UserSteps, RowSteps
<1>4. CASE Ends(r) \/ Opens(r, req'[r])
  BY <1>4 DEF Ends, Opens, PromotionSteps
<1>5. CASE Starts(r, req'[r])
  BY <1>5 DEF Starts, Reads, PromotionSteps, Owns
<1>6. CASE Continues(r, req'[r])
  BY <1>2, <1>6 DEF Continues, At, PromotionSteps
<1> QED BY <1>1, <1>3, <1>4, <1>5, <1>6 DEF HandlerMove

LEMMA DroppersStayVerified ==
  ASSUME RemovalInv, Moves, NEW r \in Requests, req'[r].at = "drop",
         NEW u \in Users, u = req'[r].user, Here(u)'
  PROVE users'[u].verified
<1>1. Basic /\ HandlerMove(r) /\ users[u] \in User
  BY DEF RemovalInv, Moves, HandlersMove, Basic, TypeOK
<1>2. CASE Stays(r)
  <2>1. At(r, "drop") /\ req[r].user = u
    BY <1>1, <1>2, StaysKeeps DEF UserSteps, PromotionSteps, At
  <2>2. Born(u)
    BY <1>1, <2>1 DEF Basic, HandlersKnow, UserSteps, PromotionSteps, At
  <2> QED BY <1>1, <2>1, <2>2, UserStaysVerified, RowsPersist DEF RemovalInv, DroppersVerified
<1>3. CASE Ends(r) \/ Opens(r, req'[r]) \/ Starts(r, req'[r])
  BY <1>3 DEF Ends, Opens, Starts
<1>4. CASE Continues(r, req'[r])
  <2>1. Here(u) /\ users'[u] = [users[u] EXCEPT !.email = req'[r].new, !.verified = TRUE]
    BY <1>4 DEF Continues
  <2> QED BY <1>1, <2>1 DEF Here, User, Absent
<1> QED BY <1>1, <1>2, <1>3, <1>4 DEF HandlerMove

\* A verified row of the user whose row x is being removed outlives a step, unless the
\* removal learns of its end, or the user is verified, or x goes with it.
LEMMA BesideStays ==
  ASSUME RemovalInv, Moves, NEW r \in Requests, At(r, "remove"), req'[r] = req[r], ~req[r].beside,
         NEW u \in Users, u = req[r].user, NEW x \in Rows, x = req[r].extra,
         Here(u)', There(x)', NEW y \in Rows, y # x, Owns(u, y), extras[y].verified
  PROVE \/ users'[u].verified
        \/ There(y)' /\ extras'[y].owner = u /\ extras'[y].verified
<1>1. Basic /\ RowMove(y) /\ Born(u) /\ Inserted(x) /\ There(y)
  BY DEF RemovalInv, Moves, RowsMove, Basic, HandlersKnow, At, UserSteps, RowSteps, Owns
<1>2. There(x) /\ Owns(u, x)
  BY <1>1, RowsPersist DEF RemovalInv, RemoversOwn, At
<1>3. CASE extras'[y] = extras[y] \/ UpdatesRow(y) \/ InsertsRow(y)
  BY <1>1, <1>3 DEF UpdatesRow, InsertsRow, Owns, There, Inserted
<1>4. ASSUME NEW q \in Requests, At(q, "discard"), req[q].extra = y,
             \A s \in Requests : Removing(s, extras[y].owner) => req'[s].beside
      PROVE FALSE
  BY <1>4 DEF Owns, Removing
<1>5. ASSUME NEW q \in Requests, At(q, "remove"), req[q].extra = y, req'[q].at = "idle"
      PROVE FALSE
  <2>1. Owns(req[q].user, y)
    BY <1>1, <1>5 DEF RemovalInv, RemoversOwn, At
  <2>2. Removing(q, u)
    BY <1>5, <2>1 DEF Owns, Removing
  <2> QED BY <1>5, <2>2 DEF RemovalInv, RemovalKnows, At
<1>6. ASSUME NEW q \in Requests, At(q, "drop"), req[q].extra = y
      PROVE users'[u].verified
  <2>1. Owns(req[q].user, y)
    BY <1>1, <1>6 DEF RemovalInv, RemoversOwn, At, PromotionSteps
  <2>2. req[q].user = u
    BY <2>1 DEF Owns
  <2>3. Here(u)
    BY <1>1, RowsPersist
  <2> QED BY <1>1, <1>6, <2>2, <2>3, UserStaysVerified DEF RemovalInv, DroppersVerified
<1>7. ASSUME NEW q \in Requests, Owns(req[q].user, y), \A z \in Rows : Owns(req[q].user, z) => extras'[z] = Deleted
      PROVE FALSE
  <2>1. extras'[x] = Deleted
    BY <1>2, <1>7 DEF Owns
  <2> QED BY <2>1 DEF There, Deleted
<1>8. CASE DeletesRow(y)
  BY <1>1, <1>4, <1>5, <1>6, <1>7, <1>8 DEF DeletesRow, At
<1> QED BY <1>1, <1>3, <1>8 DEF RowMove

LEMMA RemovalStaysKnowing ==
  ASSUME RemovalInv, Moves, NEW r \in Requests, req'[r].at = "remove", ~req'[r].beside,
         NEW u \in Users, u = req'[r].user, NEW x \in Rows, x = req'[r].extra
  PROVE /\ \A s \in Requests : req'[s].at = "remove" /\ req'[s].user = u => s = r
        /\ Here(u)' /\ There(x)' =>
             \/ users'[u].verified
             \/ \E y \in Rows \ {x} : There(y)' /\ extras'[y].owner = u /\ extras'[y].verified
<1>1. Basic /\ \A s \in Requests : HandlerMove(s)
  BY DEF RemovalInv, Moves, HandlersMove
\* The other removals that run after the step.
<1>2. ASSUME NEW s \in Requests, req'[s].at = "remove"
      PROVE \/ Stays(s) /\ At(s, "remove") /\ req[s].user = req'[s].user
            \/ /\ At(s, "idle") /\ Starts(s, req'[s])
               /\ \A q \in Requests \ {s} : Removing(q, req'[s].user) => req'[q].beside
  <2>1. CASE Stays(s)
    BY <1>1, <1>2, <2>1, StaysKeeps DEF At, UserSteps
  <2>2. CASE Ends(s) \/ Opens(s, req'[s]) \/ Continues(s, req'[s])
    BY <1>2, <2>2 DEF Ends, Opens, Continues
  <2>3. CASE Starts(s, req'[s])
    BY <1>2, <2>3 DEF Starts
  <2> QED BY <1>1, <2>1, <2>2, <2>3 DEF HandlerMove
<1>3. CASE Stays(r) /\ At(r, "remove")
  <2>1. req'[r] = req[r]
    BY <1>1, <1>3, StaysKeeps
  <2>2. ASSUME NEW s \in Requests, req'[s].at = "remove", req'[s].user = u
        PROVE s = r
    BY <1>2, <1>3, <2>1, <2>2 DEF RemovalInv, RemovalKnows, Removing
  <2>3. ASSUME Here(u)', There(x)'
        PROVE \/ users'[u].verified
              \/ \E y \in Rows \ {x} : There(y)' /\ extras'[y].owner = u /\ extras'[y].verified
    <3>1. Born(u) /\ Inserted(x)
      BY <1>1, <1>3, <2>1 DEF Basic, HandlersKnow, At, UserSteps, RowSteps
    <3>2. Here(u) /\ There(x)
      BY <1>1, <2>3, <3>1, RowsPersist
    <3>3. CASE users[u].verified
      BY <1>1, <2>3, <3>1, <3>3, UserStaysVerified
    <3>4. CASE VerifiedBeside(u, x)
      <4>1. PICK y \in Rows \ {x} : Owns(u, y) /\ extras[y].verified
        BY <3>4 DEF VerifiedBeside
      <4> QED BY <1>3, <2>1, <2>3, <4>1, BesideStays
    <3> QED BY <1>3, <2>1, <3>2, <3>3, <3>4 DEF RemovalInv, RemovalKnows
  <2> QED BY <2>2, <2>3
<1>4. CASE At(r, "idle") /\ Starts(r, req'[r])
  <2>1. /\ users' = users /\ extras' = extras /\ \A s \in Requests \ {r} : Stays(s)
        /\ users[u].verified \/ VerifiedBeside(u, x)
        /\ ~\E s \in Requests : Removing(s, u)
    BY <1>4 DEF Starts, Reads
  <2>2. ASSUME NEW s \in Requests \ {r}, req'[s].at = "remove", req'[s].user = u
        PROVE FALSE
    BY <1>1, <2>1, <2>2, StaysKeeps DEF Removing, At, UserSteps
  <2> QED BY <2>1, <2>2 DEF VerifiedBeside, Owns, There
<1> QED BY <1>2, <1>3, <1>4

LEMMA RemovalInvStep ==
  ASSUME RemovalInv, [Next]_vars
  PROVE RemovalInv'
<1>1. Basic /\ Basic'
  BY BasicStep DEF RemovalInv
<1>2. CASE UNCHANGED vars
  BY <1>1, <1>2 DEF vars, RemovalInv, RemoversOwn, DroppersVerified, RemovalKnows, Removing,
     VerifiedBeside, Owns, Here, There, At
<1>3. CASE Next
  <2>1. Moves
    BY <1>1, <1>3, NextMoves
  <2>2. ASSUME NEW r \in Requests
        PROVE /\ req'[r].at \in UserSteps => req'[r].user \in Users
              /\ req'[r].at \in RowSteps => req'[r].extra \in Rows
    BY <2>1, HandlerFields DEF Moves, HandlersMove
  <2>3. RemoversOwn'
    BY <2>1, <2>2, RemoversStayOwners DEF RemoversOwn, Owns, There, RowSteps
  <2>4. DroppersVerified'
    BY <2>1, <2>2, DroppersStayVerified DEF DroppersVerified, At, Here, UserSteps, PromotionSteps
  <2>5. ASSUME NEW r \in Requests
        PROVE RemovalKnows(r)'
    BY <2>1, <2>2, RemovalStaysKnowing DEF RemovalKnows, Removing, VerifiedBeside, Owns, Here, There, At,
       UserSteps, RowSteps
  <2> QED BY <1>1, <2>3, <2>4, <2>5 DEF RemovalInv
<1> QED BY <1>2, <1>3

LEMMA RemovalInit ==
  ASSUME Init
  PROVE RemovalInv
<1>1. \A r \in Requests : req[r].at = "idle"
  BY DEF Init, Idle
<1> QED BY <1>1, BasicInit DEF RemovalInv, RemoversOwn, DroppersVerified, RemovalKnows, At, PromotionSteps

LEMMA RemovalStep ==
  ASSUME RemovalInv, Moves, NEW r \in Requests, NEW u \in Users, Removing(r, u), ~req[r].beside,
         req'[r].at = "idle", Here(u), Verified(u) # {}
  PROVE Verified(u)' # {}
<1>1. Basic /\ HandlerMove(r) /\ At(r, "remove") /\ req[r].user = u
  BY DEF RemovalInv, Moves, HandlersMove, Removing
<1>2. PICK x \in Rows : x = req[r].extra
  BY <1>1, HandlerFields DEF Basic, TypeOK, At, RowSteps
<1>3. Ends(r)
  BY <1>1, StaysKeeps DEF HandlerMove, Starts, Opens, Continues, At
<1>4. users' = users /\ (extras' = extras \/ DeleteExtra(x))
  BY <1>1, <1>2, <1>3 DEF Ends, At
<1>5. CASE extras' = extras
  BY <1>4, <1>5 DEF Verified, Owns, Here, There
<1>6. CASE DeleteExtra(x) /\ There(x)
  <2>1. users[u].verified \/ VerifiedBeside(u, x)
    BY <1>1, <1>2, <1>6 DEF RemovalInv, RemovalKnows
  <2>2. CASE users[u].verified
    BY <1>4, <2>2 DEF Verified, Here
  <2>3. CASE VerifiedBeside(u, x)
    <3>1. PICK y \in Rows \ {x} : Owns(u, y) /\ extras[y].verified
      BY <2>3 DEF VerifiedBeside
    <3>2. extras'[y] = extras[y]
      BY <1>1, <1>6, <3>1 DEF DeleteExtra, Basic, TypeOK
    <3> QED BY <3>1, <3>2 DEF Verified, Owns, There
  <2> QED BY <2>1, <2>2, <2>3
<1>7. CASE DeleteExtra(x) /\ ~There(x)
  <2>1. \A y \in Rows : There(y) => extras'[y] = extras[y]
    BY <1>1, <1>7 DEF DeleteExtra, Basic, TypeOK
  <2>2. Verified(u) \subseteq Verified(u)'
    BY <1>4, <2>1, VerifiedGrows DEF Owns, Here, There
  <2> QED BY <2>2
<1> QED BY <1>4, <1>5, <1>6, <1>7

\* remove_email leaves a user who has a verified address with one, whatever promotions,
\* expirations and deletions of the account happen between its count and its DELETE, unless
\* another removal or an expired link deletes a row of the same user meanwhile.
THEOREM RemovalsKeepOne == Spec => RemovalKeepsVerified
<1>1. Init => RemovalInv
  BY RemovalInit
<1>2. RemovalInv /\ [Next]_vars => RemovalInv'
  BY RemovalInvStep
<1>3. RemovalInv /\ [Next]_vars =>
        [\A r \in Requests, u \in Users :
           Removing(r, u) /\ ~req[r].beside /\ req'[r].at = "idle"
             => (Here(u) /\ Verified(u) # {} => Verified(u)' # {})]_vars
  BY NextMoves, RemovalStep DEF RemovalInv
<1> QED BY <1>1, <1>2, <1>3, PTL DEF Spec, RemovalKeepsVerified
=============================================================================
