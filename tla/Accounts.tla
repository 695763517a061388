------------------------------ MODULE Accounts ------------------------------
(***************************************************************************)
(* User accounts: registration, magic links and password resets            *)
(* (oauth2/register.rs, magic_link.rs, password_reset.rs, login.rs) and    *)
(* the addresses of a signed-in user (api/account.rs).                     *)
(*                                                                         *)
(* A handler is a request `req[r]` whose database calls are steps.  Emails *)
(* are links in `mail` that somebody who reads the mailbox may follow at   *)
(* any time; an email that is lost is one that is never followed.  Left    *)
(* out: names, time zones, receives_alerts, password values (a user has a  *)
(* password or not) and therefore change_password, and the OAuth2          *)
(* parameters that links carry along.                                      *)
(***************************************************************************)
EXTENDS Naturals, FiniteSets

CONSTANTS
  Addresses,         \* email addresses
  MaxUsers,          \* bound: user rows ever inserted
  MaxRows,           \* bound: user_email rows ever inserted
  MaxTokens,         \* bound: verification and reset tokens
  MaxStarts,         \* bound: handlers of signed-in users and links followed
  Requests,          \* handlers that may run at the same time
  MaxFaults          \* bound: failed database calls

ASSUME AccountsAssumption ==
  /\ MaxUsers \in Nat /\ MaxRows \in Nat /\ MaxTokens \in Nat /\ MaxStarts \in Nat
  /\ MaxFaults \in Nat /\ IsFiniteSet(Requests)

Users  == 1 .. MaxUsers
Rows   == 1 .. MaxRows
Tokens == 0 .. MaxTokens      \* 0: NULL

VARIABLES
  users,      \* oauth2_user
  extras,     \* user_email
  sessions,   \* users that hold an access token
  mail,       \* links that were sent
  lastToken,  \* tokens generated so far
  req,        \* the running handlers
  followed,   \* history: addresses whose owner followed a verification or magic link
  resets,     \* history: passwords set with a reset token
  overlaps,   \* history: confirmations that found a token another one was using
  starts, faults   \* budgets left

vars == <<users, extras, sessions, mail, lastToken, req, followed, resets, overlaps,
          starts, faults>>
tableVars   == <<users, extras>>
historyVars == <<followed, resets, overlaps>>

Absent == [row : {"never", "deleted"}]
\* stale: the pending token has expired.
User == Absent \cup [row : {"here"}, email : Addresses, verified : BOOLEAN,
         password : BOOLEAN, pending : Tokens, stale : BOOLEAN, reset : Tokens]
Extra == Absent \cup [row : {"here"}, owner : Users, email : Addresses,
          verified : BOOLEAN, pending : Tokens, stale : BOOLEAN]

Links == [kind : {"register", "extra", "reset", "magic"}, token : Tokens, to : Addresses]

Never   == [row |-> "never"]
Deleted == [row |-> "deleted"]
NewUser(a) == [row |-> "here", email |-> a, verified |-> FALSE, password |-> FALSE,
               pending |-> 0, stale |-> FALSE, reset |-> 0]
Idle == [at |-> "idle"]

Here(u)  == users[u].row = "here"
There(x) == extras[x].row = "here"

\* A handler between two database calls: what it has read.
PromotionSteps == {"demote", "promote", "drop"}

Handler ==
  [at : {"idle"}]
    \cup [at : {"register"}, user : Users, read : User \ Absent]
    \cup [at : {"confirm", "magic", "sweepExtras", "sweepSessions", "sweepUser"}, user : Users]
    \cup [at : {"reset", "add"}, user : Users, email : Addresses]
    \cup [at : {"setPassword"}, user : Users, token : Tokens]
    \cup [at : {"verify", "discard", "resend"}, extra : Rows]
    \cup [at : {"remove"}, user : Users, extra : Rows, beside : BOOLEAN]
    \cup [at : PromotionSteps, user : Users, extra : Rows, old : Addresses, new : Addresses,
          kept : 0 .. MaxRows]

\* Every variable is in its range; an address is the primary one of at most one user
\* and an additional one in at most one row, whatever the handlers believe.
TypeOK ==
  /\ users \in [Users -> User] /\ extras \in [Rows -> Extra]
  /\ sessions \subseteq Users /\ mail \subseteq Links /\ lastToken \in Tokens
  /\ req \in [Requests -> Handler]
  /\ followed \subseteq Addresses
  /\ resets \in [Tokens -> Nat] /\ overlaps \in [Tokens -> Nat]
  /\ starts \in 0 .. MaxStarts /\ faults \in 0 .. MaxFaults
  /\ \A u, v \in Users : Here(u) /\ Here(v) /\ users[u].email = users[v].email => u = v
  /\ \A x, y \in Rows : There(x) /\ There(y) /\ extras[x].email = extras[y].email => x = y

Init ==
  /\ users = [u \in Users |-> Never] /\ extras = [x \in Rows |-> Never]
  /\ sessions = {} /\ mail = {} /\ lastToken = 0
  /\ req = [r \in Requests |-> Idle]
  /\ followed = {} /\ resets = [n \in Tokens |-> 0] /\ overlaps = [n \in Tokens |-> 0]
  /\ starts = MaxStarts /\ faults = MaxFaults

SpendFault == faults > 0 /\ faults' = faults - 1
SpendStart == starts > 0 /\ starts' = starts - 1

At(r, step)  == req[r].at = step
Become(r, x) == req' = [req EXCEPT ![r] = x]

FreeUser(u) == users[u].row = "never" /\ \A v \in 1 .. u - 1 : users[v].row # "never"
FreeRow(x)  == extras[x].row = "never" /\ \A y \in 1 .. x - 1 : extras[y].row # "never"
NewToken    == lastToken < MaxTokens /\ lastToken' = lastToken + 1

\* Mutant: addresses are neither trimmed nor lower-cased before they are compared.
IsPrimaryAsTyped(a) == FALSE

\* The unique columns.
IsPrimary(a) == \E u \in Users : Here(u) /\ users[u].email = a
IsAdditional(a) == \E x \in Rows : There(x) /\ extras[x].email = a

\* Columns set by primary key; nothing if the row is gone.
SetUser(u, row)  == users' = IF Here(u) THEN [users EXCEPT ![u] = row] ELSE users
SetExtra(x, row) == extras' = IF There(x) THEN [extras EXCEPT ![x] = row] ELSE extras
DeleteExtra(x)   == extras' = [extras EXCEPT ![x] = Deleted]

Send(kind, n, a) == mail' = mail \cup {[kind |-> kind, token |-> n, to |-> a]}

-----------------------------------------------------------------------------
\* register_submit: the address is free ...
Register(a) ==
  /\ ~IsPrimary(a) /\ NewToken
  /\ \E u \in Users :
       /\ FreeUser(u)
       /\ users' = [users EXCEPT ![u] = [NewUser(a) EXCEPT !.password = TRUE,
                                                       !.pending = lastToken + 1]]
  /\ Send("register", lastToken + 1, a)
  /\ UNCHANGED <<extras, sessions, req, historyVars, starts, faults>>

\* ... or a user has it.  What happens depends on the row as it is read here.
RegisterAgain(r, u) ==
  /\ At(r, "idle") /\ Here(u) /\ ~(users[u].verified /\ users[u].password)
  /\ Become(r, [at |-> "register", user |-> u, read |-> users[u]])
  /\ UNCHANGED <<tableVars, sessions, mail, lastToken, historyVars, starts, faults>>

Pending(row) == row.pending # 0 /\ ~row.stale

\* upgrade_to_password_login.
Upgrade(r) ==
  /\ At(r, "register") /\ req[r].read.verified
  /\ SetUser(req[r].user, [users[req[r].user] EXCEPT !.password = TRUE])
  /\ Become(r, Idle)
  /\ UNCHANGED <<extras, sessions, mail, lastToken, historyVars, starts, faults>>

\* resend_verification_or_error: the same token once more, no write.
SendAgain(r) ==
  /\ At(r, "register") /\ ~req[r].read.verified /\ Pending(req[r].read)
  /\ Send("register", req[r].read.pending, req[r].read.email)
  /\ Become(r, Idle)
  /\ UNCHANGED <<tableVars, sessions, lastToken, historyVars, starts, faults>>

\* update_and_resend_verification.
Reregister(r) ==
  /\ At(r, "register") /\ ~req[r].read.verified /\ ~Pending(req[r].read) /\ NewToken
  /\ SetUser(req[r].user, [users[req[r].user] EXCEPT !.password = TRUE,
                           !.pending = lastToken + 1, !.stale = FALSE])
  /\ IF Here(req[r].user) THEN Send("register", lastToken + 1, req[r].read.email)
                          ELSE UNCHANGED mail
  /\ Become(r, Idle)
  /\ UNCHANGED <<extras, sessions, historyVars, starts, faults>>

\* Follow the link of register's verify_email: found by its token ...
FollowRegistration(r, link) ==
  /\ At(r, "idle") /\ link.kind = "register"
  /\ followed' = followed \cup {link.to}
  /\ \E u \in Users :
       /\ Here(u) /\ users[u].pending = link.token /\ ~users[u].stale
       /\ Become(r, [at |-> "confirm", user |-> u])
  /\ SpendStart
  /\ UNCHANGED <<tableVars, sessions, mail, lastToken, resets, overlaps, faults>>

\* ... updated by its id.
ConfirmRegistration(r) ==
  /\ At(r, "confirm")
  /\ SetUser(req[r].user, [users[req[r].user] EXCEPT !.verified = TRUE, !.pending = 0, !.stale = FALSE])
  /\ Become(r, Idle)
  /\ UNCHANGED <<extras, sessions, mail, lastToken, historyVars, starts, faults>>

PendingExpires(u) ==
  /\ Here(u) /\ users[u].pending # 0 /\ ~users[u].stale
  /\ users' = [users EXCEPT ![u].stale = TRUE]
  /\ UNCHANGED <<extras, sessions, mail, lastToken, req, historyVars, starts, faults>>

\* login_submit.
Login(u) ==
  /\ Here(u) /\ users[u].password /\ users[u].verified /\ u \notin sessions
  /\ sessions' = sessions \cup {u}
  /\ UNCHANGED <<tableVars, mail, lastToken, req, historyVars, starts, faults>>

-----------------------------------------------------------------------------
\* Mutant: whoever asks for a link is verified.
GetOrCreateVerified(a, verified) ==
  IF IsPrimary(a) THEN UNCHANGED users
  ELSE \E u \in Users : /\ FreeUser(u)
                        /\ users' = [users EXCEPT ![u] = [NewUser(a) EXCEPT !.verified = TRUE]]

\* get_or_create_user; its INSERT fails if the address was taken meanwhile.
GetOrCreate(a, verified) ==
  IF IsPrimary(a) THEN UNCHANGED users
  ELSE \E u \in Users : /\ FreeUser(u)
                        /\ users' = [users EXCEPT ![u] = [NewUser(a) EXCEPT !.verified = verified]]

\* magic_link_request.
RequestMagicLink(a) ==
  /\ [kind |-> "magic", token |-> 0, to |-> a] \notin mail
  /\ Send("magic", 0, a)
  /\ GetOrCreate(a, FALSE)
  /\ UNCHANGED <<extras, sessions, lastToken, req, historyVars, starts, faults>>

\* The link is a signed JWT that nothing consumes; it expires after an hour.
MagicLinkExpires(link) ==
  /\ link.kind = "magic"
  /\ mail' = mail \ {link}
  /\ UNCHANGED <<tableVars, sessions, lastToken, req, historyVars, starts, faults>>

\* magic_link_verify: the user of the address is found or inserted ...
FollowMagicLink(r, link) ==
  /\ At(r, "idle") /\ link.kind = "magic"
  /\ followed' = followed \cup {link.to}
  /\ GetOrCreate(link.to, TRUE)
  /\ \E u \in Users : /\ users'[u].row = "here" /\ users'[u].email = link.to
                      /\ Become(r, [at |-> "magic", user |-> u])
  /\ SpendStart
  /\ UNCHANGED <<extras, sessions, mail, lastToken, resets, overlaps, faults>>

\* ... marked as verified and sent on to the consent page ...
VerifyByMagicLink(r) ==
  /\ At(r, "magic")
  /\ SetUser(req[r].user, [users[req[r].user] EXCEPT !.verified = TRUE])
  /\ sessions' = sessions \cup {req[r].user}
  /\ Become(r, Idle)
  /\ UNCHANGED <<extras, mail, lastToken, historyVars, starts, faults>>

\* ... even if the update fails.
VerifyByMagicLinkFails(r) ==
  /\ At(r, "magic") /\ SpendFault
  /\ sessions' = sessions \cup {req[r].user}
  /\ Become(r, Idle)
  /\ UNCHANGED <<tableVars, mail, lastToken, historyVars, starts>>

-----------------------------------------------------------------------------
\* issue_reset_token (anybody), or send_password_setup_email (signed in, no password):
\* the user is read ...
AskForReset(r, u) ==
  /\ At(r, "idle") /\ Here(u)
  /\ Become(r, [at |-> "reset", user |-> u, email |-> users[u].email])
  /\ SpendStart
  /\ UNCHANGED <<tableVars, sessions, mail, lastToken, historyVars, faults>>

\* ... a new token replaces the previous one.
IssueReset(r) ==
  /\ At(r, "reset") /\ NewToken
  /\ SetUser(req[r].user, [users[req[r].user] EXCEPT !.reset = lastToken + 1])
  /\ IF Here(req[r].user) THEN Send("reset", lastToken + 1, req[r].email) ELSE UNCHANGED mail
  /\ Become(r, Idle)
  /\ UNCHANGED <<extras, sessions, historyVars, starts, faults>>

\* apply_password_reset: found by the token ...
FollowReset(r, link) ==
  /\ At(r, "idle") /\ link.kind = "reset"
  /\ \E u \in Users :
       /\ Here(u) /\ users[u].reset = link.token
       /\ Become(r, [at |-> "setPassword", user |-> u, token |-> link.token])
  /\ overlaps' = IF \E s \in Requests : At(s, "setPassword") /\ req[s].token = link.token
                 THEN [overlaps EXCEPT ![link.token] = @ + 1] ELSE overlaps
  /\ SpendStart
  /\ UNCHANGED <<tableVars, sessions, mail, lastToken, followed, resets, faults>>

\* Mutant: the token is left to expire.
WithPasswordKeepsToken(row) == [row EXCEPT !.password = TRUE]

WithPassword(row) == [row EXCEPT !.password = TRUE, !.reset = 0]

\* ... and written by id: a token issued meanwhile is cleared too.
SetPassword(r) ==
  /\ At(r, "setPassword")
  /\ SetUser(req[r].user, WithPassword(users[req[r].user]))
  /\ resets' = [resets EXCEPT ![req[r].token] = @ + 1]
  /\ Become(r, Idle)
  /\ UNCHANGED <<extras, sessions, mail, lastToken, followed, overlaps, starts, faults>>
=============================================================================
