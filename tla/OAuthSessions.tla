--------------------------- MODULE OAuthSessions ---------------------------
(***************************************************************************)
(* The OAuth2 server (oauth2/): a signed-in user approves a consent page,  *)
(* which inserts an authorization code; a client exchanges the code for a  *)
(* token row, refreshes it, uses it for API calls and revokes it; and      *)
(* delete_account (api/account.rs) removes everything of its user.         *)
(*                                                                         *)
(* A handler is a request `req[r]` whose awaits are steps: what it read at *)
(* one step it still believes at the next.  A request that fails a check   *)
(* changes nothing and is not an action.  Time is abstract: pages, codes   *)
(* and the two halves of a token row expire when they like.  Scopes, PKCE  *)
(* and redirect URIs are values that an exchange must repeat; they are     *)
(* left out, as is last_login_at.                                          *)
(***************************************************************************)
EXTENDS Naturals, FiniteSets

CONSTANTS
  Users,        \* ids of user rows
  Clients,      \* ids of registered clients
  Requests,     \* handlers that may run at the same time
  MaxCodes,     \* bound: authorization codes
  MaxTokens,    \* bound: token rows
  MaxFaults     \* bound: failed database calls

ASSUME SessionsAssumption ==
  /\ Users # {} /\ Clients # {} /\ IsFiniteSet(Requests)
  /\ MaxCodes \in Nat /\ MaxTokens \in Nat /\ MaxFaults \in Nat

Codes  == 1 .. MaxCodes
Tokens == 1 .. MaxTokens

VARIABLES
  users,       \* rows of oauth2_user
  pages,       \* consent tokens in circulation: not stored, not signed, not consumed
  codes,       \* oauth2_authorization
  tokens,      \* oauth2_token
  req,         \* the running handlers
  uses,        \* history: token rows issued for a grant (a code or a refresh token)
  excused,     \* history: times the one-time use of a grant could not be enforced
  closed,      \* history: users whose deletion was answered
  faults       \* budget left

vars == <<users, pages, codes, tokens, req, uses, excused, closed, faults>>
historyVars == <<uses, excused, closed>>

Grants == ({"code"} \X Codes) \cup ({"refresh"} \X Tokens)

Pages == [user : Users, client : Clients]

\* row: never inserted, in the table, or deleted; late: inserted for a user whose
\* deletion had begun.
Code  == [row : {"never", "here", "deleted"}, user : Users, client : Clients,
          over : BOOLEAN, late : BOOLEAN]
Token == [row : {"never", "here", "deleted"}, user : Users, client : Clients,
          accessOver : BOOLEAN, refreshOver : BOOLEAN, revoked : BOOLEAN, late : BOOLEAN]

Idle == [at |-> "idle"]

\* What a handler knows at its steps.
Spender == [at : {"spendCode", "spendToken", "issue"}, grant : Grants, user : Users, client : Clients]
Request ==
  {Idle} \cup Spender
    \cup [at : {"revoke"}, token : Tokens] \cup [at : {"lookup"}, token : Tokens, user : Users]
    \cup [at : {"serve", "sweepCodes", "sweepUser"}, user : Users]

NoCode  == [row |-> "never", user |-> CHOOSE u \in Users : TRUE,
            client |-> CHOOSE c \in Clients : TRUE, over |-> FALSE, late |-> FALSE]
NoToken == [row |-> "never", user |-> CHOOSE u \in Users : TRUE,
            client |-> CHOOSE c \in Clients : TRUE, accessOver |-> FALSE,
            refreshOver |-> FALSE, revoked |-> FALSE, late |-> FALSE]

\* Every variable is in its range; no update touches a row that is not there; a code
\* is spent by an exchange and a refresh token by a refresh.
TypeOK ==
  /\ users \subseteq Users /\ pages \subseteq Pages
  /\ codes \in [Codes -> Code] /\ tokens \in [Tokens -> Token]
  /\ \A c \in Codes : codes[c].row # "here" => codes[c] = [NoCode EXCEPT !.row = codes[c].row]
  /\ \A t \in Tokens : tokens[t].row # "here" => tokens[t] = [NoToken EXCEPT !.row = tokens[t].row]
  /\ req \in [Requests -> Request]
  /\ \A r \in Requests : /\ req[r].at = "spendCode" => req[r].grant[1] = "code"
                         /\ req[r].at = "spendToken" => req[r].grant[1] = "refresh"
  /\ uses \in [Grants -> Nat] /\ excused \in [Grants -> Nat]
  /\ closed \subseteq Users
  /\ faults \in 0 .. MaxFaults

Init ==
  /\ users = Users /\ pages = {}
  /\ codes = [c \in Codes |-> NoCode]
  /\ tokens = [t \in Tokens |-> NoToken]
  /\ req = [r \in Requests |-> Idle]
  /\ uses = [g \in Grants |-> 0] /\ excused = [g \in Grants |-> 0]
  /\ closed = {}
  /\ faults = MaxFaults

SpendFault == faults > 0 /\ faults' = faults - 1

At(r, step)  == req[r].at = step
Become(r, x) == req' = [req EXCEPT ![r] = x]

\* The deletion of u has removed its token rows, and maybe more.
Closing(u) == u \notin users \/ \E r \in Requests : /\ req[r].at \in {"sweepCodes", "sweepUser"}
                                                    /\ req[r].user = u

-----------------------------------------------------------------------------
\* login_submit (or a magic link): the page carries a token that names the user and
\* the client and is valid for ten minutes: ConsentData in base64, which nothing signs, so
\* that consent_submit takes any pair.  Here any page may come at any time.
SignIn(u, cl) ==
  /\ u \in users /\ [user |-> u, client |-> cl] \notin pages
  /\ pages' = pages \cup {[user |-> u, client |-> cl]}
  /\ UNCHANGED <<users, codes, tokens, req, historyVars, faults>>

ExpirePage(p) ==
  /\ p \in pages
  /\ pages' = pages \ {p}
  /\ UNCHANGED <<users, codes, tokens, req, historyVars, faults>>

\* consent_submit, "approve": one code per submission.  The page stays valid, and
\* the user row is not looked at.
Approve(p) ==
  /\ p \in pages
  /\ \E c \in Codes :
       /\ codes[c].row = "never" /\ \A b \in 1 .. c - 1 : codes[b].row # "never"
       /\ codes' = [codes EXCEPT ![c] = [row |-> "here", user |-> p.user, client |-> p.client,
                                         over |-> FALSE, late |-> Closing(p.user)]]
  /\ UNCHANGED <<users, pages, tokens, req, historyVars, faults>>

ExpireCode(c) ==
  /\ codes[c].row = "here" /\ ~codes[c].over
  /\ codes' = [codes EXCEPT ![c].over = TRUE]
  /\ UNCHANGED <<users, pages, tokens, req, historyVars, faults>>

\* The access token dies first.
ExpireToken(t) ==
  /\ tokens[t].row = "here" /\ ~tokens[t].refreshOver
  /\ tokens' = [tokens EXCEPT ![t].accessOver = TRUE, ![t].refreshOver = tokens[t].accessOver]
  /\ UNCHANGED <<users, pages, codes, req, historyVars, faults>>

-----------------------------------------------------------------------------
\* Mutant: the code is left to expire.
CodeRowKept(row) == row

CodeRowSpent(row) == [NoCode EXCEPT !.row = "deleted"]

Spending(r, step, g) == At(r, step) /\ req[r].grant = g

\* A grant that another handler has found good and not yet spent is found good again.
Excuse(g, step) ==
  excused' = IF \E s \in Requests : Spending(s, step, g)
             THEN [excused EXCEPT ![g] = @ + 1] ELSE excused

\* handle_authorization_code_grant: the code is found and passes the checks ...
FindCode(r, c) ==
  /\ At(r, "idle")
  /\ codes[c].row = "here" /\ ~codes[c].over
  /\ Become(r, [at |-> "spendCode", grant |-> <<"code", c>>,
                user |-> codes[c].user, client |-> codes[c].client])
  /\ Excuse(<<"code", c>>, "spendCode")
  /\ UNCHANGED <<users, pages, codes, tokens, uses, closed, faults>>

\* ... or has expired and is deleted.
FindExpiredCode(c) ==
  /\ codes[c].row = "here" /\ codes[c].over
  /\ codes' = [codes EXCEPT ![c] = CodeRowSpent(@)]
  /\ UNCHANGED <<users, pages, tokens, req, historyVars, faults>>

\* The code is deleted; whether a row was deleted, and whether the call failed, is
\* not looked at.
SpendCode(r) ==
  /\ At(r, "spendCode")
  /\ codes' = [codes EXCEPT ![req[r].grant[2]] = CodeRowSpent(@)]
  /\ Become(r, [req[r] EXCEPT !.at = "issue"])
  /\ UNCHANGED <<users, pages, tokens, historyVars, faults>>

SpendCodeFails(r) ==
  /\ At(r, "spendCode") /\ SpendFault
  /\ excused' = [excused EXCEPT ![req[r].grant] = @ + 1]
  /\ Become(r, [req[r] EXCEPT !.at = "issue"])
  /\ UNCHANGED <<users, pages, codes, tokens, uses, closed>>

\* handle_refresh_token_grant: the row is found, neither revoked nor too old ...
FindRefresh(r, t) ==
  /\ At(r, "idle")
  /\ tokens[t].row = "here" /\ ~tokens[t].revoked /\ ~tokens[t].refreshOver
  /\ Become(r, [at |-> "spendToken", grant |-> <<"refresh", t>>,
                user |-> tokens[t].user, client |-> tokens[t].client])
  /\ Excuse(<<"refresh", t>>, "spendToken")
  /\ UNCHANGED <<users, pages, codes, tokens, uses, closed, faults>>

\* Mutants: the old row is left valid; a deleted row is saved again.
RevocationForgotten(row) == row
RevocationSaved(row) == [row EXCEPT !.revoked = TRUE]

\* The column update that revokes a row; a deleted row has nothing to update.
Revoked(row) == IF row.row = "here" THEN [row EXCEPT !.revoked = TRUE] ELSE row

\* ... it is revoked; an error is only logged.
SpendToken(r) ==
  /\ At(r, "spendToken")
  /\ tokens' = [tokens EXCEPT ![req[r].grant[2]] = Revoked(@)]
  /\ Become(r, [req[r] EXCEPT !.at = "issue"])
  /\ UNCHANGED <<users, pages, codes, historyVars, faults>>

SpendTokenFails(r) ==
  /\ At(r, "spendToken") /\ SpendFault
  /\ excused' = [excused EXCEPT ![req[r].grant] = @ + 1]
  /\ Become(r, [req[r] EXCEPT !.at = "issue"])
  /\ UNCHANGED <<users, pages, codes, tokens, uses, closed>>

\* The new row is inserted for the user and client that were read.
Issue(r) ==
  /\ At(r, "issue")
  /\ \E t \in Tokens :
       /\ tokens[t].row = "never" /\ \A s \in 1 .. t - 1 : tokens[s].row # "never"
       /\ tokens' = [tokens EXCEPT ![t] =
            [NoToken EXCEPT !.row = "here", !.user = req[r].user, !.client = req[r].client,
                            !.late = Closing(req[r].user)]]
  /\ uses' = [uses EXCEPT ![req[r].grant] = @ + 1]
  /\ Become(r, Idle)
  /\ UNCHANGED <<users, pages, codes, excused, closed, faults>>

\* The insertion fails: the grant is spent and the session is lost.
IssueFails(r) ==
  /\ At(r, "issue") /\ SpendFault
  /\ Become(r, Idle)
  /\ UNCHANGED <<users, pages, codes, tokens, historyVars>>

-----------------------------------------------------------------------------
\* revoke: the row of an access or refresh token, whichever was sent ...
FindForRevocation(r, t) ==
  /\ At(r, "idle")
  /\ tokens[t].row = "here"
  /\ Become(r, [at |-> "revoke", token |-> t])
  /\ UNCHANGED <<users, pages, codes, tokens, historyVars, faults>>

Revoke(r) ==
  /\ At(r, "revoke")
  /\ tokens' = [tokens EXCEPT ![req[r].token] = Revoked(@)]
  /\ Become(r, Idle)
  /\ UNCHANGED <<users, pages, codes, uses, excused, closed, faults>>

\* ... and 200 in any case.
RevokeFails(r) ==
  /\ At(r, "revoke") /\ SpendFault
  /\ Become(r, Idle)
  /\ UNCHANGED <<users, pages, codes, tokens, historyVars>>

-----------------------------------------------------------------------------
\* oauth2_token::Model::is_valid of a row that is there.
IsValid(t) == tokens[t].row = "here" /\ ~tokens[t].accessOver /\ ~tokens[t].revoked

\* OAuth2Auth, and userinfo: the token row, then the user row.
FindToken(r, t) ==
  /\ At(r, "idle") /\ IsValid(t)
  /\ Become(r, [at |-> "lookup", token |-> t, user |-> tokens[t].user])
  /\ UNCHANGED <<users, pages, codes, tokens, historyVars, faults>>

\* Mutant: the user id of the token is trusted.
KnownByToken(u) == TRUE

Known(u) == u \in users

FindUser(r) ==
  /\ At(r, "lookup")
  /\ Become(r, IF Known(req[r].user) THEN [at |-> "serve", user |-> req[r].user] ELSE Idle)
  /\ UNCHANGED <<users, pages, codes, tokens, historyVars, faults>>

\* The handler behind it answers.
Serve(r) ==
  /\ At(r, "serve")
  /\ Become(r, Idle)
  /\ UNCHANGED <<users, pages, codes, tokens, historyVars, faults>>

OfUser(row, u) == row.row = "here" /\ row.user = u

\* delete_account: the rows of the user's tokens, then its codes, then the user.
SweepTokens(r) ==
  /\ At(r, "serve")
  /\ tokens' = [t \in Tokens |-> IF OfUser(tokens[t], req[r].user)
                                 THEN [NoToken EXCEPT !.row = "deleted"] ELSE tokens[t]]
  /\ Become(r, [req[r] EXCEPT !.at = "sweepCodes"])
  /\ UNCHANGED <<users, pages, codes, historyVars, faults>>

\* Mutant: the step is missing.
SweepCodesSkipped(r) ==
  /\ At(r, "sweepCodes")
  /\ Become(r, [req[r] EXCEPT !.at = "sweepUser"])
  /\ UNCHANGED <<users, pages, codes, tokens, historyVars, faults>>

SweepCodes(r) ==
  /\ At(r, "sweepCodes")
  /\ codes' = [c \in Codes |-> IF OfUser(codes[c], req[r].user)
                               THEN CodeRowSpent(codes[c]) ELSE codes[c]]
  /\ Become(r, [req[r] EXCEPT !.at = "sweepUser"])
  /\ UNCHANGED <<users, pages, tokens, historyVars, faults>>

SweepUser(r) ==
  /\ At(r, "sweepUser")
  /\ users' = users \ {req[r].user}
  /\ closed' = closed \cup {req[r].user}
  /\ Become(r, Idle)
  /\ UNCHANGED <<pages, codes, tokens, uses, excused, faults>>

\* One of its calls fails: 500, and what was not deleted stays.
SweepFails(r) ==
  /\ req[r].at \in {"serve", "sweepCodes", "sweepUser"} /\ SpendFault
  /\ Become(r, Idle)
  /\ UNCHANGED <<users, pages, codes, tokens, historyVars>>

-----------------------------------------------------------------------------
Next ==
  \/ \E u \in Users, cl \in Clients : SignIn(u, cl)
  \/ \E p \in pages : ExpirePage(p) \/ Approve(p)
  \/ \E c \in Codes : ExpireCode(c) \/ FindExpiredCode(c)
  \/ \E t \in Tokens : ExpireToken(t)
  \/ \E r \in Requests :
       \/ \E c \in Codes : FindCode(r, c)
       \/ SpendCode(r) \/ SpendCodeFails(r)
       \/ \E t \in Tokens : FindRefresh(r, t) \/ FindForRevocation(r, t) \/ FindToken(r, t)
       \/ SpendToken(r) \/ SpendTokenFails(r)
       \/ Issue(r) \/ IssueFails(r)
       \/ Revoke(r) \/ RevokeFails(r)
       \/ FindUser(r) \/ Serve(r)
       \/ SweepTokens(r) \/ SweepCodes(r) \/ SweepUser(r) \/ SweepFails(r)

Spec == Init /\ [][Next]_vars

-----------------------------------------------------------------------------
(* Properties *)

\* A code and a refresh token are good for one token row; a further one needs either
\* another handler that found the grant before the first had spent it, or a deletion
\* or revocation that failed (endpoints.rs:806 and 929-933).
GrantsAreSingleUse ==
  \A g \in Grants : uses[g] <= 1 + excused[g]

\* A deletion may leave token rows behind: a page approved, a code exchanged or a
\* token refreshed beside or after it.  None of them lets anybody act for the user
\* once the deletion was answered.
ClosedAccountIsClosed ==
  [][\A r \in Requests : At(r, "lookup") /\ req'[r].at = "serve"
       => req[r].user \notin closed]_vars

\* The user row goes last: if it is gone, so is every code and token row that was not
\* inserted while or after it was deleted, whichever calls of earlier tries failed.
DeletionSweeps ==
  \A u \in Users \ users :
    /\ \A c \in Codes : OfUser(codes[c], u) => codes[c].late
    /\ \A t \in Tokens : OfUser(tokens[t], u) => tokens[t].late
=============================================================================
