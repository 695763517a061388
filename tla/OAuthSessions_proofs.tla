------------------------ MODULE OAuthSessions_proofs ------------------------
(***************************************************************************)
(* OAuthSessions for every set of users, clients and handlers, any number  *)
(* of codes and tokens and any failing calls.                              *)
(***************************************************************************)
EXTENDS OAuthSessions, FiniteSetTheorems, TLAPS

Spends == {"spendCode", "spendToken", "issue"}
Closes == {"serve", "sweepCodes", "sweepUser"}

-----------------------------------------------------------------------------
(* What a handler knows, by its step. *)

LEMMA Fields ==
  ASSUME NEW x \in Request
  PROVE  /\ x.at \in Spends => x \in Spender
         /\ x.at = "revoke" => x.token \in Tokens
         /\ x.at = "lookup" => x.token \in Tokens /\ x.user \in Users
         /\ x.at \in Closes => x \in [at : Closes, user : Users]
BY DEF Request, Idle, Spender, Spends, Closes

LEMMA Spent ==
  ASSUME NEW x \in Spender
  PROVE  LET y == [x EXCEPT !.at = "issue"]
         IN /\ y \in Request /\ y.at = "issue"
            /\ y.grant = x.grant /\ y.user = x.user /\ y.client = x.client
            /\ x.grant \in Grants /\ x.user \in Users /\ x.client \in Clients
BY DEF Request, Spender

LEMMA Swept ==
  ASSUME NEW x \in [at : Closes, user : Users], NEW s \in Closes
  PROVE  LET y == [x EXCEPT !.at = s]
         IN y \in Request /\ y.at = s /\ y.user = x.user /\ x.user \in Users
BY DEF Request, Closes

LEMMA NoRows ==
  /\ NoCode \in Code /\ NoToken \in Token
  /\ NoCode.row = "never" /\ NoToken.row = "never"
<1>1. (CHOOSE u \in Users : TRUE) \in Users /\ (CHOOSE c \in Clients : TRUE) \in Clients
  BY SessionsAssumption
<1> QED BY <1>1 DEF NoCode, NoToken, Code, Token

-----------------------------------------------------------------------------
(* Types *)

\* What TypeOK says of the handlers, of one code row and of one token row.
ReqOK ==
  /\ req \in [Requests -> Request]
  /\ \A r \in Requests : /\ req[r].at = "spendCode" => req[r].grant[1] = "code"
                         /\ req[r].at = "spendToken" => req[r].grant[1] = "refresh"
CodeOK(x) == x \in Code /\ (x.row # "here" => x = [NoCode EXCEPT !.row = x.row])
TokenOK(x) == x \in Token /\ (x.row # "here" => x = [NoToken EXCEPT !.row = x.row])

LEMMA BecomeOK ==
  ASSUME ReqOK, NEW r \in Requests, NEW x \in Request, Become(r, x),
         x.at \notin {"spendCode", "spendToken"}
  PROVE  ReqOK'
BY DEF ReqOK, Become

LEMMA IdleOK == Idle \in Request /\ Idle.at = "idle"
BY DEF Idle, Request

LEMMA CodeRows ==
  /\ CodeOK(NoCode)
  /\ CodeOK([NoCode EXCEPT !.row = "deleted"])
  /\ \A x : CodeOK(x) => CodeOK(CodeRowSpent(x))
  /\ \A x : CodeOK(x) /\ x.row = "here" => CodeOK([x EXCEPT !.over = TRUE])
BY NoRows DEF CodeOK, Code, CodeRowSpent, NoCode

LEMMA TokenRows ==
  /\ TokenOK(NoToken)
  /\ TokenOK([NoToken EXCEPT !.row = "deleted"])
  /\ \A x : TokenOK(x) => TokenOK(Revoked(x))
  /\ \A x : TokenOK(x) /\ x.row = "here"
        => TokenOK([x EXCEPT !.accessOver = TRUE, !.refreshOver = x.accessOver])
  /\ \A u \in Users, c \in Clients, late \in BOOLEAN :
        TokenOK([NoToken EXCEPT !.row = "here", !.user = u, !.client = c, !.late = late])
BY NoRows DEF TokenOK, Token, Revoked, NoToken

LEMMA ExcuseOK ==
  ASSUME excused \in [Grants -> Nat], NEW g \in Grants, NEW step, Excuse(g, step)
  PROVE  excused' \in [Grants -> Nat]
<1>1. CASE \E s \in Requests : Spending(s, step, g)
  BY <1>1 DEF Excuse
<1>2. CASE ~\E s \in Requests : Spending(s, step, g)
  BY <1>2 DEF Excuse
<1> QED BY <1>1, <1>2

LEMMA FaultOK ==
  ASSUME faults \in 0 .. MaxFaults, SpendFault
  PROVE  faults' \in 0 .. MaxFaults
BY SessionsAssumption DEF SpendFault

LEMMA TypeStep ==
  ASSUME TypeOK, Next
  PROVE  TypeOK'
<1>0. /\ ReqOK
      /\ \A c \in Codes : CodeOK(codes[c])
      /\ \A t \in Tokens : TokenOK(tokens[t])
  BY DEF TypeOK, ReqOK, CodeOK, TokenOK
<1> DEFINE CodesOK == codes \in [Codes -> Code] /\ \A c \in Codes : CodeOK(codes[c])
           TokensOK == tokens \in [Tokens -> Token] /\ \A t \in Tokens : TokenOK(tokens[t])
           RestOK == /\ users \subseteq Users /\ pages \subseteq Pages
                     /\ uses \in [Grants -> Nat] /\ excused \in [Grants -> Nat]
                     /\ closed \subseteq Users /\ faults \in 0 .. MaxFaults
<1>1. CodesOK /\ TokensOK /\ RestOK
  BY <1>0 DEF TypeOK
<1>q. SUFFICES CodesOK' /\ TokensOK' /\ RestOK' /\ ReqOK'
  BY DEF TypeOK, ReqOK, CodeOK, TokenOK
<1> HIDE DEF CodesOK, TokensOK, RestOK
<1>2. ASSUME NEW u \in Users, NEW cl \in Clients, SignIn(u, cl)
      PROVE  CodesOK' /\ TokensOK' /\ RestOK' /\ ReqOK'
  BY <1>0, <1>1, <1>2 DEF SignIn, CodesOK, TokensOK, RestOK, ReqOK, historyVars, Pages
<1>3. ASSUME NEW p \in pages, ExpirePage(p)
      PROVE  CodesOK' /\ TokensOK' /\ RestOK' /\ ReqOK'
  BY <1>0, <1>1, <1>3 DEF ExpirePage, CodesOK, TokensOK, RestOK, ReqOK, historyVars
<1>4. ASSUME NEW p \in pages, Approve(p)
      PROVE  CodesOK' /\ TokensOK' /\ RestOK' /\ ReqOK'
  <2>1. p.user \in Users /\ p.client \in Clients
    BY <1>1 DEF RestOK, Pages
  <2>2. PICK c \in Codes : codes' = [codes EXCEPT ![c] = [row |-> "here", user |-> p.user,
                              client |-> p.client, over |-> FALSE, late |-> Closing(p.user)]]
    BY <1>4 DEF Approve
  <2>3. Closing(p.user) \in BOOLEAN
    BY DEF Closing
  <2>4. CodeOK([row |-> "here", user |-> p.user, client |-> p.client, over |-> FALSE,
                late |-> Closing(p.user)])
    BY <2>1, <2>3 DEF CodeOK, Code
  <2>5. CodesOK'
    BY <1>1, <2>2, <2>4 DEF CodesOK, CodeOK
  <2> QED BY <1>0, <1>1, <1>4, <2>5 DEF Approve, TokensOK, RestOK, ReqOK, historyVars
<1>5. ASSUME NEW c \in Codes, ExpireCode(c) \/ FindExpiredCode(c)
      PROVE  CodesOK' /\ TokensOK' /\ RestOK' /\ ReqOK'
  <2>1. CodesOK'
    <3>1. CodeOK(codes[c]) /\ codes[c].row = "here"
      BY <1>1, <1>5 DEF CodesOK, ExpireCode, FindExpiredCode
    <3>2. PICK x : CodeOK(x) /\ codes' = [codes EXCEPT ![c] = x]
      BY <1>5, <3>1, CodeRows DEF ExpireCode, FindExpiredCode
    <3> QED BY <1>1, <3>2 DEF CodesOK, CodeOK
  <2> QED BY <1>0, <1>1, <1>5, <2>1 DEF ExpireCode, FindExpiredCode, TokensOK, RestOK, ReqOK, historyVars
<1>6. ASSUME NEW t \in Tokens, ExpireToken(t)
      PROVE  CodesOK' /\ TokensOK' /\ RestOK' /\ ReqOK'
  <2>1. TokenOK(tokens[t]) /\ tokens[t].row = "here"
    BY <1>1, <1>6 DEF TokensOK, ExpireToken
  <2>2. tokens' = [tokens EXCEPT ![t] =
          [tokens[t] EXCEPT !.accessOver = TRUE, !.refreshOver = tokens[t].accessOver]]
    BY <1>6 DEF ExpireToken
  <2>3. TokensOK'
    BY <1>1, <2>1, <2>2, TokenRows DEF TokensOK, TokenOK
  <2> QED BY <1>0, <1>1, <1>6, <2>3 DEF ExpireToken, CodesOK, RestOK, ReqOK, historyVars
<1>7. ASSUME NEW r \in Requests, NEW c \in Codes, FindCode(r, c)
      PROVE  CodesOK' /\ TokensOK' /\ RestOK' /\ ReqOK'
  <2> DEFINE x == [at |-> "spendCode", grant |-> <<"code", c>>,
                   user |-> codes[c].user, client |-> codes[c].client]
  <2>1. <<"code", c>> \in Grants /\ codes[c].user \in Users /\ codes[c].client \in Clients
    BY <1>1 DEF Grants, CodesOK, Code
  <2>2. x \in Request /\ x.at = "spendCode" /\ x.grant[1] = "code"
    BY <2>1 DEF Request, Spender
  <2>3. ReqOK'
    BY <1>0, <1>7, <2>2 DEF ReqOK, FindCode, Become
  <2>4. excused' \in [Grants -> Nat]
    BY <1>1, <1>7, <2>1, ExcuseOK DEF RestOK, FindCode
  <2> QED BY <1>1, <1>7, <2>3, <2>4 DEF FindCode, CodesOK, TokensOK, RestOK
<1>8. ASSUME NEW r \in Requests, SpendCode(r) \/ SpendCodeFails(r)
      PROVE  CodesOK' /\ TokensOK' /\ RestOK' /\ ReqOK'
  <2>1. req[r] \in Spender /\ req[r].grant[1] = "code"
    BY <1>0, <1>8, Fields DEF ReqOK, SpendCode, SpendCodeFails, At, Spends
  <2>2. req[r].grant \in Grants /\ req[r].grant[2] \in Codes
    BY <2>1 DEF Spender, Grants
  <2>3. ReqOK'
    BY <1>0, <1>8, <2>1, Spent, BecomeOK DEF SpendCode, SpendCodeFails
  <2>4. CASE SpendCode(r)
    <3>1. CodesOK'
      BY <1>1, <2>2, <2>4, CodeRows DEF CodesOK, CodeOK, SpendCode
    <3> QED BY <1>1, <2>3, <2>4, <3>1 DEF SpendCode, TokensOK, RestOK, historyVars
  <2>5. CASE SpendCodeFails(r)
    BY <1>1, <2>2, <2>3, <2>5, FaultOK DEF SpendCodeFails, CodesOK, TokensOK, RestOK
  <2> QED BY <1>8, <2>4, <2>5
<1>9. ASSUME NEW r \in Requests, NEW t \in Tokens, FindRefresh(r, t)
      PROVE  CodesOK' /\ TokensOK' /\ RestOK' /\ ReqOK'
  <2> DEFINE x == [at |-> "spendToken", grant |-> <<"refresh", t>>,
                   user |-> tokens[t].user, client |-> tokens[t].client]
  <2>1. <<"refresh", t>> \in Grants /\ tokens[t].user \in Users /\ tokens[t].client \in Clients
    BY <1>1 DEF Grants, TokensOK, Token
  <2>2. x \in Request /\ x.at = "spendToken" /\ x.grant[1] = "refresh"
    BY <2>1 DEF Request, Spender
  <2>3. ReqOK'
    BY <1>0, <1>9, <2>2 DEF ReqOK, FindRefresh, Become
  <2>4. excused' \in [Grants -> Nat]
    BY <1>1, <1>9, <2>1, ExcuseOK DEF RestOK, FindRefresh
  <2> QED BY <1>1, <1>9, <2>3, <2>4 DEF FindRefresh, CodesOK, TokensOK, RestOK
<1>10. ASSUME NEW r \in Requests, SpendToken(r) \/ SpendTokenFails(r)
       PROVE  CodesOK' /\ TokensOK' /\ RestOK' /\ ReqOK'
  <2>1. req[r] \in Spender /\ req[r].grant[1] = "refresh"
    BY <1>0, <1>10, Fields DEF ReqOK, SpendToken, SpendTokenFails, At, Spends
  <2>2. req[r].grant \in Grants /\ req[r].grant[2] \in Tokens
    BY <2>1 DEF Spender, Grants
  <2>3. ReqOK'
    BY <1>0, <1>10, <2>1, Spent, BecomeOK DEF SpendToken, SpendTokenFails
  <2>4. CASE SpendToken(r)
    <3>1. TokensOK'
      BY <1>1, <2>2, <2>4, TokenRows DEF TokensOK, TokenOK, SpendToken
    <3> QED BY <1>1, <2>3, <2>4, <3>1 DEF SpendToken, CodesOK, RestOK, historyVars
  <2>5. CASE SpendTokenFails(r)
    BY <1>1, <2>2, <2>3, <2>5, FaultOK DEF SpendTokenFails, CodesOK, TokensOK, RestOK
  <2> QED BY <1>10, <2>4, <2>5
<1>11. ASSUME NEW r \in Requests, Issue(r)
       PROVE  CodesOK' /\ TokensOK' /\ RestOK' /\ ReqOK'
  <2>1. req[r].grant \in Grants /\ req[r].user \in Users /\ req[r].client \in Clients
    BY <1>0, <1>11, Fields, Spent DEF ReqOK, Issue, At, Spends
  <2> DEFINE x == [NoToken EXCEPT !.row = "here", !.user = req[r].user,
                                  !.client = req[r].client, !.late = Closing(req[r].user)]
  <2>2. PICK t \in Tokens : tokens' = [tokens EXCEPT ![t] = x]
    BY <1>11 DEF Issue
  <2>3. Closing(req[r].user) \in BOOLEAN
    BY DEF Closing
  <2>x. TokenOK(x)
    BY <2>1, <2>3, TokenRows
  <2> HIDE DEF x
  <2>4. TokensOK'
    BY <1>1, <2>2, <2>x DEF TokensOK, TokenOK
  <2>5. ReqOK'
    BY <1>0, <1>11, IdleOK, BecomeOK DEF Issue
  <2>6. uses' \in [Grants -> Nat]
    BY <1>1, <1>11, <2>1 DEF Issue, RestOK
  <2> QED BY <1>1, <1>11, <2>4, <2>5, <2>6 DEF Issue, CodesOK, RestOK
<1>12. ASSUME NEW r \in Requests, IssueFails(r) \/ RevokeFails(r) \/ SweepFails(r)
       PROVE  CodesOK' /\ TokensOK' /\ RestOK' /\ ReqOK'
  <2>1. ReqOK'
    BY <1>0, <1>12, IdleOK, BecomeOK DEF IssueFails, RevokeFails, SweepFails
  <2> QED BY <1>1, <1>12, <2>1, FaultOK DEF IssueFails, RevokeFails, SweepFails, CodesOK,
                                            TokensOK, RestOK, historyVars
<1>13. ASSUME NEW r \in Requests, NEW t \in Tokens, FindForRevocation(r, t) \/ FindToken(r, t)
       PROVE  CodesOK' /\ TokensOK' /\ RestOK' /\ ReqOK'
  <2>1. tokens[t].user \in Users
    BY <1>1 DEF TokensOK, Token
  <2>2. ReqOK'
    BY <1>0, <1>13, <2>1, BecomeOK DEF FindForRevocation, FindToken, Request
  <2> QED BY <1>1, <1>13, <2>2 DEF FindForRevocation, FindToken, CodesOK, TokensOK, RestOK, historyVars
<1>14. ASSUME NEW r \in Requests, Revoke(r)
       PROVE  CodesOK' /\ TokensOK' /\ RestOK' /\ ReqOK'
  <2>1. req[r].token \in Tokens
    BY <1>0, <1>14, Fields DEF ReqOK, Revoke, At
  <2>2. TokensOK'
    BY <1>1, <1>14, <2>1, TokenRows DEF TokensOK, TokenOK, Revoke
  <2>3. ReqOK'
    BY <1>0, <1>14, IdleOK, BecomeOK DEF Revoke
  <2> QED BY <1>1, <1>14, <2>2, <2>3 DEF Revoke, CodesOK, RestOK
<1>15. ASSUME NEW r \in Requests, FindUser(r) \/ Serve(r)
       PROVE  CodesOK' /\ TokensOK' /\ RestOK' /\ ReqOK'
  <2>1. At(r, "lookup") => req[r].user \in Users
    BY <1>0, Fields DEF ReqOK, At
  <2>2. ReqOK'
    BY <1>0, <1>15, <2>1, IdleOK, BecomeOK DEF FindUser, Serve, Request
  <2> QED BY <1>1, <1>15, <2>2 DEF FindUser, Serve, CodesOK, TokensOK, RestOK, historyVars
<1>16. ASSUME NEW r \in Requests, SweepTokens(r) \/ SweepCodes(r) \/ SweepUser(r)
       PROVE  CodesOK' /\ TokensOK' /\ RestOK' /\ ReqOK'
  <2>1. req[r] \in [at : Closes, user : Users]
    BY <1>0, <1>16, Fields DEF ReqOK, SweepTokens, SweepCodes, SweepUser, At, Closes
  <2>2. ReqOK'
    BY <1>0, <1>16, <2>1, Swept, IdleOK, BecomeOK DEF SweepTokens, SweepCodes, SweepUser, Closes
  <2>3. CASE SweepTokens(r)
    <3>1. TokensOK'
      BY <1>1, <2>3, TokenRows DEF TokensOK, TokenOK, SweepTokens
    <3> QED BY <1>1, <2>2, <2>3, <3>1 DEF SweepTokens, CodesOK, RestOK, historyVars
  <2>4. CASE SweepCodes(r)
    <3>1. CodesOK'
      BY <1>1, <2>4, CodeRows DEF CodesOK, CodeOK, SweepCodes
    <3> QED BY <1>1, <2>2, <2>4, <3>1 DEF SweepCodes, TokensOK, RestOK, historyVars
  <2>5. CASE SweepUser(r)
    <3>1. req[r].user \in Users
      BY <2>1, Swept
    <3> QED BY <1>1, <2>2, <2>5, <3>1 DEF SweepUser, CodesOK, TokensOK, RestOK
  <2> QED BY <1>16, <2>3, <2>4, <2>5
<1> QED BY <1>2, <1>3, <1>4, <1>5, <1>6, <1>7, <1>8, <1>9, <1>10, <1>11, <1>12, <1>13, <1>14,
           <1>15, <1>16 DEF Next

\* Every variable stays in its range, whatever the handlers and the clients do.
THEOREM TypeCorrect == Spec => []TypeOK
<1>1. Init => TypeOK
  <2> SUFFICES ASSUME Init PROVE TypeOK
    OBVIOUS
  <2>1. codes \in [Codes -> Code] /\ \A c \in Codes : CodeOK(codes[c])
    BY NoRows, CodeRows DEF Init
  <2>2. tokens \in [Tokens -> Token] /\ \A t \in Tokens : TokenOK(tokens[t])
    BY NoRows, TokenRows DEF Init
  <2>3. req \in [Requests -> Request] /\ \A r \in Requests : req[r].at = "idle"
    BY IdleOK DEF Init
  <2> QED BY <2>1, <2>2, <2>3, SessionsAssumption DEF Init, TypeOK, CodeOK, TokenOK
<1>2. TypeOK /\ [Next]_vars => TypeOK'
  <2>1. CASE UNCHANGED vars
    BY <2>1 DEF vars, TypeOK
  <2> QED BY <2>1, TypeStep
<1> QED BY <1>1, <1>2, PTL DEF Spec

-----------------------------------------------------------------------------
(* A deleted account: nothing of it is left but what came in behind the      *)
(* deletion, and nobody acts for it.                                         *)

LateTokens(u) == \A t \in Tokens : OfUser(tokens[t], u) => tokens[t].late
LateCodes(u)  == \A c \in Codes : OfUser(codes[c], u) => codes[c].late

\* Some deletion of u has removed its codes as well.
ClosingCodes(u) == u \notin users \/ \E r \in Requests : At(r, "sweepUser") /\ req[r].user = u

\* What a deletion has swept stays swept while it goes on.
SweepInv ==
  \A u \in Users : /\ Closing(u) => LateTokens(u)
                   /\ ClosingCodes(u) => LateCodes(u)

\* No row of a user appears but with the mark it deserves.
RowsKeepMarks ==
  /\ \A t \in Tokens, u \in Users : OfUser(tokens[t], u)' =>
       \/ OfUser(tokens[t], u) /\ tokens'[t].late = tokens[t].late
       \/ tokens'[t].late = Closing(u)
  /\ \A c \in Codes, u \in Users : OfUser(codes[c], u)' =>
       \/ OfUser(codes[c], u) /\ codes'[c].late = codes[c].late
       \/ codes'[c].late = Closing(u)

NoNewClosing ==
  \A u \in Users : (Closing(u)' => Closing(u)) /\ (ClosingCodes(u)' => ClosingCodes(u))

LEMMA KeepsSwept ==
  ASSUME SweepInv, RowsKeepMarks, NoNewClosing
  PROVE  SweepInv'
<1>1. \A u \in Users : ClosingCodes(u) => Closing(u)
  BY DEF ClosingCodes, Closing, At
<1> QED BY <1>1 DEF SweepInv, RowsKeepMarks, NoNewClosing, LateTokens, LateCodes

LEMMA OtherSteps ==
  ASSUME ReqOK, NEW r \in Requests, NEW x, Become(r, x), UNCHANGED users,
         x.at \notin {"sweepCodes", "sweepUser"}
  PROVE  NoNewClosing
BY DEF ReqOK, Become, NoNewClosing, Closing, ClosingCodes, At

LEMMA NoStep ==
  ASSUME UNCHANGED <<req, users>>
  PROVE  NoNewClosing
BY DEF NoNewClosing, Closing, ClosingCodes, At

LEMMA SweepStep ==
  ASSUME TypeOK, SweepInv, Next
  PROVE  SweepInv'
<1>0. ReqOK
  BY DEF TypeOK, ReqOK
<1>1. ASSUME NEW u \in Users, NEW cl \in Clients, SignIn(u, cl)
      PROVE  SweepInv'
  BY <1>1, NoStep, KeepsSwept DEF SignIn, RowsKeepMarks, OfUser
<1>2. ASSUME NEW p \in pages, ExpirePage(p)
      PROVE  SweepInv'
  BY <1>2, NoStep, KeepsSwept DEF ExpirePage, RowsKeepMarks, OfUser
<1>3. ASSUME NEW p \in pages, Approve(p)
      PROVE  SweepInv'
  <2>1. RowsKeepMarks
    BY <1>3 DEF TypeOK, Approve, RowsKeepMarks, OfUser
  <2> QED BY <1>3, <2>1, NoStep, KeepsSwept DEF Approve
<1>4. ASSUME NEW c \in Codes, ExpireCode(c) \/ FindExpiredCode(c)
      PROVE  SweepInv'
  <2>1. RowsKeepMarks
    BY <1>4 DEF TypeOK, ExpireCode, FindExpiredCode, CodeRowSpent, NoCode, Code, RowsKeepMarks, OfUser
  <2> QED BY <1>4, <2>1, NoStep, KeepsSwept DEF ExpireCode, FindExpiredCode
<1>5. ASSUME NEW t \in Tokens, ExpireToken(t)
      PROVE  SweepInv'
  <2>1. RowsKeepMarks
    BY <1>5 DEF TypeOK, ExpireToken, Token, RowsKeepMarks, OfUser
  <2> QED BY <1>5, <2>1, NoStep, KeepsSwept DEF ExpireToken
<1>6. ASSUME NEW r \in Requests, NEW c \in Codes, FindCode(r, c)
      PROVE  SweepInv'
  BY <1>0, <1>6, OtherSteps, KeepsSwept DEF FindCode, RowsKeepMarks, OfUser
<1>7. ASSUME NEW r \in Requests, SpendCode(r) \/ SpendCodeFails(r)
      PROVE  SweepInv'
  <2>1. req[r] \in Spender
    BY <1>0, <1>7, Fields DEF ReqOK, SpendCode, SpendCodeFails, At, Spends
  <2>2. NoNewClosing
    BY <1>0, <1>7, <2>1, Spent, OtherSteps DEF SpendCode, SpendCodeFails
  <2>3. RowsKeepMarks
    BY <1>7 DEF TypeOK, SpendCode, SpendCodeFails, CodeRowSpent, NoCode, RowsKeepMarks, OfUser
  <2> QED BY <2>2, <2>3, KeepsSwept
<1>8. ASSUME NEW r \in Requests, NEW t \in Tokens,
             FindRefresh(r, t) \/ FindForRevocation(r, t) \/ FindToken(r, t)
      PROVE  SweepInv'
  <2>1. NoNewClosing
    BY <1>0, <1>8, OtherSteps DEF FindRefresh, FindForRevocation, FindToken
  <2> QED BY <1>8, <2>1, KeepsSwept DEF FindRefresh, FindForRevocation, FindToken, RowsKeepMarks, OfUser
<1>9. ASSUME NEW r \in Requests, SpendToken(r) \/ SpendTokenFails(r)
      PROVE  SweepInv'
  <2>1. req[r] \in Spender
    BY <1>0, <1>9, Fields DEF ReqOK, SpendToken, SpendTokenFails, At, Spends
  <2>2. NoNewClosing
    BY <1>0, <1>9, <2>1, Spent, OtherSteps DEF SpendToken, SpendTokenFails
  <2>3. RowsKeepMarks
    BY <1>9 DEF TypeOK, SpendToken, SpendTokenFails, Revoked, Token, RowsKeepMarks, OfUser
  <2> QED BY <2>2, <2>3, KeepsSwept
<1>10. ASSUME NEW r \in Requests, Issue(r)
       PROVE  SweepInv'
  <2>1. RowsKeepMarks
    BY <1>10 DEF TypeOK, Issue, NoToken, RowsKeepMarks, OfUser
  <2> QED BY <1>0, <1>10, <2>1, IdleOK, OtherSteps, KeepsSwept DEF Issue
<1>11. ASSUME NEW r \in Requests, IssueFails(r) \/ RevokeFails(r) \/ SweepFails(r) \/ Serve(r)
       PROVE  SweepInv'
  <2>1. NoNewClosing
    BY <1>0, <1>11, IdleOK, OtherSteps DEF IssueFails, RevokeFails, SweepFails, Serve
  <2> QED BY <1>11, <2>1, KeepsSwept DEF IssueFails, RevokeFails, SweepFails, Serve, RowsKeepMarks, OfUser
<1>12. ASSUME NEW r \in Requests, Revoke(r)
       PROVE  SweepInv'
  <2>1. RowsKeepMarks
    BY <1>12 DEF TypeOK, Revoke, Revoked, Token, RowsKeepMarks, OfUser
  <2> QED BY <1>0, <1>12, <2>1, IdleOK, OtherSteps, KeepsSwept DEF Revoke
<1>13. ASSUME NEW r \in Requests, FindUser(r)
       PROVE  SweepInv'
  BY <1>0, <1>13, IdleOK, OtherSteps, KeepsSwept DEF FindUser, RowsKeepMarks, OfUser
<1>14. ASSUME NEW r \in Requests, SweepTokens(r)
       PROVE  SweepInv'
  <2>1. req[r] \in [at : Closes, user : Users]
    BY <1>0, <1>14, Fields DEF ReqOK, SweepTokens, At, Closes
  <2>2. req'[r].at = "sweepCodes" /\ req'[r].user = req[r].user
    BY <1>0, <1>14, <2>1, Swept DEF ReqOK, SweepTokens, Become, Closes
  <2>3. \A u \in Users \ {req[r].user} :
          (Closing(u)' => Closing(u)) /\ (ClosingCodes(u)' => ClosingCodes(u))
    BY <1>0, <1>14, <2>2 DEF ReqOK, SweepTokens, Become, Closing, ClosingCodes, At
  <2>4. \A u \in Users : u = req[r].user /\ ClosingCodes(u)' => ClosingCodes(u)
    BY <1>0, <1>14, <2>2 DEF ReqOK, SweepTokens, Become, ClosingCodes, At
  <2>5. \A u \in Users : u = req[r].user => LateTokens(u)'
    BY <1>14 DEF LateTokens, SweepTokens, OfUser, NoToken
  <2>6. \A u \in Users : LateCodes(u) => LateCodes(u)'
    BY <1>14 DEF LateCodes, SweepTokens, OfUser
  <2>7. \A t \in Tokens : tokens'[t].row = "deleted" \/ tokens'[t] = tokens[t]
    BY <1>14 DEF SweepTokens, NoToken
  <2>8. \A u \in Users : LateTokens(u) => LateTokens(u)'
    BY <2>7 DEF LateTokens, OfUser
  <2> QED
    <3> SUFFICES ASSUME NEW u \in Users
                 PROVE  /\ Closing(u)' => LateTokens(u)'
                        /\ ClosingCodes(u)' => LateCodes(u)'
      BY DEF SweepInv
    <3>1. CASE u = req[r].user
      BY <2>4, <2>5, <2>6, <3>1 DEF SweepInv
    <3>2. CASE u # req[r].user
      BY <2>3, <2>6, <2>8, <3>2 DEF SweepInv
    <3> QED BY <3>1, <3>2
<1>15. ASSUME NEW r \in Requests, SweepCodes(r)
       PROVE  SweepInv'
  <2>1. req[r] \in [at : Closes, user : Users]
    BY <1>0, <1>15, Fields DEF ReqOK, SweepCodes, At, Closes
  <2>2. req'[r].at = "sweepUser" /\ req'[r].user = req[r].user
    BY <1>0, <1>15, <2>1, Swept DEF ReqOK, SweepCodes, Become, Closes
  <2>3. \A u \in Users : Closing(u)' => Closing(u)
    BY <1>0, <1>15, <2>2 DEF ReqOK, SweepCodes, Become, Closing, At
  <2>4. \A u \in Users \ {req[r].user} : ClosingCodes(u)' => ClosingCodes(u)
    BY <1>0, <1>15, <2>2 DEF ReqOK, SweepCodes, Become, ClosingCodes, At
  <2>5. \A u \in Users : u = req[r].user => LateCodes(u)'
    BY <1>15 DEF LateCodes, SweepCodes, OfUser, CodeRowSpent, NoCode
  <2>6. \A u \in Users : LateTokens(u) => LateTokens(u)'
    BY <1>15 DEF LateTokens, SweepCodes, OfUser
  <2>7. \A c \in Codes : codes'[c].row = "deleted" \/ codes'[c] = codes[c]
    BY <1>15 DEF SweepCodes, CodeRowSpent, NoCode
  <2>8. \A u \in Users : LateCodes(u) => LateCodes(u)'
    BY <2>7 DEF LateCodes, OfUser
  <2> QED
    <3> SUFFICES ASSUME NEW u \in Users
                 PROVE  /\ Closing(u)' => LateTokens(u)'
                        /\ ClosingCodes(u)' => LateCodes(u)'
      BY DEF SweepInv
    <3>1. CASE u = req[r].user
      BY <2>3, <2>5, <2>6, <3>1 DEF SweepInv
    <3>2. CASE u # req[r].user
      BY <2>3, <2>4, <2>6, <2>8, <3>2 DEF SweepInv
    <3> QED BY <3>1, <3>2
<1>16. ASSUME NEW r \in Requests, SweepUser(r)
       PROVE  SweepInv'
  <2>1. NoNewClosing
    BY <1>0, <1>16, IdleOK DEF ReqOK, SweepUser, Become, NoNewClosing, Closing, ClosingCodes, At
  <2> QED BY <1>16, <2>1, KeepsSwept DEF SweepUser, RowsKeepMarks, OfUser
<1> QED BY <1>1, <1>2, <1>3, <1>4, <1>5, <1>6, <1>7, <1>8, <1>9, <1>10, <1>11, <1>12, <1>13,
           <1>14, <1>15, <1>16 DEF Next

\* delete_account leaves no code and no token of its user but those that were inserted
\* behind it, whichever of its calls failed before and was repeated.
THEOREM NothingIsLeft == Spec => []DeletionSweeps
<1>1. Init => SweepInv
  BY NoRows, IdleOK DEF Init, SweepInv, Closing, ClosingCodes, LateTokens, LateCodes, OfUser, At
<1>2. TypeOK /\ SweepInv /\ [Next]_vars => SweepInv'
  <2>1. CASE UNCHANGED vars
    BY <2>1, NoStep, KeepsSwept DEF vars, RowsKeepMarks, OfUser
  <2> QED BY <2>1, SweepStep
<1>3. SweepInv => DeletionSweeps
  BY DEF SweepInv, DeletionSweeps, Closing, ClosingCodes, LateTokens, LateCodes
<1> QED BY <1>1, <1>2, <1>3, TypeCorrect, PTL DEF Spec

\* A user whose deletion was answered has no row.
ClosedInv == closed \cap users = {}

\* A handler gets past the user lookup by its own step, with a user that has a row.
LEMMA LookupStep ==
  ASSUME ReqOK, Next, NEW r \in Requests, At(r, "lookup"), req'[r].at = "serve"
  PROVE  req[r].user \in users
<1>1. req[r].at = "lookup" /\ req' # req
  BY DEF At
<1>2. ASSUME NEW s \in Requests, NEW x, Become(s, x)
      PROVE  s = r
  BY <1>1, <1>2 DEF ReqOK, Become
<1>3. PICK s \in Requests :
       \/ \E c \in Codes : FindCode(s, c)
       \/ SpendCode(s) \/ SpendCodeFails(s)
       \/ \E t \in Tokens : FindRefresh(s, t) \/ FindForRevocation(s, t) \/ FindToken(s, t)
       \/ SpendToken(s) \/ SpendTokenFails(s)
       \/ Issue(s) \/ IssueFails(s)
       \/ Revoke(s) \/ RevokeFails(s)
       \/ FindUser(s) \/ Serve(s)
       \/ SweepTokens(s) \/ SweepCodes(s) \/ SweepUser(s) \/ SweepFails(s)
  BY <1>1 DEF Next, SignIn, ExpirePage, Approve, ExpireCode, FindExpiredCode, ExpireToken
<1>4. s = r
  BY <1>2, <1>3 DEF FindCode, SpendCode, SpendCodeFails, FindRefresh, FindForRevocation,
     FindToken, SpendToken, SpendTokenFails, Issue, IssueFails, Revoke, RevokeFails, FindUser,
     Serve, SweepTokens, SweepCodes, SweepUser, SweepFails
<1>5. FindUser(r)
  BY <1>1, <1>3, <1>4 DEF At, FindCode, SpendCode, SpendCodeFails, FindRefresh,
     FindForRevocation, FindToken, SpendToken, SpendTokenFails, Issue, IssueFails, Revoke,
     RevokeFails, Serve, SweepTokens, SweepCodes, SweepUser, SweepFails
<1> QED BY <1>1, <1>5 DEF ReqOK, FindUser, Become, Known, Idle

LEMMA ClosedStep ==
  ASSUME ClosedInv, Next
  PROVE  ClosedInv'
<1>1. \/ UNCHANGED <<users, closed>>
      \/ \E u : users' = users \ {u} /\ closed' = closed \cup {u}
  BY DEF Next, SignIn, ExpirePage, Approve, ExpireCode, FindExpiredCode, ExpireToken,
     FindCode, SpendCode, SpendCodeFails, FindRefresh, FindForRevocation, FindToken,
     SpendToken, SpendTokenFails, Issue, IssueFails, Revoke, RevokeFails, FindUser, Serve,
     SweepTokens, SweepCodes, SweepUser, SweepFails, historyVars
<1> QED BY <1>1 DEF ClosedInv

\* No handler acts for a user once the deletion of the account was answered, whatever
\* token rows came in behind it.
THEOREM ClosedStaysClosed == Spec => ClosedAccountIsClosed
<1>1. Init => ClosedInv
  BY DEF Init, ClosedInv
<1>2. ClosedInv /\ [Next]_vars => ClosedInv'
  <2>1. CASE UNCHANGED vars
    BY <2>1 DEF vars, ClosedInv
  <2> QED BY <2>1, ClosedStep
<1>3. TypeOK /\ ClosedInv /\ [Next]_vars =>
        [\A r \in Requests : At(r, "lookup") /\ req'[r].at = "serve"
           => req[r].user \notin closed]_vars
  BY LookupStep DEF TypeOK, ReqOK, ClosedInv
<1> QED BY <1>1, <1>2, <1>3, TypeCorrect, PTL DEF Spec, ClosedAccountIsClosed

-----------------------------------------------------------------------------
(* One token row for one grant                                               *)

\* Handlers that hold the grant: they have found it good and may issue a token row.
Holders(g) == {r \in Requests : req[r].at \in Spends /\ req[r].grant = g}
\* Some of them have not spent it.
Finding(g) == \E r \in Requests : req[r].at \in {"spendCode", "spendToken"} /\ req[r].grant = g

GoodToken(row) == row.row = "here" /\ ~row.revoked
Good(g)  == IF g[1] = "code" THEN codes[g[2]].row = "here" ELSE GoodToken(tokens[g[2]])
Never(g) == IF g[1] = "code" THEN codes[g[2]].row = "never" ELSE tokens[g[2]].row = "never"

\* Every token row a grant gave or may still give is excused, but one; not even that
\* one while the grant is good and nobody has it in hand.
Counted(g) == uses[g] + Cardinality(Holders(g))
                <= excused[g] + (IF Good(g) /\ ~Finding(g) THEN 0 ELSE 1)
\* A grant that does not exist gave nothing.
Unused(g)  == Never(g) => uses[g] = 0 /\ Holders(g) = {}
CountInv   == \A g \in Grants : Counted(g) /\ Unused(g)

\* No grant is good again.
RowsMove ==
  /\ \A c \in Codes : /\ codes'[c].row = "here" => codes[c].row \in {"here", "never"}
                      /\ codes'[c].row = "never" => codes[c].row = "never"
  /\ \A t \in Tokens : /\ GoodToken(tokens'[t]) => GoodToken(tokens[t]) \/ tokens[t].row = "never"
                       /\ tokens'[t].row = "never" => tokens[t].row = "never"

LEMMA GrantParts ==
  ASSUME NEW g \in Grants
  PROVE  \/ g[1] = "code" /\ g[2] \in Codes
         \/ g[1] = "refresh" /\ g[2] \in Tokens
BY DEF Grants

LEMMA GrantsMove ==
  ASSUME RowsMove, NEW g \in Grants
  PROVE  /\ Good(g)' => Good(g) \/ Never(g)
         /\ Never(g)' => Never(g)
BY GrantParts DEF RowsMove, Good, Never

LEMMA HoldersFinite ==
  ASSUME NEW g
  PROVE  /\ IsFiniteSet(Holders(g)) /\ Cardinality(Holders(g)) \in Nat
         /\ IsFiniteSet(Holders(g)') /\ Cardinality(Holders(g)') \in Nat
<1>1. Holders(g) \subseteq Requests /\ Holders(g)' \subseteq Requests
  BY DEF Holders
<1> QED BY <1>1, SessionsAssumption, FS_Subset, FS_CardinalityType

LEMMA RowsKept ==
  ASSUME UNCHANGED <<codes, tokens>>
  PROVE  RowsMove
BY DEF RowsMove, GoodToken

LEMMA RowsStep ==
  ASSUME TypeOK, Next
  PROVE  RowsMove
<1>1. ASSUME NEW p \in pages, Approve(p)
      PROVE  RowsMove
  BY <1>1 DEF TypeOK, Approve, RowsMove, GoodToken
<1>2. ASSUME NEW c \in Codes, ExpireCode(c) \/ FindExpiredCode(c)
      PROVE  RowsMove
  BY <1>2 DEF TypeOK, Code, ExpireCode, FindExpiredCode, CodeRowSpent, NoCode, RowsMove, GoodToken
<1>3. ASSUME NEW t \in Tokens, ExpireToken(t)
      PROVE  RowsMove
  BY <1>3 DEF TypeOK, Token, ExpireToken, RowsMove, GoodToken
<1>4. ASSUME NEW r \in Requests, SpendCode(r)
      PROVE  RowsMove
  BY <1>4 DEF TypeOK, SpendCode, CodeRowSpent, NoCode, RowsMove, GoodToken
<1>5. ASSUME NEW r \in Requests, SpendToken(r) \/ Revoke(r)
      PROVE  RowsMove
  BY <1>5 DEF TypeOK, Token, SpendToken, Revoke, Revoked, RowsMove, GoodToken
<1>6. ASSUME NEW r \in Requests, Issue(r)
      PROVE  RowsMove
  BY <1>6 DEF TypeOK, Issue, NoToken, RowsMove, GoodToken
<1>7. ASSUME NEW r \in Requests, SweepTokens(r)
      PROVE  RowsMove
  BY <1>7 DEF SweepTokens, NoToken, RowsMove, GoodToken
<1>8. ASSUME NEW r \in Requests, SweepCodes(r)
      PROVE  RowsMove
  BY <1>8 DEF SweepCodes, CodeRowSpent, NoCode, OfUser, RowsMove, GoodToken
<1> QED BY <1>1, <1>2, <1>3, <1>4, <1>5, <1>6, <1>7, <1>8, RowsKept
     DEF Next, SignIn, ExpirePage, FindCode, SpendCodeFails, FindRefresh, FindForRevocation,
     FindToken, SpendTokenFails, IssueFails, RevokeFails, FindUser, Serve, SweepUser, SweepFails

LEMMA Untouched ==
  ASSUME NEW g \in Grants, Counted(g), Unused(g), RowsMove, TypeOK, TypeOK',
         uses'[g] = uses[g], excused'[g] = excused[g],
         Holders(g)' = Holders(g), Finding(g)' <=> Finding(g)
  PROVE  Counted(g)' /\ Unused(g)'
<1>1. /\ Good(g)' => Good(g) \/ Never(g)
      /\ Never(g)' => Never(g)
  BY GrantsMove
<1>2. uses[g] \in Nat /\ excused[g] \in Nat /\ Cardinality(Holders(g)) \in Nat
  BY HoldersFinite DEF TypeOK
<1>3. Unused(g)'
  BY <1>1 DEF Unused
<1>4. CASE Never(g)
  <2>1. Holders(g) = {} /\ Holders(g)' = {} /\ uses'[g] = 0
    BY <1>4 DEF Unused
  <2>2. uses'[g] + Cardinality(Holders(g)') <= excused'[g]
    BY <1>2, <2>1, FS_EmptySet
  <2> QED BY <1>2, <1>3, <2>1, <2>2, FS_EmptySet DEF Counted
<1>5. CASE ~Never(g)
  BY <1>1, <1>2, <1>3, <1>5 DEF Counted
<1> QED BY <1>4, <1>5

\* A step of one handler changes what it holds and nothing else.
LEMMA HoldersMove ==
  ASSUME ReqOK, NEW r \in Requests, NEW x, Become(r, x), NEW g
  PROVE  /\ ~(req[r].at \in Spends /\ req[r].grant = g) /\ ~(x.at \in Spends /\ x.grant = g)
              => Holders(g)' = Holders(g) /\ (Finding(g)' <=> Finding(g))
         /\ x.at \in Spends /\ x.grant = g => Holders(g)' = Holders(g) \cup {r}
         /\ ~(x.at \in Spends /\ x.grant = g) => Holders(g)' = Holders(g) \ {r}
BY DEF ReqOK, Become, Holders, Finding, Spends

LEMMA IdleMoves ==
  ASSUME TypeOK, TypeOK', RowsMove, NEW g \in Grants, Counted(g), Unused(g),
         UNCHANGED <<uses, excused>>,
         \/ UNCHANGED req
         \/ \E r \in Requests : \E x : Become(r, x) /\ req[r].at \notin Spends /\ x.at \notin Spends
  PROVE  Counted(g)' /\ Unused(g)'
<1>1. CASE UNCHANGED req
  <2>1. Holders(g)' = Holders(g) /\ (Finding(g)' <=> Finding(g))
    BY <1>1 DEF Holders, Finding
  <2> QED BY <2>1, Untouched
<1>2. CASE \E r \in Requests : \E x : Become(r, x) /\ req[r].at \notin Spends /\ x.at \notin Spends
  <2>1. Holders(g)' = Holders(g) /\ (Finding(g)' <=> Finding(g))
    BY <1>2, HoldersMove DEF TypeOK, ReqOK
  <2> QED BY <2>1, Untouched
<1> QED BY <1>1, <1>2

LEMMA FindMoves ==
  ASSUME TypeOK, TypeOK', RowsMove, NEW g \in Grants, Counted(g), Unused(g),
         NEW r \in Requests, NEW step, step = (IF g[1] = "code" THEN "spendCode" ELSE "spendToken"),
         NEW x, x.at = step, x.grant = g, At(r, "idle"), Become(r, x), Excuse(g, step),
         Good(g), ~Never(g)', UNCHANGED uses
  PROVE  Counted(g)' /\ Unused(g)'
<1>0. ReqOK
  BY DEF TypeOK, ReqOK
<1>1. Holders(g)' = Holders(g) \cup {r} /\ r \notin Holders(g)
  BY <1>0, HoldersMove DEF At, Holders, Spends
<1>2. Cardinality(Holders(g)') = Cardinality(Holders(g)) + 1 /\ Cardinality(Holders(g)) \in Nat
  BY <1>1, HoldersFinite, FS_AddElement
<1>3. Finding(g)'
  BY <1>0 DEF ReqOK, Become, Finding
<1>4. uses[g] \in Nat /\ excused[g] \in Nat /\ uses'[g] = uses[g]
  BY DEF TypeOK
<1>5. CASE Finding(g)
  <2>1. PICK s \in Requests : req[s].at \in {"spendCode", "spendToken"} /\ req[s].grant = g
    BY <1>5 DEF Finding
  <2>2. Spending(s, step, g)
    BY <1>0, <2>1 DEF ReqOK, Spending, At
  <2>3. excused'[g] = excused[g] + 1
    BY <2>2 DEF Excuse, TypeOK
  <2> QED BY <1>2, <1>3, <1>4, <1>5, <2>3 DEF Counted, Unused
<1>6. CASE ~Finding(g)
  <2>1. excused'[g] = excused[g] \/ excused'[g] = excused[g] + 1
    BY DEF Excuse, TypeOK
  <2> QED BY <1>2, <1>3, <1>4, <1>6, <2>1 DEF Counted, Unused
<1> QED BY <1>5, <1>6

LEMMA ExcusedElsewhere ==
  ASSUME NEW G, NEW step, Excuse(G, step), NEW g \in Grants, g # G,
         excused \in [Grants -> Nat]
  PROVE  excused'[g] = excused[g]
BY DEF Excuse

LEMMA FindElsewhere ==
  ASSUME TypeOK, TypeOK', RowsMove, NEW g \in Grants, Counted(g), Unused(g),
         NEW r \in Requests, NEW step, NEW x, x.grant # g, At(r, "idle"), Become(r, x),
         NEW G, g # G, Excuse(G, step), UNCHANGED uses
  PROVE  Counted(g)' /\ Unused(g)'
<1>1. Holders(g)' = Holders(g) /\ (Finding(g)' <=> Finding(g))
  BY HoldersMove DEF TypeOK, ReqOK, At, Spends
<1>2. excused'[g] = excused[g]
  BY ExcusedElsewhere DEF TypeOK
<1> QED BY <1>1, <1>2, Untouched

\* A handler that holds another grant.
LEMMA HolderElsewhere ==
  ASSUME TypeOK, TypeOK', RowsMove, NEW g \in Grants, Counted(g), Unused(g),
         NEW r \in Requests, NEW x, Become(r, x), req[r].grant # g,
         x.at \in Spends => x.grant # g,
         uses'[g] = uses[g], excused'[g] = excused[g]
  PROVE  Counted(g)' /\ Unused(g)'
<1>1. Holders(g)' = Holders(g) /\ (Finding(g)' <=> Finding(g))
  BY HoldersMove DEF TypeOK, ReqOK
<1> QED BY <1>1, Untouched

\* A handler that spends its grant, or fails to and is excused.
LEMMA SpendMoves ==
  ASSUME TypeOK, TypeOK', RowsMove, NEW g \in Grants, Counted(g), Unused(g),
         NEW r \in Requests, req[r].at \in {"spendCode", "spendToken"}, req[r].grant = g,
         NEW x, Become(r, x), x.at = "issue", x.grant = g,
         UNCHANGED uses,
         \/ excused'[g] = excused[g] /\ ~Good(g)'
         \/ excused'[g] = excused[g] + 1
  PROVE  Counted(g)' /\ Unused(g)'
<1>0. ReqOK
  BY DEF TypeOK, ReqOK
<1>1. Holders(g)' = Holders(g) /\ r \in Holders(g)
  <2>1. r \in Holders(g)
    BY DEF Holders, Spends
  <2> QED BY <1>0, <2>1, HoldersMove DEF Spends
<1>2. ~Never(g)'
  BY <1>1, GrantsMove DEF Unused
<1>3. Finding(g)
  BY DEF Finding
<1>4. /\ uses[g] \in Nat /\ excused[g] \in Nat /\ Cardinality(Holders(g)) \in Nat
      /\ uses'[g] = uses[g]
  BY HoldersFinite DEF TypeOK
<1> QED BY <1>1, <1>2, <1>3, <1>4 DEF Counted, Unused

\* A handler that issues the row of its grant, or fails to.
LEMMA IssueMoves ==
  ASSUME TypeOK, TypeOK', RowsMove, NEW g \in Grants, Counted(g), Unused(g),
         NEW r \in Requests, req[r].at = "issue", req[r].grant = g, Become(r, Idle),
         uses'[g] \in {uses[g], uses[g] + 1}, excused'[g] = excused[g]
  PROVE  Counted(g)' /\ Unused(g)'
<1>0. ReqOK
  BY DEF TypeOK, ReqOK
<1>1. r \in Holders(g)
  BY DEF Holders, Spends
<1>2. Holders(g)' = Holders(g) \ {r}
  BY <1>0, HoldersMove, IdleOK DEF Spends
<1>3. /\ Cardinality(Holders(g)) \in Nat /\ Cardinality(Holders(g)') \in Nat
      /\ Cardinality(Holders(g)') = Cardinality(Holders(g)) - 1
  BY <1>1, <1>2, HoldersFinite, FS_RemoveElement
<1>4. ~Never(g) /\ ~Never(g)' /\ (Good(g)' => Good(g))
  BY <1>1, GrantsMove DEF Unused
<1>5. Finding(g)' <=> Finding(g)
  BY <1>0, IdleOK DEF ReqOK, Become, Finding
<1>6. uses[g] \in Nat /\ excused[g] \in Nat
  BY DEF TypeOK
<1> QED BY <1>3, <1>4, <1>5, <1>6 DEF Counted, Unused

LEMMA CountStep ==
  ASSUME TypeOK, TypeOK', CountInv, Next
  PROVE  CountInv'
<1>0. ReqOK /\ RowsMove
  BY RowsStep DEF TypeOK, ReqOK
<1> SUFFICES ASSUME NEW g \in Grants
             PROVE  Counted(g)' /\ Unused(g)'
  BY DEF CountInv
<1>g. Counted(g) /\ Unused(g)
  BY DEF CountInv
<1>1. CASE UNCHANGED <<req, uses, excused>>
  BY <1>0, <1>1, <1>g, IdleMoves
<1>2. ASSUME NEW r \in Requests, NEW c \in Codes, FindCode(r, c)
      PROVE  Counted(g)' /\ Unused(g)'
  <2> DEFINE G == <<"code", c>>
             x == [at |-> "spendCode", grant |-> G,
                   user |-> codes[c].user, client |-> codes[c].client]
  <2>1. x.at = "spendCode" /\ x.grant = G /\ Become(r, x) /\ At(r, "idle")
        /\ Excuse(G, "spendCode") /\ UNCHANGED uses
    BY <1>2 DEF FindCode
  <2> HIDE DEF x
  <2>2. CASE g = G
    <3>1. g[1] = "code" /\ Good(g) /\ ~Never(g)'
      BY <1>2, <2>2 DEF FindCode, Good, Never
    <3> QED BY <1>0, <1>g, <2>1, <2>2, <3>1, FindMoves
  <2>3. CASE g # G
    BY <1>0, <1>g, <2>1, <2>3, FindElsewhere
  <2> QED BY <2>2, <2>3
<1>3. ASSUME NEW r \in Requests, NEW t \in Tokens, FindRefresh(r, t)
      PROVE  Counted(g)' /\ Unused(g)'
  <2> DEFINE G == <<"refresh", t>>
             x == [at |-> "spendToken", grant |-> G,
                   user |-> tokens[t].user, client |-> tokens[t].client]
  <2>1. x.at = "spendToken" /\ x.grant = G /\ Become(r, x) /\ At(r, "idle")
        /\ Excuse(G, "spendToken") /\ UNCHANGED uses
    BY <1>3 DEF FindRefresh
  <2> HIDE DEF x
  <2>2. CASE g = G
    <3>1. g[1] # "code" /\ Good(g) /\ ~Never(g)'
      BY <1>3, <2>2 DEF FindRefresh, Good, Never, GoodToken
    <3> QED BY <1>0, <1>g, <2>1, <2>2, <3>1, FindMoves
  <2>3. CASE g # G
    BY <1>0, <1>g, <2>1, <2>3, FindElsewhere
  <2> QED BY <2>2, <2>3
<1>4. ASSUME NEW r \in Requests,
             SpendCode(r) \/ SpendCodeFails(r) \/ SpendToken(r) \/ SpendTokenFails(r)
      PROVE  Counted(g)' /\ Unused(g)'
  <2> DEFINE x == [req[r] EXCEPT !.at = "issue"]
  <2>1. req[r].at \in {"spendCode", "spendToken"} /\ Become(r, x) /\ UNCHANGED uses
    BY <1>4 DEF SpendCode, SpendCodeFails, SpendToken, SpendTokenFails, At, historyVars
  <2>2. req[r] \in Spender
    BY <1>0, <2>1, Fields DEF ReqOK, Spends
  <2>3. x.at = "issue" /\ x.grant = req[r].grant /\ req[r].grant \in Grants
    BY <2>2, Spent
  <2>4. excused' = excused \/ excused' = [excused EXCEPT ![req[r].grant] = @ + 1]
    BY <1>4 DEF SpendCode, SpendCodeFails, SpendToken, SpendTokenFails, historyVars
  <2> HIDE DEF x
  <2>5. CASE g # req[r].grant
    <3>1. uses'[g] = uses[g] /\ excused'[g] = excused[g]
      BY <2>1, <2>3, <2>4, <2>5 DEF TypeOK
    <3> QED BY <1>0, <1>g, <2>1, <2>3, <2>5, <3>1, HolderElsewhere
  <2>6. CASE g = req[r].grant
    <3>1. CASE SpendCode(r)
      <4>1. g[1] = "code" /\ g[2] \in Codes
        BY <1>0, <2>6, <3>1, GrantParts DEF SpendCode, At, ReqOK
      <4>2. ~Good(g)' /\ excused'[g] = excused[g]
        BY <2>6, <3>1, <4>1 DEF SpendCode, Good, CodeRowSpent, NoCode, TypeOK, historyVars
      <4> QED BY <1>0, <1>g, <2>1, <2>3, <2>6, <4>2, SpendMoves
    <3>2. CASE SpendToken(r)
      <4>1. g[1] = "refresh" /\ g[2] \in Tokens
        BY <1>0, <2>6, <3>2, GrantParts DEF SpendToken, At, ReqOK
      <4>2. ~Good(g)' /\ excused'[g] = excused[g]
        BY <2>6, <3>2, <4>1 DEF SpendToken, Good, GoodToken, Revoked, Token, TypeOK, historyVars
      <4> QED BY <1>0, <1>g, <2>1, <2>3, <2>6, <4>2, SpendMoves
    <3>3. CASE SpendCodeFails(r) \/ SpendTokenFails(r)
      <4>1. excused'[g] = excused[g] + 1
        BY <2>6, <3>3 DEF SpendCodeFails, SpendTokenFails, TypeOK
      <4> QED BY <1>0, <1>g, <2>1, <2>3, <2>6, <4>1, SpendMoves
    <3> QED BY <1>4, <3>1, <3>2, <3>3
  <2> QED BY <2>5, <2>6
<1>5. ASSUME NEW r \in Requests, Issue(r) \/ IssueFails(r)
      PROVE  Counted(g)' /\ Unused(g)'
  <2>1. req[r].at = "issue" /\ Become(r, Idle) /\ excused' = excused
    BY <1>5 DEF Issue, IssueFails, At, historyVars
  <2>2. uses' = uses \/ uses' = [uses EXCEPT ![req[r].grant] = @ + 1]
    BY <1>5 DEF Issue, IssueFails, historyVars
  <2>3. CASE g # req[r].grant
    <3>1. uses'[g] = uses[g] /\ excused'[g] = excused[g]
      BY <2>1, <2>2, <2>3 DEF TypeOK
    <3> QED BY <1>0, <1>g, <2>1, <2>3, <3>1, IdleOK, HolderElsewhere DEF Spends
  <2>4. CASE g = req[r].grant
    <3>1. uses'[g] \in {uses[g], uses[g] + 1} /\ excused'[g] = excused[g]
      BY <2>1, <2>2, <2>4 DEF TypeOK
    <3> QED BY <1>0, <1>g, <2>1, <2>4, <3>1, IssueMoves
  <2> QED BY <2>3, <2>4
<1>6. ASSUME NEW r \in Requests, NEW t \in Tokens, FindForRevocation(r, t) \/ FindToken(r, t)
      PROVE  Counted(g)' /\ Unused(g)'
  <2>1. \E x : Become(r, x) /\ req[r].at \notin Spends /\ x.at \notin Spends
    BY <1>6 DEF FindForRevocation, FindToken, At, Spends
  <2>2. UNCHANGED <<uses, excused>>
    BY <1>6 DEF FindForRevocation, FindToken, historyVars
  <2> QED BY <1>0, <1>g, <2>1, <2>2, IdleMoves
<1>7. ASSUME NEW r \in Requests,
             \/ Revoke(r) \/ RevokeFails(r) \/ FindUser(r) \/ Serve(r)
             \/ SweepTokens(r) \/ SweepCodes(r) \/ SweepUser(r) \/ SweepFails(r)
      PROVE  Counted(g)' /\ Unused(g)'
  <2>1. \E x : Become(r, x) /\ req[r].at \notin Spends /\ x.at \notin Spends
    <3>1. CASE SweepTokens(r) \/ SweepCodes(r)
      <4>1. req[r] \in [at : Closes, user : Users]
        BY <1>0, <3>1, Fields DEF ReqOK, SweepTokens, SweepCodes, At, Closes
      <4>2. \A s \in Closes : [req[r] EXCEPT !.at = s].at = s
        BY <4>1
      <4> QED BY <3>1, <4>2 DEF SweepTokens, SweepCodes, At, Closes, Spends
    <3>2. CASE FindUser(r)
      <4> DEFINE y == IF Known(req[r].user) THEN [at |-> "serve", user |-> req[r].user] ELSE Idle
      <4>1. y.at \in {"serve", "idle"}
        BY IdleOK
      <4> QED BY <3>2, <4>1 DEF FindUser, At, Spends
    <3> QED BY <1>7, <3>1, <3>2, IdleOK DEF Revoke, RevokeFails, Serve, SweepUser, SweepFails, At, Spends
  <2>2. UNCHANGED <<uses, excused>>
    BY <1>7 DEF Revoke, RevokeFails, FindUser, Serve, SweepTokens, SweepCodes, SweepUser,
       SweepFails, historyVars
  <2> QED BY <1>0, <1>g, <2>1, <2>2, IdleMoves
<1> QED BY <1>1, <1>2, <1>3, <1>4, <1>5, <1>6, <1>7
     DEF Next, SignIn, ExpirePage, Approve, ExpireCode, FindExpiredCode, ExpireToken, historyVars

\* A code and a refresh token give one token row, plus one for every time that another
\* handler found the grant before it was spent or that spending it failed.
THEOREM OneRowPerGrant == Spec => []GrantsAreSingleUse
<1>1. Init => CountInv
  <2> SUFFICES ASSUME Init, NEW g \in Grants
               PROVE  Counted(g) /\ Unused(g)
    BY DEF CountInv
  <2>1. Holders(g) = {}
    BY DEF Init, Holders, Idle, Spends
  <2>2. uses[g] = 0 /\ excused[g] = 0
    BY DEF Init
  <2>3. ~Good(g)
    BY GrantParts, NoRows DEF Init, Good, GoodToken
  <2> QED BY <2>1, <2>2, <2>3, FS_EmptySet DEF Counted, Unused
<1>2. TypeOK /\ TypeOK' /\ CountInv /\ [Next]_vars => CountInv'
  <2>1. CASE UNCHANGED vars
    BY <2>1 DEF vars, CountInv, Counted, Unused, Good, GoodToken, Never, Finding, Holders
  <2> QED BY <2>1, CountStep
<1>3. TypeOK /\ CountInv => GrantsAreSingleUse
  <2> SUFFICES ASSUME TypeOK, NEW g \in Grants, Counted(g)
               PROVE  uses[g] <= 1 + excused[g]
    BY DEF CountInv, GrantsAreSingleUse
  <2> QED BY HoldersFinite DEF TypeOK, Counted
<1> QED BY <1>1, <1>2, <1>3, TypeCorrect, PTL DEF Spec

=============================================================================
