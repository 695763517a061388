--------------------------- MODULE AccountEmails ---------------------------
(***************************************************************************)
(* The addresses of a signed-in user and the end of an account             *)
(* (api/account.rs), on top of the accounts of module Accounts.            *)
(***************************************************************************)
EXTENDS Accounts

\* OAuth2Auth: module OAuthSessions has the token behind it.
SignedIn(u) == u \in sessions /\ Here(u)

Owns(u, x) == There(x) /\ extras[x].owner = u

\* add_email: not the caller's primary address, not an additional one of anybody ...
AddEmail(r, u, a) ==
  /\ At(r, "idle") /\ SignedIn(u)
  /\ a # users[u].email /\ ~IsAdditional(a)
  /\ Become(r, [at |-> "add", user |-> u, email |-> a])
  /\ SpendStart
  /\ UNCHANGED <<tableVars, sessions, mail, lastToken, historyVars, faults>>

\* ... and inserted, unless somebody was faster.  A row whose mail cannot be enqueued is
\* to be deleted again.
InsertEmail(r) ==
  /\ At(r, "add")
  /\ \/ /\ IsAdditional(req[r].email)
        /\ Become(r, Idle)
        /\ UNCHANGED <<extras, lastToken, mail, faults>>
     \/ /\ ~IsAdditional(req[r].email) /\ NewToken
        /\ \E x \in Rows :
             /\ FreeRow(x)
             /\ extras' = [extras EXCEPT ![x] = [row |-> "here", owner |-> req[r].user,
                  email |-> req[r].email, verified |-> FALSE, pending |-> lastToken + 1,
                  stale |-> FALSE]]
             /\ \/ /\ Send("extra", lastToken + 1, req[r].email)
                   /\ Become(r, Idle) /\ UNCHANGED faults
                \/ /\ Become(r, [at |-> "discard", extra |-> x])
                   /\ SpendFault /\ UNCHANGED mail
  /\ UNCHANGED <<users, sessions, historyVars, starts>>

TokenExpires(x) ==
  /\ There(x) /\ extras[x].pending # 0 /\ ~extras[x].stale
  /\ extras' = [extras EXCEPT ![x].stale = TRUE]
  /\ UNCHANGED <<users, sessions, mail, lastToken, req, historyVars, starts, faults>>

\* verify_email of the account API: the row is found by its token; if that is too old
\* the row is deleted, else verified.
FollowVerification(r, link) ==
  /\ At(r, "idle") /\ link.kind = "extra"
  /\ followed' = followed \cup {link.to}
  /\ \E x \in Rows :
       /\ There(x) /\ extras[x].pending = link.token
       /\ Become(r, [at |-> IF extras[x].stale THEN "discard" ELSE "verify", extra |-> x])
  /\ SpendStart
  /\ UNCHANGED <<tableVars, sessions, mail, lastToken, resets, overlaps, faults>>

\* History: the removals of u that run have seen another row of u deleted.
Removing(r, u) == At(r, "remove") /\ req[r].user = u
Overlapped(u)  ==
  [r \in Requests |-> IF Removing(r, u) THEN [req[r] EXCEPT !.beside = TRUE] ELSE req[r]]

\* The row of an expired token, or of a mail that was not enqueued.
Discard(r) ==
  /\ At(r, "discard")
  /\ DeleteExtra(req[r].extra)
  /\ IF There(req[r].extra) THEN req' = [Overlapped(extras[req[r].extra].owner) EXCEPT ![r] = Idle]
                            ELSE Become(r, Idle)
  /\ UNCHANGED <<users, sessions, mail, lastToken, historyVars, starts, faults>>

Verify(r) ==
  /\ At(r, "verify")
  /\ SetExtra(req[r].extra, [extras[req[r].extra] EXCEPT !.verified = TRUE, !.pending = 0,
                             !.stale = FALSE])
  /\ Become(r, Idle)
  /\ UNCHANGED <<users, sessions, mail, lastToken, historyVars, starts, faults>>

\* resend_verification_email: an unverified row ...
AskForResend(r, u, x) ==
  /\ At(r, "idle") /\ SignedIn(u) /\ Owns(u, x) /\ ~extras[x].verified
  /\ Become(r, [at |-> "resend", extra |-> x])
  /\ SpendStart
  /\ UNCHANGED <<tableVars, sessions, mail, lastToken, historyVars, faults>>

\* ... gets a new token, even if it was verified meanwhile.
Resend(r) ==
  /\ At(r, "resend") /\ NewToken
  /\ SetExtra(req[r].extra, [extras[req[r].extra] EXCEPT !.pending = lastToken + 1, !.stale = FALSE])
  /\ IF There(req[r].extra) THEN Send("extra", lastToken + 1, extras[req[r].extra].email)
                            ELSE UNCHANGED mail
  /\ Become(r, Idle)
  /\ UNCHANGED <<users, sessions, historyVars, starts, faults>>

-----------------------------------------------------------------------------
VerifiedBeside(u, x) == \E y \in Rows \ {x} : Owns(u, y) /\ extras[y].verified

\* remove_email: something verified must remain ...
AskForRemoval(r, u, x) ==
  /\ At(r, "idle") /\ SignedIn(u) /\ Owns(u, x)
  /\ users[u].verified \/ VerifiedBeside(u, x)
  /\ req' = [Overlapped(u) EXCEPT ![r] =
               [at |-> "remove", user |-> u, extra |-> x,
                beside |-> \E s \in Requests : Removing(s, u)]]
  /\ SpendStart
  /\ UNCHANGED <<tableVars, sessions, mail, lastToken, historyVars, faults>>

\* ... when it was counted.
Remove(r) ==
  /\ At(r, "remove")
  /\ DeleteExtra(req[r].extra)
  /\ Become(r, Idle)
  /\ UNCHANGED <<users, sessions, mail, lastToken, historyVars, starts, faults>>

\* Mutant: the row is removed first and the user updated last.
MakePrimaryDropsFirst(r, u, x) ==
  /\ At(r, "idle") /\ SignedIn(u) /\ Owns(u, x) /\ extras[x].verified
  /\ Become(r, [at |-> "demote", user |-> u, extra |-> x,
                old |-> users[u].email, new |-> extras[x].email, kept |-> 0])
  /\ DeleteExtra(x)
  /\ SpendStart
  /\ UNCHANGED <<users, sessions, mail, lastToken, historyVars, faults>>

\* make_primary_email: the caller's primary address and the row are read, ...
MakePrimary(r, u, x) ==
  /\ At(r, "idle") /\ SignedIn(u) /\ Owns(u, x) /\ extras[x].verified
  /\ Become(r, [at |-> "demote", user |-> u, extra |-> x,
                old |-> users[u].email, new |-> extras[x].email, kept |-> 0])
  /\ SpendStart
  /\ UNCHANGED <<tableVars, sessions, mail, lastToken, historyVars, faults>>

\* ... the old primary address becomes an additional one unless it is there already; the
\* unique column refuses it if another user has it there ...
Demote(r) ==
  /\ At(r, "demote")
  /\ LET u == req[r].user
         a == req[r].old
         asExtra == {x \in Rows : Owns(u, x) /\ extras[x].email = a}
         goOn(x) == Become(r, [req[r] EXCEPT !.at = "promote", !.kept = x])
     IN \/ /\ Here(u) /\ asExtra # {}
           /\ \E x \in asExtra : goOn(x)
           /\ UNCHANGED extras
        \/ /\ Here(u) /\ ~IsAdditional(a)
           /\ \E x \in Rows :
                /\ FreeRow(x) /\ goOn(x)
                /\ extras' = [extras EXCEPT ![x] = [row |-> "here", owner |-> u, email |-> a,
                     verified |-> users[u].verified, pending |-> 0, stale |-> FALSE]]
        \/ /\ ~Here(u) \/ (asExtra = {} /\ IsAdditional(a))
           /\ Become(r, Idle) /\ UNCHANGED extras
  /\ UNCHANGED <<users, sessions, mail, lastToken, historyVars, starts, faults>>

\* ... the new one is written, unless it is another user's primary address ...
Promote(r) ==
  /\ At(r, "promote")
  /\ LET u == req[r].user
         taken == \E v \in Users \ {u} : Here(v) /\ users[v].email = req[r].new
     IN IF ~Here(u) \/ taken
        THEN Become(r, Idle) /\ UNCHANGED users
        ELSE /\ Become(r, [req[r] EXCEPT !.at = "drop"])
             /\ users' = [users EXCEPT ![u].email = req[r].new, ![u].verified = TRUE]
  /\ UNCHANGED <<extras, sessions, mail, lastToken, historyVars, starts, faults>>

\* ... and its row is removed.
DropPromoted(r) ==
  /\ At(r, "drop")
  /\ DeleteExtra(req[r].extra)
  /\ Become(r, Idle)
  /\ UNCHANGED <<users, sessions, mail, lastToken, historyVars, starts, faults>>

-----------------------------------------------------------------------------
\* delete_account: the addresses, the tokens, the user.
DeleteAccount(r, u) ==
  /\ At(r, "idle") /\ SignedIn(u)
  /\ Become(r, [at |-> "sweepExtras", user |-> u])
  /\ SpendStart
  /\ UNCHANGED <<tableVars, sessions, mail, lastToken, historyVars, faults>>

SweepExtras(r) ==
  /\ At(r, "sweepExtras")
  /\ extras' = [x \in Rows |-> IF Owns(req[r].user, x) THEN Deleted
                                                       ELSE extras[x]]
  /\ Become(r, [req[r] EXCEPT !.at = "sweepSessions"])
  /\ UNCHANGED <<users, sessions, mail, lastToken, historyVars, starts, faults>>

SweepSessions(r) ==
  /\ At(r, "sweepSessions")
  /\ sessions' = sessions \ {req[r].user}
  /\ Become(r, [req[r] EXCEPT !.at = "sweepUser"])
  /\ UNCHANGED <<tableVars, mail, lastToken, historyVars, starts, faults>>

SweepUser(r) ==
  /\ At(r, "sweepUser")
  /\ users' = [users EXCEPT ![req[r].user] = Deleted]
  /\ Become(r, Idle)
  /\ UNCHANGED <<extras, sessions, mail, lastToken, historyVars, starts, faults>>

\* A database call of one of these handlers fails: 500, what was done stays.
CallFails(r) ==
  /\ ~At(r, "idle") /\ ~At(r, "magic") /\ SpendFault
  /\ Become(r, Idle)
  /\ UNCHANGED <<tableVars, sessions, mail, lastToken, historyVars, starts>>

-----------------------------------------------------------------------------
SignIn ==
  \/ \E a \in Addresses : Register(a) \/ RequestMagicLink(a)
  \/ \E u \in Users : PendingExpires(u) \/ Login(u)
  \/ \E link \in mail : MagicLinkExpires(link)
  \/ \E r \in Requests :
       \/ \E u \in Users : RegisterAgain(r, u) \/ AskForReset(r, u)
       \/ \E link \in mail : FollowRegistration(r, link) \/ FollowMagicLink(r, link) \/ FollowReset(r, link)
       \/ Upgrade(r) \/ SendAgain(r) \/ Reregister(r) \/ ConfirmRegistration(r)
       \/ VerifyByMagicLink(r) \/ VerifyByMagicLinkFails(r)
       \/ IssueReset(r) \/ SetPassword(r)

ManageEmails ==
  \/ \E x \in Rows : TokenExpires(x)
  \/ \E r \in Requests :
       \/ \E u \in Users, a \in Addresses : AddEmail(r, u, a)
       \/ \E link \in mail : FollowVerification(r, link)
       \/ \E u \in Users, x \in Rows : AskForResend(r, u, x) \/ AskForRemoval(r, u, x) \/ MakePrimary(r, u, x)
       \/ \E u \in Users : DeleteAccount(r, u)
       \/ InsertEmail(r) \/ Discard(r) \/ Verify(r) \/ Resend(r) \/ Remove(r)
       \/ Demote(r) \/ Promote(r) \/ DropPromoted(r)
       \/ SweepExtras(r) \/ SweepSessions(r) \/ SweepUser(r)
       \/ CallFails(r)

Next == SignIn \/ ManageEmails

Spec == Init /\ [][Next]_vars

-----------------------------------------------------------------------------
(* Properties *)

\* An address is marked as verified, on a user or an additional row, only after
\* somebody who reads its mailbox followed a verification or magic link, whatever
\* handlers promoted, demoted, re-registered or re-sent meanwhile.
VerifiedWasFollowed ==
  /\ \A u \in Users : Here(u) /\ users[u].verified => users[u].email \in followed
  /\ \A x \in Rows : There(x) /\ extras[x].verified => extras[x].email \in followed

\* The verified addresses a user has.
Verified(u) == {users[v].email : v \in {w \in {u} : Here(w) /\ users[w].verified}}
                 \cup {extras[x].email : x \in {y \in Rows : Owns(u, y) /\ extras[y].verified}}

\* All the addresses a user has.
Known(u) == {users[v].email : v \in {w \in {u} : Here(w)}}
              \cup {extras[x].email : x \in {y \in Rows : Owns(u, y)}}

\* Handler r takes a step of make_primary_email for user u, who exists, and finds what it
\* left: when it replaces the primary address it is the one that was demoted, whose row
\* is there, and when it removes the promoted row that address is still the primary one.
Promotes(r, u) ==
  /\ req'[r] # req[r] /\ Here(u)
  /\ \/ req[r].at \in PromotionSteps /\ req[r].user = u
     \/ At(r, "idle") /\ req'[r].at = "demote" /\ req'[r].user = u
  /\ At(r, "promote") => users[u].email = req[r].old /\ There(req[r].kept)
  /\ At(r, "drop") => users[u].email = req[r].new

\* The row that keeps the old address says no less of it than the user does.  It can: the
\* user was verified after it was inserted, or an add_email that raced had inserted it.
KeptAsVerified(r) ==
  At(r, "promote") /\ users[req[r].user].verified => extras[req[r].kept].verified

\* "Demote old primary": no step of make_primary_email takes an address from a user that
\* exists, nor a verified address its mark, wherever a database call fails and however
\* many promotions of the user run, unless what it left was changed since: another promotion
\* put a primary address in place, or the row that keeps the old one was removed.
PromotionKeepsAddresses ==
  [][\A r \in Requests, u \in Users : Promotes(r, u) =>
       /\ Known(u) \subseteq Known(u)'
       /\ KeptAsVerified(r) => Verified(u) \subseteq Verified(u)']_vars

\* "Requires at least one other verified email" (api/account.rs:852): a removal leaves a
\* user who has a verified address with one, unless another removal of the same user
\* overlapped it, or another of the user's rows was discarded (its token had expired, its
\* mail was not enqueued) between its count and its DELETE.
RemovalKeepsVerified ==
  [][\A r \in Requests, u \in Users :
       Removing(r, u) /\ ~req[r].beside /\ req'[r].at = "idle"
         => (Here(u) /\ Verified(u) # {} => Verified(u)' # {})]_vars

\* A reset link sets one password, unless two confirmations of it overlap, whatever
\* requests for new links and promotions of other addresses happen meanwhile.
ResetsAreSingleUse ==
  \A n \in Tokens : resets[n] <= 1 + overlaps[n]
=============================================================================
