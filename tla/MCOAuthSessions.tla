-------------------------- MODULE MCOAuthSessions --------------------------
(* Model-checking instance of OAuthSessions: the handlers are interchangeable. *)
EXTENDS OAuthSessions, TLC

AnyHandler == Permutations(Requests)
=============================================================================
