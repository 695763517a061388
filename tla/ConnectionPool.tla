--------------------------- MODULE ConnectionPool ---------------------------
(***************************************************************************)
(* The pool of HTTP connections (connection_pool.rs) as the federation     *)
(* checks use it: fetch_url_custom_sni_host (network.rs) and               *)
(* fetch_url_pooled_simple (version.rs) ask the pool for a connection,     *)
(* open one of their own when that fails, and give either kind back.  All  *)
(* of them call themselves "anonymous", so that one counter of live        *)
(* connections decides whether a check is refused.                         *)
(*                                                                         *)
(* A connection is its health: TRUE while it can carry another request.    *)
(***************************************************************************)
EXTENDS Integers, Sequences, FiniteSets, SequencesExt, FiniteSetsExt

CONSTANTS
  Targets,      \* pairs of address and SNI
  Checks,       \* concurrent callers of the two functions
  PerKey,       \* max_connections_per_key
  Factor,       \* 20: max_total_connections = PerKey * Factor
  Width         \* bits of the counter (usize)

PerClient == PerKey * 2
MaxTotal  == PerKey * Factor

VARIABLES
  pools,        \* idle connections of each target, the last returned one last
  tracked,      \* client_usage has an entry for "anonymous"
  usage,        \* its connection_count
  call          \* each check: its step and its target

vars == <<pools, tracked, usage, call>>

Idle == [at |-> "idle"]

\* Every variable is in its range; a target's idle connections respect their cap.
TypeOK ==
  /\ pools \in [Targets -> Seq(BOOLEAN)]
  /\ \A t \in Targets : Len(pools[t]) <= PerKey
  /\ tracked \in BOOLEAN /\ usage \in 0 .. 2^Width - 1
  /\ call \in [Checks -> {Idle} \cup [at : {"pop", "connect", "send", "fresh"}, target : Targets]]

Init ==
  /\ pools = [t \in Targets |-> << >>]
  /\ tracked = FALSE /\ usage = 0
  /\ call = [c \in Checks |-> Idle]

At(c, step) == call[c].at = step

Goto(c, step) == call' = [call EXCEPT ![c].at = step]

Done(c) == call' = [call EXCEPT ![c] = Idle]

-----------------------------------------------------------------------------
WithinLimit == tracked => usage < PerClient

\* fetch_add and fetch_sub wrap around.
IncrementUsage ==
  /\ tracked' = TRUE
  /\ usage' = (usage + 1) % 2^Width

DecrementUsage ==
  /\ usage' = IF tracked THEN (usage - 1) % 2^Width ELSE usage
  /\ UNCHANGED tracked

TotalConnections(p) == MapThenSumSet(LAMBDA t : Len(p[t]), Targets)

\* What enforce_memory_limits may leave of the pools: as many as are over the
\* limit are popped, from whichever targets come first.
Evicted(p) ==
  LET total == TotalConnections(p)
  IN IF total <= MaxTotal
     THEN {p}
     ELSE {q \in [Targets -> UNION {{SubSeq(p[t], 1, n) : n \in 0 .. Len(p[t])} : t \in Targets}] :
             /\ \A t \in Targets : IsPrefix(q[t], p[t])
             /\ TotalConnections(q) = MaxTotal}

-----------------------------------------------------------------------------
\* get_connection: refused, a check goes on with a connection of its own ...
Ask(c, t) ==
  /\ At(c, "idle") /\ WithinLimit
  /\ call' = [call EXCEPT ![c] = [at |-> "pop", target |-> t]]
  /\ UNCHANGED <<pools, tracked, usage>>

Refused(c, t) ==
  /\ At(c, "idle") /\ ~WithinLimit
  /\ call' = [call EXCEPT ![c] = [at |-> "fresh", target |-> t]]
  /\ UNCHANGED <<pools, tracked, usage>>

\* The idle connections are popped one by one: after dead ones, the nth is in hand.
Popped(t, n) ==
  /\ \A k \in n + 1 .. Len(pools[t]) : ~pools[t][k]
  /\ pools' = [pools EXCEPT ![t] = SubSeq(@, 1, n - 1)]

\* ... and otherwise gets the last idle one that is alive ...
Reuse(c) ==
  LET t == call[c].target
  IN /\ At(c, "pop")
     /\ \E n \in DOMAIN pools[t] : pools[t][n] /\ Popped(t, n)
     /\ IncrementUsage
     /\ Goto(c, "send")

\* ... or, with none left, connects, after idle ones were evicted.
Miss(c) ==
  LET t == call[c].target
  IN /\ At(c, "pop")
     /\ \A n \in DOMAIN pools[t] : ~pools[t][n]
     /\ pools' \in Evicted([pools EXCEPT ![t] = << >>])
     /\ Goto(c, "connect")
     /\ UNCHANGED <<tracked, usage>>

Connected(c) ==
  /\ At(c, "connect")
  /\ IncrementUsage
  /\ Goto(c, "send")
  /\ UNCHANGED pools

\* An error of connect, of the TLS handshake or of hyper's.
ConnectFails(c) ==
  /\ At(c, "connect")
  /\ Goto(c, "fresh")
  /\ UNCHANGED <<pools, tracked, usage>>

-----------------------------------------------------------------------------
\* return_connection: kept if it is ready and the target has room.
Return(c, ready) ==
  LET t == call[c].target
  IN /\ pools' = IF ready /\ Len(pools[t]) < PerKey
                 THEN [pools EXCEPT ![t] = Append(@, TRUE)] ELSE pools
     /\ DecrementUsage
     /\ Done(c)

\* The request is answered, on a connection of the pool or on a fresh one.
Answered(c) ==
  /\ call[c].at \in {"send", "fresh"}
  /\ \E ready \in BOOLEAN : Return(c, ready)

\* A pooled connection that fails is dropped and a fresh one is tried.
SendFails(c) ==
  /\ At(c, "send")
  /\ Goto(c, "fresh")
  /\ UNCHANGED <<pools, tracked, usage>>

\* The fresh connection cannot be made or used, or fetch_keys' timeout drops the
\* call wherever it is, with the connection it may have in hand.
GiveUp(c) ==
  /\ ~At(c, "idle")
  /\ \/ UNCHANGED pools
     \/ At(c, "pop") /\ \E n \in DOMAIN pools[call[c].target] : Popped(call[c].target, n)
  /\ Done(c)
  /\ UNCHANGED <<tracked, usage>>

-----------------------------------------------------------------------------
\* The server closes an idle connection.
ServerCloses(t) ==
  /\ \E n \in DOMAIN pools[t] : pools' = [pools EXCEPT ![t][n] = FALSE]
  /\ UNCHANGED <<tracked, usage, call>>

\* cleanup_dead_connections, every five minutes.
CleanupDeadConnections ==
  /\ pools' = [t \in Targets |-> SelectSeq(pools[t], LAMBDA alive : alive)]
  /\ UNCHANGED <<tracked, usage, call>>

Next ==
  \/ \E c \in Checks :
       \/ \E t \in Targets : Ask(c, t) \/ Refused(c, t)
       \/ Reuse(c) \/ Miss(c) \/ Connected(c) \/ ConnectFails(c)
       \/ Answered(c) \/ SendFails(c) \/ GiveUp(c)
  \/ \E t \in Targets : ServerCloses(t)
  \/ CleanupDeadConnections

Spec == Init /\ [][Next]_vars

-----------------------------------------------------------------------------
\* "a single caller IP may hold at most `max_connections_per_client` live connections
\* at once. Callers that exceed this get an immediate error" (connection_pool.rs:56-58):
\* nobody is refused while fewer checks than that are under way at all.  But a
\* connection that is dropped, after a failed request or by a timeout, stays counted,
\* and a fresh one that was never counted is subtracted when it is given back: the
\* counter drifts, up to the cap or below zero, where it wraps.
RefusedOnlyAtLimit ==
  [][\A c \in Checks : At(c, "idle") /\ call'[c].at = "fresh"
       => Cardinality({d \in Checks : ~At(d, "idle")}) >= PerClient]_vars
=============================================================================
