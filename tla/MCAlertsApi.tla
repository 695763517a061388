---------------------------- MODULE MCAlertsApi ----------------------------
(***************************************************************************)
(* Model-checking instance of AlertsApi.  It starts after the first        *)
(* create_alert_v2, which keeps the number of requests a behaviour needs   *)
(* small: one user, one alert, verified if the user's address is.  If it   *)
(* is not, the account changes or one more request is made, not both.      *)
(***************************************************************************)
EXTENDS AlertsApi

CONSTANT home

MCInit ==
  \E u \in Users, s \in Servers, V \in {{}, {home}} :
    /\ account = [x \in Users |-> [primary |-> home, verified |-> V]] /\ proven = V
    /\ alert = [i \in Rows |-> IF i = 1 THEN NewAlert(home, s, home \in V, u) ELSE Never]
    /\ notify = [i \in Rows |-> IF i = 1 THEN {home} ELSE {}]
    /\ hooks = [i \in Rows |-> {}] /\ lastHook = 0
    /\ links = {} /\ followed = {}
    /\ req = [r \in Requests |-> Idle]
    /\ changes \in {0, MaxAccountChanges} /\ faults = MaxFaults
    /\ starts = IF V = {} /\ changes # 0 THEN MaxStarts - 1 ELSE MaxStarts

MCSpec ==
  /\ MCInit /\ [][Next]_vars
  /\ WF_vars(Housekeep) /\ WF_vars(\E i \in Rows : GrowOld(i))
=============================================================================
