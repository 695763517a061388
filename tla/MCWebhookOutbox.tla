-------------------------- MODULE MCWebhookOutbox --------------------------
(***************************************************************************)
(* An endpoint that accepts the second event whenever it is asked and may  *)
(* refuse the first.                                                       *)
(***************************************************************************)
EXTENDS WebhookOutbox

CONSTANTS hook

SecondEvent == {<<2, hook>>}
=============================================================================
