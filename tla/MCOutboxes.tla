----------------------------- MODULE MCOutboxes -----------------------------
(***************************************************************************)
(* The instance of TLC for the two background outboxes, the webhooks and   *)
(* the attestations.  They share no row; the focus, picked in the initial  *)
(* state, is the one that moves, so that the state spaces add up.          *)
(***************************************************************************)
EXTENDS Webhooks, Attest

VARIABLE focus

OutboxesInit == focus \in {"webhooks", "attest"} /\ WebhooksInit /\ AttestInit

OutboxesNext ==
  /\ UNCHANGED focus
  /\ \/ focus = "webhooks" /\ WebhooksNext /\ UNCHANGED attVars
     \/ focus = "attest" /\ AttestNext /\ UNCHANGED hookVars

OutboxesFairness ==
  /\ focus = "webhooks" => WebhooksFairness
  /\ focus = "attest" => AttestFairness

outboxVars == <<focus, hookVars, attVars>>

OutboxesSpec == OutboxesInit /\ [][OutboxesNext]_outboxVars /\ OutboxesFairness

\* The rows of both outboxes and the locals of their loops keep their shape.
OutboxesTypeOK == WebhooksTypeOK /\ AttestTypeOK

=============================================================================
