------------------------------ MODULE Webhooks ------------------------------
(***************************************************************************)
(* The merchant webhook outbox (app/webhooks.py): rows queued in the       *)
(* transaction of the event, drained by one background loop that claims a  *)
(* batch, posts each delivery outside the transaction and records what     *)
(* came back, across crashes of the process.                               *)
(*                                                                         *)
(* Abstractions: one merchant; the delay before retry n is RetryBase times *)
(* 4^(n-1) ticks, kept as the time left until next_attempt_at; the batch    *)
(* limit is Batch rows.                                                    *)
(***************************************************************************)
EXTENDS Server

CONSTANTS
  HookRows,               \* ids of outbox rows, in insertion order
  WEBHOOK_MAX_ATTEMPTS, Batch, RetryBase,
  MaxHookCrashes, MaxUnhooks \* bounds of the run

ASSUME WebhooksAssumption ==
  /\ HookRows \subseteq Nat /\ WEBHOOK_MAX_ATTEMPTS \in Nat \ {0} /\ Batch \in Nat \ {0}
  /\ RetryBase \in Nat /\ MaxHookCrashes \in Nat /\ MaxUnhooks \in Nat
  /\ None \notin {"2xx", "failed"}

VARIABLES
  hook,       \* webhook_deliveries
  hooked,     \* merchants.webhook_url and webhook_secret are set
  claims,     \* the claims of the running pass, row -> attempt number
  answer,     \* what the endpoint answered to the post in flight
  accepted,   \* how often the endpoint accepted a row (2xx)
  hookCrashes, unhooks

hookVars == <<hook, hooked, claims, answer, accepted, hookCrashes, unhooks>>

-----------------------------------------------------------------------------

HookRow == [status : {"none", "pending", "delivered", "dead"}, attempts : Nat, wait : Nat]

NoHook == [status |-> "none", attempts |-> 0, wait |-> 0]

NoClaims == [d \in {} |-> 0]

\* enqueue(): a no-op unless the merchant has a webhook.
Enqueue(d) ==
  /\ hook[d].status = "none" /\ \A e \in HookRows : e < d => hook[e].status # "none"
  /\ hooked
  /\ hook' = [hook EXCEPT ![d] = [status |-> "pending", attempts |-> 0, wait |-> 0]]
  /\ UNCHANGED <<hooked, claims, answer, accepted, hookCrashes, unhooks>>

\* set_webhook and delete_webhook of the dashboard.
SetWebhook ==
  /\ ~hooked /\ hooked' = TRUE
  /\ UNCHANGED <<hook, claims, answer, accepted, hookCrashes, unhooks>>

DeleteWebhook ==
  /\ hooked /\ unhooks < MaxUnhooks
  /\ hooked' = FALSE /\ unhooks' = unhooks + 1
  /\ UNCHANGED <<hook, claims, answer, accepted, hookCrashes>>

DueRows == {d \in HookRows : hook[d].status = "pending" /\ hook[d].wait = 0}

\* The oldest rows that fit in one batch.
FirstRows(S, n) == {d \in S : Cardinality({e \in S : e < d}) < n}

\* Mutant of ClaimRows: rows whose webhook was removed are left as they are.
ClaimRowsHooked ==
  LET due == FirstRows(DueRows, Batch) IN
  /\ claims = NoClaims /\ answer = None /\ due # {} /\ hooked
  /\ claims' = [d \in due |-> hook[d].attempts + 1]
  /\ hook' = [d \in HookRows |-> IF d \in due THEN [hook[d] EXCEPT !.attempts = @ + 1] ELSE hook[d]]
  /\ UNCHANGED <<hooked, answer, accepted, hookCrashes, unhooks>>

\* The claiming transaction of dispatch_once: every due row of the batch is
\* claimed with its attempt number, or dies with the webhook it was meant for.
ClaimRows ==
  LET due == FirstRows(DueRows, Batch) IN
  /\ claims = NoClaims /\ answer = None /\ due # {}
  /\ IF hooked
       THEN /\ claims' = [d \in due |-> hook[d].attempts + 1]
            /\ hook' = [d \in HookRows |->
                 IF d \in due THEN [hook[d] EXCEPT !.attempts = @ + 1] ELSE hook[d]]
       ELSE /\ hook' = [d \in HookRows |->
                 IF d \in due THEN [hook[d] EXCEPT !.status = "dead"] ELSE hook[d]]
            /\ UNCHANGED claims
  /\ UNCHANGED <<hooked, answer, accepted, hookCrashes, unhooks>>

\* _deliver(): the claims are posted in order; the endpoint takes the row, or
\* refuses it, or the address fails its second validation, or the call times
\* out, possibly after the endpoint took it.
Post ==
  /\ claims # NoClaims /\ answer = None
  /\ \E took \in BOOLEAN, seen \in BOOLEAN :
       /\ answer' = IF took /\ seen THEN "2xx" ELSE "failed"
       /\ LET d == CHOOSE d \in DOMAIN claims : \A e \in DOMAIN claims : d <= e
          IN accepted' = [accepted EXCEPT ![d] = IF took THEN @ + 1 ELSE @]
  /\ UNCHANGED <<hook, hooked, claims, hookCrashes, unhooks>>

Power4[n \in Nat] == IF n = 0 THEN 1 ELSE 4 * Power4[n - 1]

\* Mutant of AfterAttempt: one attempt too few.
AfterAttemptEarly(row, n, ans) ==
  IF ans = "2xx" THEN [row EXCEPT !.status = "delivered"]
  ELSE IF n >= WEBHOOK_MAX_ATTEMPTS - 1 THEN [row EXCEPT !.status = "dead"]
  ELSE [row EXCEPT !.wait = RetryBase * Power4[n - 1]]

\* _record_result(): the row after attempt n.
AfterAttempt(row, n, ans) ==
  IF ans = "2xx" THEN [row EXCEPT !.status = "delivered"]
  ELSE IF n >= WEBHOOK_MAX_ATTEMPTS THEN [row EXCEPT !.status = "dead"]
  ELSE [row EXCEPT !.wait = RetryBase * Power4[n - 1]]

RecordResult ==
  /\ answer # None
  /\ LET d == CHOOSE d \in DOMAIN claims : \A e \in DOMAIN claims : d <= e
     IN /\ hook' = [hook EXCEPT ![d] = AfterAttempt(@, claims[d], answer)]
        /\ claims' = [e \in DOMAIN claims \ {d} |-> claims[e]]
  /\ answer' = None
  /\ UNCHANGED <<hooked, accepted, hookCrashes, unhooks>>

\* The process dies, or an exception ends the pass: its claims are forgotten,
\* the attempts they counted are not.
HookCrash ==
  /\ claims # NoClaims /\ hookCrashes < MaxHookCrashes
  /\ claims' = NoClaims /\ answer' = None /\ hookCrashes' = hookCrashes + 1
  /\ UNCHANGED <<hook, hooked, accepted, unhooks>>

\* Time passes for the rows that wait for their next attempt.
HookTick ==
  /\ \E d \in HookRows : hook[d].wait > 0
  /\ hook' = [d \in HookRows |-> [hook[d] EXCEPT !.wait = IF @ > 0 THEN @ - 1 ELSE 0]]
  /\ UNCHANGED <<hooked, claims, answer, accepted, hookCrashes, unhooks>>

WebhooksInit ==
  /\ hook = [d \in HookRows |-> NoHook] /\ hooked = TRUE
  /\ claims = NoClaims /\ answer = None
  /\ accepted = [d \in HookRows |-> 0]
  /\ hookCrashes = 0 /\ unhooks = 0

\* webhook_loop: one pass after another.
DispatchOnce == ClaimRows \/ Post \/ RecordResult

WebhooksNext ==
  \/ \E d \in HookRows : Enqueue(d)
  \/ SetWebhook \/ DeleteWebhook \/ DispatchOnce \/ HookCrash \/ HookTick

\* The loop runs on and time passes.
WebhooksFairness == WF_hookVars(DispatchOnce) /\ WF_hookVars(HookTick)

WebhooksSpec == WebhooksInit /\ [][WebhooksNext]_hookVars /\ WebhooksFairness

-----------------------------------------------------------------------------
(* Properties *)

WebhooksTypeOK ==
  /\ hook \in [HookRows -> HookRow] /\ hooked \in BOOLEAN
  /\ DOMAIN claims \subseteq HookRows /\ \A d \in DOMAIN claims : claims[d] \in Nat \ {0}
  /\ answer \in {None, "2xx", "failed"}
  /\ accepted \in [HookRows -> Nat]
  /\ hookCrashes \in 0..MaxHookCrashes /\ unhooks \in 0..MaxUnhooks

\* A delivered row was accepted; a row is posted at most once per counted
\* attempt; and a row is given up only after all its attempts, unless the
\* webhook was removed: crashes burn attempts but never add any.
OutboxHonest ==
  \A d \in HookRows :
    /\ hook[d].status = "delivered" => accepted[d] > 0
    /\ accepted[d] <= hook[d].attempts
    /\ hook[d].attempts <= WEBHOOK_MAX_ATTEMPTS + hookCrashes
    /\ hook[d].status = "dead" => hook[d].attempts >= WEBHOOK_MAX_ATTEMPTS \/ unhooks > 0

\* Every queued event is delivered or given up, whatever the endpoint answers
\* and although the process dies between a claim and its record.
OutboxDrains ==
  \A d \in HookRows :
    hook[d].status = "pending" ~> hook[d].status \in {"delivered", "dead"}

=============================================================================
