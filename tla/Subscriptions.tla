--------------------------- MODULE Subscriptions ---------------------------
(***************************************************************************)
(* Subscribing (app/subscriptions.py): the buyer's terms signature is      *)
(* looked up, verified and settled by the facilitator behind the sidecar,  *)
(* and only then written as an order that is delivered at once.            *)
(*                                                                         *)
(* Abstractions: one store and plan; the facilitator charges a signature   *)
(* once and answers a repetition with the same hash or with a rejection.   *)
(***************************************************************************)
EXTENDS Server

CONSTANT TermsSigs  \* terms signatures of buyers

VARIABLES
  charged,   \* signatures the facilitator has settled on chain
  subOrder,  \* orders by x402_nonce: delivered or not there
  inline,    \* how often the goods of an order were returned inline
  subReq     \* locals of the requests in flight

subVars == <<charged, subOrder, inline, subReq>>

-----------------------------------------------------------------------------

NoSubReq == [step |-> "idle", sig |-> None, paid |-> FALSE]

\* _verify_and_settle(): a signature with an order is answered from it, its
\* gated goods withheld; otherwise the sidecar verifies it.
Subscribe(w, sig) ==
  /\ subReq[w].step = "idle"
  /\ IF subOrder[sig] THEN UNCHANGED subReq
     ELSE subReq' = [subReq EXCEPT ![w] = [step |-> "settle", sig |-> sig, paid |-> FALSE]]
  /\ UNCHANGED <<charged, subOrder, inline>>

\* Mutant of SettleSub: a facilitator error inside a 200 counts as settled.
SettleSubAnyAnswer(w) ==
  LET sig == subReq[w].sig IN
  /\ subReq[w].step = "settle"
  /\ \/ charged' = charged \cup {sig}
     \/ UNCHANGED charged
  /\ subReq' = [subReq EXCEPT ![w].step = "fulfill", ![w].paid = TRUE]
  /\ UNCHANGED <<subOrder, inline>>

\* The facilitator charges, or rejects inside a 200, or cannot be reached; only
\* a clean code with a transaction hash goes on.
SettleSub(w) ==
  LET sig == subReq[w].sig IN
  /\ subReq[w].step = "settle"
  /\ \/ /\ charged' = charged \cup {sig}
        /\ subReq' = [subReq EXCEPT ![w].step = "fulfill", ![w].paid = TRUE]
     \/ subReq' = [subReq EXCEPT ![w] = NoSubReq] /\ UNCHANGED charged
  /\ UNCHANGED <<subOrder, inline>>

\* _fulfill_subscription(): UNIQUE(x402_nonce) picks the winner, who alone
\* gets the goods inline.
FulfillSub(w) ==
  LET sig == subReq[w].sig IN
  /\ subReq[w].step = "fulfill"
  /\ subOrder' = [subOrder EXCEPT ![sig] = TRUE]
  /\ inline' = [inline EXCEPT ![sig] = IF subOrder[sig] THEN @ ELSE @ + 1]
  /\ subReq' = [subReq EXCEPT ![w] = NoSubReq] /\ UNCHANGED charged

\* The answer of the facilitator is lost or the process dies.
SubDies(w) ==
  /\ subReq[w].step # "idle"
  /\ subReq' = [subReq EXCEPT ![w] = NoSubReq]
  /\ charged' \in {charged, charged \cup {subReq[w].sig}}
  /\ UNCHANGED <<subOrder, inline>>

SubscriptionsInit ==
  /\ charged = {} /\ subOrder = [s \in TermsSigs |-> FALSE]
  /\ inline = [s \in TermsSigs |-> 0] /\ subReq = [w \in Threads |-> NoSubReq]

SubscriptionsNext ==
  \E w \in Threads :
    (\E sig \in TermsSigs : Subscribe(w, sig)) \/ SettleSub(w) \/ FulfillSub(w) \/ SubDies(w)

SubscriptionsSpec == SubscriptionsInit /\ [][SubscriptionsNext]_subVars

-----------------------------------------------------------------------------
(* Properties *)

SubscriptionsTypeOK ==
  /\ charged \subseteq TermsSigs /\ subOrder \in [TermsSigs -> BOOLEAN]
  /\ subReq \in [Threads -> [step : {"idle", "settle", "fulfill"},
                             sig : TermsSigs \cup {None}, paid : BOOLEAN]]

\* An order exists only for a signature that was charged, and its gated goods
\* leave inline exactly once: replays and lost races have to claim them.
SubscriptionBacked ==
  \A s \in TermsSigs :
    /\ subOrder[s] => s \in charged
    /\ inline[s] = IF subOrder[s] THEN 1 ELSE 0

=============================================================================
