------------------------------- MODULE Tiers -------------------------------
(***************************************************************************)
(* Wholesale tiers (app/b2b.py, app/agentic.py): a discount for the owner  *)
(* of an ERC-8004 agent id.  The owner is read from the chain and cached;  *)
(* the price of a purchase may rest on the cache, what its settlement      *)
(* certifies may not.                                                      *)
(*                                                                         *)
(* Abstractions: one product, one agent id; a cached owner expires at any  *)
(* time; prices are "base" or "tier".                                      *)
(***************************************************************************)
EXTENDS Server

CONSTANTS
  Signers,
  Buys      \* x402 purchases of the product

ASSUME TiersAssumption == None \notin Signers

VARIABLES
  agentOwner,   \* owner of the agent id, on chain
  tier,         \* the product has a tier for it
  ownerCache,   \* _owner_cache
  buy           \* purchases: owned says that the payer owned the id at or after the order

tierVars == <<agentOwner, tier, ownerCache, buy>>

-----------------------------------------------------------------------------

NoBuy == [status |-> "none", payer |-> None, price |-> "base", certified |-> FALSE,
          flagged |-> FALSE, owned |-> FALSE]

\* verify_agent_owner(): the answers a caller may get.  Not fresh: the cache if
\* it holds the id; otherwise the chain, or nothing when the call fails.
OwnerAnswers(fresh) ==
  IF ~fresh /\ ownerCache # None THEN {ownerCache} ELSE {agentOwner, None}

Cached(answer) == ownerCache' = IF answer = None THEN ownerCache ELSE answer

\* effective_price_micro(): the tier applies to its verified owner only.
TierApplies(payer, answer) == tier /\ answer # None /\ answer = payer

TransferAgent ==
  \E a \in Signers \ {agentOwner} :
    /\ agentOwner' = a
    /\ buy' = [b \in Buys |-> IF buy[b].status = "settling" /\ buy[b].payer = a
                              THEN [buy[b] EXCEPT !.owned = TRUE] ELSE buy[b]]
    /\ UNCHANGED <<tier, ownerCache>>

SetTier ==
  /\ tier' = ~tier /\ UNCHANGED <<agentOwner, ownerCache, buy>>

\* _tier_quote() asks for the owner as well.
Quote ==
  /\ tier /\ \E a \in OwnerAnswers(FALSE) : Cached(a)
  /\ UNCHANGED <<agentOwner, tier, buy>>

ExpireOwner ==
  /\ ownerCache # None /\ ownerCache' = None
  /\ UNCHANGED <<agentOwner, tier, buy>>

\* resolve_price() names the price the buyer signs, and the order takes it.
PlaceBuy(b, payer) ==
  /\ buy[b].status = "none"
  /\ \E a \in IF tier THEN OwnerAnswers(FALSE) ELSE {None} :
       /\ Cached(a)
       /\ buy' = [buy EXCEPT ![b] =
            [NoBuy EXCEPT !.status = "settling", !.payer = payer,
                          !.price = IF TierApplies(payer, a) THEN "tier" ELSE "base",
                          !.owned = payer = agentOwner]]
  /\ UNCHANGED <<agentOwner, tier>>

\* Mutant of SettleTier: the settlement trusts the cache.
SettleTierCached(b) ==
  /\ buy[b].status = "settling"
  /\ \E a \in IF tier THEN OwnerAnswers(FALSE) ELSE {None} :
       /\ Cached(a)
       /\ buy' = [buy EXCEPT ![b].status = "settled", ![b].certified = TierApplies(buy[b].payer, a),
                             ![b].flagged = buy[b].price = "tier" /\ ~TierApplies(buy[b].payer, a)]
  /\ UNCHANGED <<agentOwner, tier>>

\* _settle_tier_data(): asked afresh; a discount it cannot confirm is flagged.
SettleTier(b) ==
  /\ buy[b].status = "settling"
  /\ \E a \in IF tier THEN OwnerAnswers(TRUE) ELSE {None} :
       /\ Cached(a)
       /\ buy' = [buy EXCEPT ![b].status = "settled", ![b].certified = TierApplies(buy[b].payer, a),
                             ![b].flagged = buy[b].price = "tier" /\ ~TierApplies(buy[b].payer, a)]
  /\ UNCHANGED <<agentOwner, tier>>

TiersInit ==
  /\ agentOwner \in Signers /\ tier = TRUE /\ ownerCache = None
  /\ buy = [b \in Buys |-> NoBuy]

TiersNext ==
  \/ TransferAgent \/ SetTier \/ Quote \/ ExpireOwner
  \/ \E b \in Buys : SettleTier(b) \/ \E payer \in Signers : PlaceBuy(b, payer)

TiersSpec == TiersInit /\ [][TiersNext]_tierVars

-----------------------------------------------------------------------------
(* Properties *)

TiersTypeOK ==
  /\ agentOwner \in Signers /\ tier \in BOOLEAN /\ ownerCache \in Signers \cup {None}
  /\ buy \in [Buys -> [status : {"none", "settling", "settled"}, payer : Signers \cup {None},
                       price : {"base", "tier"}, certified : BOOLEAN, flagged : BOOLEAN,
                       owned : BOOLEAN]]

\* A settlement certifies a discount only to a payer who owned the agent id
\* when or after the order was placed, and a discount it does not certify is
\* flagged: the price may ride a stale cache entry, the record never does.
CertifiedOwned ==
  \A b \in Buys :
    /\ buy[b].certified => buy[b].owned
    /\ buy[b].status = "settled" /\ buy[b].price = "tier" => buy[b].certified # buy[b].flagged

=============================================================================
