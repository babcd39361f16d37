----------------------------- MODULE MCRequests -----------------------------
(***************************************************************************)
(* The instance of TLC for the components whose work is done by request    *)
(* threads and that keep tables of their own.  They share no row, so their *)
(* interleavings with each other show nothing: the instance picks one of   *)
(* them, its focus, in the initial state and lets only that one move.  The *)
(* state spaces add up instead of multiplying.                             *)
(***************************************************************************)
EXTENDS Refunds, Escrow, Mpp, Subscriptions, Delivery, CreateStore, SelfServe,
        Acp, Catalog, Goods, Domains, Tiers, Growth, TLC

VARIABLE focus

Money == {"payouts", "refunds", "reversal"}
Focuses ==
  Money \cup {"escrow", "mpp", "subscriptions", "delivery", "create", "selfserve", "acp",
              "catalog", "goods", "domains", "tiers", "growth"}

RequestsInit ==
  /\ focus \in Focuses
  /\ RefundsInit /\ EscrowInit /\ MppInit /\ SubscriptionsInit /\ DeliveryInit
  /\ CreateStoreInit /\ SelfServeInit /\ AcpInit /\ CatalogInit /\ GoodsInit
  /\ DomainsInit /\ TiersInit /\ GrowthInit
  /\ agentOwner = CHOOSE s \in Signers : TRUE

\* The component called name moves when it is the focus, and rests otherwise.
Part(name, PartNext, partVars) ==
  IF focus = name THEN PartNext ELSE UNCHANGED partVars

OneSale == \A o \in Orders \ {1} : sale'[o] = NoSale

\* Payouts of every order's accruals while nobody refunds; the refunds of one
\* order; and one refund of an order whose accrual is being paid out.
MoneyNext ==
  CASE focus = "payouts" -> RefundsNext /\ returned' = returned
    [] focus = "refunds" -> RefundsNext /\ sent' = sent /\ OneSale
    [] focus = "reversal" ->
         RefundsNext /\ OneSale /\ Cardinality({tx \in RefundTxs : returned'[tx] > 0}) <= 1
    [] OTHER -> UNCHANGED moneyVars

RequestsNext ==
  /\ UNCHANGED focus
  /\ MoneyNext
  /\ Part("escrow", EscrowNext, escrowVars)
  /\ Part("mpp", MppNext, mppVars)
  /\ Part("subscriptions", SubscriptionsNext, subVars)
  /\ Part("delivery", DeliveryNext, delVars)
  /\ Part("create", CreateStoreNext, createVars)
  /\ Part("selfserve", SelfServeNext, ssVars)
  /\ Part("acp", AcpNext, acpVars)
  /\ Part("catalog", CatalogNext, catalogVars)
  /\ Part("goods", GoodsNext, goodsVars)
  /\ Part("domains", DomainsNext, domVars)
  /\ Part("tiers", TiersNext, tierVars)
  /\ Part("growth", GrowthNext, growthVars)

requestVars ==
  <<focus, moneyVars, escrowVars, mppVars, subVars, delVars, createVars, ssVars, acpVars,
    catalogVars, goodsVars, domVars, tierVars, growthVars>>

RequestsSpec == RequestsInit /\ [][RequestsNext]_requestVars

-----------------------------------------------------------------------------

\* One store, or its owner, controls the host.
HostControls == [h \in Hosts |-> CHOOSE s \in Sites : TRUE]

Symmetry == Permutations(Threads) \cup Permutations(EscrowTxs) \cup Permutations(Jobs)

\* The rows and the locals of every component's requests keep their shape.
RequestsTypeOK ==
  /\ focus \in Focuses
  /\ focus \in Money => RefundsTypeOK
  /\ focus = "escrow" => EscrowTypeOK
  /\ focus = "mpp" => MppTypeOK
  /\ focus = "subscriptions" => SubscriptionsTypeOK
  /\ focus = "delivery" => DeliveryTypeOK
  /\ focus = "create" => CreateTypeOK
  /\ focus = "selfserve" => SelfServeTypeOK
  /\ focus = "acp" => AcpTypeOK
  /\ focus = "catalog" => CatalogTypeOK
  /\ focus = "goods" => GoodsTypeOK
  /\ focus = "domains" => DomainsTypeOK
  /\ focus = "tiers" => TiersTypeOK
  /\ focus = "growth" => GrowthTypeOK

=============================================================================
