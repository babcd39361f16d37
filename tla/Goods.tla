------------------------------- MODULE Goods -------------------------------
(***************************************************************************)
(* What a store hands over (app/main.py): the merchant attaches, releases, *)
(* prices and detaches the deliverable of one scope, while orders are      *)
(* paid and delivered and metered channels are drawn down.                 *)
(*                                                                         *)
(* Abstractions: one scope, the store's; rows get ids in order of their    *)
(* insertion; the order's walk to "paid" is one step (Checkout has it);    *)
(* a channel is open with an unspent balance or is not (Mpp has it).       *)
(***************************************************************************)
EXTENDS Server, FiniteSetsExt

CONSTANTS
  GoodsOrders,   \* web orders of the store
  MaxReleases    \* deliverable rows, at most

ASSUME GoodsAssumption == MaxReleases \in Nat

Rows == 1..MaxReleases
GoodsKinds == {"file", "text", "license"}

VARIABLES
  deliverable,   \* deliverables, by id
  pricing,       \* pricing_model of the product: one_time or batch
  goods,         \* orders: status, and the row delivered (0: the text fallback)
  prepaid,       \* an open channel holds unspent balance
  goodsReq       \* locals of the requests in flight

goodsVars == <<deliverable, pricing, goods, prepaid, goodsReq>>

-----------------------------------------------------------------------------

Unreleased == [kind |-> "text", version |-> 0, active |-> FALSE]
Released == {d \in Rows : deliverable[d].version > 0}
ActiveRows == {d \in Rows : deliverable[d].active}
Lineage(kind) == {d \in Released : deliverable[d].kind = kind}

NoGoodsReq == [step |-> "idle", kind |-> "text", version |-> 0]
GoodsDone(w) == goodsReq' = [goodsReq EXCEPT ![w] = NoGoodsReq]

\* create_deliverable(): _resolve_deliverable_version() reads the highest
\* version of the kind; a release of nothing is 409, a replacement is version 1.
VersionRead(w, kind, versioned) ==
  /\ goodsReq[w].step = "idle" /\ Released # Rows /\ (versioned => Lineage(kind) # {})
  /\ goodsReq' = [goodsReq EXCEPT ![w] =
       [step |-> "release", kind |-> kind,
        version |-> IF versioned THEN 1 + Max({deliverable[d].version : d \in Lineage(kind)}) ELSE 1]]
  /\ UNCHANGED <<deliverable, pricing, goods, prepaid>>

\* The rows after a release r; _deactivate_deliverables() looks at active only.
AfterRelease(r, off) ==
  LET next == Cardinality(Released) + 1 IN
  [d \in Rows |-> IF d = next THEN [kind |-> r.kind, version |-> r.version, active |-> TRUE]
                  ELSE [deliverable[d] EXCEPT !.active = @ /\ d \notin off]]

\* Mutant of VersionCommit: only the earlier versions of the kind are turned off.
VersionCommitLineage(w) ==
  LET r == goodsReq[w] IN
  /\ r.step = "release" /\ Released # Rows
  /\ deliverable' = AfterRelease(r, {d \in Rows : deliverable[d].version < r.version})
  /\ GoodsDone(w) /\ UNCHANGED <<pricing, goods, prepaid>>

\* One conditional UPDATE turns the active rows off, and the insert follows in
\* its transaction.
VersionCommit(w) ==
  LET r == goodsReq[w] IN
  /\ r.step = "release" /\ Released # Rows
  /\ deliverable' = AfterRelease(r, Rows)
  /\ GoodsDone(w) /\ UNCHANGED <<pricing, goods, prepaid>>

\* set_pricing(): batch needs an active file, the newest row deciding.
SetPricing(model) ==
  /\ model = "batch" => ActiveRows # {} /\ deliverable[Max(ActiveRows)].kind = "file"
  /\ pricing' = model /\ UNCHANGED <<deliverable, goods, prepaid, goodsReq>>

\* detach_deliverable(): 409 while an order is paid and not delivered, or a
\* channel is unspent,
DetachRead(w) ==
  /\ goodsReq[w].step = "idle" /\ ~prepaid
  /\ \A o \in GoodsOrders : goods[o].status \notin {"detected", "ready"}
  /\ goodsReq' = [goodsReq EXCEPT ![w].step = "detach"]
  /\ UNCHANGED <<deliverable, pricing, goods, prepaid>>

\* and then the UPDATE.
DetachCommit(w) ==
  /\ goodsReq[w].step = "detach"
  /\ deliverable' = [d \in Rows |-> [deliverable[d] EXCEPT !.active = FALSE]]
  /\ GoodsDone(w) /\ UNCHANGED <<pricing, goods, prepaid>>

\* The order's payment is seen, and is deep enough.
PaymentSeen(o) ==
  /\ goods[o].status \in {"pending", "detected"}
  /\ goods' = [goods EXCEPT ![o].status = IF @ = "pending" THEN "detected" ELSE "ready"]
  /\ UNCHANGED <<deliverable, pricing, prepaid, goodsReq>>

\* deliver(): the newest active row at that moment, or the store's text.
DeliverGoods(o) ==
  /\ goods[o].status = "ready"
  /\ goods' = [goods EXCEPT ![o] =
       [status |-> "delivered", row |-> IF ActiveRows = {} THEN 0 ELSE Max(ActiveRows)]]
  /\ UNCHANGED <<deliverable, pricing, prepaid, goodsReq>>

\* A buyer funds a channel, and spends or closes it.
ChannelMoves ==
  /\ prepaid' = ~prepaid /\ UNCHANGED <<deliverable, pricing, goods, goodsReq>>

\* _current_version(): the row a past buyer of d downloads.
CurrentVersion(d) ==
  LET newer == {e \in Lineage(deliverable[d].kind) \cap ActiveRows :
                  deliverable[e].version > deliverable[d].version} IN
  IF newer = {} THEN d
  ELSE CHOOSE e \in newer : \A f \in newer : deliverable[f].version <= deliverable[e].version

GoodsInit ==
  /\ deliverable = [d \in Rows |-> Unreleased] /\ pricing = "one_time"
  /\ goods = [o \in GoodsOrders |-> [status |-> "pending", row |-> 0]]
  /\ prepaid = FALSE /\ goodsReq = [w \in Threads |-> NoGoodsReq]

GoodsNext ==
  \/ ChannelMoves
  \/ \E model \in {"one_time", "batch"} : SetPricing(model)
  \/ \E o \in GoodsOrders : PaymentSeen(o) \/ DeliverGoods(o)
  \/ \E w \in Threads :
       \/ \E kind \in GoodsKinds, versioned \in BOOLEAN : VersionRead(w, kind, versioned)
       \/ VersionCommit(w) \/ DetachRead(w) \/ DetachCommit(w)

GoodsSpec == GoodsInit /\ [][GoodsNext]_goodsVars

-----------------------------------------------------------------------------
(* Properties *)

GoodsTypeOK ==
  /\ deliverable \in [Rows -> [kind : GoodsKinds, version : 0..MaxReleases, active : BOOLEAN]]
  /\ pricing \in {"one_time", "batch"} /\ prepaid \in BOOLEAN
  /\ goods \in [GoodsOrders -> [status : {"pending", "detected", "ready", "delivered"},
                                row : 0..MaxReleases]]
  /\ goodsReq \in [Threads -> [step : {"idle", "release", "detach"}, kind : GoodsKinds,
                               version : 0..MaxReleases]]

\* However releases, replacements and detachments race, at most one deliverable
\* is on offer, and a past buyer is served the one on offer or the one they
\* bought, never a row in between (app/main.py:1852-1874, 1534-1552).
OneOnOffer ==
  /\ Cardinality(ActiveRows) <= 1
  /\ \A o \in GoodsOrders : goods[o].row # 0 => CurrentVersion(goods[o].row) \in ActiveRows \cup {goods[o].row}

(* Statements of the repository that the code does not keep (README). *)

\* Versions of a kind grow with every release (app/main.py:1911-1917).
VersionsGrow ==
  \A d, e \in Released :
    d < e /\ deliverable[d].kind = deliverable[e].kind /\ deliverable[e].version > 1
      => deliverable[d].version < deliverable[e].version

\* A deferred settlement is only offered for a file (app/main.py:2143-2158).
BatchSellsFiles ==
  pricing = "batch" => \A d \in ActiveRows : deliverable[d].kind = "file"

\* No detachment comes between a payment and its delivery (app/main.py:2660-2671).
PaidGetsGoods ==
  [][\A o \in GoodsOrders :
       goods[o].status \in {"detected", "ready"} /\ ActiveRows # {} => ActiveRows' # {}]_goodsVars

=============================================================================
