------------------------------ MODULE Refunds ------------------------------
(***************************************************************************)
(* Refunds (app/refunds.py, POST /api/merchant/orders/{id}/refund) over    *)
(* the orders of one store, with what a full refund takes back: the        *)
(* entitlement and the affiliate accrual.                                  *)
(*                                                                         *)
(* The route loads the order, asks the chain for the receipt, inserts the  *)
(* refund row and then updates the order.  The insert runs under           *)
(* begin_nested before any other write, so releasing its SAVEPOINT commits *)
(* it: a request that loses the order's UPDATE, or dies, leaves the row.   *)
(*                                                                         *)
(* Abstractions: a refund transaction carries one transfer from the store  *)
(* to the buyer of every order; the block floor is a lower bound on it.    *)
(***************************************************************************)
EXTENDS Affiliates

CONSTANTS
  RefundTxs,  \* hashes of transactions from the store to the buyer
  MaxSurplus  \* bound of the run: how much a buyer overpays

ASSUME RefundsAssumption ==
  MaxSurplus \in Nat /\ IsFiniteSet(RefundTxs) /\ None \notin RefundTxs

VARIABLES
  sale,       \* orders: status, paid_micro, overpaid_micro, refunded_micro
  refund,     \* refunds: the row of a transaction, or NoRefund
  returned,   \* the chain: value of each refund transaction, 0: not mined
  early,      \* refund transactions mined before the payment
  entitled,   \* entitlements: none, active or revoked, per order
  refReq      \* locals of the refund requests in flight

refVars == <<sale, refund, returned, early, entitled, refReq>>
moneyVars == <<affVars, refVars>>

-----------------------------------------------------------------------------

REFUNDABLE == {"underpaid", "expired", "canceled", "confirmed", "overpaid",
               "late_paid", "delivered", "paid"}
OVERAGE_STATES == {"delivered", "paid"}
Kinds == {"full", "overage"}

SaleRow == [status : REFUNDABLE \cup {"none", "refunded"},
            paid : Nat, over : Nat, refunded : Nat]

NoSale == [status |-> "none", paid |-> 0, over |-> 0, refunded |-> 0]
NoRefund == [order |-> None, amount |-> 0]
NoRefReq == [pc |-> "idle", order |-> None, row |-> NoSale, tx |-> None, kind |-> "full"]

\* A sweep or the fast path credits a payment: too little, exact, with a
\* surplus, or after the order had been released.
PayOrder(o) ==
  /\ sale[o].status = "none"
  /\ \E p \in Prices, s \in 0..MaxSurplus :
       \/ \E late \in BOOLEAN : sale' = [sale EXCEPT ![o] =
            [status |-> IF late THEN "late_paid" ELSE IF s > 0 THEN "overpaid" ELSE "confirmed",
             paid |-> p + s, over |-> s, refunded |-> 0]]
       \/ /\ p > 1
          /\ sale' = [sale EXCEPT ![o] = [NoSale EXCEPT !.status = "underpaid", !.paid = p - 1]]
  /\ UNCHANGED <<refund, returned, early, entitled, refReq>> /\ UNCHANGED affVars

\* A second transfer completes an underpaid order.
TopUpOrder(o) ==
  /\ sale[o].status = "underpaid"
  /\ sale' = [sale EXCEPT ![o].status = "confirmed", ![o].paid = @ + 1]
  /\ UNCHANGED <<refund, returned, early, entitled, refReq>> /\ UNCHANGED affVars

\* deliver(): the winner of the conditional UPDATE mints the entitlement and
\* accrues the referrer's share, in the same transaction.
DeliverSale(o) ==
  /\ sale[o].status \in {"confirmed", "overpaid", "late_paid"}
  /\ sale' = [sale EXCEPT ![o].status = "delivered"]
  /\ entitled' = [entitled EXCEPT ![o] = "active"]
  /\ \E ref \in Referrers : accrual' = Accrue(o, ref, sale[o].paid - sale[o].over)
  /\ UNCHANGED <<refund, returned, early, refReq, payout, sent, payReq>>

\* The merchant sends the buyer tokens from the receive wallet.
SendRefund(tx) ==
  /\ returned[tx] = 0
  /\ \E v \in 1..(MaxPayout + MaxSurplus), old \in SUBSET {tx} :
       returned' = [returned EXCEPT ![tx] = v] /\ early' = early \cup old
  /\ UNCHANGED <<sale, refund, entitled, refReq>> /\ UNCHANGED affVars

\* merchant_refund() loads the owned order; the RPC follows.
RefundRead(w, o, tx, kind) ==
  /\ refReq[w].pc = "idle" /\ sale[o].status # "none" /\ returned[tx] > 0
  /\ refReq' = [refReq EXCEPT ![w] =
       [pc |-> "receipt", order |-> o, row |-> sale[o], tx |-> tx, kind |-> kind]]
  /\ UNCHANGED <<sale, refund, returned, early, entitled>> /\ UNCHANGED affVars

\* _amount_due(); 0 stands for a refusal.
AmountDue(row, kind) ==
  IF kind = "overage"
    THEN IF row.status \in OVERAGE_STATES /\ row.over > row.refunded
           THEN row.over - row.refunded ELSE 0
    ELSE IF row.status \in REFUNDABLE /\ row.paid > row.refunded
           THEN row.paid - row.refunded ELSE 0

\* The transfer must not predate the payment nor be claimed, by this order or
\* another, and its value must be what the row read before the RPC leaves due.
RefundVerify(w) ==
  LET r == refReq[w] IN
  /\ r.pc = "receipt"
  /\ IF \/ r.tx \in early \/ refund[r.tx] # NoRefund
        \/ returned[r.tx] # AmountDue(r.row, r.kind)
       THEN refReq' = [refReq EXCEPT ![w] = NoRefReq] /\ UNCHANGED refund
       ELSE /\ refund' = [refund EXCEPT ![r.tx] = [order |-> r.order, amount |-> returned[r.tx]]]
            /\ refReq' = [refReq EXCEPT ![w].pc = "recorded"]
  /\ UNCHANGED <<sale, returned, early, entitled>> /\ UNCHANGED affVars

\* A full refund: the conditional transition writes the refunded sum computed
\* from the stale row; the winner revokes the entitlement and voids the accrual.
ApplyFull(w) ==
  LET r == refReq[w]  o == r.order IN
  /\ r.pc = "recorded" /\ r.kind = "full"
  /\ IF sale[o].status \in REFUNDABLE
       THEN /\ sale' = [sale EXCEPT ![o].status = "refunded",
                                    ![o].refunded = r.row.refunded + returned[r.tx]]
            /\ entitled' = [entitled EXCEPT ![o] = IF @ = "active" THEN "revoked" ELSE @]
            /\ accrual' = VoidAccrual(o)
       ELSE UNCHANGED <<sale, entitled, accrual>>
  /\ refReq' = [refReq EXCEPT ![w] = NoRefReq]
  /\ UNCHANGED <<refund, returned, early, payout, sent, payReq>>

\* Mutant of ApplyOverage: the compare-and-set on refunded_micro is dropped.
ApplyOverageUnguarded(w) ==
  LET r == refReq[w]  o == r.order IN
  /\ r.pc = "recorded" /\ r.kind = "overage"
  /\ sale' = IF sale[o].status \in OVERAGE_STATES
               THEN [sale EXCEPT ![o].refunded = @ + returned[r.tx]] ELSE sale
  /\ refReq' = [refReq EXCEPT ![w] = NoRefReq]
  /\ UNCHANGED <<refund, returned, early, entitled>> /\ UNCHANGED affVars

\* An overage refund: the goods stay delivered, refunded_micro is compared and set.
ApplyOverage(w) ==
  LET r == refReq[w]  o == r.order IN
  /\ r.pc = "recorded" /\ r.kind = "overage"
  /\ sale' = IF sale[o].status \in OVERAGE_STATES /\ sale[o].refunded = r.row.refunded
               THEN [sale EXCEPT ![o].refunded = r.row.refunded + returned[r.tx]]
               ELSE sale
  /\ refReq' = [refReq EXCEPT ![w] = NoRefReq]
  /\ UNCHANGED <<refund, returned, early, entitled>> /\ UNCHANGED affVars

RefundDies(w) ==
  /\ refReq[w].pc # "idle"
  /\ refReq' = [refReq EXCEPT ![w] = NoRefReq]
  /\ UNCHANGED <<sale, refund, returned, early, entitled>> /\ UNCHANGED affVars

RefundsInit ==
  /\ AffiliatesInit
  /\ sale = [o \in Orders |-> NoSale]
  /\ refund = [tx \in RefundTxs |-> NoRefund]
  /\ returned = [tx \in RefundTxs |-> 0] /\ early = {}
  /\ entitled = [o \in Orders |-> "none"]
  /\ refReq = [w \in Threads |-> NoRefReq]

RefundsNext ==
  \/ AffiliatesNext /\ UNCHANGED refVars
  \/ \E o \in Orders : PayOrder(o) \/ TopUpOrder(o) \/ DeliverSale(o)
  \/ \E tx \in RefundTxs : SendRefund(tx)
  \/ \E w \in Threads :
       \/ \E o \in Orders, tx \in RefundTxs, k \in Kinds : RefundRead(w, o, tx, k)
       \/ RefundVerify(w) \/ ApplyFull(w) \/ ApplyOverage(w) \/ RefundDies(w)

RefundsSpec == RefundsInit /\ [][RefundsNext]_moneyVars

-----------------------------------------------------------------------------
(* Properties *)

LedgerOf(o) ==
  MapThenSumSet(LAMBDA tx : refund[tx].amount, {tx \in RefundTxs : refund[tx].order = o})

RefundsTypeOK ==
  /\ AffiliatesTypeOK
  /\ sale \in [Orders -> SaleRow]
  /\ refund \in [RefundTxs -> [order : Orders \cup {None}, amount : Nat]]
  /\ returned \in [RefundTxs -> Nat] /\ early \in SUBSET RefundTxs
  /\ entitled \in [Orders -> {"none", "active", "revoked"}]
  /\ refReq \in [Threads -> [pc : {"idle", "receipt", "recorded"}, order : Orders \cup {None},
                             row : SaleRow, tx : RefundTxs \cup {None}, kind : Kinds]]

\* What an order says was refunded was sent to its buyer and never exceeds what
\* the buyer paid, nor, while the buyer keeps the goods, what was paid too much.
RefundBacked ==
  \A o \in Orders :
    /\ sale[o].refunded <= LedgerOf(o)
    /\ sale[o].refunded <= sale[o].paid
    /\ sale[o].status = "delivered" => sale[o].refunded <= sale[o].over

(* Statements of the repository that the code does not keep (README). *)

\* A full refund returns everything the buyer paid.
RefundedInFull ==
  \A o \in Orders : sale[o].status = "refunded" => sale[o].refunded = sale[o].paid

\* app/refunds.py:184-188: the refunds ledger and refunded_micro never diverge.
LedgerNeverDiverges ==
  (\A w \in Threads : refReq[w].pc = "idle") =>
    \A o \in Orders : sale[o].refunded = LedgerOf(o)

=============================================================================
