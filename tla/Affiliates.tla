----------------------------- MODULE Affiliates -----------------------------
(***************************************************************************)
(* The rev-share ledger (app/affiliates.py) of one merchant: an accrual    *)
(* per referred sale, voided by a full refund or paid by a payout the      *)
(* merchant sent from their own wallet and the server only verifies.       *)
(*                                                                         *)
(* The payout rows are inserted under begin_nested before anything else is *)
(* written: with the pysqlite driver that SAVEPOINT is the outermost one   *)
(* and its release commits.  Reading the accruals and flushing their new   *)
(* status are therefore steps of their own, and a handler may die between. *)
(*                                                                         *)
(* Abstractions: one referring agent; a payout transaction carries one     *)
(* transfer to it; the rate is a whole percentage.                         *)
(***************************************************************************)
EXTENDS Server, FiniteSetsExt

CONSTANTS
  Orders,      \* ids of sold orders, in the order their accruals are written
  PayoutTxs,   \* hashes of transactions to the referring agent
  Prices,      \* expected_micro of an order
  Percent,     \* TILLA_AFFILIATE_BPS / 100
  MaxPayout    \* bound of the run: value of a payout transfer

ASSUME AffiliatesAssumption ==
  /\ Orders \subseteq Nat /\ IsFiniteSet(Orders) /\ Prices \subseteq Nat
  /\ Percent \in 0..100 /\ MaxPayout \in Nat
  /\ IsFiniteSet(PayoutTxs) /\ None \notin Orders \cup PayoutTxs

VARIABLES
  accrual,   \* affiliate_accruals: one row per order
  payout,    \* affiliate_payouts: amount recorded for a transaction, 0: no row
  sent,      \* the chain: value of each payout transaction, 0: not mined
  payReq     \* locals of the payout requests in flight

affVars == <<accrual, payout, sent, payReq>>

-----------------------------------------------------------------------------

AccrualStatus == {"none", "accrued", "void", "paid"}

\* Who an order names as its referrer: nobody, the agent, or the buyer itself
\* or the store's receive wallet.
Referrers == {"none", "agent", "buyer", "pay_to"}

AccrualRow == [status : AccrualStatus, micro : Nat, payout : PayoutTxs \cup {None}]

NoAccrual == [status |-> "none", micro |-> 0, payout |-> None]

NoPayout == [pc |-> "idle", tx |-> None, owed |-> 0, left |-> {}]

\* The self-referral guard.
SelfReferral(ref) == ref \in {"buyer", "pay_to"}

\* accrue(): the row a settled or delivered order writes, once.
Accrue(o, ref, price) ==
  LET micro == (price * Percent) \div 100 IN
  IF ref = "none" \/ SelfReferral(ref) \/ micro = 0 \/ accrual[o].status # "none"
    THEN accrual
    ELSE [accrual EXCEPT ![o] = [status |-> "accrued", micro |-> micro, payout |-> None]]

\* void_accrual(): what a full refund does in its own transaction.
VoidAccrual(o) ==
  IF accrual[o].status = "accrued"
    THEN [accrual EXCEPT ![o].status = "void"] ELSE accrual

AccruedOrders == {o \in Orders : accrual[o].status = "accrued"}

MicroOf(S) == MapThenSumSet(LAMBDA o : accrual[o].micro, S)

\* owed_micro(), and merchant_owed_micro() with the one agent.
Owed == MicroOf(AccruedOrders)

\* merchant_summary() and referrer_summary(): totals per status.
Summary == [s \in {"accrued", "void", "paid"} |->
              MicroOf({o \in Orders : accrual[o].status = s})]

-----------------------------------------------------------------------------
(* verify_and_record_payout *)

\* The merchant, or anybody, sends the agent tokens.
SendPayout(tx) ==
  /\ sent[tx] = 0
  /\ \E v \in 1..MaxPayout : sent' = [sent EXCEPT ![tx] = v]
  /\ UNCHANGED <<accrual, payout, payReq>>

\* The route reads what is owed, then asks the chain for the receipt.
PayoutBegin(w, tx) ==
  /\ payReq[w].pc = "idle" /\ sent[tx] > 0 /\ Owed > 0
  /\ payReq' = [payReq EXCEPT ![w] = [NoPayout EXCEPT !.pc = "receipt", !.tx = tx, !.owed = Owed]]
  /\ UNCHANGED <<accrual, payout, sent>>

\* The receipt is checked against the owed balance read before it was fetched;
\* the row is inserted and committed, or the request ends with 400 or 409.
PayoutRecord(w) ==
  LET r == payReq[w] IN
  /\ r.pc = "receipt"
  /\ IF payout[r.tx] > 0 \/ sent[r.tx] > r.owed
       THEN payReq' = [payReq EXCEPT ![w] = NoPayout] /\ UNCHANGED payout
       ELSE /\ payout' = [payout EXCEPT ![r.tx] = sent[r.tx]]
            /\ payReq' = [payReq EXCEPT ![w].pc = "recorded"]
  /\ UNCHANGED <<accrual, sent>>

\* Mutant of Coverable: what a covered accrual takes is not subtracted.
CoverableTwice(S, total) == {o \in S : accrual[o].micro <= total}

\* The accruals covered in id order: those before it that fit leave `total`
\* less their sum, and this one fits into the rest.
Coverable(S, total) ==
  LET Step(left, o) == IF accrual[o].micro <= left.rest
                         THEN [rest |-> left.rest - accrual[o].micro, ids |-> left.ids \cup {o}]
                         ELSE left
      Cover[T \in SUBSET S] ==
        IF T = {} THEN [rest |-> total, ids |-> {}]
        ELSE LET o == CHOOSE x \in T : \A y \in T : y <= x
             IN Step(Cover[T \ {o}], o)
  IN Cover[S].ids

\* The rows still accrued are read; their new status is only in memory.
PayoutSelect(w) ==
  /\ payReq[w].pc = "recorded"
  /\ payReq' = [payReq EXCEPT ![w].pc = "selected",
                              ![w].left = Coverable(AccruedOrders, payout[payReq[w].tx])]
  /\ UNCHANGED <<accrual, payout, sent>>

\* The flush writes every selected row by its primary key.
PayoutCover(w) ==
  LET r == payReq[w] IN
  /\ r.pc = "selected"
  /\ accrual' = [o \in Orders |->
       IF o \in r.left THEN [accrual[o] EXCEPT !.status = "paid", !.payout = r.tx]
                       ELSE accrual[o]]
  /\ payReq' = [payReq EXCEPT ![w] = NoPayout]
  /\ UNCHANGED <<payout, sent>>

\* A failed RPC, or the process dies.
PayoutDies(w) ==
  /\ payReq[w].pc # "idle"
  /\ payReq' = [payReq EXCEPT ![w] = NoPayout]
  /\ UNCHANGED <<accrual, payout, sent>>

AffiliatesInit ==
  /\ accrual = [o \in Orders |-> NoAccrual]
  /\ payout = [tx \in PayoutTxs |-> 0]
  /\ sent = [tx \in PayoutTxs |-> 0]
  /\ payReq = [w \in Threads |-> NoPayout]

AffiliatesNext ==
  \/ \E tx \in PayoutTxs : SendPayout(tx) \/ \E w \in Threads : PayoutBegin(w, tx)
  \/ \E w \in Threads :
       PayoutRecord(w) \/ PayoutSelect(w) \/ PayoutCover(w) \/ PayoutDies(w)

-----------------------------------------------------------------------------
(* Properties *)

AffiliatesTypeOK ==
  /\ accrual \in [Orders -> AccrualRow]
  /\ payout \in [PayoutTxs -> 0..MaxPayout] /\ sent \in [PayoutTxs -> 0..MaxPayout]
  /\ payReq \in [Threads -> [pc : {"idle", "receipt", "recorded", "selected"},
                             tx : PayoutTxs \cup {None}, owed : Nat, left : SUBSET Orders]]

\* The accruals a payout is said to cover never sum to more than the transfer
\* that was verified for it, nor what the dashboards call paid to more than all
\* the transfers, whatever other payouts and refunds run beside them.
PayoutBacked ==
  /\ \A tx \in PayoutTxs : MicroOf({o \in Orders : accrual[o].payout = tx}) <= payout[tx]
  /\ Summary["paid"] <= MapThenSumSet(LAMBDA tx : payout[tx], PayoutTxs)

=============================================================================
