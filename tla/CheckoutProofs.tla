--------------------------- MODULE CheckoutProofs ---------------------------
(***************************************************************************)
(* Proofs about Checkout, for any number of orders, transactions, request  *)
(* threads, log indexes and reorgs.                                        *)
(*                                                                         *)
(* Neither the types nor PaidBacked are inductive alone: a thread writes   *)
(* from the row and the transaction it read earlier.  IInv adds what those *)
(* locals still say about the tables when the write comes.                 *)
(***************************************************************************)
EXTENDS Checkout, FiniteSetTheorems, TLAPS

\* A thread that read row `snap` of order o and found transaction t on the chain.
Holds(o, snap, t) ==
  /\ o \in Orders /\ t \in Txs
  /\ order[o].status # "none" /\ order[o].expected = snap.expected
  /\ txs[t].value # 0

SweepLocals ==
  /\ sw.pc \in {"addresses", "window", "apply", "promote", "commit"}
       => sw.head >= CONFIRMATIONS
  /\ sw.pc = "apply" => /\ Holds(sw.o, sw.snap, sw.tx)
                        /\ txs[sw.tx].value = sw.snap.expected

LocalsOf(r) ==
  /\ r.pc \in {"receipt", "mature"} => r.o \in Orders
  /\ r.pc \in {"check", "apply"} => Holds(r.o, r.snap, r.tx)
  /\ r.pc = "apply" => txs[r.tx].value = r.snap.expected

RequestLocals == \A w \in Workers : LocalsOf(req[w])

\* Only a transfer that was paid is mined or consumed.
Ledger ==
  /\ \A t \in Txs : txs[t].block # 0 => txs[t].value # 0
  /\ \A k \in Txs \X LogIdx : processed[k] # NoOrder => txs[k[1]].value # 0

IInv == TypeOK /\ SweepLocals /\ RequestLocals /\ Ledger /\ PaidBacked

Terminal == {"delivered", "canceled", "reorged"}

SoldRow(r) == r.sold = IF r.status = "delivered" THEN 1 ELSE 0

\* What was agreed when the order was made.
SameTerms(r, n) ==
  n.expected = r.expected /\ n.createdBlock = r.createdBlock /\ n.expiresAt = r.expiresAt

\* What any write of the code may do to an existing row.
Rewrites(r, n) ==
  /\ n \in Row /\ SameTerms(r, n)
  /\ n.status = "none" <=> r.status = "none"
  /\ n.status \in IndexedStatus => r.status \in IndexedStatus
  /\ n.status \in IN_FLIGHT => r.status \in IN_FLIGHT
  /\ n.status = "pending" => r.status = "pending"
  /\ SoldRow(r) => SoldRow(n)
  /\ r.status \in Terminal => n = r

\* ... and to the table: a row is backed before it counts as paid.
RowsStep ==
  /\ order' \in [Orders -> Row]
  /\ \A o \in Orders : Rewrites(order[o], order'[o])
  /\ \A o \in Orders : order'[o].status \in PaidStatus =>
       \/ order[o].status \in PaidStatus
       \/ \E k \in Txs \X LogIdx : /\ processed'[k] = o
                                   /\ txs[k[1]].value # 0
                                   /\ txs[k[1]].value = order[o].expected

\* The one action that makes a row.
Created(o) ==
  /\ order[o].status = "none"
  /\ ~AmountIndexed(order'[o].expected) /\ ~AmountTaken(order'[o].expected, clock)
  /\ order' \in [Orders -> Row]
  /\ order'[o].status = "pending" /\ order'[o].sold = 0 /\ order'[o].paid = 0
  /\ order'[o].createdBlock \in {0, head} /\ order'[o].expiresAt = clock + ORDER_TTL
  /\ \A p \in Orders \ {o} : order'[p] = order[p]

USE DEF Terminal, IN_FLIGHT, READY_TO_DELIVER, ALWAYS_HOLD, COOLDOWN_HOLD, SameTerms

-----------------------------------------------------------------------------
(* Rows *)

LEMMA StatusMembers ==
  /\ {"none", "expired", "canceled", "reorged", "pending", "detected", "underpaid",
      "confirmed", "overpaid", "late_paid", "delivered"} \subseteq Status
  /\ \A s \in Status : s \in {"none", "expired", "canceled", "reorged", "pending",
       "detected", "underpaid", "confirmed", "overpaid", "late_paid", "delivered"}
BY DEF Status

LEMMA RewritesTransitive ==
  ASSUME NEW r, NEW m, NEW n, Rewrites(r, m), Rewrites(m, n)
  PROVE  Rewrites(r, n)
BY DEF Rewrites

LEMMA RewritesReflexive ==
  ASSUME NEW r \in Row
  PROVE  Rewrites(r, r)
BY DEF Rewrites

\* A status update between statuses other than "none" and "delivered".
LEMMA TransitionRewrites ==
  ASSUME NEW r \in Row, NEW n \in Row, NEW from,
         SameTerms(r, n), n.sold = r.sold,
         from \cap (Terminal \cup {"none"}) = {}, n.status \notin {"none", "pending", "delivered"},
         from \subseteq IN_FLIGHT \/ n.status \notin IN_FLIGHT,
         from \subseteq IndexedStatus \/ n.status \notin IndexedStatus
  PROVE  Rewrites(r, Transition(r, from, n))
PROOF
  <1>1. CASE r.status \in from
    <2>1. r.status # "none" /\ r.status # "delivered"
      BY <1>1
    <2>2. SoldRow(r) => SoldRow(n)
      BY <2>1 DEF SoldRow
    <2> QED
      BY <1>1, <2>1, <2>2 DEF Rewrites, Transition
  <1>2. CASE r.status \notin from
    BY <1>2, RewritesReflexive DEF Transition
  <1> QED
    BY <1>1, <1>2

\* deliver() only moves a row that is ready.
LEMMA DeliverRewrites ==
  ASSUME NEW r \in Row, NEW now \in Nat
  PROVE  /\ Rewrites(r, Deliver(r, now))
         /\ Deliver(r, now).status \in PaidStatus => r.status \in PaidStatus
PROOF
  <1> DEFINE n == [r EXCEPT !.status = "delivered", !.paidAt = now, !.sold = @ + 1]
  <1>1. CASE r.status \in READY_TO_DELIVER
    <2>1. Deliver(r, now) = n
      BY <1>1 DEF Deliver, Transition
    <2>2. r.sold + 1 \in Nat
      BY DEF Row
    <2>3. n \in Row
      BY <2>2, StatusMembers DEF Row
    <2>4. n.status = "delivered" /\ SameTerms(r, n) /\ n.sold = r.sold + 1
      BY DEF Row
    <2>5. SoldRow(r) => SoldRow(n)
      BY <1>1, <2>4 DEF SoldRow
    <2> HIDE DEF n
    <2> QED
      BY <1>1, <2>1, <2>3, <2>4, <2>5 DEF Rewrites, IndexedStatus, PaidStatus
  <1>2. CASE r.status \notin READY_TO_DELIVER
    BY <1>2, RewritesReflexive DEF Deliver, Transition
  <1> QED
    BY <1>1, <1>2

\* The status changes of a row, without its other fields.
LEMMA StatusUpdate ==
  ASSUME NEW r \in Row, NEW s \in Status
  PROVE  LET n == [r EXCEPT !.status = s]
         IN  n \in Row /\ n.status = s /\ SameTerms(r, n) /\ n.sold = r.sold
BY DEF Row

LEMMA OverUpdate ==
  ASSUME NEW r \in Row, NEW surplus \in Int
  PROVE  LET n == [r EXCEPT !.over = surplus]
         IN  /\ n \in Row /\ n.status = r.status /\ SameTerms(r, n)
             /\ n.sold = r.sold /\ n.paid = r.paid /\ n.tx = r.tx
BY DEF Row

LEMMA MatureRewrites ==
  ASSUME NEW r \in Row, NEW snap \in Row, NEW valid \in BOOLEAN, NEW now \in Nat
  PROVE  /\ Rewrites(r, Mature(r, snap, valid, now))
         /\ Mature(r, snap, valid, now).status \in PaidStatus => r.status \in PaidStatus
PROOF
  <1>1. CASE ~valid
    <2> DEFINE n == [r EXCEPT !.status = "reorged"]
    <2>1. n \in Row /\ n.status = "reorged" /\ SameTerms(r, n) /\ n.sold = r.sold
      BY StatusUpdate, StatusMembers
    <2>2. Mature(r, snap, valid, now) = Transition(r, {"detected", "late_paid"}, n)
      BY <1>1 DEF Mature, MarkReorged
    <2> HIDE DEF n
    <2>3. Rewrites(r, Transition(r, {"detected", "late_paid"}, n))
      BY <2>1, TransitionRewrites DEF IndexedStatus
    <2> QED
      BY <2>1, <2>2, <2>3 DEF Transition, PaidStatus
  <1>2. CASE valid
    <2> DEFINE c == IF snap.paid > snap.expected THEN "overpaid" ELSE "confirmed"
               n == [r EXCEPT !.status = c]
               m == IF snap.status = "detected"
                    THEN Transition(r, {"detected"}, n) ELSE r
    <2>1. n \in Row /\ n.status = c /\ SameTerms(r, n) /\ n.sold = r.sold
      BY StatusUpdate, StatusMembers
    <2>2. Mature(r, snap, valid, now) = Deliver(m, now)
      BY <1>2 DEF Mature
    <2>3. Rewrites(r, m) /\ (m.status \in PaidStatus => r.status \in PaidStatus)
      <3> HIDE DEF n
      <3>1. Rewrites(r, Transition(r, {"detected"}, n))
        BY <2>1, TransitionRewrites DEF IndexedStatus
      <3> QED
        BY <3>1, RewritesReflexive DEF Transition, PaidStatus
    <2>4. m \in Row
      BY <2>3 DEF Rewrites
    <2> HIDE DEF m
    <2> QED
      BY <2>2, <2>3, <2>4, DeliverRewrites, RewritesTransitive
  <1> QED
    BY <1>1, <1>2

LEMMA DriveStateRewrites ==
  ASSUME NEW r \in Row, NEW snap \in Row, r.expected = snap.expected,
         NEW value \in Nat, NEW tx \in Txs, NEW block \in Nat,
         NEW depthOk \in BOOLEAN, NEW now \in Nat
  PROVE  Rewrites(r, DriveState(r, snap, value, tx, block, depthOk, now))
PROOF
  <1> DEFINE cumulative == snap.paid + value
             surplus == cumulative - snap.expected
             credit == [r EXCEPT !.paid = cumulative, !.tx = tx, !.block = block]
             As(status) == [credit EXCEPT !.status = status]
             AsPaid(status) == [As(status) EXCEPT !.over = surplus]
             c == IF surplus > 0 THEN "overpaid" ELSE "confirmed"
             Late == Transition(r, {"expired"}, As("late_paid"))
             Paid == Transition(r, IN_FLIGHT, AsPaid(c))
  <1>1. cumulative \in Nat /\ surplus \in Int
    BY DEF Row
  <1>2. credit \in Row /\ SameTerms(r, credit) /\ credit.sold = r.sold
    BY <1>1 DEF Row
  <1>3. \A s \in Status : /\ As(s) \in Row /\ As(s).status = s
                          /\ SameTerms(r, As(s)) /\ As(s).sold = r.sold
    BY <1>2, StatusUpdate
  <1>4. \A s \in Status : /\ AsPaid(s) \in Row /\ AsPaid(s).status = s
                          /\ SameTerms(r, AsPaid(s)) /\ AsPaid(s).sold = r.sold
    <2> SUFFICES ASSUME NEW s \in Status
                 PROVE  /\ AsPaid(s) \in Row /\ AsPaid(s).status = s
                        /\ SameTerms(r, AsPaid(s)) /\ AsPaid(s).sold = r.sold
      OBVIOUS
    <2>1. As(s) \in Row /\ As(s).status = s /\ SameTerms(r, As(s)) /\ As(s).sold = r.sold
      BY <1>3
    <2> HIDE DEF As, surplus
    <2> QED
      BY <1>1, <2>1, OverUpdate
  <1> HIDE DEF As, AsPaid, surplus, cumulative, credit
  <1>5. Rewrites(r, Late)
    BY <1>3, StatusMembers, TransitionRewrites DEF IndexedStatus
  <1>6. Rewrites(r, Transition(r, {"pending", "underpaid"}, As("underpaid")))
    BY <1>3, StatusMembers, TransitionRewrites DEF IndexedStatus
  <1>7. Rewrites(r, Transition(r, IN_FLIGHT, AsPaid("detected")))
    BY <1>4, StatusMembers, TransitionRewrites DEF IndexedStatus
  <1>8. Rewrites(r, Paid)
    BY <1>4, StatusMembers, TransitionRewrites DEF IndexedStatus
  <1>9. Rewrites(r, Deliver(Late, now)) /\ Rewrites(r, Deliver(Paid, now))
    <2> HIDE DEF Late, Paid
    <2> QED
      BY <1>5, <1>8, DeliverRewrites, RewritesTransitive DEF Rewrites
  <1> QED
    <2> USE DEF As, AsPaid, surplus, cumulative, credit
    <2> QED
      BY <1>5, <1>6, <1>7, <1>9 DEF DriveState

-----------------------------------------------------------------------------
(* The writes of the table *)

LEMMA NoRowIsRow ==
  NoRow \in Row /\ NoRow.status = "none" /\ NoRow.sold = 0 /\ NoRow.paid = 0
PROOF
  <1>1. "none" \in Status
    BY StatusMembers
  <1> QED
    BY <1>1 DEF NoRow, Row

LEMMA CreateOrderRow ==
  ASSUME TypeOK, NEW o \in Orders, NEW offset \in 1..OffsetSpan, NEW floor \in {0, head},
         CreateOrder(o, offset, floor)
  PROVE  Created(o)
PROOF
  <1> DEFINE n == [NoRow EXCEPT !.status = "pending", !.expected = Price + offset,
                                !.createdBlock = floor, !.expiresAt = clock + ORDER_TTL]
  <1>1. Price + offset \in Nat /\ floor \in Nat /\ clock + ORDER_TTL \in Nat
    BY ConstantsAssumption DEF TypeOK
  <1>2. n \in Row /\ n.status = "pending" /\ n.sold = 0 /\ n.paid = 0 /\ n.expected = Price + offset
        /\ n.createdBlock = floor /\ n.expiresAt = clock + ORDER_TTL
    <2>1. "pending" \in Status
      BY StatusMembers
    <2>2. NoRow \in Row /\ NoRow.sold = 0 /\ NoRow.paid = 0
      BY NoRowIsRow
    <2> QED
      BY <1>1, <2>1, <2>2 DEF Row
  <1>3. order' = [order EXCEPT ![o] = n] /\ order[o].status = "none"
        /\ ~AmountIndexed(Price + offset) /\ ~AmountTaken(Price + offset, clock)
    BY DEF CreateOrder
  <1> HIDE DEF n
  <1> QED
    BY <1>2, <1>3 DEF Created, TypeOK

LEMMA ExpireRow ==
  ASSUME TypeOK, NEW o \in Orders, RefreshExpire(o) \/ CancelCheckout(o)
  PROVE  RowsStep
PROOF
  <1> PICK s \in {"expired", "canceled"} :
        /\ order' = [order EXCEPT ![o] = [order[o] EXCEPT !.status = s]]
        /\ order[o].status \in {"pending", "expired"}
    BY DEF RefreshExpire, CancelCheckout
  <1> DEFINE n == [order[o] EXCEPT !.status = s]
  <1>1. n \in Row /\ n.status = s /\ SameTerms(order[o], n) /\ n.sold = order[o].sold
    BY StatusUpdate, StatusMembers DEF TypeOK
  <1>2. order' = [order EXCEPT ![o] = n]
    OBVIOUS
  <1> HIDE DEF n
  <1>3. Rewrites(order[o], n)
    BY <1>1 DEF Rewrites, SoldRow, IndexedStatus
  <1> QED
    BY <1>1, <1>2, <1>3, RewritesReflexive DEF RowsStep, TypeOK, PaidStatus

LEMMA RefreshWriteRow ==
  ASSUME TypeOK, RequestLocals, NEW w \in Workers, RefreshWrite(w)
  PROVE  RowsStep
PROOF
  <1> DEFINE o == req[w].o
             n == Mature(order[o], req[w].snap, req[w].valid, clock)
  <1>1. o \in Orders /\ req[w].snap \in Row /\ req[w].valid \in BOOLEAN /\ clock \in Nat
        /\ order[o] \in Row
    BY DEF RefreshWrite, RequestLocals, LocalsOf, TypeOK, Request_
  <1>2. Rewrites(order[o], n) /\ (n.status \in PaidStatus => order[o].status \in PaidStatus)
    BY <1>1, MatureRewrites
  <1>3. order' = [order EXCEPT ![o] = n]
    BY DEF RefreshWrite
  <1>4. n \in Row
    BY <1>2 DEF Rewrites
  <1> HIDE DEF n, o
  <1> QED
    BY <1>1, <1>2, <1>3, <1>4, RewritesReflexive DEF RowsStep, TypeOK

LEMMA ApplyTransferRow ==
  ASSUME TypeOK, NEW o, NEW snap \in Row, NEW tx, NEW idx \in LogIdx,
         NEW block \in Nat, NEW atHead \in Nat,
         Holds(o, snap, tx), txs[tx].value = snap.expected,
         ApplyTransfer(o, snap, tx, idx, block, atHead)
  PROVE  RowsStep
PROOF
  <1> DEFINE n == DriveState(order[o], snap, txs[tx].value, tx, block,
                             atHead - block >= CONFIRMATIONS, clock)
  <1>1. /\ o \in Orders /\ tx \in Txs /\ order[o] \in Row
        /\ order[o].expected = snap.expected /\ txs[tx].value \in Nat /\ clock \in Nat
        /\ (atHead - block >= CONFIRMATIONS) \in BOOLEAN
    BY DEF Holds, TypeOK, Transfer
  <1>2. Rewrites(order[o], n)
    BY <1>1, DriveStateRewrites
  <1>3. order' = [order EXCEPT ![o] = n] /\ processed' = [processed EXCEPT ![<<tx, idx>>] = o]
    BY DEF ApplyTransfer
  <1>4. n \in Row
    BY <1>2 DEF Rewrites
  <1>5. <<tx, idx>> \in Txs \X LogIdx /\ processed'[<<tx, idx>>] = o
        /\ txs[<<tx, idx>>[1]].value = order[o].expected /\ txs[<<tx, idx>>[1]].value # 0
    BY <1>1, <1>3 DEF TypeOK, Holds
  <1> HIDE DEF n
  <1> QED
    BY <1>1, <1>2, <1>3, <1>4, <1>5, RewritesReflexive DEF RowsStep, TypeOK

LEMMA SweepStartRow ==
  ASSUME TypeOK, SweepStart
  PROVE  RowsStep
PROOF
  <1> SUFFICES ASSUME NEW r \in Row
               PROVE  LET n == ReleaseExpired(FlipExpired(r, clock), clock)
                      IN  /\ Rewrites(r, n)
                          /\ n.status \in PaidStatus => r.status \in PaidStatus
    BY DEF SweepStart, RowsStep, TypeOK, Rewrites
  <1> DEFINE e == [r EXCEPT !.status = "expired"]
             f == FlipExpired(r, clock)
             c == [f EXCEPT !.status = "canceled"]
  <1>1. e \in Row /\ e.status = "expired" /\ SameTerms(r, e) /\ e.sold = r.sold
    BY StatusUpdate, StatusMembers
  <1>2. f \in Row /\ SameTerms(r, f) /\ f.sold = r.sold
        /\ (f = r \/ (f.status = "expired" /\ r.status \in {"pending", "underpaid"}))
    <2> HIDE DEF e
    <2> QED
      BY <1>1 DEF FlipExpired, e
  <1> HIDE DEF f
  <1>3. c \in Row /\ c.status = "canceled" /\ SameTerms(r, c) /\ c.sold = r.sold
    BY <1>2, StatusUpdate, StatusMembers
  <1>4. ReleaseExpired(f, clock) = f
        \/ (f.status = "expired" /\ ReleaseExpired(f, clock) = c)
    BY DEF ReleaseExpired
  <1> HIDE DEF c
  <1>5. Rewrites(r, f) /\ (f.status \in PaidStatus => r.status \in PaidStatus)
    BY <1>2 DEF Rewrites, SoldRow, IndexedStatus, PaidStatus
  <1>6. f.status = "expired" => Rewrites(r, c) /\ c.status \notin PaidStatus
    BY <1>2, <1>3 DEF Rewrites, SoldRow, IndexedStatus, PaidStatus
  <1> QED
    <2> DEFINE m == ReleaseExpired(f, clock)
    <2>1. Rewrites(r, m) /\ (m.status \in PaidStatus => r.status \in PaidStatus)
      BY <1>4, <1>5, <1>6
    <2> HIDE DEF m
    <2> QED
      BY <2>1 DEF m, f

LEMMA PromoteWriteRow ==
  ASSUME TypeOK, PromoteWrite
  PROVE  RowsStep
PROOF
  <1>1. \A o \in Orders : order[o] \in Row /\ sw.seen[o] \in Row /\ clock \in Nat
    BY DEF TypeOK, Sweep_
  <1>2. \A o \in Orders :
          LET n == Mature(order[o], sw.seen[o], o \in sw.valid, clock)
          IN  /\ Rewrites(order[o], n) /\ n \in Row
              /\ n.status \in PaidStatus => order[o].status \in PaidStatus
    <2> TAKE o \in Orders
    <2> DEFINE v == o \in sw.valid
               n == Mature(order[o], sw.seen[o], v, clock)
    <2>1. v \in BOOLEAN
      OBVIOUS
    <2> HIDE DEF v
    <2>2. Rewrites(order[o], n) /\ (n.status \in PaidStatus => order[o].status \in PaidStatus)
      BY <1>1, <2>1, MatureRewrites
    <2> QED
      BY <2>2 DEF v, Rewrites
  <1> QED
    BY <1>1, <1>2, RewritesReflexive DEF PromoteWrite, RowsStep

-----------------------------------------------------------------------------
(* One step of the system *)

LEMMA NextRows ==
  ASSUME IInv, [Next]_vars
  PROVE  RowsStep \/ (\E o \in Orders : Created(o) /\ UNCHANGED <<processed, txs>>)
PROOF
  <1> USE DEF IInv
  <1>1. ASSUME UNCHANGED order PROVE RowsStep
    BY <1>1, RewritesReflexive DEF RowsStep, TypeOK
  <1>2. CASE Sweeper
    <2>1. CASE SweepStart
      BY <2>1, SweepStartRow
    <2>2. CASE SweepApply
      <3>1. /\ sw.snap \in Row /\ sw.head \in Nat /\ cursor + 1 \in Nat
            /\ Holds(sw.o, sw.snap, sw.tx) /\ txs[sw.tx].value = sw.snap.expected
            /\ txs[sw.tx].idx \in LogIdx
        BY <2>2 DEF SweepApply, SweepLocals, TypeOK, Sweep_, Holds, Transfer
      <3> QED
        BY <2>2, <3>1, ApplyTransferRow DEF SweepApply
    <2>3. CASE PromoteWrite
      BY <2>3, PromoteWriteRow
    <2>4. CASE SweepHead \/ SweepAddresses \/ SweepSkip \/ (\E t \in Txs : SweepMatch(t))
               \/ SweepConflict \/ SweepWindowsDone \/ PromoteRead
      BY <1>1, <2>4 DEF SweepHead, SweepAddresses, SweepSkip, SweepMatch, SweepConflict,
                        SweepWindowsDone, PromoteRead, dbVars
    <2> QED
      BY <1>2, <2>1, <2>2, <2>3, <2>4 DEF Sweeper
  <1>3. ASSUME NEW w \in Workers, Request(w) PROVE RowsStep
    <2>1. CASE RefreshWrite(w)
      BY <2>1, RefreshWriteRow
    <2>2. CASE SubmitApply(w)
      <3>1. /\ req[w].snap \in Row /\ req[w].head \in Nat /\ req[w].block \in Nat
            /\ req[w].idx \in LogIdx
            /\ Holds(req[w].o, req[w].snap, req[w].tx)
            /\ txs[req[w].tx].value = req[w].snap.expected
        BY SMTT(60), <2>2 DEF SubmitApply, RequestLocals, LocalsOf, TypeOK, Request_
      <3> QED
        BY <2>2, <3>1, ApplyTransferRow DEF SubmitApply
    <2>3. CASE \/ \E o \in Orders : RefreshHead(w, o)
               \/ RefreshReceipt(w)
               \/ \E o \in Orders, t \in Txs : SubmitReceipt(w, o, t)
               \/ SubmitCheck(w) \/ EndRequest(w)
      BY <1>1, <2>3 DEF RefreshHead, RefreshReceipt, SubmitReceipt, SubmitCheck,
                        EndRequest, dbVars
    <2> QED
      BY <1>3, <2>1, <2>2, <2>3 DEF Request
  <1>4. CASE Buyer
    <2>1. ASSUME NEW o \in Orders, NEW offset \in 1..OffsetSpan, NEW floor \in {0, head},
                 CreateOrder(o, offset, floor)
          PROVE  Created(o) /\ UNCHANGED <<processed, txs>>
      BY <2>1, CreateOrderRow DEF CreateOrder, chainVars
    <2> QED
      BY <1>4, <2>1, ExpireRow DEF Buyer
  <1>5. CASE Environment
    BY <1>1, <1>5 DEF Environment, Mine, Tick, Pay, Reorg, Remine, AgentSettle, dbVars
  <1>6. CASE SweepFail \/ Restart \/ UNCHANGED vars
    BY <1>1, <1>6 DEF SweepFail, Restart, vars, dbVars
  <1> QED
    BY <1>2, <1>3, <1>4, <1>5, <1>6 DEF Next

\* A transaction keeps its value, and a consumed transfer its order.
Keeps ==
  /\ \A t \in Txs : txs[t].value # 0 => txs'[t].value = txs[t].value
  /\ \A k \in Txs \X LogIdx : processed[k] # NoOrder => processed'[k] = processed[k]

LEMMA TransferWrite ==
  ASSUME TypeOK, Ledger, NEW t \in Txs, NEW n \in Transfer,
         txs[t].value # 0 => n.value = txs[t].value, n.block # 0 => n.value # 0,
         UNCHANGED processed, txs' = [txs EXCEPT ![t] = n]
  PROVE  Keeps /\ Ledger' /\ txs' \in [Txs -> Transfer] /\ UNCHANGED processed
PROOF
  <1>1. txs' \in [Txs -> Transfer]
    BY DEF TypeOK
  <1>2. \A u \in Txs : txs'[u] = IF u = t THEN n ELSE txs[u]
    BY DEF TypeOK
  <1>3. \A k \in Txs \X LogIdx : k[1] \in Txs
    OBVIOUS
  <1> QED
    BY <1>1, <1>2, <1>3 DEF Keeps, Ledger

LEMMA NextKeeps ==
  ASSUME IInv, [Next]_vars
  PROVE  /\ Keeps /\ Ledger'
         /\ txs' \in [Txs -> Transfer]
         /\ processed' \in [Txs \X LogIdx -> Orders \cup {NoOrder}]
PROOF
  <1> USE DEF IInv
  <1>1. ASSUME UNCHANGED <<processed, txs>>
        PROVE  Keeps /\ Ledger' /\ txs' \in [Txs -> Transfer]
               /\ processed' \in [Txs \X LogIdx -> Orders \cup {NoOrder}]
    BY <1>1 DEF Keeps, Ledger, TypeOK
  <1>2. ASSUME NEW o, NEW snap, NEW tx, NEW idx \in LogIdx, NEW block, NEW atHead,
               Holds(o, snap, tx), processed[<<tx, idx>>] = NoOrder,
               ApplyTransfer(o, snap, tx, idx, block, atHead), UNCHANGED txs
        PROVE  Keeps /\ Ledger' /\ txs' \in [Txs -> Transfer]
               /\ processed' \in [Txs \X LogIdx -> Orders \cup {NoOrder}]
    <2>1. processed' = [processed EXCEPT ![<<tx, idx>>] = o]
      BY <1>2 DEF ApplyTransfer
    <2>2. o \in Orders /\ tx \in Txs /\ txs[tx].value # 0
      BY <1>2 DEF Holds
    <2> QED
      BY <1>2, <2>1, <2>2 DEF Keeps, Ledger, TypeOK
  <1>3. CASE SweepApply
    <2>1. Holds(sw.o, sw.snap, sw.tx) /\ txs[sw.tx].idx \in LogIdx
      BY <1>3 DEF SweepApply, SweepLocals, TypeOK, Holds, Transfer
    <2> QED
      BY <1>2, <1>3, <2>1 DEF SweepApply, chainVars
  <1>4. ASSUME NEW w \in Workers, SubmitApply(w)
        PROVE  Keeps /\ Ledger' /\ txs' \in [Txs -> Transfer]
               /\ processed' \in [Txs \X LogIdx -> Orders \cup {NoOrder}]
    <2>1. Holds(req[w].o, req[w].snap, req[w].tx) /\ req[w].idx \in LogIdx
      BY <1>4 DEF SubmitApply, RequestLocals, LocalsOf, TypeOK, Request_
    <2> QED
      BY <1>2, <1>4, <2>1 DEF SubmitApply, chainVars
  <1>5. CASE Environment
    <2>1. CASE Mine \/ Tick \/ (\E t \in Txs : AgentSettle(t))
      BY <1>1, <2>1 DEF Mine, Tick, AgentSettle, dbVars, chainVars
    <2>2. ASSUME NEW t \in Txs, NEW value \in Price..(Price + OffsetSpan), NEW i \in LogIdx,
                 Pay(t, value, i)
          PROVE  Keeps /\ Ledger' /\ txs' \in [Txs -> Transfer] /\ UNCHANGED processed
      <3>1. value \in Nat /\ value # 0 /\ head + 1 \in Nat
        BY ConstantsAssumption DEF TypeOK
      <3> DEFINE n == [value |-> value, block |-> head + 1, idx |-> i]
      <3>2. n \in Transfer /\ n.value # 0
        BY <3>1 DEF Transfer
      <3>3. txs[t].value = 0 /\ UNCHANGED processed /\ txs' = [txs EXCEPT ![t] = n]
        BY <2>2 DEF Pay, dbVars
      <3> HIDE DEF n
      <3> QED
        BY <3>2, <3>3, TransferWrite
    <2>3. ASSUME NEW t \in Txs, Reorg(t)
          PROVE  Keeps /\ Ledger' /\ txs' \in [Txs -> Transfer] /\ UNCHANGED processed
      <3> DEFINE n == [txs[t] EXCEPT !.block = 0]
      <3>1. n \in Transfer /\ n.value = txs[t].value /\ n.block = 0
        BY DEF TypeOK, Transfer
      <3>2. UNCHANGED processed /\ txs' = [txs EXCEPT ![t] = n]
        BY <2>3 DEF Reorg, dbVars
      <3> HIDE DEF n
      <3> QED
        BY <3>1, <3>2, TransferWrite
    <2>4. ASSUME NEW t \in Txs, NEW i \in LogIdx, Remine(t, i)
          PROVE  Keeps /\ Ledger' /\ txs' \in [Txs -> Transfer] /\ UNCHANGED processed
      <3> DEFINE n == [txs[t] EXCEPT !.block = head + 1, !.idx = i]
      <3>1. n \in Transfer /\ n.value = txs[t].value
        <4>1. head + 1 \in Nat /\ txs[t] \in Transfer
          BY DEF TypeOK
        <4> QED
          BY <4>1 DEF Transfer
      <3>2. UNCHANGED processed /\ txs[t].value # 0 /\ txs' = [txs EXCEPT ![t] = n]
        BY <2>4 DEF Remine, dbVars, TypeOK
      <3> HIDE DEF n
      <3> QED
        BY <3>1, <3>2, TransferWrite
    <2> QED
      BY <1>5, <2>1, <2>2, <2>3, <2>4 DEF Environment, TypeOK
  <1>6. CASE Sweeper /\ ~SweepApply
    BY <1>1, <1>6 DEF Sweeper, SweepStart, SweepHead, SweepAddresses, SweepSkip,
         SweepMatch, SweepConflict, SweepWindowsDone, PromoteRead, PromoteWrite,
         dbVars, chainVars
  <1>7. ASSUME NEW w \in Workers, Request(w), ~SubmitApply(w) PROVE UNCHANGED <<processed, txs>>
    BY ZenonT(60), <1>7 DEF Request, RefreshHead, RefreshReceipt, RefreshWrite, SubmitReceipt,
         SubmitCheck, EndRequest, dbVars, chainVars
  <1>8. CASE Buyer \/ SweepFail \/ Restart \/ UNCHANGED vars
    BY <1>1, <1>8 DEF Buyer, CreateOrder, RefreshExpire, CancelCheckout, SweepFail, Restart,
         vars, dbVars, chainVars
  <1> QED
    BY <1>1, <1>3, <1>4, <1>5, <1>6, <1>7, <1>8 DEF Next

\* What a thread holds stays true, whatever the others do.
LEMMA HoldsStays ==
  ASSUME IInv, [Next]_vars, NEW o, NEW snap, NEW t, Holds(o, snap, t)
  PROVE  Holds(o, snap, t)' /\ txs'[t].value = txs[t].value
PROOF
  <1>1. txs'[t].value = txs[t].value /\ o \in Orders /\ t \in Txs
    BY NextKeeps DEF Keeps, Holds
  <1>2. order'[o].status # "none" /\ order'[o].expected = order[o].expected
    BY NextRows DEF RowsStep, Rewrites, Created, Holds
  <1> QED
    BY <1>1, <1>2 DEF Holds

LEMMA IdleTypes ==
  /\ IdleReq \in Request_ /\ IdleReq.pc = "idle"
  /\ IdleSweep \in Sweep_ /\ IdleSweep.pc = "idle"
BY NoRowIsRow, ConstantsAssumption DEF IdleReq, Request_, ReqPc, IdleSweep, Sweep_, SweepPc

LEMMA NextSweep ==
  ASSUME IInv, [Next]_vars
  PROVE  sw' \in Sweep_ /\ cursor' \in Nat /\ SweepLocals'
PROOF
  <1> USE DEF IInv
  <1>1. ASSUME UNCHANGED sw PROVE sw' \in Sweep_ /\ SweepLocals'
    BY <1>1, HoldsStays DEF TypeOK, SweepLocals
  <1>2. ASSUME sw' = IdleSweep PROVE sw' \in Sweep_ /\ SweepLocals'
    BY <1>2, IdleTypes DEF SweepLocals
  <1>3. sw \in Sweep_ /\ cursor \in Nat /\ clock \in Nat /\ head \in Nat
    BY DEF TypeOK
  <1>4. CASE SweepStart
    <2>1. sw' = [sw EXCEPT !.pc = "head", !.now = clock] /\ UNCHANGED cursor
      BY <1>4 DEF SweepStart
    <2> QED
      BY <1>3, <2>1 DEF Sweep_, SweepPc, SweepLocals
  <1>5. CASE SweepHead
    <2>1. UNCHANGED cursor
      BY <1>5 DEF SweepHead, dbVars
    <2>2. CASE head < CONFIRMATIONS
      BY <1>2, <1>3, <1>5, <2>1, <2>2 DEF SweepHead
    <2>3. ASSUME NEW pc \in {"addresses", "promote"}, head >= CONFIRMATIONS,
                 sw' = [sw EXCEPT !.head = head, !.pc = pc]
          PROVE  sw' \in Sweep_ /\ SweepLocals'
      BY <1>3, <2>3 DEF Sweep_, SweepPc, SweepLocals
    <2>4. CASE head >= CONFIRMATIONS
      <3> DEFINE pc == IF cursor < head - CONFIRMATIONS THEN "addresses" ELSE "promote"
      <3>1. sw' = [sw EXCEPT !.head = head, !.pc = pc] /\ pc \in {"addresses", "promote"}
        BY <1>3, <1>5, <2>4, ConstantsAssumption DEF SweepHead
      <3> HIDE DEF pc
      <3> QED
        BY <1>3, <2>1, <2>3, <2>4, <3>1
    <2> QED
      BY <1>3, <2>2, <2>4, ConstantsAssumption
  <1>6. CASE SweepAddresses
    <2>1. SafeHead \in Nat /\ sw.head >= CONFIRMATIONS /\ sw.head \in Nat
      BY <1>3, <1>6, ConstantsAssumption DEF SweepAddresses, SafeHead, SweepLocals, Sweep_
    <2>2. cursor' \in Nat
      BY <1>3, <1>6, <2>1 DEF SweepAddresses
    <2>3. ASSUME NEW pc \in {"window", "promote"}, sw' = [sw EXCEPT !.pc = pc]
          PROVE  sw' \in Sweep_ /\ SweepLocals'
      BY <1>3, <2>1, <2>3 DEF Sweep_, SweepPc, SweepLocals
    <2> QED
      BY <1>6, <2>2, <2>3 DEF SweepAddresses
  <1>7. CASE SweepSkip
    <2>1. sw' = [sw EXCEPT !.windows = @ + 1] /\ cursor' = cursor + 1 /\ sw.pc = "window"
      BY <1>7 DEF SweepSkip, InWindow
    <2>2. sw.windows + 1 \in Nat
      BY <1>3 DEF Sweep_
    <2> QED
      BY <1>3, <2>1, <2>2 DEF Sweep_, SweepLocals
  <1>8. ASSUME NEW t \in Txs, SweepMatch(t)
        PROVE  sw' \in Sweep_ /\ cursor' \in Nat /\ SweepLocals'
    <2>1. PICK o \in Matches(txs[t].value, sw.now) :
            sw' = [sw EXCEPT !.pc = "apply", !.tx = t, !.o = o, !.snap = order[o]]
      BY <1>8 DEF SweepMatch
    <2>2. sw.pc = "window" /\ txs[t].block = cursor + 1 /\ UNCHANGED <<cursor, order, txs>>
      BY <1>8 DEF SweepMatch, InWindow, dbVars, chainVars
    <2>3. o \in Orders /\ order[o].expected = txs[t].value /\ order[o].status # "none"
          /\ order[o] \in Row
      BY <2>1 DEF Matches, TypeOK
    <2>4. txs[t].value # 0
      BY <1>3, <2>2 DEF Ledger
    <2>5. sw' \in Sweep_
      BY <1>3, <2>1, <2>3 DEF Sweep_, SweepPc
    <2>6. sw'.pc = "apply" /\ sw'.tx = t /\ sw'.o = o /\ sw'.snap = order[o]
          /\ sw'.head = sw.head
      BY <1>3, <2>1 DEF Sweep_
    <2>7. SweepLocals'
      BY <2>2, <2>3, <2>4, <2>6 DEF SweepLocals, Holds
    <2> QED
      BY <1>3, <2>2, <2>5, <2>7
  <1>9. CASE SweepApply
    <2>1. sw' = [sw EXCEPT !.pc = "window", !.windows = @ + 1,
                           !.tx = NoTx, !.o = NoOrder, !.snap = NoRow]
          /\ cursor' = cursor + 1 /\ sw.pc = "apply"
      BY <1>9 DEF SweepApply
    <2>2. sw.windows + 1 \in Nat /\ NoRow \in Row
      BY <1>3, NoRowIsRow DEF Sweep_
    <2>3. sw' \in Sweep_
      BY <1>3, <2>1, <2>2 DEF Sweep_, SweepPc
    <2>4. sw'.pc = "window" /\ sw'.head = sw.head
      BY <1>3, <2>1 DEF Sweep_
    <2> QED
      BY <1>3, <2>1, <2>3, <2>4 DEF SweepLocals
  <1>10. CASE SweepWindowsDone
    <2>1. sw' = [sw EXCEPT !.pc = "promote"] /\ UNCHANGED cursor /\ sw.pc = "window"
      BY <1>10 DEF SweepWindowsDone, dbVars
    <2> QED
      BY <1>3, <2>1 DEF Sweep_, SweepPc, SweepLocals
  <1>11. CASE PromoteRead
    <2> DEFINE seen == [o \in Orders |-> IF Maturing(order[o], sw.head)
                                         THEN order[o] ELSE NoRow]
               valid == {o \in Orders : Maturing(order[o], sw.head)
                                        /\ ReceiptStillValid(order[o])}
    <2>1. UNCHANGED cursor /\ sw.pc = "promote"
      BY <1>11 DEF PromoteRead, dbVars
    <2>2. sw' = IdleSweep \/ sw' = [sw EXCEPT !.pc = "commit", !.seen = seen, !.valid = valid]
      BY <1>11 DEF PromoteRead
    <2>3. seen \in [Orders -> Row] /\ valid \in SUBSET Orders
      BY NoRowIsRow DEF TypeOK
    <2> HIDE DEF seen, valid
    <2> QED
      BY <1>2, <1>3, <2>1, <2>2, <2>3 DEF Sweep_, SweepPc, SweepLocals
  <1>12. CASE SweepConflict \/ PromoteWrite \/ SweepFail \/ Restart
    BY SMTT(60), <1>2, <1>3, <1>12 DEF SweepConflict, PromoteWrite, SweepFail, Restart, dbVars
  <1>13. ASSUME NEW w \in Workers, Request(w) PROVE UNCHANGED <<sw, cursor>>
    BY ZenonT(60), <1>13 DEF Request, RefreshHead, RefreshReceipt, RefreshWrite, SubmitReceipt,
         SubmitCheck, SubmitApply, EndRequest, dbVars
  <1>14. CASE Buyer \/ Environment \/ UNCHANGED vars
    BY <1>1, <1>3, <1>14 DEF Buyer, CreateOrder, RefreshExpire, CancelCheckout, Environment,
         Mine, Tick, Pay, Reorg, Remine, AgentSettle, vars, dbVars
  <1> QED
    BY <1>1, <1>3, <1>4, <1>5, <1>6, <1>7, <1>8, <1>9, <1>10, <1>11, <1>12, <1>13, <1>14
       DEF Next, Sweeper

\* Replacing one request's locals by locals that hold before the step.
LEMMA RequestWrite ==
  ASSUME IInv, [Next]_vars, NEW w \in Workers, NEW r \in Request_, LocalsOf(r),
         req' = [req EXCEPT ![w] = r]
  PROVE  req' \in [Workers -> Request_] /\ RequestLocals'
PROOF
  <1>1. req \in [Workers -> Request_]
    BY DEF IInv, TypeOK
  <1>2. \A v \in Workers : req'[v] = IF v = w THEN r ELSE req[v]
    BY <1>1
  <1>3. ASSUME NEW q, LocalsOf(q) PROVE LocalsOf(q)'
    BY <1>3, HoldsStays DEF LocalsOf
  <1>4. \A v \in Workers : LocalsOf(req[v])'
    BY <1>2, <1>3 DEF IInv, RequestLocals
  <1> QED
    BY <1>1, <1>4 DEF RequestLocals

LEMMA NextRequests ==
  ASSUME IInv, [Next]_vars
  PROVE  req' \in [Workers -> Request_] /\ RequestLocals'
PROOF
  <1> USE DEF IInv
  <1>1. req \in [Workers -> Request_] /\ head \in Nat
        /\ \A o \in Orders : order[o] \in Row
        /\ \A t \in Txs : txs[t] \in Transfer
    BY DEF TypeOK
  <1>2. IdleReq \in Request_ /\ LocalsOf(IdleReq)
    BY IdleTypes DEF LocalsOf
  <1>3. CASE UNCHANGED req
    <2>1. ASSUME NEW q, LocalsOf(q) PROVE LocalsOf(q)'
      BY <2>1, HoldsStays DEF LocalsOf
    <2> QED
      BY <1>1, <1>3, <2>1 DEF RequestLocals
  <1>4. ASSUME NEW w \in Workers, NEW o \in Orders, RefreshHead(w, o)
        PROVE  req' \in [Workers -> Request_] /\ RequestLocals'
    <2> DEFINE r == [IdleReq EXCEPT !.pc = "receipt", !.o = o, !.snap = order[o], !.head = head]
    <2>1. r \in Request_ /\ r.pc = "receipt" /\ r.o = o
      BY <1>1, <1>2 DEF Request_, ReqPc
    <2>2. req' = [req EXCEPT ![w] = r]
      BY <1>4 DEF RefreshHead
    <2> HIDE DEF r
    <2> QED
      BY <2>1, <2>2, RequestWrite DEF LocalsOf
  <1>5. ASSUME NEW w \in Workers, RefreshReceipt(w)
        PROVE  req' \in [Workers -> Request_] /\ RequestLocals'
    <2> DEFINE v == ReceiptStillValid(req[w].snap)
               r == [req[w] EXCEPT !.pc = "mature", !.valid = v]
    <2>1. v \in BOOLEAN
      BY DEF ReceiptStillValid
    <2>2. req' = [req EXCEPT ![w] = r] /\ req[w].o \in Orders
      BY <1>5 DEF RefreshReceipt, RequestLocals, LocalsOf
    <2> HIDE DEF v
    <2>3. r \in Request_ /\ r.pc = "mature" /\ r.o = req[w].o
      BY <1>1, <2>1 DEF Request_, ReqPc
    <2> HIDE DEF r
    <2> QED
      BY <2>2, <2>3, RequestWrite DEF LocalsOf
  <1>6. ASSUME NEW w \in Workers, NEW o \in Orders, NEW t \in Txs, SubmitReceipt(w, o, t)
        PROVE  req' \in [Workers -> Request_] /\ RequestLocals'
    <2> DEFINE r == [IdleReq EXCEPT !.pc = "check", !.o = o, !.snap = order[o], !.tx = t,
                                    !.idx = txs[t].idx, !.block = txs[t].block]
    <2>1. txs[t].idx \in LogIdx /\ txs[t].block \in Nat
      BY <1>1 DEF Transfer
    <2>2. /\ r \in Request_ /\ r.pc = "check" /\ r.o = o /\ r.snap = order[o] /\ r.tx = t
      BY <1>1, <1>2, <2>1 DEF Request_, ReqPc
    <2>3. req' = [req EXCEPT ![w] = r] /\ order[o].status # "none" /\ txs[t].value # 0
      BY <1>6 DEF SubmitReceipt, Ledger
    <2> HIDE DEF r
    <2> QED
      BY <2>2, <2>3, RequestWrite DEF LocalsOf, Holds
  <1>7. ASSUME NEW w \in Workers, SubmitCheck(w)
        PROVE  req' \in [Workers -> Request_] /\ RequestLocals'
    <2> DEFINE r == [req[w] EXCEPT !.pc = "apply", !.head = head]
    <2>1. /\ r \in Request_ /\ r.pc = "apply" /\ r.o = req[w].o /\ r.snap = req[w].snap
          /\ r.tx = req[w].tx
      BY <1>1 DEF Request_, ReqPc
    <2>2. req' = [req EXCEPT ![w] = r] /\ Holds(req[w].o, req[w].snap, req[w].tx)
          /\ txs[req[w].tx].value = req[w].snap.expected
      BY <1>7 DEF SubmitCheck, RequestLocals, LocalsOf
    <2> HIDE DEF r
    <2> QED
      BY <2>1, <2>2, RequestWrite DEF LocalsOf
  <1>8. ASSUME NEW w \in Workers, RefreshWrite(w) \/ SubmitApply(w) \/ EndRequest(w)
        PROVE  req' \in [Workers -> Request_] /\ RequestLocals'
    BY <1>2, <1>8, RequestWrite DEF RefreshWrite, SubmitApply, EndRequest
  <1>9. CASE Restart
    BY <1>2, <1>9 DEF Restart, RequestLocals, LocalsOf, IdleReq
  <1>10. CASE Sweeper
    BY <1>3, <1>10 DEF Sweeper, SweepStart, SweepHead, SweepAddresses, SweepSkip, SweepMatch,
         SweepApply, SweepConflict, SweepWindowsDone, PromoteRead, PromoteWrite
  <1>11. CASE Buyer \/ Environment \/ SweepFail \/ UNCHANGED vars
    BY <1>3, <1>11 DEF Buyer, CreateOrder, RefreshExpire, CancelCheckout, Environment,
         Mine, Tick, Pay, Reorg, Remine, AgentSettle, SweepFail, vars
  <1> QED
    BY <1>4, <1>5, <1>6, <1>7, <1>8, <1>9, <1>10, <1>11 DEF Next, Request

LEMMA NextBacked ==
  ASSUME IInv, [Next]_vars
  PROVE  order' \in [Orders -> Row] /\ PaidBacked'
PROOF
  <1>1. order' \in [Orders -> Row]
    BY NextRows DEF RowsStep, Created
  <1>2. ASSUME NEW o \in Orders, order'[o].status \in PaidStatus
        PROVE  \E k \in Txs \X LogIdx :
                 processed'[k] = o /\ txs'[k[1]].value = order'[o].expected
    <2>1. order'[o].expected = order[o].expected
      BY <1>2, NextRows DEF RowsStep, Rewrites, Created, PaidStatus
    <2>2. PICK k \in Txs \X LogIdx :
            /\ txs[k[1]].value = order[o].expected /\ txs[k[1]].value # 0
            /\ processed'[k] = o
      <3>1. CASE order[o].status \in PaidStatus
        <4>1. PICK k \in Txs \X LogIdx : processed[k] = o /\ txs[k[1]].value = order[o].expected
          BY <3>1 DEF IInv, PaidBacked, Consumed
        <4>2. o # NoOrder
          BY ConstantsAssumption
        <4>3. txs[k[1]].value # 0 /\ processed'[k] = o
          BY <4>1, <4>2, NextKeeps DEF IInv, Ledger, Keeps
        <4> QED
          BY <4>1, <4>3
      <3>2. CASE order[o].status \notin PaidStatus
        BY <1>2, <3>2, NextRows DEF RowsStep, Created, PaidStatus
      <3> QED
        BY <3>1, <3>2
    <2>3. txs'[k[1]].value = txs[k[1]].value
      BY <2>2, NextKeeps DEF Keeps
    <2> QED
      BY <2>1, <2>2, <2>3
  <1> QED
    BY <1>1, <1>2 DEF PaidBacked, Consumed

LEMMA NextCounters ==
  ASSUME IInv, [Next]_vars
  PROVE  settled' \subseteq Txs /\ clock' \in Nat /\ head' \in Nat /\ reorgs' \in Nat
         /\ faults' \in Nat
PROOF
  <1>0. settled \subseteq Txs /\ clock \in Nat /\ head \in Nat /\ reorgs \in Nat
        /\ faults \in Nat
    BY DEF IInv, TypeOK
  <1>1. CASE Sweeper
    BY ZenonT(60), <1>0, <1>1 DEF Sweeper, SweepStart, SweepHead, SweepAddresses, SweepSkip, SweepMatch,
         SweepApply, SweepConflict, SweepWindowsDone, PromoteRead, PromoteWrite, dbVars, chainVars
  <1>2. ASSUME NEW w \in Workers, Request(w)
        PROVE  UNCHANGED <<settled, clock, head, reorgs, faults>>
    BY ZenonT(60), <1>2 DEF Request, RefreshHead, RefreshReceipt, RefreshWrite, SubmitReceipt,
         SubmitCheck, SubmitApply, EndRequest, dbVars, chainVars
  <1>3. CASE Buyer
    BY <1>0, <1>3 DEF Buyer, CreateOrder, RefreshExpire, CancelCheckout, chainVars
  <1>4. CASE Environment
    <2>1. CASE Mine \/ Tick \/ (\E t \in Txs : AgentSettle(t))
      BY <1>0, <2>1 DEF Mine, Tick, AgentSettle, dbVars, chainVars
    <2>2. ASSUME NEW t \in Txs, NEW i \in LogIdx, NEW value \in Price..(Price + OffsetSpan),
                 Pay(t, value, i) \/ Remine(t, i)
          PROVE  settled' = settled /\ clock' = clock /\ head' = head + 1
                 /\ reorgs' = reorgs /\ faults' = faults
      BY <2>2 DEF Pay, Remine, dbVars
    <2>3. ASSUME NEW t \in Txs, Reorg(t)
          PROVE  settled' = settled /\ clock' = clock /\ head' = head
                 /\ reorgs' = reorgs + 1 /\ faults' = faults
      BY <2>3 DEF Reorg, dbVars
    <2>4. Price \in Price..(Price + OffsetSpan)
      BY ConstantsAssumption
    <2> QED
      BY <1>0, <1>4, <2>1, <2>2, <2>3, <2>4 DEF Environment
  <1>5. CASE SweepFail \/ Restart \/ UNCHANGED vars
    BY <1>0, <1>5 DEF SweepFail, Restart, dbVars, chainVars, vars
  <1> QED
    BY <1>0, <1>1, <1>2, <1>3, <1>4, <1>5 DEF Next

-----------------------------------------------------------------------------
(* The theorems *)

LEMMA InitIInv ==
  ASSUME Init
  PROVE  IInv
PROOF
  <1>1. NoTransfer \in Transfer /\ NoTransfer.block = 0
    BY ConstantsAssumption DEF NoTransfer, Transfer
  <1>2. TypeOK
    BY <1>1, NoRowIsRow, IdleTypes, ConstantsAssumption DEF Init, TypeOK
  <1>3. SweepLocals /\ RequestLocals
    BY IdleTypes DEF Init, SweepLocals, RequestLocals, LocalsOf
  <1>4. Ledger
    BY <1>1 DEF Init, Ledger
  <1>5. PaidBacked
    BY NoRowIsRow DEF Init, PaidBacked, PaidStatus
  <1> QED
    BY <1>2, <1>3, <1>4, <1>5 DEF IInv

LEMMA Invariance == Spec => []IInv
PROOF
  <1>1. Init => IInv
    BY InitIInv
  <1>2. IInv /\ [Next]_vars => IInv'
    BY NextKeeps, NextSweep, NextRequests, NextBacked, NextCounters DEF IInv, TypeOK
  <1> QED
    BY <1>1, <1>2, PTL DEF Spec

\* The tables, the chain and the locals of every thread keep their shape.
THEOREM TypeCorrect == Spec => []TypeOK
PROOF
  <1>1. IInv => TypeOK
    BY DEF IInv
  <1> QED
    BY <1>1, Invariance, PTL

\* No free goods: a paid or delivered order consumed a transfer of its own amount.
THEOREM NoFreeGoods == Spec => []PaidBacked
PROOF
  <1>1. IInv => PaidBacked
    BY DEF IInv
  <1> QED
    BY <1>1, Invariance, PTL

\* deliver() is won once per order.
THEOREM SoldAtMostOnce == Spec => []SoldOnce
PROOF
  <1>1. Init => SoldOnce
    BY NoRowIsRow DEF Init, SoldOnce
  <1>2. IInv /\ SoldOnce /\ [Next]_vars => SoldOnce'
    <2> SUFFICES ASSUME IInv, SoldOnce, [Next]_vars, NEW o \in Orders
                 PROVE  SoldRow(order'[o])
      BY DEF SoldOnce, SoldRow
    <2>1. SoldRow(order[o])
      BY DEF SoldOnce, SoldRow
    <2> QED
      BY <2>1, NextRows DEF RowsStep, Rewrites, Created, SoldRow
  <1> QED
    BY <1>1, <1>2, Invariance, PTL DEF Spec

\* At most one reservation per amount, as ux_orders_active_amount demands.
THEOREM ReservationsAreUnique == Spec => []UniqueReservation
PROOF
  <1>1. Init => UniqueReservation
    BY NoRowIsRow DEF Init, UniqueReservation, IndexedStatus
  <1>2. IInv /\ UniqueReservation /\ [Next]_vars => UniqueReservation'
    <2> SUFFICES ASSUME IInv, UniqueReservation, [Next]_vars,
                        NEW o \in Orders, NEW p \in Orders, o # p,
                        order'[o].status \in IndexedStatus, order'[p].status \in IndexedStatus
                 PROVE  order'[o].expected # order'[p].expected
      BY DEF UniqueReservation
    <2>1. CASE RowsStep
      BY <2>1 DEF RowsStep, Rewrites, UniqueReservation
    <2>2. CASE \E n \in Orders : Created(n)
      BY <2>2 DEF Created, AmountIndexed, UniqueReservation
    <2> QED
      BY <2>1, <2>2, NextRows
  <1> QED
    BY <1>1, <1>2, Invariance, PTL DEF Spec

\* No write from an old snapshot revives a delivered, released or reorged order.
THEOREM TerminalIsForever == Spec => TerminalStays
PROOF
  <1>1. IInv /\ [Next]_vars =>
          [\A o \in Orders : order[o].status \in {"delivered", "canceled", "reorged"} =>
             order'[o].status = order[o].status /\ order'[o].paid = order[o].paid]_vars
    BY NextRows DEF RowsStep, Rewrites, Created
  <1> QED
    BY <1>1, Invariance, PTL DEF Spec, TerminalStays

-----------------------------------------------------------------------------
(* The abstract specification *)

\* A row moves on without a booking, and with one.
MovesOn(r, n) == StageOf(n) = StageOf(r) \/ <<StageOf(r), StageOf(n)>> \in Booking!Moves

BooksOn(r, n) ==
  \/ StageOf(n) = StageOf(r)
  \/ <<StageOf(r), StageOf(n)>> \in {<<"open", "paid">>, <<"open", "delivered">>,
                                     <<"paid", "delivered">>}

Maturable == {"detected", "late_paid"}

\* What they do to the money and to the transaction a maturing row waits for.
CreditKept(r, n) ==
  /\ n.paid = 0 \/ (n.paid = r.paid /\ n.expected = r.expected)
  /\ n.status \in Maturable => n = r

CreditTaken(r, snap, tx, n) ==
  /\ n.expected = r.expected /\ n.paid \in {r.paid, snap.paid + snap.expected}
  /\ n.status \in Maturable => n = r \/ n.tx = tx

\* A thread is about to credit order o from the row it read earlier.
Credits(o, snap) ==
  \/ sw.pc = "apply" /\ sw.o = o /\ sw.snap = snap
  \/ \E w \in Workers : req[w].pc = "apply" /\ req[w].o = o /\ req[w].snap = snap

RowsMove ==
  /\ UNCHANGED processed
  /\ \A o \in Orders : /\ order'[o] \in Row /\ MovesOn(order[o], order'[o])
                       /\ CreditKept(order[o], order'[o])

RowsBook ==
  \E k \in Txs \X LogIdx, o \in Orders, snap \in Row, n \in Row :
    /\ Credits(o, snap) /\ Holds(o, snap, k[1]) /\ txs[k[1]].value = snap.expected
    /\ processed[k] = NoOrder /\ processed' = [processed EXCEPT ![k] = o]
    /\ order' = [order EXCEPT ![o] = n]
    /\ BooksOn(order[o], n) /\ CreditTaken(order[o], snap, k[1], n)

OpenStatus == {"pending", "underpaid", "expired"}
OwedStatus == {"detected"} \cup READY_TO_DELIVER

LEMMA StatusStages ==
  ASSUME NEW r \in Row, NEW n \in Row
  PROVE  /\ n.status = r.status => MovesOn(r, n) /\ BooksOn(r, n)
         /\ r.status = "none" /\ n.status = "pending" => MovesOn(r, n)
         /\ r.status \in OpenStatus /\ n.status \in OpenStatus => BooksOn(r, n)
         /\ r.status \in OpenStatus /\ n.status \in OpenStatus \cup {"canceled"}
              => MovesOn(r, n)
         /\ r.status \in OwedStatus /\ n.status \in OwedStatus \cup {"delivered", "reorged"}
              => MovesOn(r, n)
         /\ r.status \in OpenStatus \cup OwedStatus /\ n.status \in OwedStatus \cup {"delivered"}
              => BooksOn(r, n)
PROOF
  <1>1. \A m \in {r, n} :
          /\ m.status = "none" => StageOf(m) = "none"
          /\ m.status \in OpenStatus => StageOf(m) = "open"
          /\ m.status \in OwedStatus => StageOf(m) = "paid"
          /\ m.status = "delivered" => StageOf(m) = "delivered"
          /\ m.status \in {"canceled", "reorged"} => StageOf(m) = "dead"
    BY DEF StageOf, OpenStatus, OwedStatus
  <1>2. n.status = r.status => StageOf(n) = StageOf(r)
    BY DEF StageOf
  <1>3. n.status = "pending" => n.status \in OpenStatus
    BY DEF OpenStatus
  <1> QED
    BY <1>1, <1>2, <1>3 DEF MovesOn, BooksOn, Booking!Moves

\* What deliver() makes of a row.
LEMMA DeliverStatus ==
  ASSUME NEW r \in Row, NEW now
  PROVE  /\ Deliver(r, now).status =
               IF r.status \in READY_TO_DELIVER THEN "delivered" ELSE r.status
         /\ Deliver(r, now).paid = r.paid
         /\ Deliver(r, now) = r \/ Deliver(r, now).status = "delivered"
BY DEF Deliver, Transition, Row

LEMMA MatureMoves ==
  ASSUME NEW r \in Row, NEW snap \in Row, NEW valid \in BOOLEAN, NEW now \in Nat
  PROVE  MovesOn(r, Mature(r, snap, valid, now)) /\ CreditKept(r, Mature(r, snap, valid, now))
PROOF
  <1> DEFINE n == Mature(r, snap, valid, now)
             c == IF snap.paid > snap.expected THEN "overpaid" ELSE "confirmed"
             m == IF snap.status = "detected"
                  THEN Transition(r, {"detected"}, [r EXCEPT !.status = c]) ELSE r
  <1>1. n \in Row
    BY MatureRewrites DEF Rewrites
  <1>4. n.expected = r.expected
    <2>1. Rewrites(r, n)
      BY MatureRewrites DEF n
    <2> HIDE DEF n
    <2> QED
      BY <2>1 DEF Rewrites, SameTerms
  <1>2. CASE ~valid
    <2>1. n = r \/ (r.status \in OwedStatus /\ n.status = "reorged" /\ n.paid = r.paid)
      BY <1>2 DEF Mature, MarkReorged, Transition, OwedStatus, Row
    <2> HIDE DEF n
    <2>3. CreditKept(r, n)
      BY <1>4, <2>1 DEF CreditKept, Maturable
    <2> QED
      BY <1>1, <2>1, <2>3, StatusStages DEF n
  <1>3. CASE valid
    <2>1. [r EXCEPT !.status = c] \in Row /\ [r EXCEPT !.status = c].status = c
          /\ [r EXCEPT !.status = c].paid = r.paid
      BY StatusUpdate, StatusMembers DEF Row
    <2>2. m \in Row /\ m.paid = r.paid
          /\ (m = r \/ (r.status = "detected" /\ m.status = c))
      BY <2>1 DEF Transition
    <2>3. n = Deliver(m, now)
      BY <1>3 DEF Mature
    <2> HIDE DEF n, m
    <2>4. /\ n.status = IF m.status \in READY_TO_DELIVER THEN "delivered" ELSE m.status
          /\ n.paid = m.paid /\ (n = m \/ n.status = "delivered")
      BY <2>2, <2>3, DeliverStatus
    <2>5. n.status = r.status \/ (r.status \in OwedStatus /\ n.status = "delivered")
      BY <2>2, <2>4 DEF OwedStatus
    <2>6. CreditKept(r, n)
      BY <1>4, <2>2, <2>3, <2>4 DEF CreditKept, Maturable
    <2> QED
      BY <1>1, <2>5, <2>6, StatusStages DEF n
  <1> QED
    BY <1>2, <1>3

LEMMA DriveStateBooks ==
  ASSUME NEW r \in Row, NEW snap \in Row, r.expected = snap.expected,
         NEW value \in Nat, NEW tx \in Txs, NEW block \in Nat,
         NEW depthOk \in BOOLEAN, NEW now \in Nat, value = snap.expected
  PROVE  /\ BooksOn(r, DriveState(r, snap, value, tx, block, depthOk, now))
         /\ CreditTaken(r, snap, tx, DriveState(r, snap, value, tx, block, depthOk, now))
PROOF
  <1> DEFINE cumulative == snap.paid + value
             surplus == cumulative - snap.expected
             credit == [r EXCEPT !.paid = cumulative, !.tx = tx, !.block = block]
             As(status) == [credit EXCEPT !.status = status]
             AsPaid(status) == [As(status) EXCEPT !.over = surplus]
             c == IF surplus > 0 THEN "overpaid" ELSE "confirmed"
             Late == Transition(r, {"expired"}, As("late_paid"))
             Paid == Transition(r, IN_FLIGHT, AsPaid(c))
             Under == Transition(r, {"pending", "underpaid"}, As("underpaid"))
             Seen == Transition(r, IN_FLIGHT, AsPaid("detected"))
             n == DriveState(r, snap, value, tx, block, depthOk, now)
  <1>1. cumulative \in Nat /\ surplus \in Int
    BY DEF Row
  <1>2. \A s \in Status : As(s) \in Row /\ As(s).status = s
                          /\ As(s).paid = cumulative /\ As(s).tx = tx
    BY <1>1 DEF Row
  <1>3. \A s \in Status : AsPaid(s) \in Row /\ AsPaid(s).status = s
                          /\ AsPaid(s).paid = cumulative /\ AsPaid(s).tx = tx
    <2> SUFFICES ASSUME NEW s \in Status
                 PROVE  AsPaid(s) \in Row /\ AsPaid(s).status = s
                        /\ AsPaid(s).paid = cumulative /\ AsPaid(s).tx = tx
      OBVIOUS
    <2>1. As(s) \in Row /\ As(s).status = s /\ As(s).paid = cumulative /\ As(s).tx = tx
      BY <1>2
    <2> HIDE DEF As, surplus, cumulative
    <2> QED
      BY <1>1, <2>1, OverUpdate
  <1> HIDE DEF As, AsPaid, surplus, cumulative, credit
  <1>4. c \in Status /\ {"late_paid", "underpaid", "detected"} \subseteq Status
        /\ c \in READY_TO_DELIVER
    BY StatusMembers
  <1> HIDE DEF c
  <1> DEFINE Credited(x) == x.paid = cumulative /\ x.tx = tx
  <1>5. Late \in Row /\ (Late = r \/ (/\ Credited(Late)
                                       /\ r.status = "expired" /\ Late.status = "late_paid"))
    BY <1>2, <1>4 DEF Transition
  <1>6. Paid \in Row /\ (Paid = r \/ (/\ Credited(Paid)
                                       /\ r.status \in IN_FLIGHT /\ Paid.status \in READY_TO_DELIVER))
    BY <1>3, <1>4 DEF Transition
  <1>7. Under \in Row /\ (Under = r \/ (/\ Credited(Under) /\ Under.status = "underpaid"
                                         /\ r.status \in {"pending", "underpaid"}))
    BY <1>2, <1>4 DEF Transition
  <1>8. Seen \in Row /\ (Seen = r \/ (/\ Credited(Seen)
                                       /\ r.status \in IN_FLIGHT /\ Seen.status = "detected"))
    BY <1>3, <1>4 DEF Transition
  <1>9. n \in Row /\ n.expected = r.expected
    <2>1. Rewrites(r, n)
      BY DriveStateRewrites DEF n
    <2> HIDE DEF n
    <2> QED
      BY <2>1 DEF Rewrites, SameTerms
  <1>10. n \in {Late, Under, Seen, Deliver(Late, now), Deliver(Paid, now)}
    BY DEF DriveState, As, AsPaid, surplus, cumulative, credit, c
  <1> HIDE DEF Late, Paid, Under, Seen, n
  <1>11. \/ n.status = r.status
         \/ r.status \in OwedStatus /\ n.status = "delivered"
         \/ r.status \in OpenStatus /\ n.status = "underpaid"
         \/ r.status \in OpenStatus \cup OwedStatus /\ n.status \in OwedStatus \cup {"delivered"}
    BY <1>5, <1>6, <1>7, <1>8, <1>10, DeliverStatus DEF OpenStatus, OwedStatus
  <1>12. r.status \in OpenStatus /\ n.status = "underpaid" => BooksOn(r, n)
    BY <1>9, StatusStages DEF OpenStatus
  <1>13. n.paid \in {r.paid, cumulative}
    BY <1>5, <1>6, <1>7, <1>8, <1>10, DeliverStatus
  <1>14. n.status \in Maturable => n = r \/ n.tx = tx
    BY <1>5, <1>6, <1>7, <1>8, <1>10, DeliverStatus DEF Maturable
  <1>15. cumulative = snap.paid + snap.expected
    BY DEF cumulative
  <1>16. CreditTaken(r, snap, tx, n)
    BY <1>9, <1>13, <1>14, <1>15 DEF CreditTaken
  <1> QED
    BY <1>9, <1>11, <1>12, <1>16, StatusStages DEF n

LEMMA ApplyTransferBooks ==
  ASSUME TypeOK, NEW o, NEW snap \in Row, NEW tx, NEW idx \in LogIdx,
         NEW block \in Nat, NEW atHead \in Nat,
         Credits(o, snap), Holds(o, snap, tx), txs[tx].value = snap.expected,
         processed[<<tx, idx>>] = NoOrder, ApplyTransfer(o, snap, tx, idx, block, atHead)
  PROVE  RowsBook
PROOF
  <1> DEFINE n == DriveState(order[o], snap, txs[tx].value, tx, block,
                             atHead - block >= CONFIRMATIONS, clock)
  <1>1. /\ o \in Orders /\ tx \in Txs /\ order[o] \in Row
        /\ order[o].expected = snap.expected /\ txs[tx].value \in Nat /\ clock \in Nat
        /\ (atHead - block >= CONFIRMATIONS) \in BOOLEAN
    BY DEF Holds, TypeOK, Transfer
  <1>2. n \in Row /\ BooksOn(order[o], n) /\ CreditTaken(order[o], snap, tx, n)
    BY <1>1, DriveStateRewrites, DriveStateBooks DEF Rewrites
  <1>3. order' = [order EXCEPT ![o] = n] /\ processed' = [processed EXCEPT ![<<tx, idx>>] = o]
    BY DEF ApplyTransfer
  <1>4. <<tx, idx>> \in Txs \X LogIdx /\ <<tx, idx>>[1] = tx
    BY <1>1
  <1> HIDE DEF n
  <1> QED
    BY <1>1, <1>2, <1>3, <1>4 DEF RowsBook

LEMMA SweepStartMoves ==
  ASSUME TypeOK, SweepStart
  PROVE  RowsMove
PROOF
  <1> SUFFICES ASSUME NEW o \in Orders
               PROVE  MovesOn(order[o], order'[o]) /\ CreditKept(order[o], order'[o])
    BY SweepStartRow DEF RowsMove, RowsStep, SweepStart
  <1> DEFINE r == order[o]
             f == FlipExpired(r, clock)
  <1>1. r \in Row /\ order'[o] \in Row
    BY SweepStartRow DEF RowsStep, TypeOK
  <1>2. f \in Row /\ f.paid = r.paid
        /\ (f = r \/ (f.status = "expired" /\ r.status \in {"pending", "underpaid"}))
    BY <1>1, StatusUpdate, StatusMembers DEF FlipExpired, Row
  <1>3. order'[o] = ReleaseExpired(f, clock)
    BY DEF SweepStart
  <1> HIDE DEF f
  <1>4. order'[o] = f
        \/ (/\ f.status = "expired" /\ order'[o].status = "canceled"
            /\ order'[o].paid = f.paid)
    BY <1>2, <1>3, StatusUpdate, StatusMembers DEF ReleaseExpired, Row
  <1>6. order'[o].expected = r.expected
    BY SweepStartRow DEF RowsStep, Rewrites
  <1> HIDE DEF r
  <1>5. \/ order'[o].status = r.status
        \/ r.status \in OpenStatus /\ order'[o].status \in OpenStatus \cup {"canceled"}
    BY <1>2, <1>4 DEF OpenStatus
  <1>7. CreditKept(r, order'[o])
    BY <1>2, <1>4, <1>6 DEF CreditKept, Maturable
  <1> QED
    BY <1>1, <1>5, <1>7, StatusStages DEF r

LEMMA NextStages ==
  ASSUME IInv, [Next]_vars
  PROVE  RowsMove \/ RowsBook
PROOF
  <1> USE DEF IInv
  <1>0. \A o \in Orders : /\ order[o] \in Row /\ order'[o] \in Row
                          /\ MovesOn(order[o], order[o]) /\ CreditKept(order[o], order[o])
    BY NextRows DEF RowsStep, Created, TypeOK, MovesOn, CreditKept
  <1>1. ASSUME UNCHANGED <<order, processed>> PROVE RowsMove
    BY <1>0, <1>1 DEF RowsMove
  <1>2. CASE Sweeper
    <2>1. CASE SweepStart
      BY <2>1, SweepStartMoves
    <2>2. CASE SweepApply
      <3>1. /\ sw.snap \in Row /\ sw.head \in Nat /\ cursor + 1 \in Nat
            /\ Holds(sw.o, sw.snap, sw.tx) /\ txs[sw.tx].idx \in LogIdx
            /\ txs[sw.tx].value = sw.snap.expected
        BY <2>2 DEF SweepApply, SweepLocals, TypeOK, Sweep_, Holds, Transfer
      <3>2. Credits(sw.o, sw.snap)
        BY <2>2 DEF SweepApply, Credits
      <3> QED
        BY <2>2, <3>1, <3>2, ApplyTransferBooks DEF SweepApply
    <2>3. CASE PromoteWrite
      <3>1. \A o \in Orders : sw.seen[o] \in Row /\ clock \in Nat
        BY DEF TypeOK, Sweep_
      <3>2. ASSUME NEW o \in Orders
            PROVE  MovesOn(order[o], order'[o]) /\ CreditKept(order[o], order'[o])
        <4> DEFINE v == o \in sw.valid
        <4>1. order'[o] = IF sw.seen[o].status = "none" THEN order[o]
                          ELSE Mature(order[o], sw.seen[o], v, clock)
          BY <2>3 DEF PromoteWrite
        <4>2. v \in BOOLEAN
          OBVIOUS
        <4> HIDE DEF v
        <4> QED
          BY <1>0, <3>1, <4>1, <4>2, MatureMoves
      <3> QED
        BY <1>0, <2>3, <3>2 DEF RowsMove, PromoteWrite
    <2>4. CASE SweepHead \/ SweepAddresses \/ SweepSkip \/ (\E t \in Txs : SweepMatch(t))
               \/ SweepConflict \/ SweepWindowsDone \/ PromoteRead
      <3>1. UNCHANGED <<order, processed>>
        BY <2>4 DEF SweepHead, SweepAddresses, SweepSkip, SweepMatch, SweepConflict,
                    SweepWindowsDone, PromoteRead, dbVars
      <3> QED
        BY <1>1, <3>1
    <2> QED
      BY <1>2, <2>1, <2>2, <2>3, <2>4 DEF Sweeper
  <1>3. ASSUME NEW w \in Workers, Request(w) PROVE RowsMove \/ RowsBook
    <2>1. CASE RefreshWrite(w)
      <3>1. req[w].o \in Orders /\ req[w].snap \in Row /\ req[w].valid \in BOOLEAN
            /\ clock \in Nat
        BY <2>1 DEF RefreshWrite, RequestLocals, LocalsOf, TypeOK, Request_
      <3>2. ASSUME NEW o \in Orders
            PROVE  MovesOn(order[o], order'[o]) /\ CreditKept(order[o], order'[o])
        <4>1. order'[o] = order[o]
              \/ order'[o] = Mature(order[o], req[w].snap, req[w].valid, clock)
          BY <2>1, <3>1 DEF RefreshWrite, TypeOK
        <4> QED
          BY <1>0, <3>1, <4>1, MatureMoves
      <3> QED
        BY <1>0, <2>1, <3>2 DEF RowsMove, RefreshWrite
    <2>2. CASE SubmitApply(w)
      <3>1. /\ req[w].snap \in Row /\ req[w].head \in Nat /\ req[w].block \in Nat
            /\ req[w].idx \in LogIdx /\ Holds(req[w].o, req[w].snap, req[w].tx)
            /\ txs[req[w].tx].value = req[w].snap.expected
        BY SMTT(60), <2>2 DEF SubmitApply, RequestLocals, LocalsOf, TypeOK, Request_
      <3>2. Credits(req[w].o, req[w].snap)
        BY <2>2 DEF SubmitApply, Credits
      <3> QED
        BY <2>2, <3>1, <3>2, ApplyTransferBooks DEF SubmitApply
    <2>3. CASE \/ \E o \in Orders : RefreshHead(w, o)
               \/ RefreshReceipt(w)
               \/ \E o \in Orders, t \in Txs : SubmitReceipt(w, o, t)
               \/ SubmitCheck(w) \/ EndRequest(w)
      <3>1. UNCHANGED <<order, processed>>
        BY <2>3 DEF RefreshHead, RefreshReceipt, SubmitReceipt, SubmitCheck, EndRequest, dbVars
      <3> QED
        BY SMTT(60), <1>1, <3>1
    <2> QED
      BY <1>3, <2>1, <2>2, <2>3 DEF Request
  <1>4. CASE Buyer
    <2>1. ASSUME NEW o \in Orders, NEW offset \in 1..OffsetSpan, NEW floor \in {0, head},
                 CreateOrder(o, offset, floor)
          PROVE  RowsMove
      <3>1. Created(o)
        BY <2>1, CreateOrderRow
      <3>2. UNCHANGED processed
        BY <2>1 DEF CreateOrder
      <3>3. ASSUME NEW p \in Orders
            PROVE  MovesOn(order[p], order'[p]) /\ CreditKept(order[p], order'[p])
        <4>1. CASE p = o
          BY <1>0, <3>1, <4>1, StatusStages DEF Created, CreditKept, Maturable
        <4>2. CASE p # o
          BY <1>0, <3>1, <4>2 DEF Created
        <4> QED
          BY <4>1, <4>2
      <3> QED
        BY <1>0, <3>2, <3>3 DEF RowsMove
    <2>2. ASSUME NEW o \in Orders, RefreshExpire(o) \/ CancelCheckout(o)
          PROVE  RowsMove
      <3>1. UNCHANGED processed /\ order[o].status \in OpenStatus
            /\ \E s \in {"expired", "canceled"} : order' = [order EXCEPT ![o].status = s]
        BY <2>2 DEF RefreshExpire, CancelCheckout, OpenStatus
      <3>2. \A p \in Orders : p # o => order'[p] = order[p]
        BY <3>1 DEF TypeOK
      <3>3. order'[o].status \in OpenStatus \cup {"canceled"}
        BY <1>0, <3>1 DEF TypeOK, Row, OpenStatus
      <3>4. MovesOn(order[o], order'[o])
        BY <1>0, <3>1, <3>3, StatusStages
      <3>5. order'[o].paid = order[o].paid /\ order'[o].expected = order[o].expected
        BY <1>0, <3>1 DEF TypeOK, Row
      <3>6. CreditKept(order[o], order'[o])
        BY <3>3, <3>5 DEF CreditKept, Maturable, OpenStatus
      <3> QED
        BY <1>0, <3>1, <3>2, <3>4, <3>6 DEF RowsMove
    <2> QED
      BY <1>4, <2>1, <2>2 DEF Buyer
  <1>5. CASE Environment
    BY <1>1, <1>5 DEF Environment, Mine, Tick, Pay, Reorg, Remine, AgentSettle, dbVars
  <1>6. CASE SweepFail \/ Restart \/ UNCHANGED vars
    BY <1>1, <1>6 DEF SweepFail, Restart, vars, dbVars
  <1> QED
    BY <1>2, <1>3, <1>4, <1>5, <1>6 DEF Next

\* The checkout implements Payments: a transfer is booked once, on one order, and
\* an order is paid by the step that books a transfer on it and by nothing else.
THEOREM CheckoutImplementsPayments == Spec => ImplementsPayments
PROOF
  <1>1. Init => Booking!PaymentsInit
    BY NoRowIsRow DEF Init, Booking!PaymentsInit, StageOf
  <1>2. IInv /\ [Next]_vars => [Booking!PaymentsNext]_(Booking!paymentVars)
    <2> SUFFICES ASSUME IInv, [Next]_vars
                 PROVE  Booking!PaymentsNext
      OBVIOUS
    <2> DEFINE stage == [o \in Orders |-> StageOf(order[o])]
               stageNext == [o \in Orders |-> StageOf(order'[o])]
    <2>1. ASSUME NEW r \in Row PROVE StageOf(r) \in Booking!Stages
      BY StatusMembers DEF StageOf, Booking!Stages, Row
    <2>2. CASE RowsMove
      <3>1. stageNext \in [Orders -> Booking!Stages]
        BY <2>1, <2>2 DEF RowsMove
      <3>2. \A s \in Orders : stageNext[s] # stage[s]
                                => <<stage[s], stageNext[s]>> \in Booking!Moves
        BY <2>2 DEF RowsMove, MovesOn
      <3>3. Booking!Progress
        BY <2>2, <3>1, <3>2 DEF RowsMove, Booking!Progress
      <3> QED
        BY <3>3 DEF Booking!PaymentsNext
    <2>3. CASE RowsBook
      <3>1. PICK k \in Txs \X LogIdx, o \in Orders, n \in Row :
              /\ processed[k] = NoOrder /\ processed' = [processed EXCEPT ![k] = o]
              /\ order' = [order EXCEPT ![o] = n]
              /\ BooksOn(order[o], n)
        BY <2>3 DEF RowsBook
      <3>2. order'[o] = n /\ \A p \in Orders : p # o => order'[p] = order[p]
        BY <3>1 DEF IInv, TypeOK
      <3>3. stageNext = [stage EXCEPT ![o] = StageOf(n)]
        BY <3>2
      <3>4. /\ StageOf(n) \in Booking!Stages
            /\ \/ StageOf(n) = stage[o]
               \/ <<stage[o], StageOf(n)>> \in {<<"open", "paid">>, <<"open", "delivered">>,
                                                <<"paid", "delivered">>}
        BY <2>1, <3>1 DEF BooksOn
      <3>5. Booking!Book(k, o)
        BY <3>1, <3>3, <3>4 DEF Booking!Book
      <3> QED
        BY <3>5 DEF Booking!PaymentsNext
    <2> QED
      BY <2>2, <2>3, NextStages
  <1> QED
    BY <1>1, <1>2, Invariance, PTL DEF Spec, ImplementsPayments, Booking!PaymentsSpec

-----------------------------------------------------------------------------
(* The cooldown of an amount *)

\* No amount is awaited while another order of that amount may still be matched.
\* CooldownHeld needs it at the delivery, when the cooldown only begins.
InFlightAlone ==
  \A o, p \in Orders :
    /\ o # p
    /\ order[o].status \in IndexedStatus \cup READY_TO_DELIVER
    /\ order[p].status \in IN_FLIGHT
    => order[o].expected # order[p].expected

LEMMA NextAlone ==
  ASSUME IInv, InFlightAlone, [Next]_vars
  PROVE  InFlightAlone'
PROOF
  <1> DEFINE Live(r) == r.status \in IndexedStatus \cup READY_TO_DELIVER
  <1> SUFFICES ASSUME NEW o \in Orders, NEW p \in Orders, o # p,
                      Live(order'[o]), order'[p].status \in IN_FLIGHT
               PROVE  order'[o].expected # order'[p].expected
    BY DEF InFlightAlone
  <1>1. ASSUME NEW r \in Row, NEW n, Rewrites(r, n), Live(n) PROVE Live(r)
    BY <1>1, StatusMembers DEF Rewrites, Row, IndexedStatus
  <1>2. CASE RowsStep
    <2>1. Live(order[o]) /\ order[p].status \in IN_FLIGHT
      BY <1>1, <1>2 DEF RowsStep, Rewrites, IInv, TypeOK
    <2>2. order'[o].expected = order[o].expected /\ order'[p].expected = order[p].expected
      BY <1>2 DEF RowsStep, Rewrites
    <2> QED
      BY <2>1, <2>2 DEF InFlightAlone
  <1>3. ASSUME NEW c \in Orders, Created(c) PROVE order'[o].expected # order'[p].expected
    <2>1. CASE c = p
      <3>1. order'[o] = order[o]
        BY <1>3, <2>1 DEF Created
      <3> QED
        BY <1>3, <2>1, <3>1 DEF Created, AmountTaken, AmountIndexed
    <2>2. CASE c = o
      <3>1. order'[p] = order[p]
        BY <1>3, <2>2 DEF Created
      <3> QED
        BY <1>3, <2>2, <3>1 DEF Created, AmountTaken
    <2>3. CASE c # o /\ c # p
      BY <1>3, <2>3 DEF Created, InFlightAlone
    <2> QED
      BY <2>1, <2>2, <2>3
  <1> QED
    BY <1>2, <1>3, NextRows

\* A row delivered in this step could be matched before it.
LEMMA DeliveredNow ==
  ASSUME IInv, [Next]_vars, NEW o \in Orders,
         order[o].status # "delivered", order'[o].status = "delivered"
  PROVE  order[o].status \in IndexedStatus \cup READY_TO_DELIVER /\ RowsStep
PROOF
  <1>1. RowsStep
    <2>1. ASSUME NEW c \in Orders, Created(c) PROVE FALSE
      BY <2>1 DEF Created
    <2> QED
      BY <2>1, NextRows
  <1>2. Rewrites(order[o], order'[o]) /\ order[o] \in Row
    BY <1>1 DEF RowsStep, IInv, TypeOK
  <1>3. order[o].status \notin Terminal \cup {"none"}
    BY <1>2 DEF Rewrites
  <1> QED
    BY <1>1, <1>2, <1>3, StatusMembers DEF Row, IndexedStatus

\* An order of a delivered amount is only made a quarantine after the delivery.
THEOREM CooldownIsHeld == Spec => []CooldownHeld
PROOF
  <1>1. Init => CooldownHeld /\ InFlightAlone
    BY NoRowIsRow DEF Init, CooldownHeld, InFlightAlone
  <1>2. IInv /\ CooldownHeld /\ InFlightAlone /\ [Next]_vars => CooldownHeld'
    <2> SUFFICES ASSUME IInv, CooldownHeld, InFlightAlone, [Next]_vars,
                        NEW o \in Orders, NEW p \in Orders, o # p,
                        order'[o].expected = order'[p].expected,
                        order'[o].status = "delivered", order'[p].status \in IN_FLIGHT
                 PROVE  order'[p].expiresAt >= order'[o].paidAt + QUARANTINE + ORDER_TTL
      BY DEF CooldownHeld
    <2>1. CASE order[o].status # "delivered"
      <3>1. RowsStep /\ order[o].status \in IndexedStatus \cup READY_TO_DELIVER
        BY <2>1, DeliveredNow
      <3>2. order[p].status \in IN_FLIGHT /\ order[o].expected = order[p].expected
        BY <3>1 DEF RowsStep, Rewrites
      <3> QED
        BY <3>1, <3>2 DEF InFlightAlone
    <2>2. CASE order[o].status = "delivered" /\ RowsStep
      <3>1. order'[o] = order[o] /\ Rewrites(order[p], order'[p])
        BY <2>2 DEF RowsStep, Rewrites
      <3> QED
        BY <2>2, <3>1 DEF Rewrites, CooldownHeld
    <2>3. ASSUME NEW c \in Orders, Created(c), order[o].status = "delivered"
          PROVE  order'[p].expiresAt >= order'[o].paidAt + QUARANTINE + ORDER_TTL
      <3>1. order'[o] = order[o] /\ order[o] \in Row
        BY <2>3 DEF Created, IInv, TypeOK
      <3>2. CASE c = p
        <4>1. ~(order[o].paidAt + QUARANTINE > clock)
          BY <2>3, <3>1, <3>2 DEF Created, AmountTaken
        <4>2. order'[p].expiresAt = clock + ORDER_TTL
          BY <2>3, <3>2 DEF Created
        <4>3. order[o].paidAt \in Nat /\ clock \in Nat /\ QUARANTINE \in Nat /\ ORDER_TTL \in Nat
          BY <3>1, ConstantsAssumption DEF Row, IInv, TypeOK
        <4> QED
          BY <3>1, <4>1, <4>2, <4>3
      <3>3. CASE c # p
        BY <2>3, <3>1, <3>3 DEF Created, CooldownHeld
      <3> QED
        BY <3>2, <3>3
    <2> QED
      BY <2>1, <2>2, <2>3, NextRows
  <1>3. IInv /\ InFlightAlone /\ [Next]_vars => InFlightAlone'
    BY NextAlone
  <1> QED
    BY <1>1, <1>2, <1>3, Invariance, PTL DEF Spec

-----------------------------------------------------------------------------
(* The cursor *)

\* The chain behind the cursor is final: the cursor keeps CONFIRMATIONS below
\* the head, a block holds one transfer, and the transfer the sweeper is about
\* to credit is the one of the next block.
ChainOrder ==
  /\ \A t \in Txs : txs[t].block <= head
  /\ \A t, u \in Txs : txs[t].block = txs[u].block /\ txs[t].block # 0 => t = u
  /\ cursor + CONFIRMATIONS <= head /\ sw.head <= head
  /\ sw.pc = "apply" => txs[sw.tx].block = cursor + 1 /\ cursor < SafeHead

\* What the environment may do to the chain.
OneTransferMoves(u) ==
  /\ \A t \in Txs \ {u} : txs'[t] = txs[t]
  /\ \/ txs[u].block = 0 /\ txs'[u].block = head + 1 /\ head' = head + 1
     \/ txs[u].block # 0 /\ txs'[u].block = 0 /\ head - txs[u].block < CONFIRMATIONS /\ head' = head

ChainMoves ==
  /\ UNCHANGED <<order, processed, cursor, sw>>
  /\ head' \in Nat /\ head <= head' /\ settled \subseteq settled'
  /\ txs' = txs \/ \E u \in Txs : OneTransferMoves(u)

LEMMA EnvironmentMoves ==
  ASSUME IInv, Environment PROVE ChainMoves
PROOF
  <1>0. head \in Nat /\ txs \in [Txs -> Transfer]
    BY DEF IInv, TypeOK
  <1>1. CASE Mine \/ Tick \/ (\E t \in Txs : AgentSettle(t))
    BY <1>0, <1>1 DEF Mine, Tick, AgentSettle, ChainMoves, dbVars, chainVars
  <1>2. ASSUME NEW u \in Txs, NEW value \in Price..(Price + OffsetSpan), NEW i \in LogIdx,
               Pay(u, value, i)
        PROVE  ChainMoves
    <2>1. txs[u].block = 0
      BY <1>2 DEF Pay, IInv, Ledger
    <2>2. OneTransferMoves(u)
      BY <1>0, <1>2, <2>1 DEF Pay, OneTransferMoves
    <2> QED
      BY <1>0, <1>2, <2>2 DEF Pay, ChainMoves, dbVars
  <1>3. ASSUME NEW u \in Txs, Reorg(u) PROVE ChainMoves
    <2>1. txs' = [txs EXCEPT ![u] = [txs[u] EXCEPT !.block = 0]]
      BY <1>3 DEF Reorg
    <2>2. OneTransferMoves(u)
      BY <1>0, <1>3, <2>1 DEF Reorg, OneTransferMoves, Transfer
    <2> QED
      BY <1>0, <1>3, <2>2 DEF Reorg, ChainMoves, dbVars
  <1>4. ASSUME NEW u \in Txs, NEW i \in LogIdx, Remine(u, i) PROVE ChainMoves
    <2>1. txs' = [txs EXCEPT ![u] = [txs[u] EXCEPT !.block = head + 1, !.idx = i]]
      BY <1>0, <1>4 DEF Remine
    <2>2. OneTransferMoves(u)
      BY <1>0, <1>4, <2>1 DEF Remine, OneTransferMoves, Transfer
    <2> QED
      BY <1>0, <1>4, <2>2 DEF Remine, ChainMoves, dbVars
  <1> QED
    BY <1>1, <1>2, <1>3, <1>4 DEF Environment

\* Who writes what: the sweeper alone moves the cursor, the environment the chain.
LEMMA Frames ==
  ASSUME IInv, [Next]_vars
  PROVE  \/ Sweeper /\ UNCHANGED <<settled, head, txs>>
         \/ UNCHANGED <<cursor, sw, settled, head, txs>>
         \/ ChainMoves
         \/ sw' = IdleSweep /\ UNCHANGED <<order, processed, cursor, settled, head, txs>>
PROOF
  <1>1. ASSUME Sweeper PROVE UNCHANGED <<settled, head, txs>>
    BY ZenonT(60), <1>1 DEF Sweeper, SweepStart, SweepHead, SweepAddresses, SweepSkip, SweepMatch,
         SweepApply, SweepConflict, SweepWindowsDone, PromoteRead, PromoteWrite, dbVars, chainVars
  <1>2. ASSUME NEW w \in Workers, Request(w) PROVE UNCHANGED <<cursor, sw, settled, head, txs>>
    BY ZenonT(60), <1>2 DEF Request, RefreshHead, RefreshReceipt, RefreshWrite, SubmitReceipt,
         SubmitCheck, SubmitApply, EndRequest, dbVars, chainVars
  <1>3. CASE Buyer \/ UNCHANGED vars
    BY <1>3 DEF Buyer, CreateOrder, RefreshExpire, CancelCheckout, vars, chainVars
  <1>4. CASE SweepFail \/ Restart
    BY <1>4 DEF SweepFail, Restart, dbVars, chainVars
  <1> QED
    BY <1>1, <1>2, <1>3, <1>4, EnvironmentMoves DEF Next

LEMMA NextChain ==
  ASSUME IInv, ChainOrder, [Next]_vars
  PROVE  ChainOrder'
PROOF
  <1>0. /\ head \in Nat /\ cursor \in Nat /\ sw \in Sweep_ /\ CONFIRMATIONS \in Nat
        /\ sw.head \in Nat /\ \A t \in Txs : txs[t].block \in Nat
        /\ sw.pc = "apply" => sw.tx \in Txs
    BY ConstantsAssumption DEF IInv, TypeOK, Sweep_, Transfer, SweepLocals, Holds
  <1>1. ASSUME Sweeper, UNCHANGED <<head, txs>> PROVE ChainOrder'
    <2>1. SUFFICES /\ cursor' + CONFIRMATIONS <= head /\ sw'.head <= head
                   /\ sw'.pc = "apply" => /\ txs[sw'.tx].block = cursor' + 1
                                          /\ cursor' < sw'.head - CONFIRMATIONS
      BY <1>1 DEF ChainOrder, SafeHead
    <2>2. CASE SweepStart \/ SweepWindowsDone
      BY <1>0, <2>2 DEF SweepStart, SweepWindowsDone, ChainOrder, dbVars, Sweep_
    <2>3. CASE SweepHead
      <3>1. UNCHANGED cursor /\ sw.pc = "head"
        BY <2>3 DEF SweepHead, dbVars
      <3>2. sw' = IdleSweep \/ (\E pc \in {"addresses", "promote"} :
                                  sw' = [sw EXCEPT !.head = head, !.pc = pc])
        BY <2>3 DEF SweepHead
      <3>3. ASSUME sw' = IdleSweep PROVE sw'.head \in {0, head} /\ sw'.pc # "apply"
        BY <3>3 DEF IdleSweep
      <3>4. ASSUME NEW pc \in {"addresses", "promote"}, sw' = [sw EXCEPT !.head = head, !.pc = pc]
            PROVE  sw'.head \in {0, head} /\ sw'.pc # "apply"
        BY <1>0, <3>4 DEF Sweep_
      <3> QED
        BY <1>0, <3>1, <3>2, <3>3, <3>4 DEF ChainOrder
    <2>4. CASE SweepAddresses
      <3>1. cursor' \in {cursor, sw.head - CONFIRMATIONS}
        BY <2>4 DEF SweepAddresses, SafeHead
      <3>2. sw'.head = sw.head /\ sw'.pc # "apply"
        BY <1>0, <2>4 DEF SweepAddresses, Sweep_
      <3>3. cursor + CONFIRMATIONS <= head /\ sw.head <= head
        BY DEF ChainOrder
      <3> QED
        BY <1>0, <3>1, <3>2, <3>3
    <2>5. CASE SweepSkip
      <3>1. cursor' = cursor + 1 /\ cursor < sw.head - CONFIRMATIONS /\ sw.pc = "window"
            /\ sw' = [sw EXCEPT !.windows = @ + 1]
        BY <2>5 DEF SweepSkip, InWindow, SafeHead
      <3> QED
        BY <1>0, <3>1 DEF ChainOrder, Sweep_
    <2>6. ASSUME NEW t \in Txs, SweepMatch(t)
          PROVE  /\ cursor' + CONFIRMATIONS <= head /\ sw'.head <= head
                 /\ sw'.pc = "apply" => /\ txs[sw'.tx].block = cursor' + 1
                                        /\ cursor' < sw'.head - CONFIRMATIONS
      <3>1. /\ cursor' = cursor /\ cursor < sw.head - CONFIRMATIONS /\ txs[t].block = cursor + 1
            /\ sw'.head = sw.head /\ sw'.tx = t
        BY <1>0, <2>6 DEF SweepMatch, InWindow, SafeHead, Sweep_, dbVars
      <3> QED
        BY <1>0, <3>1 DEF ChainOrder
    <2>7. CASE SweepApply
      <3>1. /\ cursor' = cursor + 1 /\ sw.pc = "apply"
            /\ sw'.head = sw.head /\ sw'.pc = "window"
        BY <1>0, <2>7 DEF SweepApply, Sweep_
      <3> QED
        BY <1>0, <3>1 DEF ChainOrder, SafeHead
    <2>8. CASE SweepConflict \/ PromoteRead \/ PromoteWrite
      <3>1. cursor' = cursor
        BY <2>8 DEF SweepConflict, PromoteRead, PromoteWrite, dbVars
      <3>2. sw' = IdleSweep \/ (sw'.head = sw.head /\ sw'.pc = "commit")
        BY <1>0, <2>8 DEF SweepConflict, PromoteRead, PromoteWrite, Sweep_
      <3> QED
        BY <1>0, <3>1, <3>2 DEF ChainOrder, IdleSweep
    <2> QED
      BY <1>1, <2>2, <2>3, <2>4, <2>5, <2>6, <2>7, <2>8 DEF Sweeper
  <1>2. CASE UNCHANGED <<cursor, sw, settled, head, txs>>
    BY <1>2 DEF ChainOrder, SafeHead
  <1>3. CASE sw' = IdleSweep /\ UNCHANGED <<order, processed, cursor, settled, head, txs>>
    BY <1>0, <1>3 DEF ChainOrder, IdleSweep
  <1>4. ASSUME ChainMoves, NEW u \in Txs, OneTransferMoves(u) PROVE ChainOrder'
    <2>1. \A t \in Txs : txs'[t].block = IF t = u THEN txs'[u].block ELSE txs[t].block
      BY <1>4 DEF OneTransferMoves
    <2>2. \A t \in Txs : txs'[t].block <= head'
      BY <1>0, <1>4, <2>1 DEF OneTransferMoves, ChainOrder
    <2>3. \A t, v \in Txs : txs'[t].block = txs'[v].block /\ txs'[t].block # 0 => t = v
      BY <1>0, <1>4, <2>1 DEF OneTransferMoves, ChainOrder
    <2>4. cursor' + CONFIRMATIONS <= head' /\ sw'.head <= head'
      BY <1>0, <1>4 DEF ChainMoves, ChainOrder
    <2>5. ASSUME sw'.pc = "apply" PROVE txs'[sw'.tx].block = cursor' + 1 /\ cursor' < SafeHead'
      <3>1. sw.pc = "apply" /\ sw.tx \in Txs /\ txs[sw.tx].block = cursor + 1
            /\ cursor < sw.head - CONFIRMATIONS /\ sw.head <= head
        BY <1>0, <1>4, <2>5 DEF ChainMoves, ChainOrder, SafeHead
      <3>2. sw.tx # u
        BY <1>0, <1>4, <3>1 DEF OneTransferMoves
      <3> QED
        BY <1>4, <2>1, <3>1, <3>2 DEF ChainMoves, SafeHead
    <2> QED
      BY <2>2, <2>3, <2>4, <2>5 DEF ChainOrder
  <1>5. CASE ChainMoves /\ txs' = txs
    BY <1>0, <1>5 DEF ChainMoves, ChainOrder, SafeHead
  <1> QED
    BY <1>1, <1>2, <1>3, <1>4, <1>5, Frames DEF ChainMoves

\* An order that awaits its payment was awaiting it before, on the same terms, or
\* is made now; nothing mined before now is its payment then.
LEMMA PendingBefore ==
  ASSUME IInv, ChainOrder, [Next]_vars, NEW o \in Orders, order'[o].status = "pending",
         order'[o].createdBlock # 0
  PROVE  \/ order[o].status = "pending" /\ SameTerms(order[o], order'[o])
         \/ \A t \in Txs : ~(txs[t].block > order'[o].createdBlock)
PROOF
  <1>0. head \in Nat /\ \A t \in Txs : txs[t].block \in Nat /\ txs[t].block <= head
    BY DEF IInv, TypeOK, Transfer, ChainOrder
  <1>1. CASE RowsStep
    BY <1>1 DEF RowsStep, Rewrites
  <1>2. ASSUME NEW c \in Orders, Created(c) PROVE
               \/ order[o].status = "pending" /\ SameTerms(order[o], order'[o])
               \/ \A t \in Txs : ~(txs[t].block > order'[o].createdBlock)
    <2>1. CASE c = o
      BY <1>0, <1>2, <2>1 DEF Created
    <2>2. CASE c # o
      BY <1>2, <2>2 DEF Created
    <2> QED
      BY <2>1, <2>2
  <1> QED
    BY <1>1, <1>2, NextRows

\* What the cursor passes in one step has been looked at.
LEMMA CursorLooks ==
  ASSUME IInv, ChainOrder, Sweeper, NEW o \in Orders, order[o].status = "pending",
         NEW t \in Txs, txs[t].value = order[o].expected, t \notin settled,
         cursor < txs[t].block, txs[t].block <= cursor'
  PROVE  processed'[<<t, txs[t].idx>>] # NoOrder
PROOF
  <1>0. cursor \in Nat /\ txs[t].block \in Nat /\ txs[t].idx \in LogIdx
    BY DEF IInv, TypeOK, Transfer
  <1>1. CASE cursor' = cursor
    BY <1>0, <1>1
  <1>2. CASE SweepAddresses
    <2>1. ActiveAddress(sw.now)
      BY DEF ActiveAddress
    <2> QED
      BY <1>1, <1>2, <2>1 DEF SweepAddresses
  <1>3. CASE SweepSkip
    <2>1. cursor' = cursor + 1 /\ UNCHANGED processed
      BY <1>3 DEF SweepSkip
    <2>2. txs[t].block = cursor + 1
      BY <1>0, <2>1
    <2>3. Matches(txs[t].value, sw.now) # {}
      BY DEF Matches
    <2> QED
      BY <1>3, <2>1, <2>2, <2>3 DEF SweepSkip
  <1>4. CASE SweepApply
    <2>1. sw.pc = "apply" /\ cursor' = cursor + 1 /\ sw.tx \in Txs /\ sw.o \in Orders
          /\ processed' = [processed EXCEPT ![<<sw.tx, txs[sw.tx].idx>>] = sw.o]
      BY <1>4 DEF SweepApply, ApplyTransfer, IInv, SweepLocals, Holds
    <2>2. txs[t].block = cursor + 1 /\ txs[sw.tx].block = cursor + 1
      BY <1>0, <2>1 DEF ChainOrder
    <2>3. t = sw.tx
      BY <1>0, <2>1, <2>2 DEF ChainOrder
    <2>4. sw.o # NoOrder
      BY <2>1, ConstantsAssumption
    <2>5. processed \in [Txs \X LogIdx -> Orders \cup {NoOrder}]
      BY DEF IInv, TypeOK
    <2> QED
      BY <1>0, <2>1, <2>3, <2>4, <2>5
  <1>5. CASE SweepStart \/ SweepHead \/ (\E u \in Txs : SweepMatch(u)) \/ SweepConflict
             \/ SweepWindowsDone \/ PromoteRead \/ PromoteWrite
    <2>1. cursor' = cursor
      BY <1>5 DEF SweepStart, SweepHead, SweepMatch, SweepConflict, SweepWindowsDone,
                  PromoteRead, PromoteWrite, dbVars
    <2> QED
      BY <1>1, <2>1
  <1> QED
    BY <1>2, <1>3, <1>4, <1>5 DEF Sweeper

LEMMA NextSkipsNothing ==
  ASSUME IInv, ChainOrder, NoSkippedPayment, [Next]_vars
  PROVE  NoSkippedPayment'
PROOF
  <1> SUFFICES ASSUME NEW o \in Orders, NEW t \in Txs,
                      order'[o].status = "pending", order'[o].createdBlock # 0,
                      txs'[t].value = order'[o].expected, t \notin settled',
                      txs'[t].block > order'[o].createdBlock, txs'[t].block <= cursor'
               PROVE  processed'[<<t, txs'[t].idx>>] # NoOrder
    BY DEF NoSkippedPayment
  <1>0. /\ head \in Nat /\ cursor \in Nat /\ cursor' \in Nat /\ CONFIRMATIONS \in Nat
        /\ txs[t].block \in Nat /\ txs'[t].block \in Nat /\ txs[t].idx \in LogIdx
        /\ order'[o].createdBlock \in Nat /\ order[o].createdBlock \in Nat
        /\ cursor + CONFIRMATIONS <= head
    BY NextSweep, NextKeeps, NextBacked, ConstantsAssumption
       DEF IInv, TypeOK, Transfer, Row, ChainOrder
  <1>1. txs'[t] = txs[t]
    <2>1. ASSUME NEW u \in Txs, OneTransferMoves(u), ChainMoves PROVE u # t
      BY <1>0, <2>1 DEF OneTransferMoves, ChainMoves
    <2> QED
      BY <2>1, Frames DEF ChainMoves, OneTransferMoves
  <1>2. t \notin settled
    BY Frames DEF ChainMoves
  <1>3. order[o].status = "pending" /\ SameTerms(order[o], order'[o])
    BY <1>1, PendingBefore
  <1>4. CASE txs[t].block <= cursor
    <2>1. processed[<<t, txs[t].idx>>] # NoOrder
      BY <1>1, <1>2, <1>3, <1>4 DEF NoSkippedPayment
    <2>2. <<t, txs[t].idx>> \in Txs \X LogIdx
      BY <1>0
    <2> QED
      BY <1>1, <2>1, <2>2, NextKeeps DEF Keeps
  <1>5. CASE cursor < txs[t].block
    <2>1. cursor' # cursor
      BY <1>0, <1>1, <1>5
    <2>2. Sweeper
      BY <2>1, Frames DEF ChainMoves
    <2> QED
      BY <1>1, <1>2, <1>3, <1>5, <2>2, CursorLooks
  <1> QED
    BY <1>0, <1>4, <1>5

\* The sweeper's cursor never passes a payment that a pending order waits for.
THEOREM NothingIsSkipped == Spec => []NoSkippedPayment
PROOF
  <1>1. Init => ChainOrder /\ NoSkippedPayment
    <2> SUFFICES ASSUME Init PROVE ChainOrder /\ NoSkippedPayment
      OBVIOUS
    <2>1. /\ \A t \in Txs : txs[t].block = 0
          /\ \A o \in Orders : order[o].status = "none"
          /\ cursor = 0 /\ head = CONFIRMATIONS /\ sw.head = 0 /\ sw.pc = "idle"
      BY NoRowIsRow DEF Init, NoTransfer, IdleSweep
    <2> QED
      BY <2>1, ConstantsAssumption DEF ChainOrder, NoSkippedPayment
  <1>2. IInv /\ ChainOrder /\ [Next]_vars => ChainOrder'
    BY NextChain
  <1>3. IInv /\ ChainOrder /\ NoSkippedPayment /\ [Next]_vars => NoSkippedPayment'
    BY NextSkipsNothing
  <1> QED
    BY <1>1, <1>2, <1>3, Invariance, PTL DEF Spec

-----------------------------------------------------------------------------
(* What a thread's snapshot is: a row of the table, read in an earlier step *)

RequestReads(r, q) ==
  \/ q = r \/ q.pc = "idle"
  \/ r.pc = "check" /\ q.pc = "apply" /\ q.o = r.o /\ q.snap = r.snap
  \/ /\ r.pc = "receipt" /\ q.pc = "mature" /\ q.o = r.o /\ q.snap = r.snap
     /\ q.valid = ReceiptStillValid(r.snap)
  \/ /\ q.o \in Orders /\ q.snap = order[q.o]
     /\ q.pc = "check" \/ (q.pc = "receipt" /\ Maturing(order[q.o], head))

SweepReads(s) ==
  \/ s = sw \/ s.pc \notin {"apply", "commit"}
  \/ s.pc = "apply" /\ s.o \in Orders /\ s.snap = order[s.o]
  \/ /\ s.pc = "commit"
     /\ \A o \in s.valid : /\ o \in Orders /\ s.seen[o] = order[o]
                           /\ Maturing(order[o], sw.head) /\ ReceiptStillValid(order[o])

LEMMA NextReads ==
  ASSUME IInv, [Next]_vars, NEW w \in Workers
  PROVE  RequestReads(req[w], req'[w])
PROOF
  <1>0. /\ req \in [Workers -> Request_] /\ req[w] \in Request_
        /\ IdleReq \in Request_ /\ IdleReq.pc = "idle"
    BY IdleTypes DEF IInv, TypeOK
  <1>1. ASSUME UNCHANGED req PROVE RequestReads(req[w], req'[w])
    BY <1>1 DEF RequestReads
  <1>2. ASSUME NEW v \in Workers, v # w, NEW q, req' = [req EXCEPT ![v] = q]
        PROVE  RequestReads(req[w], req'[w])
    BY <1>0, <1>2 DEF RequestReads
  <1>3. ASSUME NEW q, req' = [req EXCEPT ![w] = q], RequestReads(req[w], q)
        PROVE  RequestReads(req[w], req'[w])
    BY <1>0, <1>3
  <1>4. ASSUME NEW v \in Workers, NEW o \in Orders, RefreshHead(v, o)
        PROVE  RequestReads(req[w], req'[w])
    <2> DEFINE q == [IdleReq EXCEPT !.pc = "receipt", !.o = o, !.snap = order[o], !.head = head]
    <2>1. req' = [req EXCEPT ![v] = q] /\ Maturing(order[o], head)
      BY <1>4 DEF RefreshHead
    <2>2. q.pc = "receipt" /\ q.o = o /\ q.snap = order[o]
      BY <1>0 DEF Request_
    <2> HIDE DEF q
    <2>3. RequestReads(req[w], q)
      BY <2>1, <2>2 DEF RequestReads
    <2> QED
      BY <1>2, <1>3, <2>1, <2>3
  <1>5. ASSUME NEW v \in Workers, RefreshReceipt(v)
        PROVE  RequestReads(req[w], req'[w])
    <2> DEFINE valid == ReceiptStillValid(req[v].snap)
               q == [req[v] EXCEPT !.pc = "mature", !.valid = valid]
    <2>1. req' = [req EXCEPT ![v] = q] /\ req[v].pc = "receipt" /\ req[v] \in Request_
      BY <1>0, <1>5 DEF RefreshReceipt
    <2> HIDE DEF valid
    <2>2. q.pc = "mature" /\ q.o = req[v].o /\ q.snap = req[v].snap /\ q.valid = valid
      BY <2>1 DEF Request_
    <2> HIDE DEF q
    <2>3. RequestReads(req[v], q)
      BY <2>1, <2>2 DEF RequestReads, valid
    <2> QED
      BY <1>2, <1>3, <2>1, <2>3
  <1>6. ASSUME NEW v \in Workers, NEW o \in Orders, NEW t \in Txs, SubmitReceipt(v, o, t)
        PROVE  RequestReads(req[w], req'[w])
    <2> DEFINE q == [IdleReq EXCEPT !.pc = "check", !.o = o, !.snap = order[o], !.tx = t,
                                    !.idx = txs[t].idx, !.block = txs[t].block]
    <2>1. req' = [req EXCEPT ![v] = q]
      BY <1>6 DEF SubmitReceipt
    <2>2. q.pc = "check" /\ q.o = o /\ q.snap = order[o]
      BY <1>0 DEF Request_
    <2> HIDE DEF q
    <2>3. RequestReads(req[w], q)
      BY <2>2 DEF RequestReads
    <2> QED
      BY <1>2, <1>3, <2>1, <2>3
  <1>7. ASSUME NEW v \in Workers, SubmitCheck(v)
        PROVE  RequestReads(req[w], req'[w])
    <2> DEFINE q == [req[v] EXCEPT !.pc = "apply", !.head = head]
    <2>1. req' = [req EXCEPT ![v] = q] /\ req[v].pc = "check" /\ req[v] \in Request_
      BY <1>0, <1>7 DEF SubmitCheck
    <2>2. q.pc = "apply" /\ q.o = req[v].o /\ q.snap = req[v].snap
      BY <2>1 DEF Request_
    <2> HIDE DEF q
    <2>3. RequestReads(req[v], q)
      BY <2>1, <2>2 DEF RequestReads
    <2> QED
      BY <1>2, <1>3, <2>1, <2>3
  <1>8. ASSUME NEW v \in Workers, RefreshWrite(v) \/ SubmitApply(v) \/ EndRequest(v)
        PROVE  RequestReads(req[w], req'[w])
    <2>1. req' = [req EXCEPT ![v] = IdleReq]
      BY <1>8 DEF RefreshWrite, SubmitApply, EndRequest
    <2>2. RequestReads(req[w], IdleReq)
      BY <1>0 DEF RequestReads
    <2> QED
      BY <1>2, <1>3, <2>1, <2>2
  <1>9. CASE Restart
    BY <1>0, <1>9 DEF Restart, RequestReads
  <1>10. CASE Sweeper
    BY ZenonT(60), <1>1, <1>10
       DEF Sweeper, SweepStart, SweepHead, SweepAddresses, SweepSkip, SweepMatch,
           SweepApply, SweepConflict, SweepWindowsDone, PromoteRead, PromoteWrite
  <1>11. CASE Buyer \/ Environment \/ SweepFail \/ UNCHANGED vars
    BY <1>1, <1>11 DEF Buyer, CreateOrder, RefreshExpire, CancelCheckout, Environment,
         Mine, Tick, Pay, Reorg, Remine, AgentSettle, SweepFail, vars
  <1> QED
    BY <1>4, <1>5, <1>6, <1>7, <1>8, <1>9, <1>10, <1>11 DEF Next, Request

LEMMA NextSweepReads ==
  ASSUME IInv, [Next]_vars
  PROVE  SweepReads(sw')
PROOF
  <1>0. sw \in Sweep_ /\ IdleSweep.pc = "idle"
    BY IdleTypes DEF IInv, TypeOK
  <1>1. ASSUME NEW t \in Txs, SweepMatch(t) PROVE SweepReads(sw')
    <2>1. PICK o \in Matches(txs[t].value, sw.now) :
            sw' = [sw EXCEPT !.pc = "apply", !.tx = t, !.o = o, !.snap = order[o]]
      BY <1>1 DEF SweepMatch
    <2>2. o \in Orders
      BY <2>1 DEF Matches
    <2>3. sw'.pc = "apply" /\ sw'.o = o /\ sw'.snap = order[o]
      BY <1>0, <2>1 DEF Sweep_
    <2> QED
      BY <2>2, <2>3 DEF SweepReads
  <1>2. CASE PromoteRead
    <2> DEFINE matured == {o \in Orders : Maturing(order[o], sw.head)}
               seen == [o \in Orders |-> IF o \in matured THEN order[o] ELSE NoRow]
               valid == {o \in matured : ReceiptStillValid(order[o])}
    <2>1. sw' = IdleSweep \/ sw' = [sw EXCEPT !.pc = "commit", !.seen = seen, !.valid = valid]
      BY <1>2 DEF PromoteRead
    <2>2. \A o \in valid : /\ o \in Orders /\ seen[o] = order[o]
                           /\ Maturing(order[o], sw.head) /\ ReceiptStillValid(order[o])
      OBVIOUS
    <2> HIDE DEF seen, valid
    <2>3. sw'.pc = "idle" \/ (sw'.pc = "commit" /\ sw'.seen = seen /\ sw'.valid = valid)
      BY <1>0, <2>1 DEF Sweep_
    <2> QED
      BY <2>2, <2>3 DEF SweepReads
  <1>3. CASE SweepStart \/ SweepHead \/ SweepAddresses \/ SweepSkip \/ SweepApply
             \/ SweepWindowsDone
    <2>1. CASE SweepHead
      <3>1. sw' = IdleSweep \/ (\E pc \in {"addresses", "promote"} :
                                  sw' = [sw EXCEPT !.head = head, !.pc = pc])
        BY <2>1 DEF SweepHead
      <3> QED
        BY <1>0, <3>1 DEF Sweep_, SweepReads
    <2>2. CASE SweepSkip
      <3>1. sw' = [sw EXCEPT !.windows = @ + 1] /\ sw.pc = "window"
        BY <2>2 DEF SweepSkip, InWindow
      <3> QED
        BY <1>0, <3>1 DEF Sweep_, SweepReads
    <2>3. CASE SweepStart \/ SweepAddresses
      <3>1. sw'.pc \in {"head", "window", "promote"}
        BY <1>0, <2>3 DEF SweepStart, SweepAddresses, Sweep_
      <3> QED
        BY <3>1 DEF SweepReads
    <2>4. CASE SweepApply \/ SweepWindowsDone
      <3>1. sw'.pc \in {"window", "promote"}
        BY <1>0, <2>4 DEF SweepApply, SweepWindowsDone, Sweep_
      <3> QED
        BY <3>1 DEF SweepReads
    <2> QED
      BY <1>3, <2>1, <2>2, <2>3, <2>4
  <1>4. CASE SweepConflict \/ PromoteWrite \/ SweepFail \/ Restart
    BY <1>0, <1>4 DEF SweepConflict, PromoteWrite, SweepFail, Restart, SweepReads
  <1>5. CASE (\E w \in Workers : Request(w)) \/ Buyer \/ Environment \/ UNCHANGED vars
    <2>1. sw' = sw
      BY ZenonT(60), <1>5, EnvironmentMoves
         DEF Request, RefreshHead, RefreshReceipt, RefreshWrite, SubmitReceipt, SubmitCheck,
             SubmitApply, EndRequest, Buyer, CreateOrder, RefreshExpire, CancelCheckout,
             ChainMoves, vars
    <2> QED
      BY SMTT(60), <2>1 DEF SweepReads
  <1> QED
    BY <1>1, <1>2, <1>3, <1>4, <1>5 DEF Next, Sweeper

-----------------------------------------------------------------------------
(* Money: nothing is credited that was not consumed *)

ExactOf(o, amount) == {k \in Consumed(o) : txs[k[1]].value = amount}

\* The credit a row claims is covered by the exact transfers its order consumed.
Owned(o, r) == r.paid <= r.expected * Cardinality(ExactOf(o, r.expected))

\* CreditBacked is not inductive: a thread adds to the credit of the row it read.
CreditInv ==
  /\ \A o \in Orders : IsFiniteSet(Consumed(o)) /\ Owned(o, order[o])
  /\ sw.pc = "apply" => Owned(sw.o, sw.snap)
  /\ \A w \in Workers : req[w].pc \in {"check", "apply"} => Owned(req[w].o, req[w].snap)

\* A longer list of payments of one amount is worth more.
LEMMA Worth ==
  ASSUME NEW e \in Nat, NEW c \in Nat, NEW d \in Nat, c <= d
  PROVE  /\ e * c \in Nat /\ e * c <= e * d
         /\ c < d => e * c + e <= e * d
PROOF
  <1>1. PICK m \in Nat : d = c + m
    <2>1. d - c \in Nat /\ d = c + (d - c)
      OBVIOUS
    <2> QED
      BY <2>1
  <1>2. e * d = e * c + e * m
    BY <1>1
  <1>3. e * m \in Nat /\ e * c \in Nat
    OBVIOUS
  <1>4. m # 0 => e * m >= e
    <2>1. SUFFICES ASSUME m # 0 PROVE e * m >= e
      OBVIOUS
    <2>2. m - 1 \in Nat /\ e * m = e * (m - 1) + e
      BY <2>1
    <2>3. e * (m - 1) \in Nat
      BY <2>2
    <2> QED
      BY <2>2, <2>3
  <1>5. e * d \in Nat
    OBVIOUS
  <1> QED
    BY <1>1, <1>2, <1>3, <1>4, <1>5

\* Consumed transfers stay consumed, and finitely many.
LEMMA ConsumedGrows ==
  ASSUME IInv, [Next]_vars, NEW o \in Orders, IsFiniteSet(Consumed(o)), NEW e
  PROVE  /\ IsFiniteSet(Consumed(o)') /\ ExactOf(o, e) \subseteq ExactOf(o, e)'
         /\ IsFiniteSet(ExactOf(o, e)) /\ IsFiniteSet(ExactOf(o, e)')
         /\ Cardinality(ExactOf(o, e)) \in Nat /\ Cardinality(ExactOf(o, e)') \in Nat
         /\ Cardinality(ExactOf(o, e)) <= Cardinality(ExactOf(o, e)')
PROOF
  <1>1. ExactOf(o, e) \subseteq ExactOf(o, e)'
    BY NextKeeps, ConstantsAssumption DEF ExactOf, Consumed, Keeps, IInv, Ledger
  <1>2. IsFiniteSet(Consumed(o)')
    <2>1. CASE RowsMove
      BY <2>1 DEF RowsMove, Consumed
    <2>2. CASE RowsBook
      <3>1. PICK k \in Txs \X LogIdx : \E p \in Orders : processed' = [processed EXCEPT ![k] = p]
        BY <2>2 DEF RowsBook
      <3>2. Consumed(o)' \subseteq Consumed(o) \cup {k}
        BY <3>1 DEF Consumed, IInv, TypeOK
      <3>3. IsFiniteSet(Consumed(o) \cup {k})
        BY FS_AddElement
      <3> QED
        BY <3>2, <3>3, FS_Subset
    <2> QED
      BY <2>1, <2>2, NextStages
  <1>3. IsFiniteSet(ExactOf(o, e)) /\ IsFiniteSet(ExactOf(o, e)')
    <2>1. ExactOf(o, e) \subseteq Consumed(o) /\ ExactOf(o, e)' \subseteq Consumed(o)'
      BY DEF ExactOf
    <2> QED
      BY <1>2, <2>1, FS_Subset
  <1> QED
    BY <1>1, <1>2, <1>3, FS_Subset, FS_CardinalityType

LEMMA OwnedStays ==
  ASSUME IInv, [Next]_vars, NEW o \in Orders, IsFiniteSet(Consumed(o)), NEW r \in Row, Owned(o, r)
  PROVE  Owned(o, r)'
PROOF
  <1> DEFINE c == Cardinality(ExactOf(o, r.expected))
             d == Cardinality(ExactOf(o, r.expected)')
  <1>1. c \in Nat /\ d \in Nat /\ c <= d /\ r.expected \in Nat /\ r.paid \in Nat
    BY ConsumedGrows DEF Row
  <1>2. r.paid <= r.expected * c
    BY DEF Owned
  <1>3. r.paid <= r.expected * d => Owned(o, r)'
    BY DEF Owned
  <1> HIDE DEF c, d
  <1>4. r.expected * c \in Nat /\ r.expected * d \in Nat /\ r.expected * c <= r.expected * d
    BY <1>1, Worth
  <1> QED
    BY <1>1, <1>2, <1>3, <1>4

LEMMA KeptOwned ==
  ASSUME IInv, CreditInv, [Next]_vars, NEW o \in Orders, NEW r \in Row, CreditKept(order[o], r)
  PROVE  Owned(o, r)'
PROOF
  <1>0. IsFiniteSet(Consumed(o)) /\ Owned(o, order[o])
    BY DEF CreditInv
  <1>1. CASE r.paid = 0
    <2>1. Cardinality(ExactOf(o, r.expected)') \in Nat /\ r.expected \in Nat
      BY <1>0, ConsumedGrows DEF Row
    <2>2. r.expected * Cardinality(ExactOf(o, r.expected)') \in Nat
      BY <2>1, Worth
    <2>3. r.paid <= r.expected * Cardinality(ExactOf(o, r.expected)')
      BY <1>1, <2>2
    <2> QED
      BY <2>3 DEF Owned
  <1>2. CASE r.paid = order[o].paid /\ r.expected = order[o].expected
    <2>1. Owned(o, r)
      BY <1>0, <1>2 DEF Owned
    <2> QED
      BY <1>0, <2>1, OwnedStays
  <1> QED
    BY <1>1, <1>2 DEF CreditKept

LEMMA TakenOwned ==
  ASSUME IInv, CreditInv, [Next]_vars, NEW k \in Txs \X LogIdx, NEW o \in Orders,
         NEW snap \in Row, NEW r \in Row, Credits(o, snap), Holds(o, snap, k[1]),
         txs[k[1]].value = snap.expected, processed[k] = NoOrder,
         processed' = [processed EXCEPT ![k] = o], CreditTaken(order[o], snap, k[1], r)
  PROVE  Owned(o, r)'
PROOF
  <1>0. IsFiniteSet(Consumed(o)) /\ Owned(o, order[o]) /\ Owned(o, snap)
    BY DEF CreditInv, Credits
  <1>1. r.expected = order[o].expected /\ r.expected = snap.expected
    BY DEF CreditTaken, Holds
  <1>2. CASE r.paid = order[o].paid
    <2>1. Owned(o, r)
      BY <1>0, <1>1, <1>2 DEF Owned
    <2> QED
      BY <1>0, <2>1, OwnedStays
  <1>3. CASE r.paid = snap.paid + snap.expected
    <2> DEFINE e == snap.expected
               S == ExactOf(o, e)
               T == ExactOf(o, e)'
    <2>1. /\ IsFiniteSet(S) /\ IsFiniteSet(T) /\ S \subseteq T
          /\ Cardinality(S) \in Nat /\ Cardinality(T) \in Nat
      BY <1>0, ConsumedGrows
    <2>2. k \notin S
      BY ConstantsAssumption DEF ExactOf, Consumed
    <2>3. k \in T
      <3>1. processed'[k] = o /\ k[1] \in Txs
        BY DEF IInv, TypeOK
      <3>2. txs'[k[1]].value = e
        BY <3>1, NextKeeps DEF Keeps, Holds
      <3> QED
        BY <3>1, <3>2 DEF ExactOf, Consumed
    <2>4. e \in Nat /\ snap.paid \in Nat /\ snap.paid <= e * Cardinality(S)
      BY <1>0 DEF Owned, Row
    <2>5. r.paid <= e * Cardinality(T) => Owned(o, r)'
      BY <1>1 DEF Owned
    <2> HIDE DEF S, T
    <2>6. Cardinality(S \cup {k}) = Cardinality(S) + 1
      BY <2>1, <2>2, FS_AddElement
    <2>7. Cardinality(S) < Cardinality(T)
      <3>1. S \cup {k} \subseteq T
        BY <2>1, <2>3
      <3>2. Cardinality(S \cup {k}) <= Cardinality(T)
        BY <2>1, <3>1, FS_Subset
      <3> QED
        BY <2>1, <2>6, <3>2
    <2>8. /\ e * Cardinality(S) \in Nat /\ e * Cardinality(T) \in Nat
          /\ e * Cardinality(S) + e <= e * Cardinality(T)
      BY <2>1, <2>4, <2>7, Worth
    <2> QED
      BY <1>3, <2>4, <2>5, <2>8
  <1> QED
    BY <1>2, <1>3 DEF CreditTaken

LEMMA NextCredit ==
  ASSUME IInv, CreditInv, [Next]_vars
  PROVE  CreditInv'
PROOF
  <1>0. /\ \A o \in Orders : order[o] \in Row /\ order'[o] \in Row
        /\ \A o \in Orders : IsFiniteSet(Consumed(o)) /\ Owned(o, order[o])
    BY NextRows DEF IInv, TypeOK, CreditInv, RowsStep, Created
  <1>1. ASSUME NEW o \in Orders, NEW r \in Row, r = order'[o] PROVE Owned(o, r)'
    <2>1. CASE RowsMove
      BY <1>1, <2>1, KeptOwned DEF RowsMove
    <2>2. CASE RowsBook
      <3>1. PICK k \in Txs \X LogIdx, p \in Orders, snap \in Row, n \in Row :
              /\ Credits(p, snap) /\ Holds(p, snap, k[1]) /\ txs[k[1]].value = snap.expected
              /\ processed[k] = NoOrder /\ processed' = [processed EXCEPT ![k] = p]
              /\ order' = [order EXCEPT ![p] = n] /\ CreditTaken(order[p], snap, k[1], n)
        BY <2>2 DEF RowsBook
      <3>2. CASE o = p
        <4>1. r = n
          BY <1>1, <3>1, <3>2 DEF IInv, TypeOK
        <4> QED
          BY <3>1, <3>2, <4>1, TakenOwned
      <3>3. CASE o # p
        <4>1. CreditKept(order[o], r)
          BY <1>1, <3>1, <3>3 DEF IInv, TypeOK, CreditKept
        <4> QED
          BY <4>1, KeptOwned
      <3> QED
        BY <3>2, <3>3
    <2> QED
      BY <2>1, <2>2, NextStages
  <1>2. \A o \in Orders : Owned(o, order[o])'
    BY <1>0, <1>1 DEF Owned
  <1>3. \A o \in Orders : IsFiniteSet(Consumed(o))'
    BY <1>0, ConsumedGrows
  <1>4. ASSUME sw'.pc = "apply" PROVE Owned(sw.o, sw.snap)'
    <2>1. PICK o \in Orders, s \in Row : sw'.o = o /\ sw'.snap = s
      BY <1>4, NextSweep DEF SweepLocals, Holds, Sweep_
    <2>2. Owned(o, s)
      <3>1. CASE sw' = sw
        BY <1>4, <2>1, <3>1 DEF CreditInv
      <3>2. CASE s = order[o]
        BY <1>0, <3>2
      <3> QED
        BY <1>4, <2>1, <3>1, <3>2, NextSweepReads DEF SweepReads
    <2>3. Owned(o, s)'
      BY <1>0, <2>2, OwnedStays
    <2> QED
      BY <2>1, <2>3 DEF Owned
  <1>5. ASSUME NEW w \in Workers, req'[w].pc \in {"check", "apply"}
        PROVE  Owned(req[w].o, req[w].snap)'
    <2>1. PICK o \in Orders, s \in Row : req'[w].o = o /\ req'[w].snap = s
      BY <1>5, NextRequests DEF RequestLocals, LocalsOf, Holds, Request_
    <2>2. Owned(o, s)
      <3>1. CASE req[w].pc \in {"check", "apply"} /\ req[w].o = o /\ req[w].snap = s
        BY <3>1 DEF CreditInv
      <3>2. CASE s = order[o]
        BY <1>0, <3>2
      <3> QED
        BY <1>5, <2>1, <3>1, <3>2, NextReads DEF RequestReads
    <2>3. Owned(o, s)'
      BY <1>0, <2>2, OwnedStays
    <2> QED
      BY <2>1, <2>3 DEF Owned
  <1> QED
    BY <1>2, <1>3, <1>4, <1>5 DEF CreditInv

\* The paid_micro of an order never exceeds the exact transfers it consumed.
THEOREM CreditIsBacked == Spec => []CreditBacked
PROOF
  <1>1. Init => CreditInv
    <2> SUFFICES ASSUME Init PROVE CreditInv
      OBVIOUS
    <2>1. ASSUME NEW o \in Orders PROVE Consumed(o) = {}
      BY ConstantsAssumption DEF Init, Consumed
    <2>2. IsFiniteSet({}) /\ Cardinality({}) = 0
      BY FS_EmptySet
    <2>3. ASSUME NEW o \in Orders PROVE IsFiniteSet(Consumed(o)) /\ Owned(o, order[o])
      <3>1. order[o] = NoRow /\ NoRow.paid = 0 /\ NoRow.expected = 0
        BY DEF Init, NoRow
      <3>2. ExactOf(o, 0) = {}
        BY <2>1 DEF ExactOf
      <3> QED
        BY <2>1, <2>2, <3>1, <3>2 DEF Owned
    <2>4. sw.pc = "idle" /\ \A w \in Workers : req[w].pc = "idle"
      BY IdleTypes DEF Init
    <2> QED
      BY <2>3, <2>4 DEF CreditInv
  <1>2. IInv /\ CreditInv /\ [Next]_vars => CreditInv'
    BY NextCredit
  <1>3. CreditInv => CreditBacked
    BY DEF CreditInv, Owned, ExactOf, CreditBacked
  <1> QED
    BY <1>1, <1>2, <1>3, Invariance, PTL DEF Spec

-----------------------------------------------------------------------------
(* Depth: what matures is paid for good *)

\* The transaction of row r was consumed by order o, for o's amount.
Bought(o, r) ==
  /\ Holds(o, r, r.tx) /\ txs[r.tx].value = r.expected
  /\ \E i \in LogIdx : processed[<<r.tx, i>>] = o

\* ... and no reorg can take it back.
Final(o, r) ==
  Bought(o, r) /\ txs[r.tx].block # 0 /\ head - txs[r.tx].block >= CONFIRMATIONS

\* From the detection over the read of a matured row and of its receipt to the write.
DepthInv ==
  /\ \A o \in Orders : order[o].status \in Maturable => Bought(o, order[o])
  /\ \A w \in Workers : req[w].pc = "receipt" =>
       Bought(req[w].o, req[w].snap) /\ req[w].snap.block <= head - CONFIRMATIONS
  /\ \A w \in Workers : req[w].pc = "mature" /\ req[w].valid => Final(req[w].o, req[w].snap)
  /\ sw.pc = "commit" => \A o \in sw.valid : Final(o, sw.seen[o])

\* What a receipt at a depth the head has passed says.
LEMMA ReceiptIsFinal ==
  ASSUME IInv, NEW o, NEW r \in Row, Bought(o, r), r.block <= head - CONFIRMATIONS,
         ReceiptStillValid(r)
  PROVE  Final(o, r)
PROOF
  <1>1. txs[r.tx].block = r.block /\ r.block # 0
    BY DEF ReceiptStillValid
  <1>2. head \in Nat /\ r.block \in Nat /\ CONFIRMATIONS \in Nat
    BY ConstantsAssumption DEF IInv, TypeOK, Row
  <1> QED
    BY <1>1, <1>2 DEF Final

LEMMA FinalStays ==
  ASSUME IInv, ChainOrder, [Next]_vars, NEW o \in Orders, NEW r \in Row
  PROVE  /\ head' \in Nat /\ head <= head'
         /\ Bought(o, r) => Bought(o, r)'
         /\ Final(o, r) => Final(o, r)'
PROOF
  <1>0. head \in Nat /\ CONFIRMATIONS \in Nat /\ \A t \in Txs : txs[t].block \in Nat
    BY ConstantsAssumption DEF IInv, TypeOK, Transfer
  <1>1. head' \in Nat /\ head <= head'
    BY <1>0, Frames DEF ChainMoves
  <1>2. ASSUME Bought(o, r) PROVE Bought(o, r)'
    <2>1. PICK i \in LogIdx : processed[<<r.tx, i>>] = o
      BY <1>2 DEF Bought
    <2>2. r.tx \in Txs /\ <<r.tx, i>> \in Txs \X LogIdx /\ o # NoOrder
      BY <1>2, ConstantsAssumption DEF Bought, Holds
    <2>3. processed'[<<r.tx, i>>] = o
      BY <2>1, <2>2, NextKeeps DEF Keeps
    <2> QED
      BY <1>2, <2>3, HoldsStays DEF Bought
  <1>3. ASSUME Final(o, r) PROVE Final(o, r)'
    <2>1. r.tx \in Txs /\ txs[r.tx].block # 0 /\ head - txs[r.tx].block >= CONFIRMATIONS
      BY <1>3 DEF Final, Bought, Holds
    <2>2. txs'[r.tx] = txs[r.tx]
      <3>1. ASSUME NEW u \in Txs, OneTransferMoves(u) PROVE u # r.tx
        BY <1>0, <2>1, <3>1 DEF OneTransferMoves
      <3> QED
        BY <2>1, <3>1, Frames DEF ChainMoves, OneTransferMoves
    <2>3. head' - txs[r.tx].block >= CONFIRMATIONS
      BY <1>0, <1>1, <2>1
    <2> QED
      BY <1>2, <1>3, <2>1, <2>2, <2>3 DEF Final
  <1> QED
    BY <1>1, <1>2, <1>3

LEMMA NextDepth ==
  ASSUME IInv, ChainOrder, DepthInv, [Next]_vars
  PROVE  DepthInv'
PROOF
  <1>0. /\ \A o \in Orders : order[o] \in Row /\ order'[o] \in Row
        /\ head \in Nat /\ CONFIRMATIONS \in Nat /\ sw.head \in Nat /\ sw.head <= head
        /\ \A o \in Orders : order[o].status \in Maturable => Bought(o, order[o])
    BY NextRows, ConstantsAssumption
       DEF IInv, TypeOK, Sweep_, RowsStep, Created, ChainOrder, DepthInv
  <1>1. ASSUME NEW o \in Orders, NEW r \in Row, r = order'[o], r.status \in Maturable
        PROVE  Bought(o, r)'
    <2>1. CASE r = order[o]
      BY <1>0, <1>1, <2>1, FinalStays
    <2>2. CASE r # order[o]
      <3>1. RowsBook
        BY <1>1, <2>2, NextStages DEF RowsMove, CreditKept
      <3>2. PICK k \in Txs \X LogIdx, p \in Orders, snap \in Row, n \in Row :
              /\ Holds(p, snap, k[1]) /\ txs[k[1]].value = snap.expected
              /\ processed' = [processed EXCEPT ![k] = p]
              /\ order' = [order EXCEPT ![p] = n] /\ CreditTaken(order[p], snap, k[1], n)
        BY <3>1 DEF RowsBook
      <3>6. p = o /\ n = r
        BY <1>1, <2>2, <3>2 DEF IInv, TypeOK
      <3>3. r.tx = k[1] /\ r.expected = snap.expected
        BY <1>1, <2>2, <3>2, <3>6 DEF CreditTaken, Holds
      <3>4. Holds(o, snap, k[1])' /\ txs'[k[1]].value = snap.expected
        BY <3>2, <3>6, HoldsStays
      <3>5. processed'[k] = o /\ k = <<k[1], k[2]>> /\ k[2] \in LogIdx
        BY <3>2, <3>6 DEF IInv, TypeOK
      <3> QED
        BY <3>3, <3>4, <3>5 DEF Bought, Holds
    <2> QED
      BY <2>1, <2>2
  <1>2. \A o \in Orders : order'[o].status \in Maturable => Bought(o, order[o])'
    BY <1>0, <1>1 DEF Bought, Holds
  <1>3. ASSUME NEW w \in Workers, NEW o \in Orders, NEW r \in Row, req'[w].o = o, req'[w].snap = r
        PROVE  /\ req'[w].pc = "receipt" => Bought(o, r)' /\ r.block <= head' - CONFIRMATIONS
               /\ req'[w].pc = "mature" /\ req'[w].valid => Final(o, r)'
    <2>1. CASE req'[w] = req[w]
      BY <1>0, <1>3, <2>1, FinalStays DEF DepthInv, Row
    <2>2. CASE /\ req[w].pc = "receipt" /\ req'[w].pc = "mature" /\ req[w].o = o
               /\ req[w].snap = r /\ req'[w].valid = ReceiptStillValid(r)
      <3>1. Bought(o, r) /\ r.block <= head - CONFIRMATIONS
        BY <2>2 DEF DepthInv
      <3> QED
        BY <2>2, <3>1, ReceiptIsFinal, FinalStays
    <2>3. CASE r = order[o] /\ Maturing(order[o], head) /\ req'[w].pc = "receipt"
      <3>1. Bought(o, r) /\ r.block <= head - CONFIRMATIONS
        BY <1>0, <2>3 DEF Maturing, Maturable
      <3> QED
        BY <1>0, <2>3, <3>1, FinalStays DEF Row
    <2>4. CASE req'[w].pc \notin {"receipt", "mature"}
      BY <2>4
    <2> QED
      BY <1>3, <2>1, <2>2, <2>3, <2>4, NextReads DEF RequestReads
  <1>4. ASSUME NEW w \in Workers, req'[w].pc \in {"receipt", "mature"}
        PROVE  req'[w].o \in Orders /\ req'[w].snap \in Row
    BY <1>4, NextRequests DEF RequestLocals, LocalsOf, Request_
  <1>5. ASSUME sw'.pc = "commit", NEW o \in Orders, NEW r \in Row, o \in sw'.valid, sw'.seen[o] = r
        PROVE  Final(o, r)'
    <2>1. CASE sw' = sw
      BY <1>5, <2>1, FinalStays DEF DepthInv
    <2>2. CASE r = order[o] /\ Maturing(order[o], sw.head) /\ ReceiptStillValid(order[o])
      <3>1. Bought(o, r) /\ r.block <= head - CONFIRMATIONS
        BY <1>0, <2>2 DEF Maturing, Maturable, Row
      <3> QED
        BY <2>2, <3>1, ReceiptIsFinal, FinalStays
    <2> QED
      BY <1>5, <2>1, <2>2, NextSweepReads DEF SweepReads
  <1>6. sw' \in Sweep_
    BY NextSweep
  <1> QED
    <2>1. \A w \in Workers : req'[w].pc = "receipt" =>
            Bought(req[w].o, req[w].snap)' /\ req'[w].snap.block <= head' - CONFIRMATIONS
      BY <1>3, <1>4 DEF Bought, Holds
    <2>2. \A w \in Workers : req'[w].pc = "mature" /\ req'[w].valid
                               => Final(req[w].o, req[w].snap)'
      BY <1>3, <1>4 DEF Final, Bought, Holds
    <2>3. sw'.pc = "commit" => \A o \in sw'.valid : Final(o, sw.seen[o])'
      BY <1>5, <1>6 DEF Final, Bought, Holds, Sweep_
    <2> QED
      BY <1>2, <2>1, <2>2, <2>3 DEF DepthInv

\* Only a valid receipt matures a row to its delivery.
LEMMA MatureNeedsReceipt ==
  ASSUME NEW r \in Row, NEW snap, NEW valid \in BOOLEAN, NEW now,
         r.status # "delivered", Mature(r, snap, valid, now).status = "delivered"
  PROVE  valid
BY DEF Mature, MarkReorged, Transition, Row

\* What a GET or the sweeper promotes was bought with a transfer no reorg takes back.
THEOREM MaturedForGood == Spec => MaturedIsFinal
PROOF
  <1>1. Init => ChainOrder /\ DepthInv
    <2> SUFFICES ASSUME Init PROVE ChainOrder /\ DepthInv
      OBVIOUS
    <2>1. /\ \A t \in Txs : txs[t].block = 0
          /\ \A o \in Orders : order[o].status = "none"
          /\ cursor = 0 /\ head = CONFIRMATIONS /\ sw.head = 0 /\ sw.pc = "idle"
          /\ \A w \in Workers : req[w].pc = "idle"
      BY NoRowIsRow, IdleTypes DEF Init, NoTransfer, IdleSweep
    <2> QED
      BY <2>1, ConstantsAssumption DEF ChainOrder, DepthInv, Maturable
  <1>2. IInv /\ ChainOrder /\ [Next]_vars => ChainOrder'
    BY NextChain
  <1>3. IInv /\ ChainOrder /\ DepthInv /\ [Next]_vars => DepthInv'
    BY NextDepth
  <1>4. IInv /\ DepthInv => \A o \in Orders, r \in Row : Final(o, r) => PaidForGood(o)
    <2> SUFFICES ASSUME IInv, NEW o \in Orders, NEW r \in Row, Final(o, r)
                 PROVE  PaidForGood(o)
      OBVIOUS
    <2>1. PICK i \in LogIdx : processed[<<r.tx, i>>] = o
      BY DEF Final, Bought
    <2>2. <<r.tx, i>> \in Txs \X LogIdx /\ <<r.tx, i>>[1] = r.tx
      BY DEF Final, Bought, Holds
    <2> QED
      BY <2>1, <2>2 DEF PaidForGood, Consumed, Final, Bought, Holds
  <1>5. IInv /\ DepthInv /\ (PromoteWrite \/ (\E w \in Workers : RefreshWrite(w))) =>
          \A o \in Orders : order[o].status # "delivered" /\ order'[o].status = "delivered"
                            => PaidForGood(o)
    <2> SUFFICES ASSUME IInv, DepthInv, PromoteWrite \/ (\E w \in Workers : RefreshWrite(w)),
                        NEW o \in Orders, order[o].status # "delivered",
                        order'[o].status = "delivered"
                 PROVE  \E r \in Row : Final(o, r)
      BY <1>4
    <2>0. order[o] \in Row /\ order \in [Orders -> Row]
      BY DEF IInv, TypeOK
    <2>1. CASE PromoteWrite
      <3> DEFINE v == o \in sw.valid
      <3>1. order'[o] = Mature(order[o], sw.seen[o], v, clock) /\ sw.pc = "commit"
        BY <2>0, <2>1 DEF PromoteWrite
      <3>2. v \in BOOLEAN
        OBVIOUS
      <3> HIDE DEF v
      <3>3. v
        BY <2>0, <3>1, <3>2, MatureNeedsReceipt
      <3> QED
        BY <3>1, <3>3 DEF v, DepthInv, IInv, TypeOK, Sweep_
    <2>2. ASSUME NEW w \in Workers, RefreshWrite(w) PROVE \E r \in Row : Final(o, r)
      <3>1. /\ order' = [order EXCEPT ![req[w].o] =
                           Mature(order[req[w].o], req[w].snap, req[w].valid, clock)]
            /\ req[w].pc = "mature" /\ req[w].snap \in Row /\ req[w].valid \in BOOLEAN
        BY <2>2 DEF RefreshWrite, IInv, TypeOK, Request_
      <3>2. req[w].o = o
        BY <2>0, <3>1
      <3>3. req[w].valid
        BY <2>0, <3>1, <3>2, MatureNeedsReceipt
      <3> QED
        BY <3>1, <3>2, <3>3 DEF DepthInv
    <2> QED
      BY <2>1, <2>2
  <1> QED
    BY <1>1, <1>2, <1>3, <1>5, Invariance, PTL DEF Spec, MaturedIsFinal

=============================================================================
