------------------------- MODULE AgentOrdersProofs -------------------------
(***************************************************************************)
(* Safety of AgentOrders, for any number of orders, transactions and       *)
(* threads.  A delivery is backed although the request or the tick that    *)
(* makes it decided on what it read earlier, because chain facts only      *)
(* grow: what was mined stays mined, and a transfer pays only orders that  *)
(* existed when it was mined.  The invariant says what each thread's       *)
(* locals promise about the chain.  Two sections add that the walk gives   *)
(* away no more than a transfer moved, and that what the reaper voids was  *)
(* not paid.                                                               *)
(***************************************************************************)
EXTENDS AgentOrders, SumLemmas

\* A request in flight names an order that exists, and an answer with a
\* transaction names one that pays that order.
Requests ==
  \A w \in Workers :
    /\ req[w].pc # "idle" => req[w].order \in Orders /\ order[req[w].order].status # "none"
    /\ req[w].pc = "record" /\ req[w].ans \in Txs => req[w].order \in txs[req[w].ans].pays

\* Only orders that exist are authorized or paid, and never before they existed.
Payments ==
  /\ \A o \in Orders : /\ order[o].status = "none" => auth[o] = "no"
                       /\ order[o].createdBlock <= head
  /\ \A t \in Txs : \A o \in txs[t].pays :
       /\ txs[t].block # 0 /\ txs[t].block >= order[o].createdBlock
       /\ order[o].status # "none"

\* What a tick found is mined, and it only walks for somebody.
Walks ==
  \A p \in Loops : /\ \A t \in rec[p].found : txs[t].block # 0
                   /\ rec[p].pc = "head" => rec[p].list # {}

IInv == TypeOK /\ Requests /\ Payments /\ Walks /\ DeliveredHasTransfer

ReqRec == [pc : RequestPC, order : Orders \cup {0}, ans : Refs]
TickRec == [pc : TickPC, since : Nat, list : SUBSET Orders, found : SUBSET Txs,
            consumed : SUBSET (Txs \cup {Pending}), at : Nat, next : Nat]
ScanRec == [cursor : Nat, atHead : BOOLEAN, scanned : SUBSET Orders, stamped : BOOLEAN]

\* A transfer that may back order o.
Backs(t, o) == txs[t].block # 0 /\ txs[t].block >= order[o].createdBlock

\* What a write may do to row o: it ends a settling order, and delivers it only
\* on a transfer that backs it.
Kept(o, new) ==
  /\ new \in Row
  /\ new.createdBlock = order[o].createdBlock
  /\ new.status = "none" <=> order[o].status = "none"
  /\ \/ new.status # "delivered"
     \/ new.status = order[o].status /\ new.tx = order[o].tx
     \/ new.tx \in Txs /\ Backs(new.tx, o)

-----------------------------------------------------------------------------
(* Lemmas on data *)

\* Min of FiniteSetsExt on two numbers.
LEMMA MinOfTwo ==
  ASSUME NEW a \in Int, NEW b \in Int
  PROVE  Min({a, b}) \in {a, b} /\ Min({a, b}) <= a /\ Min({a, b}) <= b
<1>1. \E x \in {a, b} : \A y \in {a, b} : x <= y
  <2>1. CASE a <= b
    BY <2>1
  <2>2. CASE b <= a
    BY <2>2
  <2>3. QED
    BY <2>1, <2>2
<1>2. QED
  BY <1>1 DEF Min

\* Max of FiniteSetsExt on two numbers.
LEMMA MaxOfTwo ==
  ASSUME NEW a \in Int, NEW b \in Int
  PROVE  Max({a, b}) \in {a, b} /\ Max({a, b}) >= a /\ Max({a, b}) >= b
<1>1. \E x \in {a, b} : \A y \in {a, b} : x >= y
  <2>1. CASE a <= b
    BY <2>1
  <2>2. CASE b <= a
    BY <2>2
  <2>3. QED
    BY <2>1, <2>2
<1>2. QED
  BY <1>1 DEF Max

\* Heights are clamped at the first block.
LEMMA ClampedIsNat ==
  ASSUME NEW a \in Int
  PROVE  Max({a, 0}) \in Nat
<1> DEFINE m == Max({a, 0})
<1>1. m \in {a, 0} /\ m >= 0
  BY MaxOfTwo
<1> HIDE DEF m
<1>2. m \in Nat
  BY <1>1
<1> QED
  BY <1>2 DEF m

\* The oldest of some orders exists: < is well-founded on the order ids.
LEMMA LeastOf ==
  ASSUME NEW S \in SUBSET Nat, S # {}
  PROVE  \E x \in S : \A y \in S : x <= y
<1> DEFINE R == {ss \in Nat \X Nat : ss[1] < ss[2]}
<1>1. IsWellFoundedOn(R, Nat)
  BY NatLessThanWellFounded DEF OpToRel
<1>2. \A x, y \in Nat : <<x, y>> \in R <=> x < y
  OBVIOUS
<1> HIDE DEF R
<1>3. PICK x \in S : \A y \in S : ~ (<<y, x>> \in R)
  BY <1>1, WFMin
<1>4. ASSUME NEW y \in S
      PROVE  x <= y
  <2>1. x \in Nat /\ y \in Nat
    OBVIOUS
  <2>2. ~ (y < x)
    BY <1>2, <1>3, <2>1
  <2> QED
    BY <2>1, <2>2
<1> QED
  BY <1>4

\* A walk starts at a block (_scan_start, and the cursor kept for the pair).
LEMMA StartIsBlock ==
  ASSUME ConstantsAssumption, TypeOK, NEW S \in SUBSET Orders, S # {}
  PROVE  ScanStart(S) \in Nat
<1>1. head \in Nat /\ scan.cursor \in Nat /\ LOOKBACK \in Nat /\ SAFETY_BLOCKS \in Nat
  BY DEF TypeOK, ConstantsAssumption
<1>2. Max({head - LOOKBACK, 0}) \in Nat
  <2>1. head - LOOKBACK \in Int
    BY <1>1
  <2> QED
    BY <2>1, ClampedIsNat
<1>3. Anchor(S) \in Nat
  <2> DEFINE oldest == CHOOSE o \in S : \A q \in S : o <= q
             depth == ((head - order[oldest].bornAt) * 5) \div 4 + SAFETY_BLOCKS
             a == Max({head - LOOKBACK, 0})
             b == Max({head - depth, 0})
  <2>1. S \in SUBSET Nat
    BY DEF Orders, ConstantsAssumption
  <2>2. \E o \in S : \A q \in S : o <= q
    BY <2>1, LeastOf
  <2>3. oldest \in Orders
    BY <2>2
  <2> HIDE DEF oldest
  <2>4. order[oldest].bornAt \in Nat
    BY <2>3 DEF TypeOK, Row
  <2>5. head - depth \in Int
    BY <1>1, <2>4
  <2> HIDE DEF depth
  <2>6. a \in Nat /\ b \in Nat
    BY <1>2, <2>5, ClampedIsNat
  <2> HIDE DEF a, b
  <2>7. Min({a, b}) \in {a, b}
    BY SMTT(60), <2>6, MinOfTwo
  <2> QED
    BY <2>6, <2>7 DEF Anchor, a, b, depth, oldest
<1> QED
  BY <1>1, <1>2, <1>3 DEF ScanStart

-----------------------------------------------------------------------------
(* Lemmas on rows *)

\* The orders table after a step that only does to rows what Kept allows.
RowsKept == /\ order' = [o \in Orders |-> order'[o]]
            /\ \A o \in Orders : Kept(o, order'[o])

\* Voiding an order, holding it for a pending reference, or leaving it alone.
LEMMA HeldOrVoided ==
  ASSUME ConstantsAssumption, TypeOK, NEW o \in Orders
  PROVE  /\ Kept(o, order[o])
         /\ Kept(o, VoidSettling(order[o]))
         /\ Kept(o, Transition(order[o], [order[o] EXCEPT !.ref = Pending]))
<1>1. order[o] \in Row
  BY DEF TypeOK
<1>2. Kept(o, order[o])
  BY <1>1 DEF Kept
<1>3. "canceled" \in Status /\ Pending \in Refs
  BY DEF Status, Refs
<1>4. Kept(o, [order[o] EXCEPT !.status = "canceled"]) \/ order[o].status # "settling"
  BY <1>1, <1>3 DEF Kept, Row
<1>5. Kept(o, [order[o] EXCEPT !.ref = Pending]) \/ order[o].status # "settling"
  BY <1>1, <1>3 DEF Kept, Row
<1> QED
  BY <1>2, <1>4, <1>5 DEF VoidSettling, Transition

\* Delivering an order on a transfer that backs it.
LEMMA DeliveredOn ==
  ASSUME ConstantsAssumption, TypeOK, NEW o \in Orders, NEW t \in Txs, Backs(t, o)
  PROVE  /\ Kept(o, FinalizeSettled(order[o], t))
         /\ Kept(o, FinalizeStamped(order[o], t))
<1>1. order[o] \in Row /\ Kept(o, order[o])
  BY HeldOrVoided DEF TypeOK
<1>2. "delivered" \in Status /\ t \in Refs
  BY DEF Status, TERMINAL_DELIVERED, Refs
<1>3. \/ Kept(o, [order[o] EXCEPT !.status = "delivered", !.tx = t])
      \/ order[o].status # "settling"
  BY <1>1, <1>2 DEF Kept, Row
<1>4. \/ Kept(o, [order[o] EXCEPT !.status = "delivered", !.tx = t, !.ref = t])
      \/ order[o].status # "settling"
  BY <1>1, <1>2 DEF Kept, Row
<1> QED
  BY <1>1, <1>3, <1>4 DEF FinalizeSettled, FinalizeStamped, Transition

\* A step that changes one row.
LEMMA OneRow ==
  ASSUME TypeOK, ConstantsAssumption, NEW o \in Orders, NEW new,
         order' = [order EXCEPT ![o] = new], Kept(o, new)
  PROVE  RowsKept
<1>1. \A q \in Orders : Kept(q, order[q])
  BY HeldOrVoided
<1>2. order \in [Orders -> Row]
  BY DEF TypeOK
<1> QED
  BY <1>1, <1>2 DEF RowsKept

\* A step that changes none.
LEMMA NoRowChanged ==
  ASSUME TypeOK, ConstantsAssumption, UNCHANGED order
  PROVE  RowsKept
<1>1. \A q \in Orders : Kept(q, order[q])
  BY HeldOrVoided
<1>2. order \in [Orders -> Row]
  BY DEF TypeOK
<1> QED
  BY <1>1, <1>2 DEF RowsKept

\* With the chain as it was, such rows keep every promise about them.
LEMMA RowsStayBacked ==
  ASSUME TypeOK, Payments, DeliveredHasTransfer, RowsKept, UNCHANGED <<auth, txs, head>>
  PROVE  /\ order' \in [Orders -> Row]
         /\ Payments' /\ DeliveredHasTransfer'
<1>1. order' \in [Orders -> Row]
  BY DEF RowsKept, Kept
<1>2. Payments'
  <2>1. ASSUME NEW o \in Orders
        PROVE  /\ order'[o].status = "none" <=> order[o].status = "none"
               /\ order'[o].createdBlock = order[o].createdBlock
    BY DEF RowsKept, Kept
  <2>2. \A t \in Txs : txs[t].pays \subseteq Orders
    BY DEF TypeOK
  <2> QED
    BY <2>1, <2>2 DEF Payments
<1>3. DeliveredHasTransfer'
  <2> SUFFICES ASSUME NEW o \in Orders, order'[o].status = "delivered"
               PROVE  order'[o].tx \in Txs /\ txs[order'[o].tx].block # 0
                      /\ txs[order'[o].tx].block >= order'[o].createdBlock
    BY DEF DeliveredHasTransfer
  <2>1. Kept(o, order'[o])
    BY DEF RowsKept
  <2>2. CASE order'[o].status = order[o].status /\ order'[o].tx = order[o].tx
    BY <2>1, <2>2 DEF Kept, DeliveredHasTransfer
  <2>3. CASE order'[o].tx \in Txs /\ Backs(order'[o].tx, o)
    BY <2>1, <2>3 DEF Kept, Backs
  <2> QED
    BY <2>1, <2>2, <2>3 DEF Kept
<1> QED
  BY <1>1, <1>2, <1>3

-----------------------------------------------------------------------------
(* Steps of the requests *)

\* What a request's locals promise (Requests, for one record).
Promise(r) ==
  /\ r \in ReqRec
  /\ r.pc # "idle" => r.order \in Orders /\ order[r.order].status # "none"
  /\ r.pc = "record" /\ r.ans \in Txs => r.order \in txs[r.ans].pays

\* A step of one request that leaves the chain and the ticks alone.
LEMMA RequestStep ==
  ASSUME ConstantsAssumption, IInv, NEW w \in Workers, NEW r,
         req' = [req EXCEPT ![w] = r], Promise(r), RowsKept,
         UNCHANGED <<loopVars, chainVars, auth, buys, faults, misses>>
  PROVE  IInv'
<1>1. order' \in [Orders -> Row] /\ Payments' /\ DeliveredHasTransfer'
  BY RowsStayBacked DEF IInv, chainVars
<1>2. TypeOK'
  <2>1. req' \in [Workers -> ReqRec]
    BY DEF IInv, TypeOK, Promise, ReqRec
  <2> QED
    BY <1>1, <2>1 DEF IInv, TypeOK, ReqRec, loopVars, chainVars
<1>3. Requests'
  <2>1. \A o \in Orders : order'[o].status = "none" <=> order[o].status = "none"
    BY DEF RowsKept, Kept
  <2> SUFFICES ASSUME NEW v \in Workers
               PROVE  /\ req'[v].pc # "idle" =>
                           req'[v].order \in Orders /\ order'[req'[v].order].status # "none"
                      /\ req'[v].pc = "record" /\ req'[v].ans \in Txs =>
                           req'[v].order \in txs'[req'[v].ans].pays
    BY DEF Requests
  <2>2. CASE v = w
    <3>1. req'[v] = r
      BY <2>2 DEF IInv, TypeOK
    <3> QED
      BY <2>1, <3>1 DEF Promise, chainVars
  <2>3. CASE v # w
    <3>1. req'[v] = req[v]
      BY <2>3 DEF IInv, TypeOK
    <3> QED
      BY <2>1, <3>1 DEF IInv, Requests, chainVars
  <2> QED
    BY <2>2, <2>3
<1>4. Walks'
  BY DEF IInv, Walks, loopVars, chainVars
<1> QED
  BY <1>1, <1>2, <1>3, <1>4 DEF IInv

\* What the invariant says of the request at hand.
LEMMA RequestPromises ==
  ASSUME IInv, NEW w \in Workers
  PROVE  Promise(req[w]) /\ req \in [Workers -> ReqRec]
BY DEF IInv, TypeOK, Requests, Promise, ReqRec

\* A request is over.
LEMMA IdlePromises == Promise(Idle)
BY DEF Promise, Idle, ReqRec, RequestPC, Refs

\* Goto, with a transaction only where it pays the request's order.
LEMMA GotoPromises ==
  ASSUME IInv, NEW w \in Workers, NEW pc \in {"answer", "record", "hook"}, NEW ans \in Refs,
         req[w].pc # "idle", Goto(w, pc, ans),
         pc = "record" /\ ans \in Txs => req[w].order \in txs[ans].pays
  PROVE  LET r == [req[w] EXCEPT !.pc = pc, !.ans = ans]
         IN  req' = [req EXCEPT ![w] = r] /\ Promise(r)
<1>1. Promise(req[w]) /\ req \in [Workers -> ReqRec]
  BY RequestPromises
<1>2. pc \in RequestPC
  BY DEF RequestPC
<1> DEFINE r == [req[w] EXCEPT !.pc = pc, !.ans = ans]
<1>3. r \in ReqRec /\ r.pc = pc /\ r.ans = ans /\ r.order = req[w].order
  BY <1>1, <1>2 DEF ReqRec
<1>4. req' = [req EXCEPT ![w] = r]
  BY <1>1 DEF Goto, ReqRec
<1> HIDE DEF r
<1>5. Promise(r)
  BY <1>1, <1>3 DEF Promise
<1> QED
  BY <1>4, <1>5 DEF r

\* A refused settle leads to the hook.
LEMMA RefuseKeeps ==
  ASSUME ConstantsAssumption, IInv, NEW w \in Workers, Refuse(w)
  PROVE  IInv'
<1>1. RowsKept
  BY NoRowChanged DEF Refuse, dbVars, IInv
<1>2. req[w].pc # "idle" /\ Goto(w, "hook", NoTx)
  BY DEF Refuse
<1>3. NoTx \in Refs
  BY DEF Refs
<1> DEFINE r == [req[w] EXCEPT !.pc = "hook", !.ans = NoTx]
<1>4. req' = [req EXCEPT ![w] = r] /\ Promise(r)
  BY <1>2, <1>3, GotoPromises
<1> HIDE DEF r
<1> QED
  BY <1>1, <1>4, RequestStep DEF Refuse

\* The response names a transaction only if that transaction pays the order.
LEMMA AnswerKeeps ==
  ASSUME ConstantsAssumption, IInv, NEW w \in Workers, Answer(w)
  PROVE  IInv'
<1>1. RowsKept
  BY NoRowChanged DEF Answer, dbVars, IInv
<1>2. PICK pc \in {"answer", "record", "hook"}, ans \in Refs :
        /\ req[w].pc # "idle" /\ Goto(w, pc, ans)
        /\ pc = "record" /\ ans \in Txs => req[w].order \in txs[ans].pays
  BY DEF Answer, Refs, ConstantsAssumption
<1> DEFINE r == [req[w] EXCEPT !.pc = pc, !.ans = ans]
<1>4. req' = [req EXCEPT ![w] = r] /\ Promise(r)
  BY ZenonT(60), <1>2, GotoPromises
<1> HIDE DEF r
<1> QED
  BY <1>1, <1>4, RequestStep DEF Answer

\* record_settlement delivers on a transaction that pays the order.
LEMMA RecordKeeps ==
  ASSUME ConstantsAssumption, IInv, NEW w \in Workers, Record(w)
  PROVE  IInv'
<1> DEFINE o == req[w].order
           ans == req[w].ans
           new == CASE ans \in Txs -> FinalizeSettled(order[o], ans)
                    [] ans = Pending -> Transition(order[o], [order[o] EXCEPT !.ref = Pending])
                    [] OTHER -> order[o]
<1>1. o \in Orders /\ (ans \in Txs => o \in txs[ans].pays)
  BY RequestPromises DEF Record, Promise
<1>2. order' = [order EXCEPT ![o] = new]
  BY <1>1 DEF Record, IInv, TypeOK
<1>3. ans \in Txs => Backs(ans, o)
  BY <1>1 DEF IInv, Payments, Backs
<1>4. TypeOK
  BY DEF IInv
<1> HIDE DEF o, ans
<1>5. Kept(o, new)
  <2>1. CASE ans \in Txs
    BY <1>1, <1>3, <1>4, <2>1, DeliveredOn DEF ConstantsAssumption
  <2>2. CASE ans \notin Txs
    BY <1>1, <1>4, <2>2, HeldOrVoided
  <2> QED
    BY <2>1, <2>2
<1> HIDE DEF new
<1>6. RowsKept
  BY <1>1, <1>2, <1>4, <1>5, OneRow
<1> QED
  BY <1>6, IdlePromises, RequestStep DEF Record

\* settle_failed_core voids an order or leaves it alone.
LEMMA HookKeeps ==
  ASSUME ConstantsAssumption, IInv, NEW w \in Workers, Hook(w)
  PROVE  IInv'
<1> DEFINE o == req[w].order
           new == IF order[o].status \in TERMINAL_DELIVERED THEN order[o]
                  ELSE VoidSettling(order[o])
<1>1. o \in Orders
  BY RequestPromises DEF Hook, Promise
<1>2. order' = [order EXCEPT ![o] = new]
  BY <1>1 DEF Hook, IInv, TypeOK
<1>4. TypeOK
  BY DEF IInv
<1> HIDE DEF o
<1>5. Kept(o, new)
  BY <1>1, <1>4, HeldOrVoided
<1> HIDE DEF new
<1>6. RowsKept
  BY <1>1, <1>2, <1>4, <1>5, OneRow
<1> QED
  BY <1>6, IdlePromises, RequestStep DEF Hook

\* A new order: nobody was authorized to pay it, and nothing paid it yet.
LEMMA CreateKeeps ==
  ASSUME ConstantsAssumption, IInv, NEW w \in Workers, NEW o \in Unborn,
         NEW price \in Prices, NEW block \in {0, head},
         Create(w, o, price, block), UNCHANGED <<auth, chainVars>>
  PROVE  /\ order' \in [Orders -> Row] /\ faults' \in 0..MaxFaults
         /\ Payments' /\ DeliveredHasTransfer'
         /\ \A q \in Orders : order'[q].status = "none" => order[q].status = "none"
         /\ order'[o].status # "none"
<1> DEFINE new == [NoRow EXCEPT !.status = "settling", !.expected = price,
                                !.createdBlock = block, !.bornAt = head]
<1>1. order \in [Orders -> Row] /\ o \in Orders /\ order[o].status = "none"
  BY DEF IInv, TypeOK, Unborn
<1>2. head \in Nat /\ block \in Nat /\ price \in Nat /\ block <= head
  BY DEF IInv, TypeOK, ConstantsAssumption
<1>3. new \in Row /\ new.status = "settling" /\ new.createdBlock = block
  <2>1. "settling" \in Status /\ NoTx \in Refs
    BY DEF Status, Refs
  <2> QED
    BY <1>2, <2>1 DEF NoRow, Row
<1>4. order' = [order EXCEPT ![o] = new]
  BY DEF Create
<1> HIDE DEF new
<1>5. order' \in [Orders -> Row] /\ order'[o] = new
      /\ \A q \in Orders : q # o => order'[q] = order[q]
  BY <1>1, <1>3, <1>4
<1>6. faults' \in 0..MaxFaults
  BY DEF Create, IInv, TypeOK, ConstantsAssumption
<1>7. Payments'
  <2>1. UNCHANGED <<auth, txs, head>>
    BY DEF chainVars
  <2>2. \A t \in Txs : txs[t].pays \subseteq Orders /\ o \notin txs[t].pays
    BY <1>1 DEF IInv, TypeOK, Payments
  <2>3. ASSUME NEW q \in Orders
        PROVE  /\ order'[q].status = "none" => auth'[q] = "no"
               /\ order'[q].createdBlock <= head'
    BY <1>2, <1>3, <1>5, <2>1 DEF IInv, Payments
  <2>4. ASSUME NEW t \in Txs, NEW q \in txs'[t].pays
        PROVE  /\ txs'[t].block # 0 /\ txs'[t].block >= order'[q].createdBlock
               /\ order'[q].status # "none"
    BY <1>5, <2>1, <2>2 DEF IInv, Payments
  <2> QED
    BY <2>3, <2>4 DEF Payments
<1>8. DeliveredHasTransfer'
  <2>1. UNCHANGED txs
    BY DEF chainVars
  <2> QED
    BY <1>3, <1>5, <2>1 DEF IInv, DeliveredHasTransfer
<1> QED
  BY <1>1, <1>3, <1>5, <1>6, <1>7, <1>8

\* A paid request creates an order, or names one that exists.
LEMMA BuyKeeps ==
  ASSUME ConstantsAssumption, IInv, NEW w \in Workers, Buy(w)
  PROVE  IInv'
<1>1. PICK o \in Orders :
        /\ \/ o \in Unborn /\ \E price \in Prices, block \in {0, head} : Create(w, o, price, block)
           \/ o \notin Unborn /\ UNCHANGED <<order, faults>>
        /\ req' = [req EXCEPT ![w] = [pc |-> "settle", order |-> o, ans |-> NoTx]]
  BY DEF Buy
<1>2. UNCHANGED <<rec, scan, lastWalk, txs, head, auth, misses>> /\ UNCHANGED <<auth, chainVars>>
  BY DEF Buy, loopVars, chainVars
<1>3. /\ order' \in [Orders -> Row] /\ faults' \in 0..MaxFaults
      /\ Payments' /\ DeliveredHasTransfer'
      /\ \A q \in Orders : order'[q].status = "none" => order[q].status = "none"
      /\ order'[o].status # "none"
  <2>1. CASE o \in Unborn
    BY <1>1, <1>2, <2>1, CreateKeeps
  <2>2. CASE o \notin Unborn
    BY <1>1, <1>2, <2>2 DEF IInv, TypeOK, Unborn, Payments, DeliveredHasTransfer
  <2> QED
    BY <2>1, <2>2
<1> DEFINE r == [pc |-> "settle", order |-> o, ans |-> NoTx]
<1>4. r \in ReqRec /\ r.pc = "settle" /\ r.order = o
  BY DEF ReqRec, RequestPC, Refs
<1>5. req' = [req EXCEPT ![w] = r] /\ req \in [Workers -> ReqRec]
  BY <1>1, RequestPromises
<1> HIDE DEF r
<1>6. TypeOK'
  <2>1. req' \in [Workers -> ReqRec]
    BY <1>4, <1>5
  <2>2. buys' \in 0..MaxBuys
    BY DEF Buy, IInv, TypeOK, ConstantsAssumption
  <2> QED
    BY <1>2, <1>3, <2>1, <2>2 DEF IInv, TypeOK, ReqRec
<1>7. Requests'
  <2> SUFFICES ASSUME NEW v \in Workers
               PROVE  /\ req'[v].pc # "idle" =>
                           req'[v].order \in Orders /\ order'[req'[v].order].status # "none"
                      /\ req'[v].pc = "record" /\ req'[v].ans \in Txs =>
                           req'[v].order \in txs'[req'[v].ans].pays
    BY DEF Requests
  <2>1. CASE v = w
    BY <1>3, <1>4, <1>5, <2>1
  <2>2. CASE v # w
    <3>1. req'[v] = req[v]
      BY <1>5, <2>2
    <3> QED
      BY <1>2, <1>3, <3>1 DEF IInv, Requests
  <2> QED
    BY <2>1, <2>2
<1>8. Walks'
  BY <1>2 DEF IInv, Walks
<1> QED
  BY <1>3, <1>6, <1>7, <1>8 DEF IInv

\* Only an order that exists is authorized.
LEMMA AcceptKeeps ==
  ASSUME ConstantsAssumption, IInv, NEW w \in Workers, Accept(w)
  PROVE  IInv'
<1> DEFINE o == req[w].order
           r == [req[w] EXCEPT !.pc = "answer", !.ans = NoTx]
<1>1. UNCHANGED <<order, rec, scan, lastWalk, txs, head, buys, faults, misses>>
  BY DEF Accept, dbVars, loopVars, chainVars
<1>2. req[w].pc # "idle" /\ Goto(w, "answer", NoTx)
  BY DEF Accept
<1>3. o \in Orders /\ order[o].status # "none"
  BY <1>2, RequestPromises DEF Promise
<1>4. req' = [req EXCEPT ![w] = r] /\ Promise(r)
  <2>1. NoTx \in Refs
    BY DEF Refs
  <2> QED
    BY <1>2, <2>1, GotoPromises
<1>5. req \in [Workers -> ReqRec]
  BY RequestPromises
<1>6. auth' = [auth EXCEPT ![o] = IF auth[o] = "no" THEN "queued" ELSE auth[o]]
  BY DEF Accept
<1>7. auth \in [Orders -> {"no", "queued", "landed", "failed"}]
  BY DEF IInv, TypeOK
<1> HIDE DEF o, r
<1>8. auth' \in [Orders -> {"no", "queued", "landed", "failed"}]
      /\ \A q \in Orders : q # o => auth'[q] = auth[q]
  BY <1>3, <1>6, <1>7
<1>9. TypeOK'
  <2>1. req' \in [Workers -> ReqRec]
    BY <1>4, <1>5 DEF Promise
  <2> QED
    BY <1>1, <1>8, <2>1 DEF IInv, TypeOK, ReqRec
<1>10. Requests'
  <2> SUFFICES ASSUME NEW v \in Workers
               PROVE  /\ req'[v].pc # "idle" =>
                           req'[v].order \in Orders /\ order'[req'[v].order].status # "none"
                      /\ req'[v].pc = "record" /\ req'[v].ans \in Txs =>
                           req'[v].order \in txs'[req'[v].ans].pays
    BY DEF Requests
  <2>1. CASE v = w
    <3>1. req'[v] = r
      BY <1>4, <1>5, <2>1
    <3> QED
      BY <1>1, <1>4, <3>1 DEF Promise
  <2>2. CASE v # w
    <3>1. req'[v] = req[v]
      BY <1>4, <1>5, <2>2
    <3> QED
      BY <1>1, <3>1 DEF IInv, Requests
  <2> QED
    BY <2>1, <2>2
<1>11. Payments'
  BY <1>1, <1>3, <1>8 DEF IInv, Payments
<1>12. Walks' /\ DeliveredHasTransfer'
  BY <1>1 DEF IInv, Walks, DeliveredHasTransfer
<1> QED
  BY <1>9, <1>10, <1>11, <1>12 DEF IInv

-----------------------------------------------------------------------------
(* Steps of the background ticks *)

\* What a tick's locals promise (Walks, for one record).
Found(tick) ==
  /\ tick \in TickRec
  /\ \A t \in tick.found : txs[t].block # 0
  /\ tick.pc = "head" => tick.list # {}

\* A step of one tick that leaves the chain and the requests alone.
LEMMA TickStep ==
  ASSUME ConstantsAssumption, IInv, NEW p \in Loops, NEW tick,
         Become(p, tick), Found(tick), RowsKept,
         scan' \in ScanRec, lastWalk' \in Nat, faults' \in 0..MaxFaults, misses' \in 0..MaxMisses,
         UNCHANGED <<req, chainVars, auth, buys>>
  PROVE  IInv'
<1>1. order' \in [Orders -> Row] /\ Payments' /\ DeliveredHasTransfer'
  BY RowsStayBacked DEF IInv, chainVars
<1>2. rec \in [Loops -> TickRec] /\ rec' = [rec EXCEPT ![p] = tick]
  BY DEF IInv, TypeOK, TickRec, Become
<1>3. TypeOK'
  <2>1. rec' \in [Loops -> TickRec]
    BY <1>2 DEF Found
  <2> QED
    BY <1>1, <2>1 DEF IInv, TypeOK, TickRec, ScanRec, chainVars
<1>4. Requests'
  <2>1. \A o \in Orders : order'[o].status = "none" <=> order[o].status = "none"
    BY DEF RowsKept, Kept
  <2> QED
    BY <2>1 DEF IInv, Requests, chainVars
<1>5. Walks'
  <2> SUFFICES ASSUME NEW q \in Loops
               PROVE  /\ \A t \in rec'[q].found : txs'[t].block # 0
                      /\ rec'[q].pc = "head" => rec'[q].list # {}
    BY DEF Walks
  <2>1. CASE q = p
    BY <1>2, <2>1 DEF Found, chainVars
  <2>2. CASE q # p
    <3>1. rec'[q] = rec[q]
      BY <1>2, <2>2
    <3> QED
      BY <3>1 DEF IInv, Walks, chainVars
  <2> QED
    BY <2>1, <2>2
<1> QED
  BY <1>1, <1>3, <1>4, <1>5 DEF IInv

\* What the invariant says of the tick at hand.
LEMMA TickPromises ==
  ASSUME IInv, NEW p \in Loops
  PROVE  Found(rec[p])
BY DEF IInv, TypeOK, Walks, Found, TickRec

\* A tick that forgets what it found, or has not looked yet.
LEMMA FreshTick ==
  ASSUME NEW pc \in TickPC, NEW since \in Nat, NEW list \in SUBSET Orders,
         pc = "head" => list # {}
  PROVE  Found([NoTick EXCEPT !.pc = pc, !.since = since, !.list = list])
BY DEF Found, NoTick, TickRec

\* Types that most steps of a tick leave alone.
LEMMA TickTypes ==
  ASSUME IInv
  PROVE  /\ scan \in ScanRec /\ lastWalk \in Nat /\ head \in Nat
         /\ faults \in 0..MaxFaults /\ misses \in 0..MaxMisses
         /\ NoScan \in ScanRec
BY DEF IInv, TypeOK, ScanRec, NoScan

\* A tick that ends.
LEMMA IdleTick == Found(NoTick)
<1>1. "idle" \in TickPC
  BY DEF TickPC
<1> QED
  BY <1>1 DEF Found, NoTick, TickRec

\* _reap_tick asks the chain for its head.
LEMMA ReachableKeeps ==
  ASSUME ConstantsAssumption, IInv, NEW p \in Loops, Reachable(p)
  PROVE  IInv'
<1> DEFINE tick == [NoTick EXCEPT !.pc = "tick", !.since = head]
<1>1. Found(tick)
  <2>1. "tick" \in TickPC /\ head \in Nat
    BY TickTypes DEF TickPC
  <2> QED
    BY <2>1 DEF Found, NoTick, TickRec
<1>2. Become(p, tick)
  BY DEF Reachable
<1> HIDE DEF tick
<1>3. scan' \in ScanRec
  BY TickTypes DEF Reachable, ScanRec
<1>4. RowsKept
  BY NoRowChanged DEF Reachable, dbVars, IInv
<1> QED
  BY <1>1, <1>2, <1>3, <1>4, TickStep, TickTypes DEF Reachable

\* The candidates are orders, and a tick that goes on to walk has some.
LEMMA TickStartKeeps ==
  ASSUME ConstantsAssumption, IInv, NEW p \in Loops, TickStart(p)
  PROVE  IInv'
<1> DEFINE since == IF p = "reaper" THEN rec[p].since ELSE head
           cand == Oldest(Unreferenced)
           tick0 == [NoTick EXCEPT !.since = since, !.list = cand]
<1>1. since \in Nat
  BY TickPromises, TickTypes DEF Found, TickRec
<1>2. cand \in SUBSET Orders
  BY DEF Oldest, Unreferenced, Settling
<1>3. AfterScan(p) \in TickPC /\ "head" \in TickPC /\ AfterScan(p) # "head"
  BY DEF AfterScan, TickPC
<1>4. PICK tick : Become(p, tick) /\ Found(tick)
  <2>1. Found([tick0 EXCEPT !.pc = AfterScan(p), !.list = {}])
    BY <1>1, <1>3 DEF Found, NoTick, TickRec
  <2>2. Found([tick0 EXCEPT !.pc = AfterScan(p)])
    BY <1>1, <1>2, <1>3 DEF Found, NoTick, TickRec
  <2>3. cand # {} => Found([tick0 EXCEPT !.pc = "head"])
    BY <1>1, <1>2, <1>3 DEF Found, NoTick, TickRec
  <2>4. \/ Become(p, [tick0 EXCEPT !.pc = AfterScan(p), !.list = {}])
        \/ Become(p, [tick0 EXCEPT !.pc = AfterScan(p)])
        \/ cand # {} /\ Become(p, [tick0 EXCEPT !.pc = "head"])
    BY DEF TickStart, NoTick
  <2> QED
    BY <2>1, <2>2, <2>3, <2>4
<1>5. scan' \in ScanRec /\ lastWalk' \in Nat
  <2>1. [NoScan EXCEPT !.stamped = TRUE] \in ScanRec
    BY DEF NoScan, ScanRec
  <2>2. CASE UNCHANGED <<scan, lastWalk>>
    BY <2>2, TickTypes
  <2>3. CASE scan' = [NoScan EXCEPT !.stamped = TRUE] /\ lastWalk' = 0
    BY <2>1, <2>3
  <2> QED
    BY <2>2, <2>3 DEF TickStart
<1>6. RowsKept
  BY NoRowChanged DEF TickStart, dbVars, IInv
<1>7. UNCHANGED <<req, chainVars, auth, buys, faults, misses>>
  BY DEF TickStart
<1> QED
  BY <1>4, <1>5, <1>6, <1>7, TickStep, TickTypes

\* The scan finds mined transfers and remembers a block to go on from.
LEMMA ScanKeeps ==
  ASSUME ConstantsAssumption, IInv, NEW p \in Loops, Scan(p)
  PROVE  IInv'
<1> DEFINE start == ScanStart(rec[p].list)
           last == Min({start + WALK - 1, head})
<1>1. rec[p] \in TickRec /\ rec[p].list \in SUBSET Orders /\ rec[p].list # {}
  BY TickPromises DEF Found, TickRec, Scan
<1>2. start \in Nat
  BY <1>1, StartIsBlock DEF IInv
<1>3. last \in Nat
  <2>1. head \in Nat /\ WALK \in Nat \ {0}
    BY TickTypes DEF ConstantsAssumption
  <2> HIDE DEF start
  <2> DEFINE a == start + WALK - 1
  <2>2. a \in Nat
    BY <1>2, <2>1
  <2> HIDE DEF a
  <2>3. Min({a, head}) \in {a, head}
    <3>1. a \in Int /\ head \in Int
      BY <2>1, <2>2
    <3> QED
      BY <3>1, MinOfTwo
  <2> QED
    BY <2>1, <2>2, <2>3 DEF a
<1>4. PICK missed \in SUBSET Mined(start, last) :
        /\ misses + Cardinality(missed) <= MaxMisses
        /\ misses' = misses + Cardinality(missed)
        /\ Become(p, [rec[p] EXCEPT !.pc = "read", !.found = Mined(start, last) \ missed,
                        !.at = head, !.next = IF last = head THEN 0 ELSE last + 1])
  BY DEF Scan
<1> HIDE DEF start, last
<1> DEFINE tick == [rec[p] EXCEPT !.pc = "read", !.found = Mined(start, last) \ missed,
                      !.at = head, !.next = IF last = head THEN 0 ELSE last + 1]
           next == IF last = head THEN 0 ELSE last + 1
           got == Mined(start, last) \ missed
<1>5. Found(tick)
  <2>1. next \in Nat /\ head \in Nat
    BY <1>3, TickTypes
  <2>2. got \in SUBSET Txs /\ \A t \in got : txs[t].block # 0
    BY DEF Mined
  <2>3. "read" \in TickPC
    BY DEF TickPC
  <2> HIDE DEF got, next
  <2>4. Found([rec[p] EXCEPT !.pc = "read", !.found = got, !.at = head, !.next = next])
    BY <1>1, <2>1, <2>2, <2>3 DEF Found, TickRec
  <2> QED
    BY <2>4 DEF got, next
<1>6. misses' \in 0..MaxMisses
  <2>1. missed \subseteq Txs /\ IsFiniteSet(Txs)
    BY DEF Mined, ConstantsAssumption
  <2>2. Cardinality(missed) \in Nat
    BY <2>1, FS_Subset, FS_CardinalityType
  <2> HIDE DEF tick
  <2> QED
    BY <1>4, <2>2 DEF IInv, TypeOK, ConstantsAssumption
<1>7. Become(p, tick)
  BY <1>4
<1> HIDE DEF tick
<1>8. RowsKept
  BY NoRowChanged DEF Scan, dbVars, IInv
<1>9. UNCHANGED <<req, scan, lastWalk, chainVars, auth, buys, faults>>
  BY DEF Scan
<1> QED
  BY <1>5, <1>6, <1>7, <1>8, <1>9, TickStep, TickTypes

\* A scan that fails keeps the orders and forgets at most what was scanned.
LEMMA ScanFailsKeeps ==
  ASSUME ConstantsAssumption, IInv, NEW p \in Loops, ScanFails(p)
  PROVE  IInv'
<1> DEFINE tick == [NoTick EXCEPT !.pc = AfterScan(p), !.since = rec[p].since]
<1>1. Found(tick)
  <2>1. rec[p].since \in Nat
    BY TickPromises DEF Found, TickRec
  <2>2. AfterScan(p) \in TickPC /\ AfterScan(p) # "head"
    BY DEF AfterScan, TickPC
  <2> QED
    BY <2>1, <2>2 DEF Found, NoTick, TickRec
<1>2. Become(p, tick)
  BY DEF ScanFails
<1> HIDE DEF tick
<1>3. scan' \in ScanRec
  <2>1. scan \in ScanRec
    BY TickTypes
  <2>2. [scan EXCEPT !.scanned = {}] \in ScanRec
    BY <2>1 DEF ScanRec
  <2> QED
    BY <2>1, <2>2 DEF ScanFails
<1>4. faults' \in 0..MaxFaults
  BY DEF ScanFails, IInv, TypeOK, ConstantsAssumption
<1>5. RowsKept
  BY NoRowChanged DEF ScanFails, dbVars, IInv
<1>6. UNCHANGED <<req, lastWalk, chainVars, auth, buys, misses>>
  BY DEF ScanFails
<1> QED
  BY <1>1, <1>2, <1>3, <1>4, <1>5, <1>6, TickStep, TickTypes

\* Reading the used-up transactions.
LEMMA ReadConsumedKeeps ==
  ASSUME ConstantsAssumption, IInv, NEW p \in Loops, ReadConsumed(p)
  PROVE  IInv'
<1> DEFINE tick == [rec[p] EXCEPT !.pc = "write", !.consumed = Consumed]
<1>1. Consumed \in SUBSET (Txs \cup {Pending})
  <2>1. \A o \in Orders : order[o].ref \in Refs /\ order[o].tx \in Txs \cup {NoTx}
    BY DEF IInv, TypeOK, Row
  <2> QED
    BY <2>1 DEF Consumed, Refs
<1>2. Found(tick)
  <2>1. "write" \in TickPC /\ Found(rec[p])
    BY TickPromises DEF TickPC
  <2> QED
    BY <1>1, <2>1 DEF Found, TickRec
<1>3. Become(p, tick)
  BY DEF ReadConsumed
<1> HIDE DEF tick
<1>4. RowsKept
  BY NoRowChanged DEF ReadConsumed, dbVars, IInv
<1>5. UNCHANGED <<req, scan, lastWalk, chainVars, auth, buys, faults, misses>>
  BY DEF ReadConsumed
<1> QED
  BY <1>2, <1>3, <1>4, <1>5, TickStep, TickTypes

\* The walk delivers an order only on a transfer it found, not older than the
\* order (the created_block floor of _reconcile_chain_pair).
LEMMA PayerBacks ==
  ASSUME ConstantsAssumption, TypeOK, NEW o \in Orders, NEW list, NEW fresh \in SUBSET Txs,
         \A t \in fresh : txs[t].block # 0, PayerOf(o, list, fresh) # NoTx
  PROVE  PayerOf(o, list, fresh) \in Txs /\ Backs(PayerOf(o, list, fresh), o)
<1> DEFINE left == Unpaid(list, fresh)
           payers == {t \in fresh : o \in Covered(t, left[txs[t].block - 1])}
<1>1. \A S : \A t : o \in Covered(t, S) => txs[t].block >= order[o].createdBlock
  <2>1. o <= o
    BY DEF Orders, ConstantsAssumption
  <2> QED
    BY <2>1 DEF Covered
<1> HIDE DEF left
<1>2. payers # {} /\ PayerOf(o, list, fresh) = CHOOSE t \in payers : TRUE
  BY DEF PayerOf, left
<1>3. PayerOf(o, list, fresh) \in payers
  BY <1>2
<1> QED
  BY <1>1, <1>3 DEF Backs

LEMMA WriteKeeps ==
  ASSUME ConstantsAssumption, IInv, NEW p \in Loops, Write(p)
  PROVE  IInv'
<1> DEFINE list == rec[p].list
           fresh == rec[p].found \ rec[p].consumed
           tick == [NoTick EXCEPT !.pc = AfterScan(p), !.since = rec[p].since]
           new(o) == IF o \in list /\ PayerOf(o, list, fresh) # NoTx
                     THEN FinalizeStamped(order[o], PayerOf(o, list, fresh)) ELSE order[o]
<1>1. Found(rec[p]) /\ rec[p] \in TickRec
  BY TickPromises DEF Found
<1>2. Found(tick)
  <2>1. rec[p].since \in Nat
    BY <1>1 DEF TickRec
  <2>2. AfterScan(p) \in TickPC /\ AfterScan(p) # "head"
    BY DEF AfterScan, TickPC
  <2> QED
    BY <2>1, <2>2 DEF Found, NoTick, TickRec
<1>3. Become(p, tick)
  BY DEF Write
<1> HIDE DEF tick
<1>4. RowsKept
  <2>1. fresh \in SUBSET Txs /\ \A t \in fresh : txs[t].block # 0
    BY <1>1 DEF Found, TickRec
  <2>2. order' = [o \in Orders |-> new(o)]
    BY DEF Write
  <2> HIDE DEF list, fresh
  <2>3. ASSUME NEW o \in Orders
        PROVE  Kept(o, new(o))
    <3>1. TypeOK
      BY DEF IInv
    <3>2. CASE o \in list /\ PayerOf(o, list, fresh) # NoTx
      <4>1. PayerOf(o, list, fresh) \in Txs /\ Backs(PayerOf(o, list, fresh), o)
        BY <2>1, <3>1, <3>2, PayerBacks
      <4>2. Kept(o, FinalizeStamped(order[o], PayerOf(o, list, fresh)))
        BY <3>1, <4>1, DeliveredOn
      <4> QED
        BY <3>2, <4>2
    <3>3. CASE ~ (o \in list /\ PayerOf(o, list, fresh) # NoTx)
      <4>1. new(o) = order[o]
        BY <3>3
      <4> QED
        BY <3>1, <4>1, HeldOrVoided
    <3> QED
      BY <3>2, <3>3
  <2> HIDE DEF new
  <2> QED
    BY <2>2, <2>3 DEF RowsKept
<1>5. scan' \in ScanRec /\ lastWalk' \in Nat
  <2>1. rec[p].next \in Nat /\ rec[p].at \in Nat /\ rec[p].list \in SUBSET Orders
    BY <1>1 DEF TickRec
  <2>2. scan \in ScanRec /\ lastWalk \in Nat
    BY TickTypes
  <2>3. lastWalk' \in Nat
    BY <2>1, <2>2 DEF Write
  <2>4. scan' = [cursor |-> rec[p].next, atHead |-> scan.atHead \/ rec[p].next = 0,
                 scanned |-> IF rec[p].next = 0 THEN rec[p].list ELSE {},
                 stamped |-> scan.stamped \/ rec[p].next = 0]
    BY DEF Write
  <2> DEFINE ah == scan.atHead \/ rec[p].next = 0
             st == scan.stamped \/ rec[p].next = 0
             sc == IF rec[p].next = 0 THEN rec[p].list ELSE {}
  <2>5. ah \in BOOLEAN /\ st \in BOOLEAN /\ sc \in SUBSET Orders
    BY <2>1
  <2>6. scan' = [cursor |-> rec[p].next, atHead |-> ah, scanned |-> sc, stamped |-> st]
    BY <2>4
  <2> HIDE DEF ah, st, sc
  <2> QED
    BY <2>1, <2>3, <2>5, <2>6 DEF ScanRec
<1>6. UNCHANGED <<req, chainVars, auth, buys, faults, misses>>
  BY DEF Write
<1> QED
  BY <1>2, <1>3, <1>4, <1>5, <1>6, TickStep, TickTypes

LEMMA WriteFailsKeeps ==
  ASSUME ConstantsAssumption, IInv, NEW p \in Loops, WriteFails(p)
  PROVE  IInv'
<1>1. faults' \in 0..MaxFaults
  BY DEF WriteFails, IInv, TypeOK, ConstantsAssumption
<1>2. RowsKept
  BY NoRowChanged DEF WriteFails, dbVars, IInv
<1>3. Become(p, NoTick) /\ UNCHANGED <<req, scan, lastWalk, chainVars, auth, buys, misses>>
  BY DEF WriteFails
<1> QED
  BY <1>1, <1>2, <1>3, IdleTick, TickStep, TickTypes

LEMMA ReapReadKeeps ==
  ASSUME ConstantsAssumption, IInv, NEW p \in Loops, ReapRead(p)
  PROVE  IInv'
<1> DEFINE old == {o \in scan.scanned \cap Unreferenced : head - order[o].bornAt >= REAP_AFTER}
           tick == IF scan.stamped /\ old # {}
                   THEN [rec[p] EXCEPT !.pc = "void", !.list = old] ELSE NoTick
<1>1. Found(tick)
  <2>1. old \in SUBSET Orders
    BY DEF Unreferenced, Settling
  <2>2. "void" \in TickPC /\ Found(rec[p])
    BY TickPromises DEF TickPC
  <2> HIDE DEF old
  <2>3. Found([rec[p] EXCEPT !.pc = "void", !.list = old])
    BY <2>1, <2>2 DEF Found, TickRec
  <2> QED
    BY <2>3, IdleTick
<1>2. Become(p, tick)
  BY DEF ReapRead
<1> HIDE DEF tick
<1>3. RowsKept
  BY NoRowChanged DEF ReapRead, dbVars, IInv
<1>4. UNCHANGED <<req, scan, lastWalk, chainVars, auth, buys, faults, misses>>
  BY DEF ReapRead
<1> QED
  BY <1>1, <1>2, <1>3, <1>4, TickStep, TickTypes

LEMMA ReapKeeps ==
  ASSUME ConstantsAssumption, IInv, NEW p \in Loops, Reap(p)
  PROVE  IInv'
<1> DEFINE new(o) == IF o \in rec[p].list THEN VoidSettling(order[o]) ELSE order[o]
<1>1. order' = [o \in Orders |-> new(o)]
  BY DEF Reap
<1>2. \A o \in Orders : Kept(o, new(o))
  BY HeldOrVoided DEF IInv
<1> HIDE DEF new
<1>3. RowsKept
  BY <1>1, <1>2 DEF RowsKept
<1>4. Become(p, NoTick) /\ UNCHANGED <<req, scan, lastWalk, chainVars, auth, buys, faults, misses>>
  BY DEF Reap
<1> QED
  BY <1>3, <1>4, IdleTick, TickStep, TickTypes

LEMMA StatusReadKeeps ==
  ASSUME ConstantsAssumption, IInv, NEW p \in Loops, StatusRead(p)
  PROVE  IInv'
<1>1. PICK list \in SUBSET (Settling \ Unreferenced) :
        Become(p, IF list = {} THEN NoTick ELSE [rec[p] EXCEPT !.pc = "poll", !.list = list])
  BY DEF StatusRead
<1> DEFINE tick == IF list = {} THEN NoTick ELSE [rec[p] EXCEPT !.pc = "poll", !.list = list]
<1>2. Found(tick)
  <2>1. list \in SUBSET Orders
    BY DEF Settling
  <2>2. "poll" \in TickPC /\ Found(rec[p])
    BY TickPromises DEF TickPC
  <2>3. Found([rec[p] EXCEPT !.pc = "poll", !.list = list])
    BY <2>1, <2>2 DEF Found, TickRec
  <2> QED
    BY <2>3, IdleTick
<1>3. Become(p, tick)
  BY <1>1
<1> HIDE DEF tick
<1>4. RowsKept
  BY NoRowChanged DEF StatusRead, dbVars, IInv
<1>5. UNCHANGED <<req, scan, lastWalk, chainVars, auth, buys, faults, misses>>
  BY DEF StatusRead
<1> QED
  BY <1>2, <1>3, <1>4, <1>5, TickStep, TickTypes

\* _reconcile_one delivers on the transaction the facilitator names.
LEMMA PollKeeps ==
  ASSUME ConstantsAssumption, IInv, NEW p \in Loops, Poll(p)
  PROVE  IInv'
<1>1. PICK o \in rec[p].list :
        /\ order' = [order EXCEPT ![o] =
             IF Landed(o) THEN FinalizeStamped(order[o], CHOOSE t \in Txs : o \in txs[t].pays)
             ELSE IF auth[o] = "failed" THEN VoidSettling(order[o]) ELSE order[o]]
        /\ LET rest == rec[p].list \ {o}
           IN  Become(p, IF rest = {} THEN NoTick ELSE [rec[p] EXCEPT !.list = rest])
  <2>1. PICK o \in rec[p].list :
        /\ order' = [order EXCEPT ![o] =
             IF Landed(o) THEN FinalizeStamped(@, CHOOSE t \in Txs : o \in txs[t].pays)
             ELSE IF auth[o] = "failed" THEN VoidSettling(@) ELSE @]
        /\ LET rest == rec[p].list \ {o}
           IN  Become(p, IF rest = {} THEN NoTick ELSE [rec[p] EXCEPT !.list = rest])
    BY DEF Poll
  <2> QED
    BY <2>1
<1>2. Found(rec[p]) /\ o \in Orders /\ TypeOK /\ rec[p].pc = "poll"
  BY TickPromises DEF Found, TickRec, IInv, Poll
<1> DEFINE payer == CHOOSE t \in Txs : o \in txs[t].pays
           new == IF Landed(o) THEN FinalizeStamped(order[o], payer)
                  ELSE IF auth[o] = "failed" THEN VoidSettling(order[o]) ELSE order[o]
           rest == rec[p].list \ {o}
           tick == IF rest = {} THEN NoTick ELSE [rec[p] EXCEPT !.list = rest]
<1>3. order' = [order EXCEPT ![o] = new]
  BY <1>1
<1>4. Become(p, tick)
  BY <1>1
<1>5. Landed(o) => payer \in Txs /\ Backs(payer, o)
  <2>1. Landed(o) => payer \in Txs /\ o \in txs[payer].pays
    BY DEF Landed
  <2> HIDE DEF payer
  <2> QED
    BY <2>1 DEF IInv, Payments, Backs
<1> HIDE DEF payer
<1>6. Kept(o, new)
  <2>1. CASE Landed(o)
    BY <1>2, <1>5, <2>1, DeliveredOn
  <2>2. CASE ~ Landed(o)
    BY <1>2, <2>2, HeldOrVoided
  <2> QED
    BY <2>1, <2>2
<1> HIDE DEF new
<1>7. RowsKept
  BY <1>2, <1>3, <1>6, OneRow
<1>8. Found(tick)
  BY <1>2, IdleTick DEF Found, TickRec
<1> HIDE DEF tick
<1>9. UNCHANGED <<req, scan, lastWalk, chainVars, auth, buys, faults, misses>>
  BY DEF Poll
<1> QED
  BY <1>4, <1>7, <1>8, <1>9, TickStep, TickTypes

-----------------------------------------------------------------------------
(* Crashes, and the world outside *)

LEMMA RestartKeeps ==
  ASSUME ConstantsAssumption, IInv, Restart
  PROVE  IInv'
<1>1. /\ req' = [w \in Workers |-> Idle] /\ rec' = [p \in Loops |-> NoTick]
      /\ UNCHANGED <<order, txs, head, auth, buys, misses>>
      /\ faults' \in 0..MaxFaults /\ scan' \in ScanRec /\ lastWalk' \in Nat
  BY TickTypes DEF Restart, dbVars, chainVars, IInv, TypeOK, ConstantsAssumption
<1>2. req' \in [Workers -> ReqRec] /\ rec' \in [Loops -> TickRec]
  BY <1>1, IdlePromises, IdleTick DEF Promise, Found
<1>3. TypeOK'
  BY <1>1, <1>2 DEF IInv, TypeOK, ReqRec, TickRec, ScanRec
<1>4. Requests' /\ Walks'
  BY <1>1 DEF Requests, Walks, Idle, NoTick
<1>5. Payments' /\ DeliveredHasTransfer'
  BY <1>1 DEF IInv, Payments, DeliveredHasTransfer
<1> QED
  BY <1>3, <1>4, <1>5 DEF IInv

\* What a block does to the chain: a transfer is new, or as it was.
Grows ==
  /\ txs' \in [Txs -> [block : Nat, pays : SUBSET Orders]]
  /\ auth' \in [Orders -> {"no", "queued", "landed", "failed"}]
  /\ \A o \in Orders : auth[o] = "no" => auth'[o] = "no"
  /\ \A t \in Txs : \/ txs'[t] = txs[t]
                    \/ /\ txs[t].block = 0 /\ txs'[t].block = head + 1
                       /\ \A o \in txs'[t].pays : auth[o] = "queued"

\* A block never takes a transfer back, and pays only orders that exist.
LEMMA MineKeeps ==
  ASSUME ConstantsAssumption, IInv, Mine
  PROVE  IInv'
<1>1. UNCHANGED <<order, req, rec, scan, lastWalk, buys, faults, misses>>
  BY DEF Mine, dbVars, loopVars
<1>2. head' = head + 1 /\ head \in 1..MaxBlock /\ head' \in 1..MaxBlock
  BY DEF Mine, IInv, TypeOK, ConstantsAssumption
<1>3. txs \in [Txs -> [block : Nat, pays : SUBSET Orders]]
      /\ auth \in [Orders -> {"no", "queued", "landed", "failed"}]
      /\ \A o \in Orders : order[o].createdBlock \in Nat /\ order[o].createdBlock <= head
  BY DEF IInv, TypeOK, Row, Payments
<1>4. Grows
  <2>1. CASE UNCHANGED <<txs, auth>>
    BY <1>3, <2>1 DEF Grows
  <2>2. ASSUME NEW t \in Txs, NEW batch \in SUBSET {o \in Orders : auth[o] = "queued"},
               txs[t].block = 0, txs' = [txs EXCEPT ![t] = [block |-> head + 1, pays |-> batch]],
               auth' = [o \in Orders |-> IF o \in batch THEN "landed" ELSE auth[o]]
        PROVE  Grows
    <3> DEFINE new == [block |-> head + 1, pays |-> batch]
    <3>1. new \in [block : Nat, pays : SUBSET Orders]
          /\ new.block = head + 1 /\ new.pays = batch
      BY <1>2
    <3> HIDE DEF new
    <3>2. txs' = [txs EXCEPT ![t] = new]
      BY <2>2 DEF new
    <3>3. txs' \in [Txs -> [block : Nat, pays : SUBSET Orders]]
          /\ txs'[t] = new /\ \A u \in Txs : u # t => txs'[u] = txs[u]
      BY <1>3, <3>1, <3>2
    <3>4. \A u \in Txs : \/ txs'[u] = txs[u]
                         \/ /\ txs[u].block = 0 /\ txs'[u].block = head + 1
                            /\ \A o \in txs'[u].pays : auth[o] = "queued"
      BY <2>2, <3>1, <3>3
    <3>5. auth' \in [Orders -> {"no", "queued", "landed", "failed"}]
          /\ \A o \in Orders : auth[o] = "no" => auth'[o] = "no"
      BY <1>3, <2>2
    <3> QED
      BY <3>3, <3>4, <3>5 DEF Grows
  <2> QED
    BY <2>1, <2>2 DEF Mine
<1>5. TypeOK'
  BY <1>1, <1>2, <1>4 DEF IInv, TypeOK, Grows
<1>6. \A t \in Txs : txs[t].block # 0 => txs'[t] = txs[t]
  BY <1>4 DEF Grows
<1>7. Requests'
  <2>1. ASSUME NEW t \in Txs, NEW o \in txs[t].pays
        PROVE  o \in txs'[t].pays
    BY <1>6, <2>1 DEF IInv, Payments
  <2> QED
    BY <1>1, <2>1 DEF IInv, Requests
<1>8. Payments'
  <2>1. ASSUME NEW o \in Orders
        PROVE  /\ order'[o].status = "none" => auth'[o] = "no"
               /\ order'[o].createdBlock <= head'
    BY <1>1, <1>2, <1>3, <1>4 DEF IInv, Payments, Grows
  <2>2. ASSUME NEW t \in Txs, NEW o \in txs'[t].pays
        PROVE  /\ txs'[t].block # 0 /\ txs'[t].block >= order'[o].createdBlock
               /\ order'[o].status # "none"
    <3>1. CASE txs'[t] = txs[t]
      BY <1>1, <3>1 DEF IInv, Payments
    <3>2. CASE txs'[t].block = head + 1 /\ \A q \in txs'[t].pays : auth[q] = "queued"
      <4>1. o \in Orders /\ auth[o] = "queued"
        BY <1>4, <2>2, <3>2 DEF Grows
      <4>2. order[o].status # "none"
        BY <4>1 DEF IInv, Payments
      <4> QED
        BY <1>1, <1>2, <1>3, <3>2, <4>1, <4>2
    <3> QED
      BY <1>4, <3>1, <3>2 DEF Grows
  <2> QED
    BY <2>1, <2>2 DEF Payments
<1>9. Walks'
  <2>1. \A p \in Loops : rec[p].found \subseteq Txs
    BY DEF IInv, TypeOK
  <2> QED
    BY <1>1, <1>6, <2>1 DEF IInv, Walks
<1>10. DeliveredHasTransfer'
  BY <1>1, <1>6 DEF IInv, DeliveredHasTransfer
<1> QED
  BY <1>5, <1>7, <1>8, <1>9, <1>10 DEF IInv

LEMMA DropKeeps ==
  ASSUME ConstantsAssumption, IInv, NEW o \in Orders, Drop(o)
  PROVE  IInv'
<1>1. UNCHANGED <<order, req, rec, scan, lastWalk, txs, head, buys, faults, misses>>
  BY DEF Drop, dbVars, loopVars, chainVars
<1>2. auth \in [Orders -> {"no", "queued", "landed", "failed"}]
  BY DEF IInv, TypeOK
<1>3. auth' \in [Orders -> {"no", "queued", "landed", "failed"}]
      /\ \A q \in Orders : auth[q] = "no" => auth'[q] = "no"
  BY <1>2 DEF Drop
<1>4. TypeOK'
  BY <1>1, <1>3 DEF IInv, TypeOK
<1>5. Payments'
  BY <1>1, <1>3 DEF IInv, Payments
<1>6. Requests' /\ Walks' /\ DeliveredHasTransfer'
  BY <1>1 DEF IInv, Requests, Walks, DeliveredHasTransfer
<1> QED
  BY <1>4, <1>5, <1>6 DEF IInv

-----------------------------------------------------------------------------
(* The theorems *)

LEMMA InitKeeps == ConstantsAssumption /\ Init => IInv
<1> SUFFICES ASSUME ConstantsAssumption, Init
             PROVE  IInv
  OBVIOUS
<1>1. NoRow \in Row
  BY DEF NoRow, Row, Status, Refs
<1>2. order \in [Orders -> Row] /\ \A o \in Orders : order[o] = NoRow
  BY <1>1 DEF Init
<1>3. Idle \in ReqRec /\ NoTick \in TickRec /\ NoScan \in ScanRec
  BY IdlePromises, IdleTick DEF Promise, Found, NoScan, ScanRec
<1>4. req \in [Workers -> ReqRec] /\ rec \in [Loops -> TickRec] /\ scan \in ScanRec
  BY <1>3 DEF Init
<1>5. TypeOK
  <2>1. /\ auth \in [Orders -> {"no", "queued", "landed", "failed"}]
        /\ txs \in [Txs -> [block : Nat, pays : SUBSET Orders]]
    BY DEF Init
  <2>2. /\ head \in 1..MaxBlock /\ lastWalk \in Nat
        /\ buys \in 0..MaxBuys /\ faults \in 0..MaxFaults /\ misses \in 0..MaxMisses
    BY DEF Init, ConstantsAssumption
  <2> QED
    BY <1>2, <1>4, <2>1, <2>2 DEF TypeOK, ReqRec, TickRec, ScanRec
<1>6. Requests /\ Walks
  BY DEF Init, Requests, Walks, Idle, NoTick
<1>7. Payments /\ DeliveredHasTransfer
  BY <1>2 DEF Init, Payments, DeliveredHasTransfer, NoRow
<1> QED
  BY <1>5, <1>6, <1>7 DEF IInv

\* Every step keeps the invariant.
LEMMA StepKeeps == ConstantsAssumption /\ IInv /\ [Next]_vars => IInv'
<1> SUFFICES ASSUME ConstantsAssumption, IInv, [Next]_vars
             PROVE  IInv'
  OBVIOUS
<1>1. ASSUME NEW w \in Workers, Request(w)
      PROVE  IInv'
  BY <1>1, BuyKeeps, AcceptKeeps, RefuseKeeps, AnswerKeeps, RecordKeeps, HookKeeps DEF Request
<1>2. ASSUME NEW p \in Loops, Tick(p)
      PROVE  IInv'
  BY <1>2, ReachableKeeps, TickStartKeeps, ScanKeeps, ReadConsumedKeeps, WriteKeeps,
     ReapReadKeeps, ReapKeeps, StatusReadKeeps, PollKeeps DEF Tick
<1>3. ASSUME NEW p \in Loops, TickFails(p)
      PROVE  IInv'
  BY <1>3, ScanFailsKeeps, WriteFailsKeeps DEF TickFails
<1>4. ASSUME NEW o \in Orders, Drop(o)
      PROVE  IInv'
  BY <1>4, DropKeeps
<1>5. CASE Mine
  BY <1>5, MineKeeps
<1>6. CASE Restart
  BY <1>6, RestartKeeps
<1>7. CASE UNCHANGED vars
  BY <1>7 DEF vars, IInv, TypeOK, Requests, Payments, Walks, DeliveredHasTransfer
<1> QED
  BY <1>1, <1>2, <1>3, <1>4, <1>5, <1>6, <1>7 DEF Next

\* The strengthened invariant holds throughout.
LEMMA InvariantHolds == Spec => []IInv
<1>1. Init => IInv
  BY ConstantsAssumption, InitKeeps
<1>2. IInv /\ [Next]_vars => IInv'
  BY ConstantsAssumption, StepKeeps
<1> QED
  BY <1>1, <1>2, PTL DEF Spec

\* Types of the rows, the requests' and ticks' locals and the reconciler's
\* globals (models.Order, reconcile.py's module globals).
THEOREM AgentTypeCorrect == Spec => []TypeOK
<1>1. IInv => TypeOK
  BY DEF IInv
<1> QED
  BY <1>1, InvariantHolds, PTL

\* Whoever delivers an order (record_settlement, the chain walk, the status
\* poll), however old what it read: a mined transfer that is not older than the
\* order backs it.
THEOREM DeliveriesAreBacked == Spec => []DeliveredHasTransfer
<1>1. IInv => DeliveredHasTransfer
  BY DEF IInv
<1> QED
  BY <1>1, InvariantHolds, PTL


-----------------------------------------------------------------------------
(* A transfer settles no more than it moved.  record_settlement does not look *)
(* at the consumed transactions, and two loops read them before either        *)
(* writes (README): the theorem is about one loop, and settles whose answer   *)
(* names no transaction, as those of the deferred facilitator.                *)

NothingNamed == Answers \subseteq {"none", "lost"} /\ \A p, q \in Loops : p = q

\* The amounts of a table of rows, and the orders it says t delivered.
Costs(rows) == [o \in Orders |-> rows[o].expected]
PaidWith(rows, t) == {o \in Orders : rows[o].status = "delivered" /\ rows[o].tx = t}

\* No request and no order names a transaction that is not settled, so only the
\* walk delivers, and what it read as consumed is so when it writes.
Unnamed ==
  /\ \A w \in Workers : req[w].pc = "record" => req[w].ans = NoTx
  /\ \A o \in Orders : order[o].status = "settling" => order[o].ref = NoTx
  /\ \A p \in Loops : /\ rec[p].pc # "poll"
                      /\ rec[p].pc = "write" => Consumed \subseteq rec[p].consumed

Funded ==
  \A t \in Txs : Total(Costs(order), PaidWith(order, t)) <= Total(Costs(order), txs[t].pays)

MinedBefore == \A t \in Txs : txs[t].block <= head

FundInv == NothingNamed /\ IInv /\ MinedBefore /\ Unnamed /\ Funded

\* A write that delivers nothing and names no transaction.
QuietRow(old, new) ==
  /\ new.status = "delivered" <=> old.status = "delivered"
  /\ new.ref \in {old.ref, NoTx} /\ new.tx \in {old.tx, NoTx}
  /\ old.status = "delivered" => new.tx = old.tx
  /\ old.status # "none" => new.expected = old.expected
  /\ new.status = "settling" => new.ref = NoTx

QuietRows == \A o \in Orders : QuietRow(order[o], order'[o])

\* What a transfer pays is fixed once it is mined.
PaysStay == \A t \in Txs : txs'[t].pays = txs[t].pays \/ txs[t].block = 0

LEMMA CostsAreNat ==
  ASSUME TypeOK, NEW o \in Orders PROVE Costs(order)[o] \in Nat
BY DEF Costs, TypeOK, Row

LEMMA CostsAreNatNext ==
  ASSUME TypeOK', NEW o \in Orders PROVE Costs(order')[o] \in Nat
BY DEF Costs, TypeOK, Row

LEMMA OrdersFinite ==
  ASSUME ConstantsAssumption, NEW S \in SUBSET Orders PROVE IsFiniteSet(S)
PROOF
  <1>1. IsFiniteSet(1..NumOrders)
    BY FS_Interval DEF ConstantsAssumption
  <1> QED
    BY <1>1, FS_Subset DEF Orders

LEMMA FundsStay ==
  ASSUME ConstantsAssumption, FundInv, IInv', QuietRows, PaysStay
  PROVE  Funded'
PROOF
  <1> SUFFICES ASSUME NEW t \in Txs
               PROVE  Total(Costs(order'), PaidWith(order', t)) <= Total(Costs(order'), txs'[t].pays)
    BY DEF Funded
  <1>1. TypeOK /\ TypeOK' /\ Payments /\ DeliveredHasTransfer
    BY DEF FundInv, IInv
  <1>2. txs[t].pays \in SUBSET Orders /\ txs'[t].pays \in SUBSET Orders
    BY <1>1 DEF TypeOK
  <1>3. PaidWith(order', t) = PaidWith(order, t)
    BY DEF PaidWith, QuietRows, QuietRow
  <1>4. PaidWith(order, t) \in SUBSET Orders
    BY DEF PaidWith
  <1>5. \A o \in Orders : order[o].status # "none" => Costs(order')[o] = Costs(order)[o]
    BY DEF Costs, QuietRows, QuietRow
  <1>6. Total(Costs(order'), PaidWith(order, t)) = Total(Costs(order), PaidWith(order, t))
    <2>1. \A o \in PaidWith(order, t) : Costs(order')[o] = Costs(order)[o]
      BY <1>5 DEF PaidWith
    <2> QED
      BY <1>4, <2>1, OrdersFinite, TotalAgrees
  <1>7. CASE txs'[t].pays = txs[t].pays
    <2>1. \A o \in txs[t].pays : Costs(order')[o] = Costs(order)[o]
      BY <1>1, <1>2, <1>5 DEF Payments
    <2>2. Total(Costs(order'), txs[t].pays) = Total(Costs(order), txs[t].pays)
      BY <1>2, <2>1, OrdersFinite, TotalAgrees
    <2> QED
      BY <1>3, <1>6, <1>7, <2>2 DEF FundInv, Funded
  <1>8. CASE txs[t].block = 0
    <2>1. PaidWith(order, t) = {}
      BY <1>1, <1>8 DEF PaidWith, DeliveredHasTransfer
    <2>2. \A o \in txs'[t].pays : Costs(order')[o] \in Nat
      BY <1>1, <1>2, CostsAreNatNext
    <2>3. Total(Costs(order'), txs'[t].pays) \in Nat
      BY <1>2, <2>2, OrdersFinite, TotalNat
    <2>4. Total(Costs(order'), PaidWith(order', t)) = 0
      BY <1>3, <2>1, TotalEmpty
    <2> QED
      BY <2>3, <2>4
  <1> QED
    BY <1>7, <1>8 DEF PaysStay

\* What is consumed does not grow in such a step.
LEMMA QuietConsumed == ASSUME QuietRows PROVE Consumed' \subseteq Consumed
BY DEF QuietRows, QuietRow, Consumed

\* Such a step keeps the invariant if the requests and ticks do their part.
LEMMA QuietStep ==
  ASSUME ConstantsAssumption, FundInv, IInv', MinedBefore', QuietRows, PaysStay,
         \A w \in Workers : req'[w].pc = "record" => req'[w].ans = NoTx,
         \A p \in Loops : \/ rec'[p] = rec[p]
                          \/ rec'[p].pc \notin {"poll", "write"}
                          \/ rec'[p].pc = "write" /\ rec'[p].consumed = Consumed
  PROVE  FundInv'
PROOF
  <1>1. Funded'
    BY FundsStay
  <1>2. NothingNamed'
    BY DEF FundInv, NothingNamed
  <1>3. \A o \in Orders : order'[o].status = "settling" => order'[o].ref = NoTx
    BY DEF QuietRows, QuietRow
  <1>4. ASSUME NEW p \in Loops
        PROVE  rec'[p].pc # "poll" /\ (rec'[p].pc = "write" => Consumed' \subseteq rec'[p].consumed)
    <2>1. Consumed' \subseteq Consumed
      BY QuietConsumed
    <2> QED
      BY <2>1 DEF FundInv, Unnamed
  <1>5. Unnamed'
    BY <1>3, <1>4 DEF Unnamed
  <1> QED
    BY <1>1, <1>2, <1>5 DEF FundInv

LEMMA SameRowsQuiet ==
  ASSUME FundInv, order' = order PROVE QuietRows
BY DEF FundInv, Unnamed, QuietRows, QuietRow

LEMMA VoidIsQuiet ==
  ASSUME FundInv, NEW o \in Orders
  PROVE  QuietRow(order[o], order[o]) /\ QuietRow(order[o], VoidSettling(order[o]))
PROOF
  <1>1. order[o] \in Row /\ (order[o].status = "settling" => order[o].ref = NoTx)
    BY DEF FundInv, IInv, TypeOK, Unnamed
  <1>2. PICK r \in Row : r = order[o]
    BY <1>1
  <1> QED
    BY <1>1, <1>2 DEF QuietRow, VoidSettling, Transition, Row


-----------------------------------------------------------------------------
(* The walk *)

\* What the transfers of block b leave of the candidates L.
LeftAfter(L, fresh, b) == L \ UNION {Covered(t, L) : t \in {u \in fresh : txs[u].block = b}}

\* g says what is left of list after the blocks up to n.
Leaves(g, list, fresh, n) ==
  g = [b \in 0..n |-> IF b = 0 THEN list ELSE LeftAfter(g[b - 1], fresh, b)]

\* After every block some of the candidates are left, and no one else.
LEMMA LeavesExist ==
  ASSUME NEW list, NEW fresh, NEW n \in Nat
  PROVE  \E g : Leaves(g, list, fresh, n)
PROOF
  <1> DEFINE Bad == {k \in Nat : ~ \E g : Leaves(g, list, fresh, k)}
  <1> SUFFICES ASSUME Bad # {} PROVE FALSE
    OBVIOUS
  <1>1. PICK k \in Bad : \A j \in Bad : k <= j
    BY LeastOf
  <1>2. k # 0
    <2> DEFINE G == [b \in 0..0 |-> list]
    <2>1. Leaves(G, list, fresh, 0)
      BY DEF Leaves
    <2> QED
      BY <1>1, <2>1
  <1>3. k - 1 \in Nat /\ k \in Nat /\ ~ (k <= k - 1)
    BY <1>1, <1>2
  <1>4. PICK g : Leaves(g, list, fresh, k - 1)
    BY <1>1, <1>3
  <1> DEFINE G == [b \in 0..k |-> IF b = 0 THEN list ELSE LeftAfter(g[b - 1], fresh, b)]
  <1>5. \A b \in 0..(k - 1) : g[b] = IF b = 0 THEN list ELSE LeftAfter(g[b - 1], fresh, b)
    BY <1>4 DEF Leaves
  <1>6. \A b \in 0..k : b # 0 => b - 1 \in 0..(k - 1) /\ b - 1 \in 0..k
    BY <1>3
  <1>7. \A b \in 0..k : b # 0 => G[b - 1] = g[b - 1]
    BY <1>5, <1>6
  <1>8. Leaves(G, list, fresh, k)
    BY <1>7 DEF Leaves
  <1> QED
    BY <1>1, <1>8

LEMMA UnpaidLeaves ==
  ASSUME ConstantsAssumption, NEW list, NEW fresh
  PROVE  Leaves(Unpaid(list, fresh), list, fresh, MaxBlock)
PROOF
  <1>1. \E g : Leaves(g, list, fresh, MaxBlock)
    BY LeavesExist DEF ConstantsAssumption
  <1>2. Unpaid(list, fresh) = CHOOSE g : Leaves(g, list, fresh, MaxBlock)
    BY DEF Unpaid, Leaves, LeftAfter
  <1> QED
    BY <1>1, <1>2

LEMMA UnpaidIsPart ==
  ASSUME ConstantsAssumption, NEW list, NEW fresh, NEW b \in 0..MaxBlock
  PROVE  Unpaid(list, fresh)[b] \subseteq list
PROOF
  <1> DEFINE left == Unpaid(list, fresh)
             Bad == {k \in 0..MaxBlock : ~ (left[k] \subseteq list)}
  <1> SUFFICES ASSUME Bad # {} PROVE FALSE
    OBVIOUS
  <1>1. Leaves(left, list, fresh, MaxBlock)
    BY UnpaidLeaves
  <1> HIDE DEF left
  <1>2. MaxBlock \in Nat
    BY DEF ConstantsAssumption
  <1>3. PICK k \in Bad : \A j \in Bad : k <= j
    <2>1. Bad \in SUBSET Nat
      BY <1>2
    <2> HIDE DEF Bad
    <2> QED
      BY <2>1, LeastOf
  <1>4. k # 0
    BY <1>1, <1>3 DEF Leaves
  <1>5. k \in Nat /\ k - 1 \in 0..MaxBlock /\ ~ (k <= k - 1)
    BY <1>2, <1>3, <1>4
  <1>6. left[k - 1] \subseteq list
    BY <1>3, <1>5
  <1>7. left[k] \subseteq left[k - 1]
    BY <1>1, <1>3, <1>4 DEF Leaves, LeftAfter
  <1> QED
    BY <1>3, <1>6, <1>7

\* The sum of the model is that of SumLemmas.
CostAdds(g, rows, S) ==
  g = [s \in SUBSET S |-> IF s = {} THEN 0 ELSE rows[Some(s)].expected + g[s \ {Some(s)}]]
CostIn(rows, S) == (CHOOSE g : CostAdds(g, rows, S))[S]

LEMMA CostTotal ==
  ASSUME ConstantsAssumption, NEW rows, NEW S \in SUBSET Orders
  PROVE  CostIn(rows, S) = Total(Costs(rows), S)
PROOF
  <1>1. IsFiniteSet(S)
    BY OrdersFinite
  <1>2. \A g : CostAdds(g, rows, S) <=> Adds(g, Costs(rows), S)
    <2> TAKE g
    <2>1. \A s \in SUBSET S : s # {} => Costs(rows)[Some(s)] = rows[Some(s)].expected
      BY SomeOf DEF Costs
    <2> QED
      BY <2>1 DEF Adds, CostAdds
  <1>3. PICK h : h = CHOOSE g : CostAdds(g, rows, S)
    OBVIOUS
  <1>4. Adds(h, Costs(rows), S)
    BY <1>1, <1>2, <1>3, IterAdds
  <1>5. h[S] = Iter(Costs(rows), S)[S]
    BY <1>1, <1>4, AddsAgree, IterAdds
  <1> QED
    BY <1>3, <1>5, TotalIsIter DEF CostIn

LEMMA PriceOfIs == ASSUME NEW S PROVE PriceOf(S) = CostIn(order, S)
BY DEF PriceOf, CostIn, CostAdds, Some, MapThenSumSet, MapThenFoldSet

LEMMA PriceSum ==
  ASSUME ConstantsAssumption, NEW S \in SUBSET Orders
  PROVE  PriceOf(S) = Total(Costs(order), S)
BY PriceOfIs, CostTotal

\* What the walk gives a transfer costs no more than the transfer moved: it is
\* part of the candidates up to the last one covered, which the transfer pays.
LEMMA CoveredIsPaid ==
  ASSUME ConstantsAssumption, TypeOK, NEW t \in Txs, NEW S \in SUBSET Orders,
         NEW D \in SUBSET Covered(t, S)
  PROVE  Total(Costs(order), D) <= Total(Costs(order), txs[t].pays)
PROOF
  <1>1. txs[t].pays \in SUBSET Orders
    BY DEF TypeOK
  <1>2. \A o \in Orders : Costs(order)[o] \in Nat
    BY CostsAreNat
  <1>3. Value(t) = Total(Costs(order), txs[t].pays)
    BY <1>1, PriceSum DEF Value
  <1>4. CASE D = {}
    <2>1. Total(Costs(order), txs[t].pays) \in Nat
      BY <1>1, <1>2, OrdersFinite, TotalNat
    <2> QED
      BY <1>4, <2>1, TotalEmpty
  <1>5. CASE D # {}
    <2>1. D \subseteq S /\ D \subseteq Orders /\ D \subseteq Int
      <3>1. D \subseteq S
        BY DEF Covered
      <3>2. Orders \subseteq Int
        BY DEF Orders, ConstantsAssumption
      <3> QED
        BY <3>1, <3>2
    <2>2. IsFiniteSet(D)
      BY <2>1, OrdersFinite
    <2>3. PICK o \in D : \A q \in D : o >= q
      BY <1>5, <2>1, <2>2, GreatestExists
    <2>4. PICK U : U = {q \in S : q <= o}
      OBVIOUS
    <2>5. PriceOf(U) <= Value(t)
      BY <2>3, <2>4 DEF Covered
    <2>6. D \subseteq U /\ U \in SUBSET Orders
      BY <2>1, <2>3, <2>4
    <2>7. PriceOf(U) = Total(Costs(order), U) /\ IsFiniteSet(U)
      BY <2>6, PriceSum, OrdersFinite
    <2>8. Total(Costs(order), D) <= Total(Costs(order), U)
      BY <1>2, <2>6, <2>7, TotalSubset
    <2>9. /\ Total(Costs(order), D) \in Nat /\ Total(Costs(order), U) \in Nat
          /\ Total(Costs(order), txs[t].pays) \in Nat
      BY <1>1, <1>2, <2>1, <2>6, OrdersFinite, TotalNat
    <2> QED
      BY <1>3, <2>5, <2>7, <2>8, <2>9
  <1> QED
    BY <1>4, <1>5

\* The orders a walk gives transfer t.
GivenTo(t, list, fresh) == {o \in list : PayerOf(o, list, fresh) = t}

LEMMA GivenIsCovered ==
  ASSUME ConstantsAssumption, TypeOK, NEW list \in SUBSET Orders, NEW fresh \in SUBSET Txs,
         \A u \in fresh : txs[u].block \in 1..MaxBlock,
         NEW t \in Txs, GivenTo(t, list, fresh) # {}
  PROVE  /\ t \in fresh
         /\ \E S \in SUBSET Orders : GivenTo(t, list, fresh) \subseteq Covered(t, S)
PROOF
  <1> DEFINE left == Unpaid(list, fresh)
             payers(o) == {u \in fresh : o \in Covered(u, left[txs[u].block - 1])}
  <1>1. ASSUME NEW o \in GivenTo(t, list, fresh) PROVE t \in payers(o)
    <2>1. t # NoTx /\ PayerOf(o, list, fresh) = t
      BY DEF GivenTo, ConstantsAssumption
    <2>2. PayerOf(o, list, fresh) =
            IF payers(o) = {} THEN NoTx ELSE CHOOSE u \in payers(o) : TRUE
      BY DEF PayerOf
    <2> HIDE DEF payers
    <2> QED
      BY <2>1, <2>2
  <1>2. txs[t].block - 1 \in 0..MaxBlock
    <2>1. txs[t].block \in 1..MaxBlock
      BY <1>1
    <2> QED
      BY <2>1 DEF ConstantsAssumption
  <1>3. left[txs[t].block - 1] \in SUBSET Orders
    BY <1>2, UnpaidIsPart
  <1> HIDE DEF left
  <1>4. GivenTo(t, list, fresh) \subseteq Covered(t, left[txs[t].block - 1])
    BY <1>1
  <1> QED
    BY <1>1, <1>3, <1>4


LEMMA WriteFunds ==
  ASSUME ConstantsAssumption, FundInv, IInv', NEW p \in Loops, Write(p)
  PROVE  FundInv'
PROOF
  <1> DEFINE list == rec[p].list
             fresh == rec[p].found \ rec[p].consumed
             payer(o) == PayerOf(o, list, fresh)
             given(t) == {o \in GivenTo(t, list, fresh) : order[o].status = "settling"}
  <1>0. TypeOK /\ Walks /\ MinedBefore /\ Unnamed /\ Funded /\ NothingNamed
    BY DEF FundInv, IInv
  <1>1. /\ list \in SUBSET Orders /\ fresh \in SUBSET Txs
        /\ \A u \in fresh : txs[u].block \in 1..MaxBlock
        /\ Consumed \subseteq rec[p].consumed
    <2>1. list \in SUBSET Orders /\ fresh \in SUBSET Txs
      BY <1>0 DEF TypeOK
    <2>2. \A u \in fresh : txs[u].block # 0 /\ txs[u].block <= head /\ txs[u].block \in Nat
      BY <1>0, <2>1 DEF Walks, MinedBefore, TypeOK
    <2>3. head \in Nat /\ head <= MaxBlock /\ MaxBlock \in Nat
      BY <1>0 DEF TypeOK, ConstantsAssumption
    <2>4. Consumed \subseteq rec[p].consumed
      BY <1>0 DEF Write, Unnamed
    <2> QED
      BY <2>1, <2>2, <2>3, <2>4
  <1>2. \A o \in Orders : order'[o] = IF o \in list /\ payer(o) # NoTx
                                      THEN FinalizeStamped(order[o], payer(o)) ELSE order[o]
    BY DEF Write
  <1>3. /\ UNCHANGED <<req, txs, head>>
        /\ rec' = [rec EXCEPT ![p] = [NoTick EXCEPT !.pc = AfterScan(p), !.since = rec[p].since]]
    BY DEF Write, Become, chainVars
  <1> HIDE DEF list, fresh
  <1>4. ASSUME NEW o \in Orders
        PROVE  /\ order'[o].expected = order[o].expected
               /\ order'[o].status = "settling" => order[o] = order'[o]
               /\ \A t \in Txs : order'[o].status = "delivered" /\ order'[o].tx = t
                    <=> \/ order[o].status = "delivered" /\ order[o].tx = t
                        \/ o \in given(t)
    <2>1. PICK r \in Row : r = order[o]
      BY <1>0 DEF TypeOK
    <2>2. PICK u : u = payer(o)
      OBVIOUS
    <2>3. o \in list /\ r.status = "settling" => \A t \in Txs : o \in given(t) <=> u = t
      BY <2>1, <2>2 DEF GivenTo
    <2>4. \A t : o \in given(t) => o \in list /\ r.status = "settling" /\ u = t
      BY <2>1, <2>2 DEF GivenTo
    <2> HIDE DEF given, payer
    <2>5. CASE o \in list /\ u # NoTx /\ r.status = "settling"
      <3>1. order'[o] = [r EXCEPT !.status = "delivered", !.tx = u, !.ref = u]
        BY <1>2, <2>1, <2>2, <2>5 DEF FinalizeStamped, Transition
      <3>2. /\ order'[o].expected = r.expected /\ order'[o].status = "delivered"
            /\ order'[o].tx = u
        BY <3>1 DEF Row
      <3> QED
        BY <2>1, <2>3, <2>5, <3>2
    <2>6. CASE ~ (o \in list /\ u # NoTx /\ r.status = "settling")
      <3>1. order'[o] = r
        BY <1>2, <2>1, <2>2, <2>6 DEF FinalizeStamped, Transition
      <3>2. \A t \in Txs : o \notin given(t)
        BY <2>4, <2>6 DEF ConstantsAssumption
      <3> QED
        BY <2>1, <3>1, <3>2
    <2> QED
      BY <2>5, <2>6
  <1>5. Costs(order') = Costs(order)
    BY <1>4 DEF Costs
  <1>6. ASSUME NEW t \in Txs
        PROVE  Total(Costs(order'), PaidWith(order', t)) <= Total(Costs(order'), txs'[t].pays)
    <2>1. given(t) \subseteq Orders
      BY <1>1 DEF GivenTo
    <2>2. PaidWith(order', t) = PaidWith(order, t) \cup given(t)
      <3> HIDE DEF given
      <3> QED
        BY <1>4, <2>1 DEF PaidWith
    <2>3. CASE given(t) = {}
      <3>1. PaidWith(order', t) = PaidWith(order, t)
        BY <2>2, <2>3
      <3> QED
        BY <1>0, <1>3, <1>5, <3>1 DEF Funded
    <2>4. CASE given(t) # {}
      <3>1. GivenTo(t, list, fresh) # {}
        BY <2>4
      <3>2. /\ t \in fresh
            /\ \E S \in SUBSET Orders : GivenTo(t, list, fresh) \subseteq Covered(t, S)
        BY <1>0, <1>1, <3>1, GivenIsCovered
      <3>3. PICK S \in SUBSET Orders : GivenTo(t, list, fresh) \subseteq Covered(t, S)
        BY <3>2
      <3>4. given(t) \in SUBSET Covered(t, S)
        BY <3>3
      <3>5. t \notin Consumed
        BY <1>1, <3>2 DEF fresh
      <3>6. PaidWith(order, t) = {}
        BY <3>5 DEF PaidWith, Consumed, ConstantsAssumption
      <3>7. PaidWith(order', t) \in SUBSET Covered(t, S)
        BY <2>2, <3>4, <3>6
      <3>8. Total(Costs(order), PaidWith(order', t)) <= Total(Costs(order), txs[t].pays)
        BY <1>0, <3>7, CoveredIsPaid
      <3> QED
        BY <1>3, <1>5, <3>8
    <2> QED
      BY <2>3, <2>4
  <1>7. Funded'
    BY <1>6 DEF Funded
  <1>8. Unnamed'
    <2>1. \A q \in Loops : q = p
      BY <1>0 DEF NothingNamed
    <2>2. rec'[p].pc \in {"reap", "status"}
      <3>1. rec[p] \in TickRec /\ rec \in [Loops -> TickRec]
        BY <1>0 DEF TypeOK, TickRec
      <3>2. rec'[p].pc = AfterScan(p)
        BY <1>3, <3>1 DEF NoTick
      <3> QED
        BY <3>2 DEF AfterScan
    <2>3. \A q \in Loops : rec'[q].pc # "poll" /\ rec'[q].pc # "write"
      BY <2>1, <2>2
    <2> QED
      BY <1>0, <1>3, <1>4, <2>3 DEF Unnamed
  <1>9. NothingNamed' /\ MinedBefore'
    BY <1>0, <1>3 DEF NothingNamed, MinedBefore
  <1> QED
    BY <1>7, <1>8, <1>9 DEF FundInv


\* The other steps of the ticks, and those of the requests, deliver nothing.
LEMMA TickFunds ==
  ASSUME ConstantsAssumption, FundInv, IInv', QuietRows, UNCHANGED <<req, txs, head>>,
         NEW p \in Loops, NEW tick, rec' = [rec EXCEPT ![p] = tick],
         \/ tick.pc \notin {"poll", "write"}
         \/ tick.pc = "write" /\ tick.consumed = Consumed
  PROVE  FundInv'
PROOF
  <1>1. \A q \in Loops : rec'[q] = rec[q] \/ rec'[q] = tick
    BY DEF FundInv, IInv, TypeOK
  <1>2. PaysStay /\ MinedBefore'
    BY DEF FundInv, PaysStay, MinedBefore
  <1>3. \A w \in Workers : req'[w].pc = "record" => req'[w].ans = NoTx
    BY DEF FundInv, Unnamed
  <1>4. \A q \in Loops : \/ rec'[q] = rec[q]
                         \/ rec'[q].pc \notin {"poll", "write"}
                         \/ rec'[q].pc = "write" /\ rec'[q].consumed = Consumed
    BY <1>1
  <1> QED
    BY <1>2, <1>3, <1>4, QuietStep

LEMMA RequestFunds ==
  ASSUME ConstantsAssumption, FundInv, IInv', QuietRows, UNCHANGED <<rec, txs, head>>,
         \A w \in Workers : req'[w].pc = "record" => req'[w].ans = NoTx
  PROVE  FundInv'
PROOF
  <1>1. PaysStay /\ MinedBefore'
    BY DEF FundInv, PaysStay, MinedBefore
  <1> QED
    BY <1>1, QuietStep

LEMMA BuyFunds ==
  ASSUME ConstantsAssumption, FundInv, IInv', NEW w \in Workers, Buy(w)
  PROVE  FundInv'
PROOF
  <1>1. UNCHANGED <<rec, txs, head>>
    BY DEF Buy, loopVars, chainVars
  <1>2. \A v \in Workers : req'[v].pc = "record" => req'[v].ans = NoTx
    <2>1. PICK o \in Orders : req' = [req EXCEPT ![w] = [pc |-> "settle", order |-> o, ans |-> NoTx]]
      BY DEF Buy
    <2>2. \A v \in Workers : req'[v] = req[v] \/ req'[v].pc = "settle"
      BY <2>1 DEF FundInv, IInv, TypeOK
    <2> QED
      BY <2>2 DEF FundInv, Unnamed
  <1>3. QuietRows
    <2>1. CASE order' = order
      BY <2>1, SameRowsQuiet
    <2>2. ASSUME NEW o \in Orders, o \in Unborn, NEW price \in Prices, NEW block \in {0, head},
                 Create(w, o, price, block)
          PROVE  QuietRows
      <3>1. PICK new : new = [NoRow EXCEPT !.status = "settling", !.expected = price,
                                           !.createdBlock = block, !.bornAt = head]
        OBVIOUS
      <3>2. new.status = "settling" /\ new.ref = NoTx /\ new.tx = NoTx
        BY <3>1 DEF NoRow
      <3>3. order' = [order EXCEPT ![o] = new]
        BY <2>2, <3>1 DEF Create
      <3>4. order[o].status = "none"
        BY <2>2 DEF Unborn
      <3>5. \A q \in Orders : order'[q] = IF q = o THEN new ELSE order[q]
        BY <3>3 DEF FundInv, IInv, TypeOK
      <3> HIDE <3>1
      <3>6. \A q \in Orders : QuietRow(order[q], order[q])
        BY VoidIsQuiet
      <3>7. QuietRow(order[o], new)
        BY <3>2, <3>4 DEF QuietRow
      <3> QED
        BY <3>5, <3>6, <3>7 DEF QuietRows
    <2> QED
      BY <2>1, <2>2 DEF Buy
  <1> QED
    BY <1>1, <1>2, <1>3, RequestFunds

LEMMA GotoAns ==
  ASSUME FundInv, NEW w \in Workers, NEW pc, NEW ans, Goto(w, pc, ans),
         pc = "record" => ans = NoTx
  PROVE  \A v \in Workers : req'[v].pc = "record" => req'[v].ans = NoTx
PROOF
  <1>1. req \in [Workers -> ReqRec]
    BY DEF FundInv, IInv, TypeOK, ReqRec
  <1>2. PICK r \in ReqRec : r = req[w]
    BY <1>1
  <1>3. req' = [req EXCEPT ![w] = [r EXCEPT !.pc = pc, !.ans = ans]]
    BY <1>1, <1>2 DEF Goto
  <1>4. \A v \in Workers : req'[v] = IF v = w THEN [r EXCEPT !.pc = pc, !.ans = ans] ELSE req[v]
    BY <1>1, <1>3
  <1>5. [r EXCEPT !.pc = pc, !.ans = ans].pc = pc /\ [r EXCEPT !.pc = pc, !.ans = ans].ans = ans
    BY DEF ReqRec
  <1> QED
    BY <1>4, <1>5 DEF FundInv, Unnamed

LEMMA SettleFunds ==
  ASSUME ConstantsAssumption, FundInv, IInv', NEW w \in Workers,
         Accept(w) \/ Refuse(w) \/ Answer(w)
  PROVE  FundInv'
PROOF
  <1>1. UNCHANGED <<rec, txs, head, order>>
    BY DEF Accept, Refuse, Answer, loopVars, chainVars, dbVars
  <1>2. QuietRows
    BY <1>1, SameRowsQuiet
  <1>3. \E pc \in {"answer", "hook", "record"}, ans \in Txs \cup {NoTx, Pending} :
          Goto(w, pc, ans) /\ (pc = "record" => ans = NoTx)
    <2>1. "tx" \notin Answers /\ "pending" \notin Answers
      BY DEF FundInv, NothingNamed
    <2> QED
      BY <2>1 DEF Accept, Refuse, Answer
  <1>4. \A v \in Workers : req'[v].pc = "record" => req'[v].ans = NoTx
    BY <1>3, GotoAns
  <1> QED
    BY <1>1, <1>2, <1>4, RequestFunds

LEMMA EndFunds ==
  ASSUME ConstantsAssumption, FundInv, IInv', NEW w \in Workers, Record(w) \/ Hook(w)
  PROVE  FundInv'
PROOF
  <1>1. UNCHANGED <<rec, txs, head>> /\ req' = [req EXCEPT ![w] = Idle]
    BY DEF Record, Hook, loopVars, chainVars
  <1>2. req \in [Workers -> ReqRec] /\ order \in [Orders -> Row]
    BY DEF FundInv, IInv, TypeOK, ReqRec
  <1>3. \A v \in Workers : req'[v].pc = "record" => req'[v].ans = NoTx
    <2>1. \A v \in Workers : req'[v] = req[v] \/ req'[v] = Idle
      BY <1>1, <1>2
    <2> QED
      BY <2>1 DEF FundInv, Unnamed, Idle
  <1>4. \A o \in Orders : order'[o] = order[o] \/ order'[o] = VoidSettling(order[o])
    <2>1. CASE Record(w)
      <3>1. req[w].ans = NoTx
        BY <2>1 DEF Record, FundInv, Unnamed
      <3>2. req[w].ans \notin Txs /\ req[w].ans # Pending
        BY <3>1 DEF ConstantsAssumption
      <3>3. order' = [order EXCEPT ![req[w].order] = @]
        BY <2>1, <3>2 DEF Record
      <3> QED
        BY <1>2, <3>3
    <2>2. CASE Hook(w)
      BY <1>2, <2>2 DEF Hook
    <2> QED
      BY <2>1, <2>2
  <1>5. QuietRows
    BY <1>4, VoidIsQuiet DEF QuietRows
  <1> QED
    BY <1>1, <1>3, <1>5, RequestFunds


LEMMA LookFunds ==
  ASSUME ConstantsAssumption, FundInv, IInv', NEW p \in Loops,
         Reachable(p) \/ TickStart(p) \/ Scan(p) \/ ReadConsumed(p) \/ ReapRead(p) \/ TickFails(p)
  PROVE  FundInv'
PROOF
  <1>1. UNCHANGED <<req, txs, head, order>>
    BY DEF Reachable, TickStart, Scan, ReadConsumed, ReapRead, TickFails, ScanFails, WriteFails,
           dbVars, chainVars
  <1>2. QuietRows
    BY <1>1, SameRowsQuiet
  <1>3. rec[p] \in TickRec /\ AfterScan(p) \in {"reap", "status"}
    BY DEF FundInv, IInv, TypeOK, TickRec, AfterScan
  <1>4. PICK r \in TickRec : r = rec[p]
    BY <1>3
  <1>5. \E tick : /\ rec' = [rec EXCEPT ![p] = tick]
                  /\ \/ tick.pc \notin {"poll", "write"}
                     \/ tick.pc = "write" /\ tick.consumed = Consumed
    <2>1. CASE Reachable(p)
      <3> DEFINE tick == [NoTick EXCEPT !.pc = "tick", !.since = head]
      <3>1. rec' = [rec EXCEPT ![p] = tick] /\ tick.pc = "tick"
        BY <2>1 DEF Reachable, Become, NoTick
      <3> QED
        BY <3>1
    <2>2. CASE TickStart(p)
      <3> DEFINE since == IF p = "reaper" THEN rec[p].since ELSE head
                 base == [NoTick EXCEPT !.since = since, !.list = Oldest(Unreferenced)]
                 Ready == {[base EXCEPT !.pc = AfterScan(p), !.list = {}],
                           [base EXCEPT !.pc = AfterScan(p)], [base EXCEPT !.pc = "head"]}
      <3>1. \E tick \in Ready : rec' = [rec EXCEPT ![p] = tick]
        BY <2>2 DEF TickStart, Become
      <3>2. \A tick \in Ready : tick.pc \in {AfterScan(p), "head"}
        BY DEF NoTick
      <3>3. \A tick \in Ready : tick.pc \notin {"poll", "write"}
        BY <1>3, <3>2
      <3> HIDE DEF Ready
      <3> QED
        BY <3>1, <3>3
    <2>3. CASE Scan(p)
      <3>1. PICK found, next : Become(p, [rec[p] EXCEPT !.pc = "read", !.found = found,
                                            !.at = head, !.next = next])
        BY <2>3 DEF Scan
      <3> DEFINE tick == [r EXCEPT !.pc = "read", !.found = found, !.at = head, !.next = next]
      <3>2. rec' = [rec EXCEPT ![p] = tick]
        BY <1>4, <3>1 DEF Become
      <3>3. tick.pc = "read"
        BY DEF TickRec
      <3> QED
        BY <3>2, <3>3
    <2>4. CASE ReadConsumed(p)
      <3> DEFINE tick == [r EXCEPT !.pc = "write", !.consumed = Consumed]
      <3>1. rec' = [rec EXCEPT ![p] = tick]
        BY <1>4, <2>4 DEF ReadConsumed, Become
      <3>2. tick.pc = "write" /\ tick.consumed = Consumed
        BY DEF TickRec
      <3> QED
        BY <3>1, <3>2
    <2>5. CASE ReapRead(p)
      <3>1. PICK old : \/ Become(p, [rec[p] EXCEPT !.pc = "void", !.list = old])
                       \/ Become(p, NoTick)
        BY <2>5 DEF ReapRead
      <3> DEFINE tick == [r EXCEPT !.pc = "void", !.list = old]
      <3>2. rec' = [rec EXCEPT ![p] = tick] \/ rec' = [rec EXCEPT ![p] = NoTick]
        BY <1>4, <3>1 DEF Become
      <3>3. tick.pc = "void" /\ NoTick.pc = "idle"
        BY DEF TickRec, NoTick
      <3> QED
        BY <3>2, <3>3
    <2>6. CASE TickFails(p)
      <3> DEFINE tick == [NoTick EXCEPT !.pc = AfterScan(p), !.since = rec[p].since]
      <3>1. rec' = [rec EXCEPT ![p] = tick] \/ rec' = [rec EXCEPT ![p] = NoTick]
        BY <2>6 DEF TickFails, ScanFails, WriteFails, Become
      <3>2. tick.pc = AfterScan(p) /\ NoTick.pc = "idle"
        BY DEF NoTick
      <3> QED
        BY <1>3, <3>1, <3>2
    <2> QED
      BY <2>1, <2>2, <2>3, <2>4, <2>5, <2>6
  <1> QED
    BY <1>1, <1>2, <1>5, TickFunds

LEMMA ReapFunds ==
  ASSUME ConstantsAssumption, FundInv, IInv', NEW p \in Loops, Reap(p)
  PROVE  FundInv'
PROOF
  <1>1. UNCHANGED <<req, txs, head>> /\ rec' = [rec EXCEPT ![p] = NoTick]
    BY DEF Reap, Become, chainVars
  <1>2. \A o \in Orders : order'[o] = order[o] \/ order'[o] = VoidSettling(order[o])
    BY DEF Reap
  <1>3. QuietRows
    BY <1>2, VoidIsQuiet DEF QuietRows
  <1>4. NoTick.pc \notin {"poll", "write"}
    BY DEF NoTick
  <1> QED
    BY <1>1, <1>3, <1>4, TickFunds

\* No settling order has a reference, so there is nothing to poll.
LEMMA PollFunds ==
  ASSUME ConstantsAssumption, FundInv, IInv', NEW p \in Loops, StatusRead(p) \/ Poll(p)
  PROVE  FundInv'
PROOF
  <1>1. StatusRead(p)
    BY DEF Poll, FundInv, Unnamed
  <1>2. Settling \ Unreferenced = {}
    BY DEF Settling, Unreferenced, FundInv, Unnamed
  <1>3. rec' = [rec EXCEPT ![p] = NoTick] /\ UNCHANGED <<req, txs, head, order>>
    BY <1>1, <1>2 DEF StatusRead, Become, chainVars, dbVars
  <1>4. QuietRows
    BY <1>3, SameRowsQuiet
  <1>5. NoTick.pc \notin {"poll", "write"}
    BY DEF NoTick
  <1> QED
    BY <1>3, <1>4, <1>5, TickFunds

LEMMA MineFunds ==
  ASSUME ConstantsAssumption, FundInv, IInv', Mine
  PROVE  FundInv'
PROOF
  <1>0. /\ UNCHANGED <<order, req, rec>> /\ head' = head + 1 /\ head \in Nat
        /\ txs \in [Txs -> [block : Nat, pays : SUBSET Orders]]
    BY DEF Mine, dbVars, loopVars, FundInv, IInv, TypeOK, ConstantsAssumption
  <1>1. QuietRows
    BY <1>0, SameRowsQuiet
  <1>2. PaysStay /\ MinedBefore'
    <2>1. ASSUME NEW t \in Txs
          PROVE  /\ txs'[t].pays = txs[t].pays \/ txs[t].block = 0
                 /\ txs'[t].block = txs[t].block \/ txs'[t].block = head + 1
      <3>1. CASE txs' = txs
        BY <3>1
      <3>2. ASSUME NEW u \in Txs, NEW batch, txs[u].block = 0,
                   txs' = [txs EXCEPT ![u] = [block |-> head + 1, pays |-> batch]]
            PROVE  /\ txs'[t].pays = txs[t].pays \/ txs[t].block = 0
                   /\ txs'[t].block = txs[t].block \/ txs'[t].block = head + 1
        BY <1>0, <3>2
      <3> QED
        BY <3>1, <3>2 DEF Mine
    <2>2. ASSUME NEW t \in Txs PROVE txs'[t].block <= head'
      <3>1. txs[t].block \in Nat /\ txs[t].block <= head
        BY <1>0 DEF FundInv, MinedBefore
      <3> QED
        BY <1>0, <2>1, <3>1
    <2> QED
      BY <2>1, <2>2 DEF PaysStay, MinedBefore
  <1>3. \A w \in Workers : req'[w].pc = "record" => req'[w].ans = NoTx
    BY <1>0 DEF FundInv, Unnamed
  <1> QED
    BY <1>0, <1>1, <1>2, <1>3, QuietStep

LEMMA RestFunds ==
  ASSUME ConstantsAssumption, FundInv, IInv',
         (\E o \in Orders : Drop(o)) \/ Restart \/ UNCHANGED vars
  PROVE  FundInv'
PROOF
  <1>1. UNCHANGED <<order, txs, head>>
    BY DEF Drop, Restart, vars, dbVars, chainVars
  <1>2. QuietRows /\ PaysStay /\ MinedBefore'
    BY <1>1, SameRowsQuiet DEF PaysStay, FundInv, MinedBefore
  <1>3. req' = req \/ req' = [w \in Workers |-> Idle]
    BY DEF Drop, Restart, vars
  <1>4. rec' = rec \/ rec' = [p \in Loops |-> NoTick]
    BY DEF Drop, Restart, vars, loopVars
  <1>5. \A w \in Workers : req'[w].pc = "record" => req'[w].ans = NoTx
    BY <1>3 DEF FundInv, Unnamed, Idle
  <1>6. \A p \in Loops : rec'[p] = rec[p] \/ rec'[p].pc \notin {"poll", "write"}
    BY <1>4 DEF NoTick
  <1> QED
    BY <1>2, <1>5, <1>6, QuietStep

LEMMA FundsInit ==
  ASSUME ConstantsAssumption, NothingNamed, Init
  PROVE  FundInv
PROOF
  <1>1. IInv
    BY InitKeeps
  <1>2. MinedBefore
    BY DEF Init, MinedBefore, ConstantsAssumption
  <1>3. Unnamed
    BY DEF Init, Unnamed, Idle, NoTick, NoRow
  <1>4. Funded
    <2> SUFFICES ASSUME NEW t \in Txs
                 PROVE  Total(Costs(order), PaidWith(order, t)) <= Total(Costs(order), txs[t].pays)
      BY DEF Funded
    <2>1. PaidWith(order, t) = {} /\ txs[t].pays = {}
      BY DEF Init, PaidWith, NoRow
    <2> QED
      BY <2>1, TotalEmpty
  <1> QED
    BY <1>1, <1>2, <1>3, <1>4 DEF FundInv

LEMMA FundsStep == ConstantsAssumption /\ FundInv /\ [Next]_vars => FundInv'
PROOF
  <1> SUFFICES ASSUME ConstantsAssumption, FundInv, [Next]_vars
               PROVE  FundInv'
    OBVIOUS
  <1>0. IInv'
    BY StepKeeps DEF FundInv
  <1>1. ASSUME NEW w \in Workers, Request(w)
        PROVE  FundInv'
    BY <1>0, <1>1, BuyFunds, SettleFunds, EndFunds DEF Request
  <1>2. ASSUME NEW p \in Loops, Tick(p) \/ TickFails(p)
        PROVE  FundInv'
    BY <1>0, <1>2, LookFunds, WriteFunds, ReapFunds, PollFunds DEF Tick
  <1>3. CASE Mine
    BY <1>0, <1>3, MineFunds
  <1>4. CASE (\E o \in Orders : Drop(o)) \/ Restart \/ UNCHANGED vars
    BY <1>0, <1>4, RestFunds
  <1> QED
    BY <1>1, <1>2, <1>3, <1>4 DEF Next

LEMMA FundsSuffice == ConstantsAssumption /\ FundInv => TransferNotOverspent
PROOF
  <1> SUFFICES ASSUME ConstantsAssumption, FundInv, NEW t \in Txs
               PROVE  PriceOf({o \in Orders : order[o].status = "delivered" /\ order[o].tx = t})
                        <= Value(t)
    BY DEF TransferNotOverspent
  <1>1. {o \in Orders : order[o].status = "delivered" /\ order[o].tx = t} = PaidWith(order, t)
    BY DEF PaidWith
  <1>2. PaidWith(order, t) \in SUBSET Orders /\ txs[t].pays \in SUBSET Orders
    BY DEF PaidWith, FundInv, IInv, TypeOK
  <1>3. PriceOf(PaidWith(order, t)) = Total(Costs(order), PaidWith(order, t))
    BY <1>2, PriceSum
  <1>4. Value(t) = Total(Costs(order), txs[t].pays)
    BY <1>2, PriceSum DEF Value
  <1> QED
    BY <1>1, <1>3, <1>4 DEF FundInv, Funded

\* While one loop walks and no settle names its transaction: what the walk
\* delivers on a transfer, over re-scans, partial walks, voids and restarts,
\* never costs more than the transfer moved.
THEOREM TransfersSuffice == NothingNamed /\ Spec => []TransferNotOverspent
PROOF
  <1>1. NothingNamed /\ Init => FundInv
    BY ConstantsAssumption, FundsInit
  <1>2. FundInv /\ [Next]_vars => FundInv'
    BY ConstantsAssumption, FundsStep
  <1>3. FundInv => TransferNotOverspent
    BY ConstantsAssumption, FundsSuffice
  <1> QED
    BY <1>1, <1>2, <1>3, PTL DEF Spec


-----------------------------------------------------------------------------
(* The reaper.  It voids an order only after a scan that walked it, and such a *)
(* scan finds a payment that is on chain: no block where it may be is ever     *)
(* skipped.  That needs one order at a time (a transfer of two orders may pay  *)
(* neither alone), a node that returns every receipt, and the distances        *)
(* between its delays that config.py keeps.                                    *)

InTime ==
  /\ NumOrders = 1 /\ MaxMisses = 0
  /\ LOOKBACK + 1 >= MAX_GAP /\ LOOKBACK + 1 >= SCAN_TIME
  /\ REAP_AFTER >= SETTLE_DELAY + 2 * SCAN_TIME

\* Transfer t pays order o, which still waits for the walk.
Owed(t, o) ==
  order[o].status = "settling" /\ order[o].ref = NoTx /\ o \in txs[t].pays

\* A transfer is mined while the authorization it carries is good.
Dated ==
  /\ MinedBefore
  /\ \A o \in Orders :
     /\ order[o].bornAt <= head
     /\ order[o].status = "settling" => order[o].tx = NoTx
     /\ \A t \in Txs : o \in txs[t].pays =>
          /\ order[o].bornAt < txs[t].block
          /\ txs[t].block <= order[o].bornAt + SETTLE_DELAY

Positions ==
  /\ scan.cursor <= head /\ lastWalk <= head
  /\ scan.atHead => head - lastWalk <= MAX_GAP \/ head - lastWalk <= SCAN_TIME

\* What waits for the walk lies ahead of it.
Unwalked ==
  \A t \in Txs, o \in Orders : Owed(t, o) =>
    /\ scan.cursor # 0 => txs[t].block >= scan.cursor
    /\ scan.atHead \/ o \in scan.scanned => txs[t].block > lastWalk

Punctual(tick) ==
  tick.pc # "idle" => tick.since <= head /\ head <= tick.since + SCAN_TIME

\* The last block a tick has read, and that it found what waits up to there.
Reach(tick) == IF tick.next = 0 THEN tick.at ELSE tick.next - 1

Caught(tick) ==
  \A t \in Txs, o \in Orders : Owed(t, o) /\ txs[t].block <= Reach(tick) =>
    t \in tick.found /\ (tick.pc = "write" => t \notin tick.consumed)

Walked(tick) ==
  tick.pc \in {"read", "write"} =>
    /\ tick.list # {} /\ tick.since <= tick.at /\ tick.at <= head /\ tick.next <= tick.at
    /\ Caught(tick)

\* A stamp the reaper trusts is no older than its own tick allows.
Stamp(p, tick) ==
  /\ p = "reaper" /\ tick.pc \in {"tick", "head", "read", "write", "reap"}
  /\ scan.stamped /\ scan.scanned # {}
  => tick.since <= lastWalk + SCAN_TIME

\* What the reaper is about to void can no longer be paid, and was not.
Doomed(tick) ==
  tick.pc = "void" => \A o \in tick.list :
    /\ order[o].status # "none" /\ order[o].bornAt + REAP_AFTER <= head
    /\ order[o].status = "settling" => ~ Landed(o)

Wary(p) == Punctual(rec[p]) /\ Walked(rec[p]) /\ Stamp(p, rec[p]) /\ Doomed(rec[p])

ReapInv ==
  /\ InTime /\ IInv /\ Dated /\ Positions /\ Unwalked
  /\ \A p \in Loops : Wary(p)

\* A write that settles, voids or holds an order, or creates one.
Aged(old, new) ==
  \/ old.status = "none" /\ new.bornAt \in Nat /\ new.bornAt <= head /\ new.tx = NoTx
  \/ /\ new.bornAt = old.bornAt /\ (new.status = "none" <=> old.status = "none")
     /\ new.status = "settling" =>
          old.status = "settling" /\ new.tx = old.tx /\ (new.ref = NoTx => old.ref = NoTx)

RowsAge == \A o \in Orders : Aged(order[o], order'[o])

LEMMA OneOrder == ASSUME InTime, NEW o \in Orders PROVE Orders = {o}
BY DEF InTime, Orders

LEMMA OwedBefore ==
  ASSUME IInv, RowsAge, UNCHANGED txs, NEW t \in Txs, NEW o \in Orders, Owed(t, o)'
  PROVE  Owed(t, o)
PROOF
  <1>1. Aged(order[o], order'[o]) /\ order[o].status # "none"
    BY DEF RowsAge, IInv, Payments, Owed
  <1> QED
    BY <1>1 DEF Aged, Owed

\* What no write changes: the walks a tick has behind it, and what it will void.
LEMMA TickStays ==
  ASSUME ConstantsAssumption, ReapInv, RowsAge, UNCHANGED <<txs, head>>,
         NEW p \in Loops, rec'[p] = rec[p]
  PROVE  Punctual(rec[p])' /\ Walked(rec[p])' /\ Doomed(rec[p])'
PROOF
  <1>1. Punctual(rec[p]) /\ Walked(rec[p]) /\ Doomed(rec[p]) /\ IInv
    BY DEF ReapInv, Wary
  <1>2. Punctual(rec[p])'
    BY <1>1 DEF Punctual
  <1>3. Caught(rec[p]) => Caught(rec[p])'
    BY <1>1, OwedBefore DEF Caught, Reach
  <1>4. Walked(rec[p])'
    BY <1>1, <1>3 DEF Walked
  <1>5. Doomed(rec[p])'
    <2> SUFFICES ASSUME rec[p].pc = "void", NEW o \in rec[p].list
                 PROVE  /\ order'[o].status # "none" /\ order'[o].bornAt + REAP_AFTER <= head
                        /\ order'[o].status = "settling" => ~ Landed(o)
      BY DEF Doomed, Landed
    <2>1. o \in Orders
      BY <1>1 DEF IInv, TypeOK
    <2>2. /\ order[o].status # "none" /\ order[o].bornAt + REAP_AFTER <= head
          /\ order[o].status = "settling" => ~ Landed(o)
      BY <1>1 DEF Doomed
    <2>3. /\ order'[o].bornAt = order[o].bornAt /\ order'[o].status # "none"
          /\ order'[o].status = "settling" => order[o].status = "settling"
      BY <2>1, <2>2 DEF RowsAge, Aged
    <2> QED
      BY <2>2, <2>3
  <1> QED
    BY <1>2, <1>4, <1>5

\* A step that leaves the chain alone.
LEMMA WatchStep ==
  ASSUME ConstantsAssumption, ReapInv, IInv', RowsAge, UNCHANGED <<txs, head>>,
         Positions', Unwalked',
         \A p \in Loops : Wary(p)' \/ (rec'[p] = rec[p] /\ Stamp(p, rec[p])')
  PROVE  ReapInv'
PROOF
  <1>1. \A p \in Loops : Wary(p)'
    BY TickStays DEF Wary
  <1>2. Dated'
    <2> SUFFICES ASSUME NEW o \in Orders
                 PROVE  /\ order'[o].bornAt <= head
                        /\ order'[o].status = "settling" => order'[o].tx = NoTx
                        /\ \A t \in Txs : o \in txs[t].pays =>
                             /\ order'[o].bornAt < txs[t].block
                             /\ txs[t].block <= order'[o].bornAt + SETTLE_DELAY
      BY DEF Dated, MinedBefore, ReapInv
    <2>1. Aged(order[o], order'[o]) /\ Dated /\ Payments
      BY DEF RowsAge, ReapInv, IInv
    <2>2. CASE order[o].status = "none"
      <3>1. \A t \in Txs : o \notin txs[t].pays
        BY <2>1, <2>2 DEF Payments
      <3> QED
        BY <2>1, <2>2, <3>1 DEF Aged, Dated
    <2>3. CASE order[o].status # "none"
      BY <2>1, <2>3 DEF Aged, Dated
    <2> QED
      BY <2>2, <2>3
  <1>3. InTime'
    BY DEF ReapInv, InTime
  <1> QED
    BY <1>1, <1>2, <1>3 DEF ReapInv

\* ... and the reconciler's globals.
LEMMA AsideStep ==
  ASSUME ConstantsAssumption, ReapInv, IInv', RowsAge, UNCHANGED <<txs, head, scan, lastWalk>>,
         \A p \in Loops : Wary(p)' \/ rec'[p] = rec[p]
  PROVE  ReapInv'
PROOF
  <1>1. Positions' /\ Unwalked'
    <2>1. Unwalked'
      BY OwedBefore DEF ReapInv, Unwalked
    <2> QED
      BY <2>1 DEF ReapInv, Positions
  <1>2. \A p \in Loops : rec'[p] = rec[p] => Stamp(p, rec[p])'
    BY DEF ReapInv, Wary, Stamp
  <1> QED
    BY <1>1, <1>2, WatchStep

LEMMA SameRowsAge ==
  ASSUME UNCHANGED order PROVE RowsAge
BY DEF RowsAge, Aged

\* The writes of the handlers and of the ticks.
LEMMA WritesAge ==
  ASSUME ConstantsAssumption, IInv, NEW o \in Orders
  PROVE  /\ Aged(order[o], order[o]) /\ Aged(order[o], VoidSettling(order[o]))
         /\ Aged(order[o], Transition(order[o], [order[o] EXCEPT !.ref = Pending]))
         /\ \A t : /\ Aged(order[o], FinalizeSettled(order[o], t))
                   /\ Aged(order[o], FinalizeStamped(order[o], t))
PROOF
  <1>1. PICK r \in Row : r = order[o]
    BY DEF IInv, TypeOK
  <1>2. /\ Aged(r, r) /\ Aged(r, VoidSettling(r))
        /\ \A t : Aged(r, FinalizeSettled(r, t)) /\ Aged(r, FinalizeStamped(r, t))
    BY DEF Aged, Row, VoidSettling, Transition, FinalizeSettled, FinalizeStamped
  <1>3. Aged(r, Transition(r, [r EXCEPT !.ref = Pending]))
    BY DEF Aged, Row, Transition, ConstantsAssumption
  <1> QED
    BY <1>1, <1>2, <1>3

LEMMA RequestWary ==
  ASSUME ConstantsAssumption, ReapInv, IInv', NEW w \in Workers, Request(w)
  PROVE  ReapInv'
PROOF
  <1>0. order \in [Orders -> Row] /\ IInv /\ head \in Nat
    BY TickTypes DEF ReapInv, IInv, TypeOK
  <1>1. UNCHANGED <<txs, head, scan, lastWalk, rec>>
    BY DEF Request, Buy, Accept, Refuse, Answer, Record, Hook, loopVars, chainVars
  <1>2. CASE Accept(w) \/ Refuse(w) \/ Answer(w)
    <2>1. RowsAge
      BY <1>2, SameRowsAge DEF Accept, Refuse, Answer, dbVars
    <2> QED
      BY <1>1, <2>1, AsideStep
  <1>3. CASE Record(w) \/ Hook(w)
    <2>1. RowsAge
      <3> DEFINE q == req[w].order
      <3>1. \E new : /\ order' = [order EXCEPT ![q] = new]
                     /\ q \in Orders => Aged(order[q], new)
        <4>1. CASE Record(w)
          <5>1. order' = [order EXCEPT ![q] =
                  CASE req[w].ans \in Txs -> FinalizeSettled(order[q], req[w].ans)
                    [] req[w].ans = Pending -> Transition(order[q], [order[q] EXCEPT !.ref = Pending])
                    [] OTHER -> order[q]]
            BY <4>1 DEF Record
          <5>2. CASE req[w].ans \in Txs
            <6>1. order' = [order EXCEPT ![q] = FinalizeSettled(order[q], req[w].ans)]
              BY <5>1, <5>2 DEF ConstantsAssumption
            <6> QED
              BY <1>0, <6>1, WritesAge
          <5>3. CASE req[w].ans = Pending /\ req[w].ans \notin Txs
            <6>1. order' = [order EXCEPT ![q] =
                    Transition(order[q], [order[q] EXCEPT !.ref = Pending])]
              BY <5>1, <5>3
            <6> QED
              BY <1>0, <6>1, WritesAge
          <5>4. CASE req[w].ans \notin Txs \cup {Pending}
            <6>1. order' = [order EXCEPT ![q] = order[q]]
              BY <5>1, <5>4
            <6> QED
              BY <1>0, <6>1, WritesAge
          <5> QED
            BY <5>2, <5>3, <5>4
        <4>2. CASE Hook(w)
          <5> DEFINE new == IF order[q].status \in TERMINAL_DELIVERED
                            THEN order[q] ELSE VoidSettling(order[q])
          <5>1. order' = [order EXCEPT ![q] = new]
            BY <4>2 DEF Hook
          <5>2. q \in Orders => Aged(order[q], new)
            BY <1>0, WritesAge
          <5> QED
            BY <5>1, <5>2
        <4> QED
          BY <1>3, <4>1, <4>2
      <3> HIDE DEF q
      <3>2. PICK new : order' = [order EXCEPT ![q] = new] /\ (q \in Orders => Aged(order[q], new))
        BY <3>1
      <3>3. \A o \in Orders : Aged(order[o], order[o])
        BY <1>0, WritesAge
      <3> QED
        BY <1>0, <3>2, <3>3 DEF RowsAge
    <2> QED
      BY <1>1, <2>1, AsideStep
  <1>4. CASE Buy(w)
    <2>1. RowsAge
      <3>1. CASE UNCHANGED order
        BY <3>1, SameRowsAge
      <3>2. ASSUME NEW q \in Unborn, NEW price, NEW block, Create(w, q, price, block)
            PROVE  RowsAge
        <4> DEFINE new == [NoRow EXCEPT !.status = "settling", !.expected = price,
                             !.createdBlock = block, !.bornAt = head]
        <4>1. order' = [order EXCEPT ![q] = new] /\ q \in Orders /\ order[q].status = "none"
          BY <3>2 DEF Create, Unborn
        <4>2. new.bornAt = head /\ new.tx = NoTx
          BY DEF NoRow
        <4> HIDE DEF new
        <4>3. Aged(order[q], new)
          BY <1>0, <4>1, <4>2 DEF Aged
        <4>4. \A o \in Orders : Aged(order[o], order[o])
          BY <1>0, WritesAge
        <4> QED
          BY <1>0, <4>1, <4>3, <4>4 DEF RowsAge
      <3> QED
        BY <1>4, <3>1, <3>2 DEF Buy
    <2> QED
      BY <1>1, <2>1, AsideStep
  <1> QED
    BY <1>2, <1>3, <1>4 DEF Request

LEMMA RestWary ==
  ASSUME ConstantsAssumption, ReapInv, IInv', (\E o \in Orders : Drop(o)) \/ UNCHANGED vars
  PROVE  ReapInv'
PROOF
  <1>1. UNCHANGED <<order, txs, head, scan, lastWalk, rec>>
    BY DEF Drop, vars, dbVars, loopVars, chainVars
  <1> QED
    BY <1>1, SameRowsAge, AsideStep

\* A start knows nothing, and so misses nothing.
LEMMA RestartWary ==
  ASSUME ConstantsAssumption, ReapInv, IInv', Restart
  PROVE  ReapInv'
PROOF
  <1>1. /\ UNCHANGED <<order, txs, head>> /\ scan' = NoScan /\ lastWalk' = 0
        /\ rec' = [p \in Loops |-> NoTick]
    BY DEF Restart, dbVars, chainVars
  <1>2. head \in Nat
    BY TickTypes DEF ReapInv
  <1>3. Positions' /\ Unwalked'
    BY <1>1, <1>2 DEF Positions, Unwalked, NoScan
  <1>4. \A p \in Loops : Wary(p)'
    BY <1>1 DEF Wary, Punctual, Walked, Stamp, Doomed, NoTick
  <1> QED
    BY <1>1, <1>3, <1>4, SameRowsAge, WatchStep

\* A new transfer lies ahead of every walk, and pays what is still good.
LEMMA MineWary ==
  ASSUME ConstantsAssumption, ReapInv, IInv', Mine
  PROVE  ReapInv'
PROOF
  <1>0. /\ UNCHANGED <<order, rec, scan, lastWalk>> /\ head' = head + 1 /\ head \in Nat
        /\ OnTime(head + 1)
        /\ txs \in [Txs -> [block : Nat, pays : SUBSET Orders]]
    BY TickTypes DEF Mine, dbVars, loopVars, ReapInv, IInv, TypeOK
  <1>1. ASSUME NEW t \in Txs
        PROVE  \/ txs'[t] = txs[t]
               \/ /\ txs[t].block = 0 /\ txs'[t].block = head + 1
                  /\ \A o \in txs'[t].pays : Valid(o, head + 1)
    <2>1. CASE txs' = txs
      BY <2>1
    <2>2. ASSUME NEW u \in Txs, NEW batch, txs[u].block = 0, \A o \in batch : Valid(o, head + 1),
                 txs' = [txs EXCEPT ![u] = [block |-> head + 1, pays |-> batch]]
          PROVE  \/ txs'[t] = txs[t]
                 \/ /\ txs[t].block = 0 /\ txs'[t].block = head + 1
                    /\ \A o \in txs'[t].pays : Valid(o, head + 1)
      BY <1>0, <2>2
    <2> QED
      BY <2>1, <2>2 DEF Mine
  <1>2. /\ scan.cursor \in Nat /\ lastWalk \in Nat /\ SETTLE_DELAY \in Nat /\ REAP_AFTER \in Nat
        /\ SCAN_TIME \in Nat /\ MAX_GAP \in Nat
        /\ \A o \in Orders : order[o].bornAt \in Nat
        /\ \A p \in Loops : rec[p] \in TickRec
        /\ \A t \in Txs : txs[t].block \in Nat
        /\ Dated /\ Positions /\ Unwalked /\ \A p \in Loops : Wary(p)
    BY <1>0, TickTypes DEF ReapInv, IInv, TypeOK, ScanRec, Row, TickRec, ConstantsAssumption
  <1>3. Dated'
    <2>1. MinedBefore'
      BY <1>0, <1>1, <1>2 DEF Dated, MinedBefore
    <2>2. ASSUME NEW o \in Orders, NEW t \in Txs, o \in txs'[t].pays
          PROVE  order[o].bornAt < txs'[t].block /\ txs'[t].block <= order[o].bornAt + SETTLE_DELAY
      BY <1>0, <1>1, <1>2, <2>2 DEF Dated, Valid
    <2> QED
      BY <1>0, <1>2, <2>1, <2>2 DEF Dated
  <1>4. Positions'
    <2>1. scan.atHead => (head + 1) - lastWalk <= MAX_GAP
      BY <1>0 DEF OnTime
    <2> QED
      BY <1>0, <1>2, <2>1 DEF Positions
  <1>5. Unwalked'
    <2> SUFFICES ASSUME NEW t \in Txs, NEW o \in Orders, Owed(t, o)'
                 PROVE  /\ scan.cursor # 0 => txs'[t].block >= scan.cursor
                        /\ scan.atHead \/ o \in scan.scanned => txs'[t].block > lastWalk
      BY <1>0 DEF Unwalked
    <2>1. CASE txs'[t] = txs[t]
      BY <1>0, <1>2, <2>1 DEF Owed, Unwalked
    <2>2. CASE txs'[t].block = head + 1
      BY <1>0, <1>2, <2>2 DEF Positions
    <2> QED
      BY <1>1, <2>1, <2>2
  <1>6. ASSUME NEW p \in Loops
        PROVE  Wary(p)'
    <2>0. Wary(p) /\ rec[p] \in TickRec
      BY <1>2
    <2>1. Punctual(rec[p])'
      <3>1. rec[p].pc # "idle" => (head + 1) - rec[p].since <= SCAN_TIME
        BY <1>0 DEF OnTime
      <3>2. rec[p].since \in Nat
        BY <2>0 DEF TickRec
      <3> QED
        BY <1>0, <1>2, <2>0, <3>1, <3>2 DEF Wary, Punctual
    <2>2. Walked(rec[p])'
      <3> SUFFICES ASSUME rec[p].pc \in {"read", "write"}
                   PROVE  /\ rec[p].list # {} /\ rec[p].since <= rec[p].at
                          /\ rec[p].at <= head' /\ rec[p].next <= rec[p].at
                          /\ Caught(rec[p])'
        BY <1>0 DEF Walked
      <3>1. /\ rec[p].list # {} /\ rec[p].since <= rec[p].at
            /\ rec[p].at <= head /\ rec[p].next <= rec[p].at /\ Caught(rec[p])
        BY <2>0 DEF Wary, Walked
      <3>2. rec[p].at \in Nat /\ rec[p].next \in Nat
        BY <2>0 DEF TickRec
      <3>3. Caught(rec[p])'
        <4> SUFFICES ASSUME NEW t \in Txs, NEW o \in Orders, Owed(t, o)',
                            txs'[t].block <= Reach(rec[p])
                     PROVE  t \in rec[p].found /\ (rec[p].pc = "write" => t \notin rec[p].consumed)
          BY <1>0 DEF Caught, Reach
        <4>1. Reach(rec[p]) <= head /\ Reach(rec[p]) \in Int
          BY <1>0, <3>1, <3>2 DEF Reach
        <4>2. txs'[t] = txs[t]
          BY <1>0, <1>1, <4>1
        <4>3. Owed(t, o)
          BY <1>0, <4>2 DEF Owed
        <4> QED
          BY <3>1, <4>2, <4>3 DEF Caught
      <3> QED
        BY <1>0, <3>1, <3>2, <3>3
    <2>3. Stamp(p, rec[p])'
      BY <1>0, <2>0 DEF Wary, Stamp
    <2>4. Doomed(rec[p])'
      <3> SUFFICES ASSUME rec[p].pc = "void", NEW o \in rec[p].list
                   PROVE  /\ order[o].status # "none" /\ order[o].bornAt + REAP_AFTER <= head + 1
                          /\ order[o].status = "settling" => ~ Landed(o)'
        BY <1>0 DEF Doomed
      <3>1. /\ o \in Orders /\ order[o].status # "none" /\ order[o].bornAt + REAP_AFTER <= head
            /\ order[o].status = "settling" => ~ Landed(o)
        BY <2>0 DEF Wary, Doomed, TickRec
      <3>2. order[o].bornAt \in Nat /\ SETTLE_DELAY <= REAP_AFTER
        BY <1>2, <3>1 DEF ReapInv, InTime
      <3>3. ~ Valid(o, head + 1)
        BY <1>0, <1>2, <3>1, <3>2 DEF Valid
      <3>4. order[o].bornAt + REAP_AFTER <= head + 1
        BY <1>0, <1>2, <3>1, <3>2
      <3>5. \A t \in Txs : o \in txs'[t].pays => o \in txs[t].pays
        BY <1>1, <3>3
      <3> QED
        BY <3>1, <3>4, <3>5 DEF Landed
    <2> QED
      BY <2>1, <2>2, <2>3, <2>4 DEF Wary
  <1> QED
    BY <1>0, <1>3, <1>4, <1>5, <1>6 DEF ReapInv, InTime

\* A step of one tick that leaves the chain and the reconciler's globals alone.
LEMMA OwnStep ==
  ASSUME ConstantsAssumption, ReapInv, IInv', RowsAge, UNCHANGED <<txs, head, scan, lastWalk>>,
         NEW p \in Loops, NEW tick, Become(p, tick), rec'[p] = tick => Wary(p)'
  PROVE  ReapInv'
PROOF
  <1>1. rec \in [Loops -> TickRec] /\ rec' = [rec EXCEPT ![p] = tick]
    BY DEF ReapInv, IInv, TypeOK, TickRec, Become
  <1>2. rec'[p] = tick /\ \A q \in Loops : q # p => rec'[q] = rec[q]
    BY <1>1
  <1>3. \A q \in Loops : Wary(q)' \/ rec'[q] = rec[q]
    BY <1>2
  <1> QED
    BY <1>3, AsideStep

\* ... that may move the globals, without breaking the reaper's trust in them.
LEMMA SharedStep ==
  ASSUME ConstantsAssumption, ReapInv, IInv', RowsAge, UNCHANGED <<txs, head>>,
         NEW p \in Loops, NEW tick, Become(p, tick), rec'[p] = tick => Wary(p)',
         Positions', Unwalked', \A q \in Loops : rec'[q] = rec[q] => Stamp(q, rec[q])'
  PROVE  ReapInv'
PROOF
  <1>1. rec \in [Loops -> TickRec] /\ rec' = [rec EXCEPT ![p] = tick]
    BY DEF ReapInv, IInv, TypeOK, TickRec, Become
  <1>2. rec'[p] = tick /\ \A q \in Loops : q # p => rec'[q] = rec[q]
    BY <1>1
  <1>3. \A q \in Loops : Wary(q)' \/ (rec'[q] = rec[q] /\ Stamp(q, rec[q])')
    BY <1>2
  <1> QED
    BY <1>3, WatchStep

\* What the invariant says of the tick at hand, and of the globals.
LEMMA WaryTick ==
  ASSUME ConstantsAssumption, ReapInv, NEW p \in Loops
  PROVE  /\ rec[p] \in TickRec /\ scan \in ScanRec /\ head \in Nat /\ lastWalk \in Nat
         /\ SCAN_TIME \in Nat /\ MAX_GAP \in Nat /\ REAP_AFTER \in Nat /\ SETTLE_DELAY \in Nat
         /\ Wary(p) /\ Positions /\ Unwalked /\ Dated
BY TickTypes, TickPromises DEF ReapInv, Found, ConstantsAssumption

LEMMA ReachableWary ==
  ASSUME ConstantsAssumption, ReapInv, IInv', NEW p \in Loops, Reachable(p)
  PROVE  ReapInv'
PROOF
  <1> DEFINE tick == [NoTick EXCEPT !.pc = "tick", !.since = head]
  <1>1. /\ UNCHANGED <<order, txs, head, lastWalk>> /\ Become(p, tick)
        /\ scan' = [scan EXCEPT !.stamped = FALSE]
    BY DEF Reachable, dbVars, chainVars
  <1>2. tick.pc = "tick" /\ tick.since = head
    BY DEF NoTick
  <1> HIDE DEF tick
  <1>3. /\ scan'.cursor = scan.cursor /\ scan'.atHead = scan.atHead
        /\ scan'.scanned = scan.scanned /\ ~ scan'.stamped
    BY <1>1, WaryTick DEF ScanRec
  <1>4. Positions'
    BY <1>1, <1>3, WaryTick DEF Positions
  <1>5. Unwalked'
    BY <1>1, <1>3, WaryTick DEF Unwalked, Owed
  <1>6. \A q \in Loops : Stamp(q, rec[q])'
    BY <1>3 DEF Stamp
  <1>7. rec'[p] = tick => Wary(p)'
    BY <1>1, <1>2, <1>6, WaryTick DEF Wary, Punctual, Walked, Doomed
  <1> QED
    BY <1>1, <1>4, <1>5, <1>6, <1>7, SameRowsAge, SharedStep

LEMMA TickStartWary ==
  ASSUME ConstantsAssumption, ReapInv, IInv', NEW p \in Loops, TickStart(p)
  PROVE  ReapInv'
PROOF
  <1> DEFINE since == IF p = "reaper" THEN rec[p].since ELSE head
             base == [NoTick EXCEPT !.since = since, !.list = Oldest(Unreferenced)]
  <1>0. /\ UNCHANGED <<order, txs, head>> /\ rec[p].pc = IF p = "reaper" THEN "tick" ELSE "idle"
        /\ AfterScan(p) = IF p = "reaper" THEN "reap" ELSE "status"
    BY DEF TickStart, dbVars, chainVars, AfterScan
  <1>1. PICK tick : /\ Become(p, tick) /\ tick.since = since /\ tick.pc \in {AfterScan(p), "head"}
    <2>1. PICK tick \in {[base EXCEPT !.pc = AfterScan(p), !.list = {}],
                         [base EXCEPT !.pc = AfterScan(p)], [base EXCEPT !.pc = "head"]} :
            Become(p, tick)
      BY DEF TickStart
    <2>2. tick.since = since /\ tick.pc \in {AfterScan(p), "head"}
      BY DEF NoTick
    <2> QED
      BY <2>1, <2>2
  <1>2. Punctual(tick)
    <2>1. since <= head /\ head <= since + SCAN_TIME
      <3>1. CASE p = "reaper"
        BY <1>0, <3>1, WaryTick DEF Punctual, Wary
      <3>2. CASE p # "reaper"
        <4>1. head \in Nat /\ SCAN_TIME \in Nat
          BY WaryTick
        <4> QED
          BY <3>2, <4>1
      <3> QED
        BY <3>1, <3>2
    <2> QED
      BY <1>1, <2>1 DEF Punctual
  <1>3. \/ UNCHANGED <<scan, lastWalk>>
        \/ scan' = [NoScan EXCEPT !.stamped = TRUE] /\ lastWalk' = 0
    BY DEF TickStart
  <1>4. Positions' /\ Unwalked'
    <2>1. CASE UNCHANGED <<scan, lastWalk>>
      BY <1>0, <2>1, WaryTick DEF Positions, Unwalked, Owed
    <2>2. CASE scan' = [NoScan EXCEPT !.stamped = TRUE] /\ lastWalk' = 0
      BY <1>0, <2>2, WaryTick DEF Positions, Unwalked, NoScan
    <2> QED
      BY <1>3, <2>1, <2>2
  <1>5. \A q \in Loops : rec'[q] = rec[q] => Stamp(q, rec[q])'
    <2>1. CASE UNCHANGED <<scan, lastWalk>>
      BY <2>1, WaryTick DEF Stamp, Wary
    <2>2. CASE scan' = [NoScan EXCEPT !.stamped = TRUE]
      BY <2>2 DEF Stamp, NoScan
    <2> QED
      BY <1>3, <2>1, <2>2
  <1>6. ASSUME rec'[p] = tick PROVE Wary(p)'
    <2>1. Punctual(rec[p])' /\ Walked(rec[p])' /\ Doomed(rec[p])'
      BY <1>0, <1>1, <1>2, <1>6 DEF Punctual, Walked, Doomed
    <2>2. Stamp(p, rec[p])'
      <3>1. CASE p = "reaper" /\ UNCHANGED <<scan, lastWalk>>
        BY <1>0, <1>1, <1>6, <3>1, WaryTick DEF Stamp, Wary
      <3>2. CASE scan' = [NoScan EXCEPT !.stamped = TRUE]
        BY <3>2 DEF Stamp, NoScan
      <3>3. CASE p # "reaper"
        BY <3>3 DEF Stamp
      <3> QED
        BY <1>3, <3>1, <3>2, <3>3
    <2> QED
      BY <2>1, <2>2 DEF Wary
  <1> QED
    BY <1>0, <1>1, <1>4, <1>5, <1>6, SameRowsAge, SharedStep

\* A scan that fails promises nothing it did not promise before.
LEMMA FailsWary ==
  ASSUME ConstantsAssumption, ReapInv, IInv', NEW p \in Loops, TickFails(p)
  PROVE  ReapInv'
PROOF
  <1>0. UNCHANGED <<order, txs, head, lastWalk>>
    BY DEF TickFails, ScanFails, WriteFails, dbVars, chainVars
  <1>1. RowsAge
    BY <1>0, SameRowsAge
  <1>2. CASE WriteFails(p)
    <2>1. Become(p, NoTick) /\ UNCHANGED scan
      BY <1>2 DEF WriteFails
    <2>2. rec'[p] = NoTick => Wary(p)'
      BY DEF NoTick, Wary, Punctual, Walked, Stamp, Doomed
    <2> QED
      BY <1>0, <1>1, <2>1, <2>2, OwnStep
  <1>3. CASE ScanFails(p)
    <2> DEFINE tick == [NoTick EXCEPT !.pc = AfterScan(p), !.since = rec[p].since]
    <2>1. /\ Become(p, tick) /\ rec[p].pc = "head"
          /\ scan' \in {scan, [scan EXCEPT !.scanned = {}]}
      BY <1>3 DEF ScanFails
    <2>2. tick.pc = AfterScan(p) /\ tick.since = rec[p].since /\ AfterScan(p) \in {"reap", "status"}
      BY DEF NoTick, AfterScan
    <2> HIDE DEF tick
    <2>3. /\ scan'.cursor = scan.cursor /\ scan'.atHead = scan.atHead
          /\ scan'.scanned \in {scan.scanned, {}} /\ scan'.stamped = scan.stamped
      BY <2>1, WaryTick DEF ScanRec
    <2>4. Positions' /\ Unwalked'
      BY <1>0, <2>3, WaryTick DEF Positions, Unwalked, Owed
    <2>5. \A q \in Loops : rec'[q] = rec[q] => Stamp(q, rec[q])'
      BY <1>0, <2>3, WaryTick DEF Stamp, Wary
    <2>6. ASSUME rec'[p] = tick PROVE Wary(p)'
      <3>1. Punctual(rec[p])' /\ Walked(rec[p])' /\ Doomed(rec[p])'
        BY <1>0, <2>1, <2>2, <2>6, WaryTick DEF Wary, Punctual, Walked, Doomed
      <3>2. Stamp(p, rec[p])'
        BY <1>0, <2>1, <2>2, <2>3, <2>6, WaryTick DEF Wary, Stamp
      <3> QED
        BY <3>1, <3>2 DEF Wary
    <2> QED
      BY <1>0, <1>1, <2>1, <2>4, <2>5, <2>6, SharedStep
  <1> QED
    BY <1>2, <1>3 DEF TickFails

\* Heights are clamped at the first block, or left as they are.
LEMMA ClampedIsEither ==
  ASSUME NEW a \in Int
  PROVE  Max({a, 0}) \in {a, 0}
PROOF
  <1> DEFINE m == Max({a, 0})
  <1>1. m \in {a, 0} /\ m >= 0
    BY MaxOfTwo
  <1> QED
    BY <1>1

\* Where a walk starts: at no block that may hold a payment is it too late.
LEMMA StartsInTime ==
  ASSUME ConstantsAssumption, ReapInv, NEW t \in Txs, NEW o \in Orders, Owed(t, o)
  PROVE  ScanStart({o}) <= txs[t].block
PROOF
  <1>0. /\ txs[t].block \in Nat /\ order[o].bornAt \in Nat /\ order[o].bornAt < txs[t].block
        /\ order[o].bornAt <= head /\ txs[t].block <= head
    BY WaryTick DEF ReapInv, IInv, TypeOK, Row, Dated, MinedBefore, Owed
  <1>1. head \in Nat /\ LOOKBACK \in Nat /\ SAFETY_BLOCKS \in Nat /\ lastWalk \in Nat
    BY TickTypes DEF ReapInv, ConstantsAssumption
  <1>2. CASE scan.cursor # 0
    BY <1>2 DEF ReapInv, Unwalked, ScanStart
  <1>3. CASE scan.cursor = 0 /\ scan.atHead
    <2>1. txs[t].block > lastWalk
      BY <1>3 DEF ReapInv, Unwalked
    <2>2. head - lastWalk <= LOOKBACK + 1
      <3>1. \/ head - lastWalk <= MAX_GAP
            \/ head - lastWalk <= SCAN_TIME
        BY <1>3 DEF ReapInv, Positions
      <3>2. /\ LOOKBACK + 1 >= MAX_GAP /\ LOOKBACK + 1 >= SCAN_TIME
            /\ MAX_GAP \in Nat /\ SCAN_TIME \in Nat
        BY DEF ReapInv, InTime, ConstantsAssumption
      <3> QED
        BY <1>1, <3>1, <3>2
    <2>3. head - LOOKBACK <= txs[t].block
      BY <1>0, <1>1, <2>1, <2>2
    <2>4. Max({head - LOOKBACK, 0}) \in {head - LOOKBACK, 0}
      <3>1. head - LOOKBACK \in Int
        BY <1>1
      <3> QED
        BY <3>1, ClampedIsEither
    <2>5. Max({head - LOOKBACK, 0}) <= txs[t].block
      BY <1>0, <2>3, <2>4
    <2> QED
      BY <1>3, <2>5 DEF ScanStart
  <1>4. CASE scan.cursor = 0 /\ ~ scan.atHead
    <2>1. (CHOOSE x \in {o} : \A q \in {o} : x <= q) = o
      <3>1. o <= o
        BY DEF Orders, ConstantsAssumption
      <3> QED
        BY <3>1
    <2> DEFINE depth == ((head - order[o].bornAt) * 5) \div 4 + SAFETY_BLOCKS
               a == Max({head - LOOKBACK, 0})
               b == Max({head - depth, 0})
    <2>2. head - depth \in Int /\ head - depth <= order[o].bornAt
      BY <1>0, <1>1
    <2>3. ScanStart({o}) = Min({a, b})
      BY <1>4, <2>1 DEF ScanStart, Anchor
    <2> HIDE DEF depth
    <2>4. a \in Int
      <3>1. head - LOOKBACK \in Int
        BY <1>1
      <3> QED
        BY <3>1, ClampedIsNat
    <2>5. b \in Int /\ b <= order[o].bornAt
      <3>1. b \in {head - depth, 0}
        <4>1. head - depth \in Int
          BY <2>2
        <4> QED
          BY <4>1, ClampedIsEither
      <3> HIDE DEF b
      <3> QED
        BY <1>0, <2>2, <3>1
    <2> HIDE DEF a, b
    <2>6. Min({a, b}) <= b /\ Min({a, b}) \in {a, b}
      BY <2>4, <2>5, MinOfTwo
    <2> QED
      BY <1>0, <2>3, <2>4, <2>5, <2>6
  <1> QED
    BY <1>2, <1>3, <1>4

\* A walk that reads every receipt finds what waits within its blocks.
LEMMA ScanWary ==
  ASSUME ConstantsAssumption, ReapInv, IInv', NEW p \in Loops, Scan(p)
  PROVE  ReapInv'
PROOF
  <1> DEFINE start == ScanStart(rec[p].list)
             last == Min({start + WALK - 1, head})
  <1>0. /\ UNCHANGED <<order, txs, head, scan, lastWalk>> /\ rec[p].pc = "head"
        /\ rec[p].list \in SUBSET Orders /\ rec[p].list # {}
    BY TickPromises DEF Scan, dbVars, chainVars, ReapInv, Found, TickRec
  <1>1. PICK missed \in SUBSET Mined(start, last) :
          /\ misses + Cardinality(missed) <= MaxMisses
          /\ Become(p, [rec[p] EXCEPT !.pc = "read", !.found = Mined(start, last) \ missed,
                          !.at = head, !.next = IF last = head THEN 0 ELSE last + 1])
    BY DEF Scan
  <1>2. missed = {}
    <2>1. IsFiniteSet(missed)
      BY FS_Subset DEF Mined, ConstantsAssumption
    <2>2. Cardinality(missed) \in Nat /\ misses \in Nat /\ MaxMisses = 0
      BY <2>1, FS_CardinalityType, TickTypes DEF ReapInv, InTime
    <2>3. Cardinality(missed) = 0
      BY <1>1, <2>2
    <2> QED
      BY <2>1, <2>3, FS_EmptySet
  <1>3. start \in Nat
    BY <1>0, StartIsBlock DEF ReapInv, IInv
  <1>4. last \in Nat /\ last <= head
    <2>1. head \in Nat /\ WALK \in Nat \ {0}
      BY TickTypes DEF ReapInv, ConstantsAssumption
    <2> HIDE DEF start
    <2> DEFINE a == start + WALK - 1
    <2>2. a \in Nat
      BY <1>3, <2>1
    <2> HIDE DEF a
    <2>3. Min({a, head}) \in {a, head} /\ Min({a, head}) <= head
      <3>1. a \in Int /\ head \in Int
        BY <2>1, <2>2
      <3> QED
        BY <3>1, MinOfTwo
    <2> QED
      BY <2>1, <2>2, <2>3 DEF a
  <1>5. ASSUME NEW t \in Txs, NEW o \in Orders, Owed(t, o) PROVE start <= txs[t].block
    <2>1. rec[p].list = {o}
      BY <1>0, OneOrder DEF ReapInv
    <2> QED
      BY <1>5, <2>1, StartsInTime
  <1> HIDE DEF start, last
  <1> DEFINE next == IF last = head THEN 0 ELSE last + 1
  <1>6. PICK tick : /\ Become(p, tick) /\ tick.pc = "read" /\ tick.found = Mined(start, last)
                    /\ tick.at = head /\ tick.next = next
                    /\ tick.list = rec[p].list /\ tick.since = rec[p].since
    <2>1. PICK r \in TickRec : r = rec[p]
      BY WaryTick
    <2> DEFINE tick == [r EXCEPT !.pc = "read", !.found = Mined(start, last), !.at = head,
                          !.next = next]
    <2>2. Become(p, tick)
      BY <1>1, <1>2, <2>1 DEF Become
    <2>3. /\ tick.pc = "read" /\ tick.found = Mined(start, last) /\ tick.at = head
          /\ tick.next = next /\ tick.list = r.list /\ tick.since = r.since
      BY DEF TickRec
    <2> QED
      BY <2>1, <2>2, <2>3
  <1>7. head \in Nat /\ next \in Nat /\ next <= head
    BY <1>4, WaryTick
  <1>8. Reach(tick) = last
    BY <1>4, <1>6, <1>7 DEF Reach
  <1>9. ASSUME rec'[p] = tick PROVE Wary(p)'
    <2>1. Punctual(rec[p]) /\ Stamp(p, rec[p])
      BY WaryTick DEF Wary
    <2>2. Punctual(rec[p])' /\ Stamp(p, rec[p])'
      BY <1>0, <1>6, <1>9, <2>1 DEF Punctual, Stamp
    <2>3. Caught(rec[p])'
      <3> SUFFICES ASSUME NEW t \in Txs, NEW o \in Orders, Owed(t, o), txs[t].block <= last
                   PROVE  t \in Mined(start, last)
        BY <1>0, <1>6, <1>8, <1>9 DEF Caught, Owed, Reach
      <3>1. start <= txs[t].block /\ txs[t].block # 0
        BY <1>5 DEF ReapInv, IInv, Payments, Owed
      <3> QED
        BY <3>1 DEF Mined
    <2>4. Walked(rec[p])'
      <3>1. rec[p].since <= head
        BY <1>0, <2>1 DEF Punctual
      <3> QED
        BY <1>0, <1>6, <1>7, <1>9, <2>3, <3>1 DEF Walked
    <2>5. Doomed(rec[p])'
      BY <1>6, <1>9 DEF Doomed
    <2> QED
      BY <2>2, <2>4, <2>5 DEF Wary
  <1> QED
    BY <1>0, <1>6, <1>9, SameRowsAge, OwnStep

\* Nothing of a waiting order is used up.
LEMMA ReadConsumedWary ==
  ASSUME ConstantsAssumption, ReapInv, IInv', NEW p \in Loops, ReadConsumed(p)
  PROVE  ReapInv'
PROOF
  <1>0. UNCHANGED <<order, txs, head, scan, lastWalk>> /\ rec[p].pc = "read"
    BY DEF ReadConsumed, dbVars, chainVars
  <1>1. PICK r \in TickRec : r = rec[p]
    BY WaryTick
  <1> DEFINE tick == [r EXCEPT !.pc = "write", !.consumed = Consumed]
  <1>2. Become(p, tick)
    BY <1>1 DEF ReadConsumed, Become
  <1>3. /\ tick.pc = "write" /\ tick.found = r.found /\ tick.at = r.at /\ tick.next = r.next
        /\ tick.list = r.list /\ tick.since = r.since /\ tick.consumed = Consumed
    BY DEF TickRec
  <1> HIDE DEF tick
  <1>4. ASSUME rec'[p] = tick PROVE Wary(p)'
    <2>1. Punctual(rec[p]) /\ Walked(rec[p]) /\ Stamp(p, rec[p])
      BY WaryTick DEF Wary
    <2>2. Punctual(rec[p])' /\ Stamp(p, rec[p])'
      BY <1>0, <1>1, <1>3, <1>4, <2>1 DEF Punctual, Stamp
    <2>3. Caught(rec[p])'
      <3> SUFFICES ASSUME NEW t \in Txs, NEW o \in Orders, Owed(t, o), txs[t].block <= Reach(r)
                   PROVE  t \in r.found /\ t \notin Consumed
        BY <1>0, <1>1, <1>3, <1>4 DEF Caught, Owed, Reach
      <3>1. Orders = {o} /\ order[o].ref = NoTx /\ order[o].tx = NoTx
        BY OneOrder DEF ReapInv, Dated, Owed
      <3>2. Consumed = {}
        BY <3>1 DEF Consumed
      <3> QED
        BY <1>0, <1>1, <2>1, <3>2 DEF Walked, Caught
    <2>4. Walked(rec[p])'
      BY <1>0, <1>1, <1>3, <1>4, <2>1, <2>3 DEF Walked
    <2>5. Doomed(rec[p])'
      BY <1>3, <1>4 DEF Doomed
    <2> QED
      BY <2>2, <2>4, <2>5 DEF Wary
  <1> QED
    BY <1>0, <1>2, <1>4, SameRowsAge, OwnStep

\* The walk gives a lone order to a transfer it found that pays it: nothing is
\* taken from the candidates before, and the transfer is worth the order.
LEMMA LoneIsGiven ==
  ASSUME ConstantsAssumption, ReapInv, NEW o \in Orders, NEW fresh \in SUBSET Txs,
         NEW t \in fresh, o \in txs[t].pays
  PROVE  PayerOf(o, {o}, fresh) # NoTx
PROOF
  <1> DEFINE left == Unpaid({o}, fresh)
             b == txs[t].block
  <1>0. TypeOK /\ Payments /\ MinedBefore /\ MaxBlock \in Nat
    BY DEF ReapInv, IInv, Dated, ConstantsAssumption
  <1>1. b \in 1..MaxBlock
    <2>1. b \in Nat /\ b # 0 /\ b <= head /\ head \in 1..MaxBlock
      BY <1>0 DEF TypeOK, Payments, MinedBefore
    <2> QED
      BY <1>0, <2>1
  <1>2. \A u \in Txs : u \in fresh /\ o \in txs[u].pays => o \in Covered(u, {o})
    <2> SUFFICES ASSUME NEW u \in Txs, o \in txs[u].pays PROVE o \in Covered(u, {o})
      OBVIOUS
    <2>1. txs[u].pays = {o}
      BY <1>0, OneOrder DEF ReapInv, TypeOK
    <2>2. o <= o /\ {q \in {o} : q <= o} = {o}
      BY DEF Orders, ConstantsAssumption
    <2>3. PriceOf({o}) <= Value(u)
      <3>1. PriceOf({o}) \in Nat
        <4>1. PriceOf({o}) = Total(Costs(order), {o})
          BY PriceSum
        <4>2. \A q \in {o} : Costs(order)[q] \in Nat
          BY <1>0, CostsAreNat
        <4> QED
          BY <4>1, <4>2, OrdersFinite, TotalNat
      <3> QED
        BY <2>1, <3>1 DEF Value
    <2>4. txs[u].block >= order[o].createdBlock
      BY <1>0 DEF Payments
    <2> QED
      BY <2>2, <2>3, <2>4 DEF Covered
  <1>3. Leaves(left, {o}, fresh, MaxBlock)
    BY UnpaidLeaves
  <1>4. \A k \in 0..MaxBlock : left[k] \subseteq {o}
    BY UnpaidIsPart
  <1> HIDE DEF left
  <1>5. \A k \in 1..MaxBlock : left[k] = LeftAfter(left[k - 1], fresh, k)
    <2> TAKE k \in 1..MaxBlock
    <2>1. k \in 0..MaxBlock /\ k # 0
      BY <1>0
    <2> QED
      BY <1>3, <2>1 DEF Leaves
  <1>6. PICK k \in 0..b : /\ k # 0 /\ left[k - 1] = {o}
                          /\ \E u \in fresh : txs[u].block = k /\ o \in Covered(u, {o})
    <2> DEFINE Gone == {k \in 1..b : left[k] # {o}}
    <2>1. b \in Gone
      <3>1. left[b] = LeftAfter(left[b - 1], fresh, b)
        BY <1>1, <1>5
      <3>2. left[b - 1] \subseteq {o}
        BY <1>0, <1>1, <1>4
      <3>3. o \in Covered(t, {o})
        BY <1>2
      <3>4. CASE left[b - 1] = {o}
        <4>1. o \notin LeftAfter({o}, fresh, b)
          BY <3>3 DEF LeftAfter
        <4> QED
          BY <1>1, <3>1, <3>4, <4>1
      <3>5. CASE left[b - 1] = {}
        <4>1. left[b] = {}
          BY <3>1, <3>5 DEF LeftAfter
        <4> QED
          BY <1>1, <4>1
      <3> QED
        BY <3>2, <3>4, <3>5
    <2>2. Gone \in SUBSET Nat
      OBVIOUS
    <2> HIDE DEF Gone
    <2>3. PICK k \in Gone : \A j \in Gone : k <= j
      BY <2>1, <2>2, LeastOf
    <2>4. k \in 1..b /\ left[k] # {o}
      BY <2>3 DEF Gone
    <2>5. left[k - 1] = {o}
      <3>1. CASE k = 1
        BY <1>0, <1>3, <3>1 DEF Leaves
      <3>2. CASE k # 1
        <4>1. k - 1 \in 1..b /\ ~ (k <= k - 1)
          BY <1>1, <2>4, <3>2
        <4>2. k - 1 \notin Gone
          BY <2>3, <4>1
        <4> QED
          BY <4>1, <4>2 DEF Gone
      <3> QED
        BY <3>1, <3>2
    <2>6. left[k] = LeftAfter({o}, fresh, k)
      <3>1. k \in 1..MaxBlock
        BY <1>0, <1>1, <2>4
      <3> QED
        BY <1>5, <2>5, <3>1
    <2>7. \E u \in fresh : txs[u].block = k /\ o \in Covered(u, {o})
      <3>1. o \in UNION {Covered(u, {o}) : u \in {v \in fresh : txs[v].block = k}}
        BY <2>4, <2>6 DEF LeftAfter
      <3> QED
        BY <3>1
    <2> QED
      BY <1>1, <2>4, <2>5, <2>7
  <1>7. PICK u \in fresh : txs[u].block = k /\ o \in Covered(u, left[k - 1])
    BY <1>6
  <1> DEFINE payers == {v \in fresh : o \in Covered(v, left[txs[v].block - 1])}
  <1>8. u \in payers
    BY <1>7
  <1>9. PayerOf(o, {o}, fresh) = CHOOSE v \in payers : TRUE
    BY <1>8 DEF PayerOf, left
  <1> HIDE DEF payers
  <1>10. PayerOf(o, {o}, fresh) \in payers
    BY <1>8, <1>9
  <1> QED
    BY <1>10 DEF payers, ConstantsAssumption

\* After the write, what still waits lies behind the last block that was read.
LEMMA WriteWary ==
  ASSUME ConstantsAssumption, ReapInv, IInv', NEW p \in Loops, Write(p)
  PROVE  ReapInv'
PROOF
  <1> DEFINE list == rec[p].list
             fresh == rec[p].found \ rec[p].consumed
             tick == [NoTick EXCEPT !.pc = AfterScan(p), !.since = rec[p].since]
  <1>0. /\ UNCHANGED <<txs, head>> /\ Become(p, tick) /\ rec[p].pc = "write"
        /\ lastWalk' = IF rec[p].next = 0 THEN rec[p].at ELSE lastWalk
    BY DEF Write, chainVars
  <1>1. /\ scan'.cursor = rec[p].next /\ (scan'.atHead <=> scan.atHead \/ rec[p].next = 0)
        /\ scan'.scanned = IF rec[p].next = 0 THEN list ELSE {}
    BY DEF Write
  <1>2. tick.pc = AfterScan(p) /\ tick.since = rec[p].since /\ AfterScan(p) \in {"reap", "status"}
    BY DEF NoTick, AfterScan
  <1>3. \A o \in Orders : order'[o] = IF o \in list /\ PayerOf(o, list, fresh) # NoTx
                                      THEN FinalizeStamped(order[o], PayerOf(o, list, fresh))
                                      ELSE order[o]
    BY DEF Write
  <1> HIDE DEF tick
  <1>4. /\ list \in SUBSET Orders /\ list # {} /\ fresh \in SUBSET Txs
        /\ rec[p].at \in Nat /\ rec[p].next \in Nat /\ rec[p].since \in Nat
        /\ rec[p].since <= rec[p].at /\ rec[p].at <= head /\ rec[p].next <= rec[p].at
        /\ head <= rec[p].since + SCAN_TIME /\ Caught(rec[p])
    BY <1>0, WaryTick DEF TickRec, Wary, Walked, Punctual
  <1>5. RowsAge
    <2> SUFFICES ASSUME NEW o \in Orders PROVE Aged(order[o], order'[o])
      BY DEF RowsAge
    <2> HIDE DEF list, fresh
    <2> QED
      BY <1>3, WritesAge DEF ReapInv
  <1>6. ASSUME NEW t \in Txs, NEW o \in Orders, Owed(t, o)'
        PROVE  Owed(t, o) /\ txs[t].block \in Nat /\ Reach(rec[p]) < txs[t].block
    <2>1. Owed(t, o)
      BY <1>0, <1>5, <1>6, OwedBefore DEF ReapInv
    <2>2. list = {o}
      BY <1>4, OneOrder DEF ReapInv
    <2>3. t \notin fresh
      <3> SUFFICES ASSUME t \in fresh PROVE FALSE
        OBVIOUS
      <3>1. PayerOf(o, list, fresh) # NoTx
        <4> HIDE DEF fresh
        <4> QED
          BY <1>4, <2>1, <2>2, LoneIsGiven DEF Owed
      <3>2. order'[o] = FinalizeStamped(order[o], PayerOf(o, list, fresh)) /\ order[o] \in Row
        BY <1>3, <2>2, <3>1 DEF ReapInv, IInv, TypeOK
      <3>3. order'[o].status = "delivered"
        BY <2>1, <3>2 DEF Owed, FinalizeStamped, Transition, Row
      <3> QED
        BY <1>6, <3>3 DEF Owed
    <2>4. ~ (txs[t].block <= Reach(rec[p]))
      BY <1>0, <1>4, <2>1, <2>3 DEF Caught
    <2>5. txs[t].block \in Nat /\ Reach(rec[p]) \in Int
      BY <1>4 DEF ReapInv, IInv, TypeOK, Reach
    <2> QED
      BY <2>1, <2>4, <2>5
  <1>7. SCAN_TIME \in Nat /\ head \in Nat /\ lastWalk \in Nat /\ MAX_GAP \in Nat
    BY WaryTick
  <1>8. Positions'
    <2>1. Positions
      BY WaryTick
    <2>2. scan'.cursor <= head /\ lastWalk' <= head
      BY <1>0, <1>1, <1>4, <1>7, <2>1 DEF Positions
    <2>3. CASE rec[p].next = 0
      <3>1. lastWalk' = rec[p].at /\ head - rec[p].at <= SCAN_TIME
        BY <1>0, <1>4, <1>7, <2>3
      <3> QED
        BY <1>0, <2>2, <3>1 DEF Positions
    <2>4. CASE rec[p].next # 0
      BY <1>0, <1>1, <2>1, <2>2, <2>4 DEF Positions
    <2> QED
      BY <2>3, <2>4
  <1>9. Unwalked'
    <2> SUFFICES ASSUME NEW t \in Txs, NEW o \in Orders, Owed(t, o)'
                 PROVE  /\ scan'.cursor # 0 => txs[t].block >= scan'.cursor
                        /\ scan'.atHead \/ o \in scan'.scanned => txs[t].block > lastWalk'
      BY <1>0 DEF Unwalked
    <2>1. Owed(t, o) /\ txs[t].block \in Nat /\ Reach(rec[p]) < txs[t].block
      BY <1>6
    <2>2. CASE rec[p].next = 0
      BY <1>0, <1>1, <2>1, <2>2 DEF Reach
    <2>3. CASE rec[p].next # 0
      <3>1. scan.atHead => txs[t].block > lastWalk
        BY <2>1 DEF ReapInv, Unwalked
      <3>2. rec[p].next <= txs[t].block
        BY <1>4, <2>1, <2>3 DEF Reach
      <3>3. lastWalk' = lastWalk /\ scan'.scanned = {} /\ (scan'.atHead <=> scan.atHead)
        BY <1>0, <1>1, <2>3
      <3> QED
        BY <1>1, <3>1, <3>2, <3>3
    <2> QED
      BY <2>2, <2>3
  <1>10. ASSUME NEW q \in Loops, NEW since \in Nat, since <= head,
                scan'.scanned # {}
         PROVE  since <= lastWalk' + SCAN_TIME
    BY <1>0, <1>1, <1>4, <1>7, <1>10
  <1>11. \A q \in Loops : rec'[q] = rec[q] => Stamp(q, rec[q])'
    <2> SUFFICES ASSUME NEW q \in Loops, rec[q].pc # "idle", scan'.scanned # {}
                 PROVE  rec[q].since <= lastWalk' + SCAN_TIME
      BY DEF Stamp
    <2>1. rec[q].since \in Nat /\ rec[q].since <= head
      BY WaryTick DEF Wary, Punctual, TickRec
    <2> QED
      BY <1>10, <2>1
  <1>12. ASSUME rec'[p] = tick PROVE Wary(p)'
    <2>1. Stamp(p, rec[p])'
      BY <1>2, <1>4, <1>7, <1>10, <1>12 DEF Stamp
    <2>2. Punctual(rec[p])' /\ Walked(rec[p])' /\ Doomed(rec[p])'
      BY <1>0, <1>2, <1>4, <1>7, <1>12 DEF Punctual, Walked, Doomed
    <2> QED
      BY <2>1, <2>2 DEF Wary
  <1> QED
    BY <1>0, <1>5, <1>8, <1>9, <1>11, <1>12, SharedStep

\* What the reaper reads was walked by a scan that ended after it could still be
\* paid, and is not on chain.
LEMMA ReapReadWary ==
  ASSUME ConstantsAssumption, ReapInv, IInv', NEW p \in Loops, ReapRead(p)
  PROVE  ReapInv'
PROOF
  <1> DEFINE old == {o \in scan.scanned \cap Unreferenced : head - order[o].bornAt >= REAP_AFTER}
  <1>0. UNCHANGED <<order, txs, head, scan, lastWalk>> /\ p = "reaper" /\ rec[p].pc = "reap"
    BY DEF ReapRead, dbVars, chainVars
  <1>1. PICK r \in TickRec : r = rec[p]
    BY WaryTick
  <1> DEFINE tick == [r EXCEPT !.pc = "void", !.list = old]
  <1>2. (scan.stamped /\ old # {} /\ Become(p, tick)) \/ Become(p, NoTick)
    BY <1>1 DEF ReapRead, Become
  <1>3. tick.pc = "void" /\ tick.list = old /\ tick.since = r.since
    BY DEF TickRec
  <1> HIDE DEF tick
  <1>4. ASSUME scan.stamped, NEW o \in old
        PROVE  /\ order[o].status # "none" /\ order[o].bornAt + REAP_AFTER <= head
               /\ order[o].status = "settling" => ~ Landed(o)
    <2>1. /\ o \in Orders /\ o \in scan.scanned /\ order[o].status = "settling"
          /\ order[o].ref = NoTx /\ head - order[o].bornAt >= REAP_AFTER
      BY DEF Unreferenced, Settling
    <2>2. order[o].bornAt \in Nat
      BY <2>1 DEF ReapInv, IInv, TypeOK, Row
    <2>3. /\ r.since \in Nat /\ head <= r.since + SCAN_TIME
          /\ r.since <= lastWalk + SCAN_TIME
      BY <1>0, <1>1, <1>4, <2>1, WaryTick DEF Wary, Punctual, Stamp, TickRec
    <2>4. ASSUME NEW t \in Txs, o \in txs[t].pays PROVE FALSE
      <3>1. txs[t].block > lastWalk
        BY <2>1, <2>4 DEF ReapInv, Unwalked, Owed
      <3>2. txs[t].block <= order[o].bornAt + SETTLE_DELAY /\ txs[t].block \in Nat
        BY <2>1, <2>4 DEF ReapInv, Dated, IInv, TypeOK
      <3>3. /\ head \in Nat /\ lastWalk \in Nat /\ SCAN_TIME \in Nat /\ REAP_AFTER \in Nat
            /\ SETTLE_DELAY \in Nat
        BY WaryTick
      <3>4. REAP_AFTER >= SETTLE_DELAY + 2 * SCAN_TIME
        BY DEF ReapInv, InTime
      <3> QED
        BY <2>1, <2>2, <2>3, <3>1, <3>2, <3>3, <3>4
    <2>5. head \in Nat /\ REAP_AFTER \in Nat
      BY WaryTick
    <2> QED
      BY <2>1, <2>2, <2>4, <2>5 DEF Landed
  <1>5. ASSUME scan.stamped, rec'[p] = tick PROVE Wary(p)'
    <2>1. Punctual(rec[p])'
      BY <1>0, <1>1, <1>3, <1>5, WaryTick DEF Wary, Punctual
    <2>2. Walked(rec[p])' /\ Stamp(p, rec[p])'
      BY <1>3, <1>5 DEF Walked, Stamp
    <2>3. Doomed(rec[p])'
      BY <1>0, <1>3, <1>4, <1>5 DEF Doomed, Landed
    <2> QED
      BY <2>1, <2>2, <2>3 DEF Wary
  <1>6. rec'[p] = NoTick => Wary(p)'
    BY DEF NoTick, Wary, Punctual, Walked, Stamp, Doomed
  <1>7. RowsAge
    BY <1>0, SameRowsAge
  <1> QED
    BY <1>0, <1>2, <1>5, <1>6, <1>7, OwnStep

LEMMA ReapWary ==
  ASSUME ConstantsAssumption, ReapInv, IInv', NEW p \in Loops, Reap(p)
  PROVE  ReapInv'
PROOF
  <1>1. /\ UNCHANGED <<txs, head, scan, lastWalk>> /\ Become(p, NoTick)
        /\ \A o \in Orders : order'[o] = order[o] \/ order'[o] = VoidSettling(order[o])
    BY DEF Reap, chainVars
  <1>2. RowsAge
    BY <1>1, WritesAge DEF ReapInv, RowsAge
  <1>3. rec'[p] = NoTick => Wary(p)'
    BY DEF NoTick, Wary, Punctual, Walked, Stamp, Doomed
  <1> QED
    BY <1>1, <1>2, <1>3, OwnStep

LEMMA PollWary ==
  ASSUME ConstantsAssumption, ReapInv, IInv', NEW p \in Loops, StatusRead(p) \/ Poll(p)
  PROVE  ReapInv'
PROOF
  <1>0. /\ UNCHANGED <<txs, head, scan, lastWalk>> /\ rec[p].pc \in {"status", "poll"}
        /\ order \in [Orders -> Row]
    BY DEF StatusRead, Poll, chainVars, ReapInv, IInv, TypeOK
  <1>1. PICK r \in TickRec : r = rec[p]
    BY WaryTick
  <1>2. RowsAge
    <2>1. CASE StatusRead(p)
      BY <2>1, SameRowsAge DEF StatusRead, dbVars
    <2>2. CASE Poll(p)
      <3>1. PICK q \in rec[p].list : order' = [order EXCEPT ![q] =
              IF Landed(q) THEN FinalizeStamped(order[q], CHOOSE t \in Txs : q \in txs[t].pays)
              ELSE IF auth[q] = "failed" THEN VoidSettling(order[q]) ELSE order[q]]
        BY <2>2 DEF Poll
      <3>2. q \in Orders
        BY <1>1 DEF TickRec
      <3>3. PICK new : order' = [order EXCEPT ![q] = new] /\ Aged(order[q], new)
        BY <3>1, <3>2, WritesAge DEF ReapInv
      <3>4. \A o \in Orders : Aged(order[o], order[o])
        BY WritesAge DEF ReapInv
      <3> QED
        BY <1>0, <3>2, <3>3, <3>4 DEF RowsAge
    <2> QED
      BY <2>1, <2>2
  <1>3. \E pc \in {"status", "poll"} : \E list :
          Become(p, [r EXCEPT !.pc = pc, !.list = list]) \/ Become(p, NoTick)
    <2>1. CASE StatusRead(p)
      BY <1>1, <2>1 DEF StatusRead
    <2>2. CASE Poll(p)
      <3>1. PICK list : Become(p, [r EXCEPT !.list = list]) \/ Become(p, NoTick)
        BY <1>1, <2>2 DEF Poll
      <3>2. [r EXCEPT !.list = list] = [r EXCEPT !.pc = "poll", !.list = list]
        BY <1>1, <2>2 DEF TickRec, Poll
      <3> QED
        BY <3>1, <3>2
    <2> QED
      BY <2>1, <2>2
  <1>4. PICK pc \in {"status", "poll"} : \E list :
          Become(p, [r EXCEPT !.pc = pc, !.list = list]) \/ Become(p, NoTick)
    BY <1>3
  <1>5. PICK list : Become(p, [r EXCEPT !.pc = pc, !.list = list]) \/ Become(p, NoTick)
    BY <1>4
  <1> DEFINE tick == [r EXCEPT !.pc = pc, !.list = list]
  <1>6. tick.pc = pc /\ tick.since = r.since
    BY DEF TickRec
  <1> HIDE DEF tick
  <1>7. ASSUME rec'[p] = tick PROVE Wary(p)'
    <2>1. Punctual(rec[p])'
      BY <1>0, <1>1, <1>6, <1>7, WaryTick DEF Wary, Punctual
    <2>2. Walked(rec[p])' /\ Stamp(p, rec[p])' /\ Doomed(rec[p])'
      BY <1>6, <1>7 DEF Walked, Stamp, Doomed
    <2> QED
      BY <2>1, <2>2 DEF Wary
  <1>8. rec'[p] = NoTick => Wary(p)'
    BY DEF NoTick, Wary, Punctual, Walked, Stamp, Doomed
  <1>9. Become(p, tick) \/ Become(p, NoTick)
    BY <1>5 DEF tick
  <1> QED
    BY <1>0, <1>2, <1>7, <1>8, <1>9, OwnStep

LEMMA ReapInit ==
  ASSUME ConstantsAssumption, InTime, Init
  PROVE  ReapInv
PROOF
  <1>1. IInv
    BY InitKeeps
  <1>2. \A t \in Txs : txs[t].block = 0 /\ txs[t].pays = {}
    BY DEF Init
  <1>3. \A o \in Orders : order[o] = NoRow
    BY DEF Init
  <1>4. Dated
    BY <1>2, <1>3 DEF Dated, MinedBefore, Init, NoRow
  <1>5. Positions /\ Unwalked
    BY <1>2 DEF Positions, Unwalked, Owed, Init, NoScan
  <1>6. \A p \in Loops : Wary(p)
    BY DEF Init, Wary, Punctual, Walked, Stamp, Doomed, NoTick
  <1> QED
    BY <1>1, <1>4, <1>5, <1>6 DEF ReapInv

LEMMA ReapStep == ConstantsAssumption /\ ReapInv /\ [Next]_vars => ReapInv'
PROOF
  <1> SUFFICES ASSUME ConstantsAssumption, ReapInv, [Next]_vars
               PROVE  ReapInv'
    OBVIOUS
  <1>0. IInv'
    BY StepKeeps DEF ReapInv
  <1>1. ASSUME NEW w \in Workers, Request(w)
        PROVE  ReapInv'
    BY <1>0, <1>1, RequestWary
  <1>2. ASSUME NEW p \in Loops, Tick(p) \/ TickFails(p)
        PROVE  ReapInv'
    BY <1>0, <1>2, ReachableWary, TickStartWary, ScanWary, ReadConsumedWary, WriteWary,
       ReapReadWary, ReapWary, PollWary, FailsWary DEF Tick
  <1>3. CASE Mine
    BY <1>0, <1>3, MineWary
  <1>4. CASE Restart
    BY <1>0, <1>4, RestartWary
  <1>5. CASE (\E o \in Orders : Drop(o)) \/ UNCHANGED vars
    BY <1>0, <1>5, RestWary
  <1> QED
    BY <1>1, <1>2, <1>3, <1>4, <1>5 DEF Next

Reaps == \A p \in Loops : Reap(p) =>
           \A o \in rec[p].list : order'[o].status # order[o].status => ~ Landed(o)

\* While one order of the pair is settling at a time, every receipt is returned
\* and the delays keep their distances: the reaper voids no order whose payment
\* is on chain, over failed scans, restarts, partial walks and two ticks
\* that share the reconciler's globals.
THEOREM ReapsUnpaid == InTime /\ Spec => ReapedIsUnpaid
PROOF
  <1>1. InTime /\ Init => ReapInv
    BY ConstantsAssumption, ReapInit
  <1>2. ReapInv /\ [Next]_vars => ReapInv'
    BY ConstantsAssumption, ReapStep
  <1>3. ReapInv /\ [Next]_vars => [Reaps]_vars
    <2> SUFFICES ASSUME ReapInv, NEW p \in Loops, Reap(p), NEW o \in rec[p].list,
                        order'[o].status # order[o].status
                 PROVE  ~ Landed(o)
      BY DEF Reaps
    <2>1. o \in Orders /\ order[o] \in Row
      BY DEF ReapInv, IInv, TypeOK
    <2>2. order'[o] = VoidSettling(order[o])
      BY <2>1 DEF Reap
    <2>3. order[o].status = "settling"
      BY <2>2 DEF VoidSettling, Transition
    <2> QED
      BY <2>3 DEF Reap, ReapInv, Wary, Doomed
  <1> QED
    BY <1>1, <1>2, <1>3, PTL DEF Spec, ReapedIsUnpaid, Reaps

=============================================================================
