----------------------------- MODULE BooksProofs -----------------------------
(***************************************************************************)
(* Proofs about the books that add up: the rev-share ledger and its        *)
(* payouts (Affiliates), the refunds of an order (Refunds) and the budgets *)
(* of the growth scheduler (Growth).  Each property bounds a sum by what   *)
(* was verified or allowed; the sums are those of SumLemmas.               *)
(***************************************************************************)
EXTENDS Refunds, Growth, SumLemmas

-----------------------------------------------------------------------------
(* The sums of the models *)

\* A column of a table of rows, and the recursive sum of it.
Micro(acc) == [o \in Orders |-> acc[o].micro]
MicroAdds(g, acc, S) ==
  g = [s \in SUBSET S |-> IF s = {} THEN 0 ELSE acc[Some(s)].micro + g[s \ {Some(s)}]]
MicroIn(acc, S) == (CHOOSE g : MicroAdds(g, acc, S))[S]

LEMMA MicroTotal ==
  ASSUME NEW acc, NEW S \in SUBSET Orders PROVE MicroIn(acc, S) = Total(Micro(acc), S)
PROOF
  <1>1. IsFiniteSet(S)
    BY AffiliatesAssumption, FS_Subset
  <1>2. \A g : MicroAdds(g, acc, S) <=> Adds(g, Micro(acc), S)
    <2> TAKE g
    <2>1. \A s \in SUBSET S : s # {} => Micro(acc)[Some(s)] = acc[Some(s)].micro
      BY SomeOf DEF Micro
    <2> QED
      BY <2>1 DEF Adds, MicroAdds
  <1>3. PICK h : h = CHOOSE g : MicroAdds(g, acc, S)
    OBVIOUS
  <1>4. Adds(h, Micro(acc), S)
    BY <1>1, <1>2, <1>3, IterAdds
  <1>5. h[S] = Iter(Micro(acc), S)[S]
    BY <1>1, <1>4, AddsAgree, IterAdds
  <1> QED
    BY <1>3, <1>5, TotalIsIter DEF MicroIn

LEMMA MicroOfIs == ASSUME NEW S PROVE MicroOf(S) = MicroIn(accrual, S)
BY DEF MicroOf, MicroIn, MicroAdds, Some, MapThenSumSet, MapThenFoldSet

LEMMA MicroOfIsNext == ASSUME NEW S PROVE MicroOf(S)' = MicroIn(accrual', S)
BY DEF MicroOf, MicroIn, MicroAdds, Some, MapThenSumSet, MapThenFoldSet

\* The sum of a column over a set of orders is that of its function.
LEMMA MicroSum ==
  ASSUME NEW S \in SUBSET Orders
  PROVE  MicroOf(S) = Total(Micro(accrual), S) /\ MicroOf(S)' = Total(Micro(accrual'), S)
BY MicroTotal, MicroOfIs, MicroOfIsNext

Amount(rows) == [tx \in RefundTxs |-> rows[tx].amount]
AmountAdds(g, rows, S) ==
  g = [s \in SUBSET S |-> IF s = {} THEN 0 ELSE rows[Some(s)].amount + g[s \ {Some(s)}]]
AmountIn(rows, S) == (CHOOSE g : AmountAdds(g, rows, S))[S]

LEMMA AmountTotal ==
  ASSUME NEW rows, NEW S \in SUBSET RefundTxs PROVE AmountIn(rows, S) = Total(Amount(rows), S)
PROOF
  <1>1. IsFiniteSet(S)
    BY RefundsAssumption, FS_Subset
  <1>2. \A g : AmountAdds(g, rows, S) <=> Adds(g, Amount(rows), S)
    <2> TAKE g
    <2>1. \A s \in SUBSET S : s # {} => Amount(rows)[Some(s)] = rows[Some(s)].amount
      BY SomeOf DEF Amount
    <2> QED
      BY <2>1 DEF Adds, AmountAdds
  <1>3. PICK h : h = CHOOSE g : AmountAdds(g, rows, S)
    OBVIOUS
  <1>4. Adds(h, Amount(rows), S)
    BY <1>1, <1>2, <1>3, IterAdds
  <1>5. h[S] = Iter(Amount(rows), S)[S]
    BY <1>1, <1>4, AddsAgree, IterAdds
  <1> QED
    BY <1>3, <1>5, TotalIsIter DEF AmountIn

RowsOf(rows, o) == {tx \in RefundTxs : rows[tx].order = o}

LEMMA LedgerOfIs ==
  ASSUME NEW o PROVE LedgerOf(o) = AmountIn(refund, RowsOf(refund, o))
BY DEF LedgerOf, RowsOf, AmountIn, AmountAdds, Some, MapThenSumSet, MapThenFoldSet

LEMMA LedgerOfIsNext ==
  ASSUME NEW o PROVE LedgerOf(o)' = AmountIn(refund', RowsOf(refund', o))
BY DEF LedgerOf, RowsOf, AmountIn, AmountAdds, Some, MapThenSumSet, MapThenFoldSet

\* An order's ledger is the sum of the amounts of its refund rows.
LEMMA LedgerSum ==
  ASSUME NEW o
  PROVE  /\ LedgerOf(o) = Total(Amount(refund), RowsOf(refund, o))
         /\ LedgerOf(o)' = Total(Amount(refund'), RowsOf(refund', o))
BY AmountTotal, LedgerOfIs, LedgerOfIsNext DEF RowsOf

-----------------------------------------------------------------------------
(* The cover of a payout: the accruals in id order that fit into it *)

Latest(T) == CHOOSE x \in T : \A y \in T : y <= x

LEMMA LatestOf ==
  ASSUME NEW T, T \subseteq Nat, IsFiniteSet(T), T # {}
  PROVE  Latest(T) \in T
PROOF
  <1> DEFINE Bad == {s \in SUBSET T : s # {} /\ ~ \E x \in s : \A y \in s : y <= x}
  <1> SUFFICES ASSUME Bad # {} PROVE FALSE
    BY DEF Latest
  <1>1. IsFiniteSet(T) /\ Bad \subseteq SUBSET T /\ Bad # {}
    OBVIOUS
  <1> HIDE DEF Bad
  <1>2. PICK m \in Bad : \A s \in Bad : s \subseteq m => s = m
    BY ONLY <1>1, MinimalSet
  <1>3. m \subseteq T /\ m # {} /\ ~ \E x \in m : \A y \in m : y <= x
    BY <1>1 DEF Bad
  <1>4. PICK x : x \in m
    BY <1>3
  <1>5. m \ {x} # {}
    BY <1>3, <1>4
  <1>n. m \ {x} \notin Bad
    BY ONLY <1>2, <1>4
  <1>6. PICK z \in m \ {x} : \A y \in m \ {x} : y <= z
    BY <1>3, <1>4, <1>5, <1>n DEF Bad
  <1>7. x \in Nat /\ z \in Nat /\ \A y \in m : y \in Nat
    BY <1>3, <1>4
  <1>8. CASE x <= z
    BY <1>3, <1>6, <1>8
  <1>9. CASE z <= x
    <2>1. \A y \in m : y <= x
      BY <1>6, <1>7, <1>9
    <2> QED
      BY <1>3, <1>4, <2>1
  <1> QED
    BY <1>7, <1>8, <1>9

Fits(left, o) ==
  IF accrual[o].micro <= left.rest
    THEN [rest |-> left.rest - accrual[o].micro, ids |-> left.ids \cup {o}] ELSE left

\* A finite set of ids.
Ids(S) == S \subseteq Nat /\ IsFiniteSet(S)

\* g is the recursive function behind Coverable.
Covers(g, S, total) ==
  g = [T \in SUBSET S |-> IF T = {} THEN [rest |-> total, ids |-> {}]
                          ELSE Fits(g[T \ {Latest(T)}], Latest(T))]
CoverOf(S, total) == CHOOSE g : Covers(g, S, total)

LEMMA CoverableIs == ASSUME NEW S, NEW total PROVE Coverable(S, total) = CoverOf(S, total)[S].ids
BY DEF Coverable, CoverOf, Covers, Fits, Latest

LEMMA CoversStep ==
  ASSUME NEW g, NEW S, NEW total, Covers(g, S, total), NEW T \in SUBSET S
  PROVE  g[T] = IF T = {} THEN [rest |-> total, ids |-> {}]
                ELSE Fits(g[T \ {Latest(T)}], Latest(T))
BY DEF Covers

LEMMA CoversAgree ==
  ASSUME NEW S, Ids(S), NEW U, NEW total, NEW g, NEW h,
         Covers(g, S, total), Covers(h, U, total), NEW t, t \subseteq S, t \subseteq U
  PROVE  g[t] = h[t]
PROOF
  <1> DEFINE Bad == {s \in SUBSET t : g[s] # h[s]}
  <1> SUFFICES ASSUME Bad # {} PROVE FALSE
    OBVIOUS
  <1>0. Bad \subseteq SUBSET t /\ Bad # {}
    OBVIOUS
  <1> HIDE DEF Bad
  <1>1. IsFiniteSet(t)
    BY FS_Subset DEF Ids
  <1>2. PICK m \in Bad : \A s \in Bad : s \subseteq m => s = m
    BY ONLY <1>0, <1>1, MinimalSet
  <1> USE DEF Bad
  <1>3. m \in SUBSET S /\ m \in SUBSET U /\ m \subseteq Nat /\ IsFiniteSet(m)
    BY <1>1, FS_Subset DEF Ids
  <1>4. /\ g[m] = IF m = {} THEN [rest |-> total, ids |-> {}]
                  ELSE Fits(g[m \ {Latest(m)}], Latest(m))
        /\ h[m] = IF m = {} THEN [rest |-> total, ids |-> {}]
                  ELSE Fits(h[m \ {Latest(m)}], Latest(m))
    BY <1>3, CoversStep
  <1>5. m # {}
    BY <1>2, <1>4
  <1>6. m \ {Latest(m)} \notin Bad
    BY <1>2, <1>3, <1>5, LatestOf
  <1> QED
    BY <1>2, <1>4, <1>5, <1>6

LEMMA CoverExists ==
  ASSUME NEW S, S \subseteq Nat, IsFiniteSet(S), NEW total
  PROVE  Covers(CoverOf(S, total), S, total)
PROOF
  <1> DEFINE Bad == {s \in SUBSET S : ~ Covers(CoverOf(s, total), s, total)}
  <1> SUFFICES ASSUME Bad # {} PROVE FALSE
    OBVIOUS
  <1>0. IsFiniteSet(S) /\ Bad \subseteq SUBSET S /\ Bad # {}
    OBVIOUS
  <1> HIDE DEF Bad
  <1>1. PICK m \in Bad : \A s \in Bad : s \subseteq m => s = m
    BY ONLY <1>0, MinimalSet
  <1> USE DEF Bad
  <1> DEFINE Less(s) == s \ {Latest(s)}
             At(s) == CoverOf(Less(s), total)[Less(s)]
             G == [s \in SUBSET m |-> IF s = {} THEN [rest |-> total, ids |-> {}]
                                      ELSE Fits(At(s), Latest(s))]
  <1>2. ASSUME NEW s \in SUBSET m, s # {} PROVE G[Less(s)] = At(s)
    <2>1. PICK e : e = Less(s)
      OBVIOUS
    <2>2. s \in SUBSET Nat /\ IsFiniteSet(s)
      BY FS_Subset
    <2>3. e \in SUBSET m /\ e # m /\ e \in SUBSET S
      BY <1>2, <2>1, <2>2, LatestOf
    <2>4. PICK d : d = Less(e)
      OBVIOUS
    <2>5. d \in SUBSET e /\ d \in SUBSET d /\ d # m /\ d \in SUBSET S
      BY <2>3, <2>4
    <2>6. Covers(CoverOf(e, total), e, total) /\ Covers(CoverOf(d, total), d, total)
      BY <1>1, <2>3, <2>5
    <2>7. Ids(e) /\ d \subseteq e /\ d \subseteq d
      BY <2>3, <2>5, FS_Subset DEF Ids
    <2>8. CoverOf(e, total)[d] = CoverOf(d, total)[d]
      BY ONLY <2>6, <2>7, CoversAgree
    <2>9. CoverOf(e, total)[e] = IF e = {} THEN [rest |-> total, ids |-> {}]
                                 ELSE Fits(CoverOf(e, total)[d], Latest(e))
      BY <2>4, <2>6, CoversStep
    <2> QED
      BY <2>1, <2>3, <2>4, <2>8, <2>9
  <1>3. Covers(G, m, total)
    BY <1>2 DEF Covers
  <1>4. Covers(CoverOf(m, total), m, total)
    BY <1>3 DEF CoverOf
  <1> QED
    BY <1>1, <1>4

\* What a payout covers are accruals it was asked about, worth at most the
\* transfer: each that is taken is subtracted before the next is compared.
LEMMA CoverFits ==
  ASSUME accrual \in [Orders -> AccrualRow], NEW S \in SUBSET Orders, NEW total \in Nat
  PROVE  Coverable(S, total) \subseteq S /\ MicroOf(Coverable(S, total)) <= total
PROOF
  <1> DEFINE f == Micro(accrual)
  <1>1. IsFiniteSet(S) /\ S \in SUBSET Nat
    BY AffiliatesAssumption, FS_Subset
  <1>2. PICK g : g = CoverOf(S, total)
    OBVIOUS
  <1>3. Covers(g, S, total)
    BY <1>1, <1>2, CoverExists
  <1>4. \A o \in S : f[o] = accrual[o].micro /\ f[o] \in Nat
    BY DEF Micro, AccrualRow
  <1> HIDE DEF f
  <1> DEFINE Good(T) == /\ g[T].rest \in Nat /\ g[T].ids \subseteq T
                        /\ g[T].rest + Total(f, g[T].ids) = total
             Bad == {T \in SUBSET S : ~ Good(T)}
  <1>5. CASE Bad = {}
    <2>1. Good(S)
      BY <1>5
    <2>2. Coverable(S, total) = g[S].ids
      BY <1>2, CoverableIs
    <2>3. g[S].ids \subseteq Orders /\ IsFiniteSet(g[S].ids) /\ Counts(f, g[S].ids)
      <3>1. PICK ids : ids = g[S].ids /\ ids \subseteq S
        BY <2>1
      <3>2. IsFiniteSet(ids)
        BY ONLY <1>1, <3>1, FS_Subset
      <3> QED
        BY <1>4, <3>1, <3>2 DEF Counts
    <2>4. Total(f, g[S].ids) \in Int
      BY <2>3, TotalInt
    <2>5. MicroOf(g[S].ids) = Total(f, g[S].ids)
      BY <2>3, MicroSum DEF f
    <2> QED
      BY <2>1, <2>2, <2>4, <2>5
  <1>6. ASSUME Bad # {} PROVE FALSE
    <2>1. IsFiniteSet(S) /\ Bad \subseteq SUBSET S /\ Bad # {}
      BY <1>1, <1>6
    <2> HIDE DEF Bad
    <2>2. PICK m \in Bad : \A s \in Bad : s \subseteq m => s = m
      BY ONLY <2>1, MinimalSet
    <2>3. m \in SUBSET S /\ m \in SUBSET Nat /\ IsFiniteSet(m) /\ ~ Good(m)
      BY <1>1, <2>1, FS_Subset DEF Bad
    <2>4. m # {}
      <3>1. m = {} => g[m] = [rest |-> total, ids |-> {}]
        BY <1>3, <2>3, CoversStep
      <3>2. Total(f, {}) = 0
        BY ONLY TotalEmpty
      <3> SUFFICES ASSUME m = {} PROVE Good(m)
        BY <2>3
      <3>3. g[m].rest = total /\ g[m].ids = {}
        BY <3>1
      <3> QED
        BY <3>2, <3>3
    <2>5. PICK o : o = Latest(m)
      OBVIOUS
    <2>6. o \in m
      BY <2>3, <2>4, <2>5, LatestOf
    <2>7. PICK r : r = m \ {o}
      OBVIOUS
    <2>8. Good(r) /\ r \in SUBSET S /\ o \notin r
      <3>1. r \notin Bad
        BY ONLY <2>2, <2>6, <2>7
      <3> QED
        BY <2>3, <2>7, <3>1 DEF Bad
    <2>9. g[m] = Fits(g[r], o)
      BY <1>3, <2>3, <2>4, <2>5, <2>7, CoversStep
    <2>10. PICK ids : ids = g[r].ids
      OBVIOUS
    <2>11. /\ ids \subseteq S /\ IsFiniteSet(ids) /\ Counts(f, ids) /\ o \notin ids
           /\ f[o] \in Nat /\ f[o] = accrual[o].micro
      <3>1. ids \subseteq r /\ r \subseteq S /\ o \in S /\ o \notin r
        BY <2>3, <2>6, <2>8, <2>10
      <3>2. IsFiniteSet(ids)
        BY ONLY <1>1, <3>1, FS_Subset
      <3> QED
        BY <1>4, <3>1, <3>2 DEF Counts
    <2>12. Total(f, ids \cup {o}) = f[o] + Total(f, ids) /\ Total(f, ids) \in Int
      BY <2>11, TotalAdd, TotalInt
    <2>13. CASE accrual[o].micro <= g[r].rest
      <3>1. g[m].rest = g[r].rest - f[o] /\ g[m].ids = ids \cup {o}
        BY <2>9, <2>10, <2>11, <2>13 DEF Fits
      <3>2. g[m].rest \in Nat
        BY <2>8, <2>11, <2>13, <3>1
      <3>3. g[m].ids \subseteq m
        BY <2>6, <2>7, <2>8, <2>10, <3>1
      <3>4. g[r].rest + Total(f, ids) = total /\ g[r].rest \in Nat
        BY <2>8, <2>10
      <3>5. Total(f, g[m].ids) = f[o] + Total(f, ids)
        BY <2>12, <3>1
      <3>6. g[m].rest + Total(f, g[m].ids) = total
        BY <2>11, <2>12, <3>1, <3>4, <3>5
      <3> QED
        BY <2>3, <3>2, <3>3, <3>6
    <2>14. CASE ~ (accrual[o].micro <= g[r].rest)
      <3>1. g[m] = g[r]
        BY <2>9, <2>14 DEF Fits
      <3> QED
        BY <2>3, <2>7, <2>8, <3>1
    <2> QED
      BY <2>13, <2>14
  <1> QED
    BY <1>5, <1>6

-----------------------------------------------------------------------------
(* Affiliates: what a payout covers *)

\* A payout that was recorded and not yet spread over the accruals.
InHand(r) == r.pc \in {"recorded", "selected"}

OrdersOf(tx) == {o \in Orders : accrual[o].payout = tx}

\* What the locals of a payout request promise: its transaction was mined, its
\* row is its own, and what it selected is worth no more than the transfer.
PayLocals ==
  \A w \in Threads :
    LET r == payReq[w] IN
    /\ r.pc # "idle" => r.tx \in PayoutTxs /\ sent[r.tx] > 0
    /\ InHand(r) => payout[r.tx] > 0 /\ OrdersOf(r.tx) = {}
    /\ r.pc = "selected" =>
         /\ \A o \in r.left : accrual[o].status # "none"
         /\ Total(Micro(accrual), r.left) <= payout[r.tx]

HandsDiffer ==
  \A w, x \in Threads : w # x /\ InHand(payReq[w]) /\ InHand(payReq[x]) =>
    payReq[w].tx # payReq[x].tx

\* A paid accrual names a payout that was recorded; a row that was not written
\* names none.
AccrualRows ==
  \A o \in Orders :
    /\ accrual[o].status = "paid" => accrual[o].payout # None
    /\ accrual[o].status = "none" => accrual[o].payout = None
    /\ accrual[o].payout # None => payout[accrual[o].payout] > 0

Covered == \A tx \in PayoutTxs : Total(Micro(accrual), OrdersOf(tx)) <= payout[tx]

AffInv == AffiliatesTypeOK /\ PayLocals /\ HandsDiffer /\ AccrualRows /\ Covered

LEMMA MicroNat ==
  ASSUME NEW acc \in [Orders -> AccrualRow], NEW S \in SUBSET Orders
  PROVE  /\ IsFiniteSet(S) /\ Counts(Micro(acc), S) /\ \A o \in S : Micro(acc)[o] \in Nat
         /\ Total(Micro(acc), S) \in Nat
PROOF
  <1>1. \A o \in S : Micro(acc)[o] \in Nat
    BY DEF Micro, AccrualRow
  <1>2. IsFiniteSet(S)
    BY AffiliatesAssumption, FS_Subset
  <1>3. Total(Micro(acc), S) \in Nat
    BY ONLY <1>1, <1>2, TotalNat
  <1> QED
    BY <1>1, <1>2, <1>3 DEF Counts

\* Rows that keep their amounts keep their sum.
LEMMA MicroKept ==
  ASSUME NEW acc, NEW new, NEW S \in SUBSET Orders, \A o \in S : new[o].micro = acc[o].micro
  PROVE  Total(Micro(new), S) = Total(Micro(acc), S)
PROOF
  <1>1. IsFiniteSet(S)
    BY AffiliatesAssumption, FS_Subset
  <1>2. \A o \in S : Micro(new)[o] = Micro(acc)[o]
    BY DEF Micro
  <1> QED
    BY ONLY <1>1, <1>2, TotalAgrees

\* A sale writes its row or a refund voids it: no payout is concerned.
LEMMA RowWrites_Aff ==
  ASSUME AffInv, UNCHANGED <<payout, sent, payReq>>, accrual' \in [Orders -> AccrualRow],
         \A o \in Orders :
           /\ accrual'[o].payout = accrual[o].payout
           /\ accrual[o].status # "none" =>
                accrual'[o].status # "none" /\ accrual'[o].micro = accrual[o].micro
           /\ accrual'[o].status = "paid" => accrual[o].status = "paid"
  PROVE  AffInv'
PROOF
  <1>1. AffiliatesTypeOK'
    BY DEF AffInv, AffiliatesTypeOK
  <1>2. AccrualRows' /\ HandsDiffer'
    BY DEF AffInv, AccrualRows, HandsDiffer
  <1>3. \A tx : OrdersOf(tx)' = OrdersOf(tx)
    BY DEF OrdersOf
  <1>4. ASSUME NEW S \in SUBSET Orders, \A o \in S : accrual[o].status # "none"
        PROVE  Total(Micro(accrual'), S) = Total(Micro(accrual), S)
    BY <1>4, MicroKept
  <1>5. Covered'
    <2> SUFFICES ASSUME NEW tx \in PayoutTxs
                 PROVE  Total(Micro(accrual'), OrdersOf(tx)') <= payout'[tx]
      BY DEF Covered
    <2>1. OrdersOf(tx) \in SUBSET Orders
      BY DEF OrdersOf
    <2>2. \A o \in OrdersOf(tx) : accrual[o].status # "none"
      BY AffiliatesAssumption DEF OrdersOf, AffInv, AccrualRows
    <2>3. Total(Micro(accrual'), OrdersOf(tx)) = Total(Micro(accrual), OrdersOf(tx))
      BY <1>4, <2>1, <2>2
    <2> QED
      BY <1>3, <2>3 DEF AffInv, Covered
  <1>6. PayLocals'
    <2> SUFFICES ASSUME NEW w \in Threads, NEW r, r = payReq[w]
                 PROVE  /\ r.pc # "idle" => r.tx \in PayoutTxs /\ sent[r.tx] > 0
                        /\ InHand(r) => payout[r.tx] > 0 /\ OrdersOf(r.tx)' = {}
                        /\ r.pc = "selected" =>
                             /\ \A o \in r.left : accrual'[o].status # "none"
                             /\ Total(Micro(accrual'), r.left) <= payout[r.tx]
      BY DEF PayLocals
    <2>1. /\ r.pc # "idle" => r.tx \in PayoutTxs /\ sent[r.tx] > 0
          /\ InHand(r) => payout[r.tx] > 0 /\ OrdersOf(r.tx) = {}
          /\ r.pc = "selected" =>
               /\ \A o \in r.left : accrual[o].status # "none"
               /\ Total(Micro(accrual), r.left) <= payout[r.tx]
          /\ r.left \in SUBSET Orders
      BY DEF AffInv, PayLocals, AffiliatesTypeOK
    <2> QED
      BY <1>3, <1>4, <2>1
  <1> QED
    BY <1>1, <1>2, <1>5, <1>6 DEF AffInv

LEMMA Accrue_Aff ==
  ASSUME AffInv, NEW o \in Orders, NEW ref, NEW price \in Nat, accrual' = Accrue(o, ref, price),
         UNCHANGED <<payout, sent, payReq>>
  PROVE  AffInv'
PROOF
  <1> DEFINE micro == (price * Percent) \div 100
  <1>1. micro \in Nat
    <2>1. Percent \in Nat /\ price * Percent \in Nat
      BY AffiliatesAssumption
    <2> QED
      BY <2>1
  <1> HIDE DEF micro
  <1>2. CASE accrual' = accrual
    BY <1>2, RowWrites_Aff DEF AffInv, AffiliatesTypeOK
  <1>3. CASE /\ accrual[o].status = "none"
             /\ accrual' = [accrual EXCEPT ![o] =
                  [status |-> "accrued", micro |-> micro, payout |-> None]]
    <2>1. accrual' \in [Orders -> AccrualRow]
      BY <1>1, <1>3 DEF AffInv, AffiliatesTypeOK, AccrualRow, AccrualStatus
    <2>2. \A x \in Orders : x # o => accrual'[x] = accrual[x]
      BY <1>3 DEF AffInv, AffiliatesTypeOK
    <2>3. /\ accrual'[o].payout = None /\ accrual'[o].status = "accrued"
          /\ accrual[o].payout = None /\ accrual[o].status = "none"
      BY <1>3 DEF AffInv, AffiliatesTypeOK, AccrualRows
    <2> QED
      BY <2>1, <2>2, <2>3, RowWrites_Aff
  <1> QED
    BY <1>2, <1>3 DEF Accrue, micro

LEMMA VoidAccrual_Aff ==
  ASSUME AffInv, NEW o \in Orders, accrual' = VoidAccrual(o), UNCHANGED <<payout, sent, payReq>>
  PROVE  AffInv'
PROOF
  <1>1. CASE accrual' = accrual
    BY <1>1, RowWrites_Aff DEF AffInv, AffiliatesTypeOK
  <1>2. CASE accrual[o].status = "accrued" /\ accrual' = [accrual EXCEPT ![o].status = "void"]
    <2>1. accrual' \in [Orders -> AccrualRow]
      BY <1>2 DEF AffInv, AffiliatesTypeOK, AccrualRow, AccrualStatus
    <2>2. \A x \in Orders : x # o => accrual'[x] = accrual[x]
      BY <1>2 DEF AffInv, AffiliatesTypeOK
    <2>3. /\ accrual'[o].payout = accrual[o].payout /\ accrual'[o].status = "void"
          /\ accrual'[o].micro = accrual[o].micro
      BY <1>2 DEF AffInv, AffiliatesTypeOK, AccrualRow
    <2> QED
      BY <2>1, <2>2, <2>3, RowWrites_Aff
  <1> QED
    BY <1>1, <1>2 DEF VoidAccrual

\* The rows stay, payouts only grow, and one request moves on.
LEMMA PayStep_Aff ==
  ASSUME AffInv, UNCHANGED <<accrual, sent>>, AffiliatesTypeOK', NEW w \in Threads, NEW r,
         payReq' = [payReq EXCEPT ![w] = r],
         \A tx \in PayoutTxs : payout[tx] <= payout'[tx],
         r.pc # "idle" => r.tx \in PayoutTxs /\ sent[r.tx] > 0,
         InHand(r) => /\ payout'[r.tx] > 0 /\ OrdersOf(r.tx) = {}
                      /\ \A x \in Threads \ {w} : InHand(payReq[x]) => payReq[x].tx # r.tx,
         r.pc = "selected" => /\ \A o \in r.left : accrual[o].status # "none"
                              /\ Total(Micro(accrual), r.left) <= payout'[r.tx]
  PROVE  AffInv'
PROOF
  <1>1. \A tx : OrdersOf(tx)' = OrdersOf(tx)
    BY DEF OrdersOf
  <1>2. \A tx \in PayoutTxs : payout[tx] \in Nat /\ payout'[tx] \in Nat
    BY AffiliatesAssumption DEF AffInv, AffiliatesTypeOK
  <1>3. Covered'
    <2> SUFFICES ASSUME NEW tx \in PayoutTxs
                 PROVE  Total(Micro(accrual), OrdersOf(tx)) <= payout'[tx]
      BY <1>1 DEF Covered
    <2>1. Total(Micro(accrual), OrdersOf(tx)) <= payout[tx]
      BY DEF AffInv, Covered
    <2>2. OrdersOf(tx) \in SUBSET Orders /\ accrual \in [Orders -> AccrualRow]
      BY DEF OrdersOf, AffInv, AffiliatesTypeOK
    <2>3. Total(Micro(accrual), OrdersOf(tx)) \in Nat
      BY <2>2, MicroNat
    <2> QED
      BY <1>2, <2>1, <2>3
  <1>4. AccrualRows'
    <2> SUFFICES ASSUME NEW o \in Orders
                 PROVE  /\ accrual[o].status = "paid" => accrual[o].payout # None
                        /\ accrual[o].status = "none" => accrual[o].payout = None
                        /\ accrual[o].payout # None => payout'[accrual[o].payout] > 0
      BY DEF AccrualRows
    <2>1. accrual[o].payout # None => accrual[o].payout \in PayoutTxs
      BY DEF AffInv, AffiliatesTypeOK, AccrualRow
    <2> QED
      BY <1>2, <2>1 DEF AffInv, AccrualRows
  <1>5. \A x \in Threads : payReq'[x] = IF x = w THEN r ELSE payReq[x]
    BY DEF AffInv, AffiliatesTypeOK
  <1>6. HandsDiffer'
    BY <1>5 DEF AffInv, HandsDiffer
  <1>7. PayLocals'
    <2> SUFFICES ASSUME NEW x \in Threads, NEW q, q = payReq'[x]
                 PROVE  /\ q.pc # "idle" => q.tx \in PayoutTxs /\ sent[q.tx] > 0
                        /\ InHand(q) => payout'[q.tx] > 0 /\ OrdersOf(q.tx) = {}
                        /\ q.pc = "selected" =>
                             /\ \A o \in q.left : accrual[o].status # "none"
                             /\ Total(Micro(accrual), q.left) <= payout'[q.tx]
      BY <1>1 DEF PayLocals
    <2>1. CASE x = w
      BY <1>5, <2>1
    <2>2. CASE x # w
      <3>1. q = payReq[x]
        BY <1>5, <2>2
      <3>2. /\ q.pc # "idle" => q.tx \in PayoutTxs /\ sent[q.tx] > 0
            /\ InHand(q) => payout[q.tx] > 0 /\ OrdersOf(q.tx) = {}
            /\ q.pc = "selected" =>
                 /\ \A o \in q.left : accrual[o].status # "none"
                 /\ Total(Micro(accrual), q.left) <= payout[q.tx]
            /\ q.left \in SUBSET Orders
        BY <3>1 DEF AffInv, PayLocals, AffiliatesTypeOK
      <3>3. Total(Micro(accrual), q.left) \in Nat
        BY <3>2, MicroNat DEF AffInv, AffiliatesTypeOK
      <3>4. InHand(q) => q.tx \in PayoutTxs
        BY <3>2 DEF InHand
      <3>5. q.pc = "selected" => InHand(q)
        BY DEF InHand
      <3> QED
        BY <1>2, <3>2, <3>3, <3>4, <3>5
    <2> QED
      BY <2>1, <2>2
  <1> QED
    BY <1>3, <1>4, <1>6, <1>7 DEF AffInv

LEMMA PayRows ==
  ASSUME AffInv
  PROVE  /\ accrual \in [Orders -> AccrualRow]
         /\ \A tx \in PayoutTxs : payout[tx] \in Nat
         /\ \A tx \in PayoutTxs, o \in Orders : payout[tx] = 0 => accrual[o].payout # tx
         /\ NoPayout \in [pc : {"idle", "receipt", "recorded", "selected"},
                          tx : PayoutTxs \cup {None}, owed : Nat, left : SUBSET Orders]
         /\ \A w \in Threads :
              payReq[w] \in [pc : {"idle", "receipt", "recorded", "selected"},
                             tx : PayoutTxs \cup {None}, owed : Nat, left : SUBSET Orders]
PROOF
  <1>1. \A tx \in PayoutTxs : tx # None /\ payout[tx] \in Nat
    BY AffiliatesAssumption DEF AffInv, AffiliatesTypeOK
  <1>2. ASSUME NEW tx \in PayoutTxs, NEW o \in Orders, payout[tx] = 0 PROVE accrual[o].payout # tx
    BY <1>1, <1>2 DEF AffInv, AccrualRows
  <1> QED
    BY <1>1, <1>2 DEF AffInv, AffiliatesTypeOK, NoPayout

\* A request that ends leaves its thread idle.
LEMMA PayEnds_Aff ==
  ASSUME AffInv, NEW w \in Threads, UNCHANGED <<accrual, payout, sent>>,
         payReq' = [payReq EXCEPT ![w] = NoPayout]
  PROVE  AffInv'
PROOF
  <1>1. PICK r : r = NoPayout
    OBVIOUS
  <1>2. AffiliatesTypeOK'
    BY PayRows DEF AffInv, AffiliatesTypeOK
  <1>3. r.pc = "idle" /\ r.pc # "selected" /\ ~ InHand(r)
    BY <1>1 DEF NoPayout, InHand
  <1>4. \A t \in PayoutTxs : payout[t] <= payout'[t]
    BY PayRows
  <1>5. UNCHANGED <<accrual, sent>> /\ payReq' = [payReq EXCEPT ![w] = r]
    BY <1>1
  <1> QED
    BY ONLY AffInv, <1>2, <1>3, <1>4, <1>5, PayStep_Aff

\* A transfer on the chain, a request that begins, is refused or dies.
LEMMA PayReads_Aff ==
  ASSUME AffInv,
         \/ \E tx \in PayoutTxs : SendPayout(tx)
         \/ \E tx \in PayoutTxs, w \in Threads : PayoutBegin(w, tx)
         \/ \E w \in Threads : PayoutDies(w)
  PROVE  AffInv'
PROOF
  <1>0. UNCHANGED <<accrual, payout>>
    BY DEF SendPayout, PayoutBegin, PayoutDies
  <1>1. ASSUME NEW tx \in PayoutTxs, SendPayout(tx) PROVE AffInv'
    <2>1. AffiliatesTypeOK'
      BY <1>1, AffiliatesAssumption DEF SendPayout, AffInv, AffiliatesTypeOK
    <2>2. UNCHANGED <<accrual, payout, payReq>>
      BY <1>1 DEF SendPayout
    <2>3. \A t \in PayoutTxs : sent[t] > 0 => sent'[t] = sent[t]
      BY <1>1 DEF SendPayout, AffInv, AffiliatesTypeOK
    <2>4. \A t : OrdersOf(t)' = OrdersOf(t)
      BY <2>2 DEF OrdersOf
    <2>5. HandsDiffer' /\ AccrualRows'
      BY <2>2 DEF AffInv, HandsDiffer, AccrualRows
    <2>6. Covered'
      BY <2>2, <2>4 DEF AffInv, Covered
    <2>7. PayLocals'
      BY <2>2, <2>3, <2>4 DEF AffInv, PayLocals
    <2> QED
      BY <2>1, <2>5, <2>6, <2>7 DEF AffInv
  <1>2. ASSUME NEW tx \in PayoutTxs, NEW w \in Threads, PayoutBegin(w, tx) PROVE AffInv'
    <2>1. PICK r : r = [NoPayout EXCEPT !.pc = "receipt", !.tx = tx, !.owed = Owed]
      OBVIOUS
    <2>2. Owed \in Nat
      <3>1. AccruedOrders \in SUBSET Orders
        BY DEF AccruedOrders
      <3>2. MicroOf(AccruedOrders) = Total(Micro(accrual), AccruedOrders)
        BY <3>1, MicroSum
      <3> QED
        BY <3>1, <3>2, MicroNat, PayRows DEF Owed
    <2>3. payReq' = [payReq EXCEPT ![w] = r] /\ r.pc = "receipt" /\ r.tx = tx /\ UNCHANGED sent
      BY <1>2, <2>1 DEF PayoutBegin, NoPayout
    <2>4. AffiliatesTypeOK'
      BY <1>0, <2>1, <2>2, <2>3, PayRows DEF AffInv, AffiliatesTypeOK, NoPayout
    <2>5. r.tx \in PayoutTxs /\ sent[r.tx] > 0 /\ ~ InHand(r) /\ r.pc # "selected"
      BY <1>2, <2>3 DEF PayoutBegin, InHand
    <2>6. \A t \in PayoutTxs : payout[t] <= payout'[t]
      BY <1>0, PayRows
    <2>7. UNCHANGED <<accrual, sent>> /\ payReq' = [payReq EXCEPT ![w] = r]
      BY <1>0, <2>3
    <2> QED
      BY ONLY AffInv, <2>4, <2>5, <2>6, <2>7, PayStep_Aff
  <1>3. ASSUME NEW w \in Threads, PayoutDies(w) PROVE AffInv'
    <2>1. UNCHANGED <<accrual, payout, sent>> /\ payReq' = [payReq EXCEPT ![w] = NoPayout]
      BY <1>3 DEF PayoutDies
    <2> QED
      BY <2>1, PayEnds_Aff
  <1> QED
    BY <1>1, <1>2, <1>3

\* The payout's row is inserted once: a hash that another request holds or
\* spread already is refused.
LEMMA PayoutRecord_Aff ==
  ASSUME AffInv, NEW w \in Threads, PayoutRecord(w) PROVE AffInv'
PROOF
  <1>1. PICK r : r = payReq[w]
    OBVIOUS
  <1>2. /\ r.pc = "receipt" /\ r.tx \in PayoutTxs /\ sent[r.tx] > 0
        /\ UNCHANGED <<accrual, sent>>
    BY <1>1 DEF PayoutRecord, AffInv, PayLocals
  <1>3. CASE payReq' = [payReq EXCEPT ![w] = NoPayout] /\ UNCHANGED payout
    BY <1>2, <1>3, PayEnds_Aff
  <1>4. CASE /\ ~ (payout[r.tx] > 0)
             /\ payout' = [payout EXCEPT ![r.tx] = sent[r.tx]]
             /\ payReq' = [payReq EXCEPT ![w].pc = "recorded"]
    <2>1. PICK q : q = [r EXCEPT !.pc = "recorded"]
      OBVIOUS
    <2>2. payReq' = [payReq EXCEPT ![w] = q] /\ q.pc = "recorded" /\ q.tx = r.tx
      BY <1>1, <1>4, <2>1, PayRows
    <2>3. AffiliatesTypeOK'
      BY <1>1, <1>2, <1>4, <2>1, <2>2, PayRows DEF AffInv, AffiliatesTypeOK
    <2>4. payout[r.tx] = 0 /\ payout'[r.tx] = sent[r.tx]
          /\ \A tx \in PayoutTxs \ {r.tx} : payout'[tx] = payout[tx]
      BY <1>2, <1>4, PayRows DEF AffInv, AffiliatesTypeOK
    <2>5. sent[r.tx] \in Nat
      BY <1>2, AffiliatesAssumption DEF AffInv, AffiliatesTypeOK
    <2>6. \A tx \in PayoutTxs : payout[tx] <= payout'[tx]
      BY <2>4, <2>5, PayRows
    <2>7. OrdersOf(q.tx) = {}
      BY <1>2, <2>2, <2>4, PayRows DEF OrdersOf
    <2>8. \A x \in Threads \ {w} : InHand(payReq[x]) => payReq[x].tx # q.tx
      BY <2>2, <2>4 DEF AffInv, PayLocals
    <2>9. q.tx \in PayoutTxs /\ sent[q.tx] > 0 /\ payout'[q.tx] > 0 /\ q.pc # "selected"
      BY <1>2, <2>2, <2>4
    <2>10. UNCHANGED <<accrual, sent>> /\ payReq' = [payReq EXCEPT ![w] = q]
      BY <1>2, <2>2
    <2> QED
      BY ONLY AffInv, <2>3, <2>6, <2>7, <2>8, <2>9, <2>10, PayStep_Aff
  <1> QED
    BY <1>1, <1>3, <1>4 DEF PayoutRecord

\* What is selected fits the transfer, whatever was accrued or voided since.
LEMMA PayoutSelect_Aff ==
  ASSUME AffInv, NEW w \in Threads, PayoutSelect(w) PROVE AffInv'
PROOF
  <1>1. PICK r : r = payReq[w]
    OBVIOUS
  <1>2. /\ r.pc = "recorded" /\ r.tx \in PayoutTxs /\ sent[r.tx] > 0 /\ payout[r.tx] > 0
        /\ OrdersOf(r.tx) = {} /\ UNCHANGED <<accrual, payout, sent>>
    BY <1>1 DEF PayoutSelect, AffInv, PayLocals, InHand
  <1>3. PICK S : S = Coverable(AccruedOrders, payout[r.tx])
    OBVIOUS
  <1>4. S \subseteq AccruedOrders /\ MicroOf(S) <= payout[r.tx]
    <2>1. AccruedOrders \in SUBSET Orders /\ payout[r.tx] \in Nat
      BY <1>2, PayRows DEF AccruedOrders
    <2> QED
      BY <1>3, <2>1, PayRows, CoverFits
  <1>5. S \in SUBSET Orders /\ \A o \in S : accrual[o].status # "none"
    BY <1>4 DEF AccruedOrders
  <1>6. Total(Micro(accrual), S) <= payout[r.tx]
    BY <1>4, <1>5, MicroSum
  <1>7. PICK q : q = [r EXCEPT !.pc = "selected", !.left = S]
    OBVIOUS
  <1>8. q.pc = "selected" /\ q.tx = r.tx /\ q.left = S
    BY <1>1, <1>7, PayRows
  <1>9. UNCHANGED <<accrual, sent>> /\ payReq' = [payReq EXCEPT ![w] = q]
    <2>1. payReq' = [payReq EXCEPT ![w].pc = "selected", ![w].left = S]
      BY <1>1, <1>3 DEF PayoutSelect
    <2> QED
      BY <1>1, <1>2, <1>7, <2>1 DEF AffInv, AffiliatesTypeOK
  <1>10. AffiliatesTypeOK'
    BY ZenonT(60), <1>1, <1>2, <1>5, <1>7, <1>9, PayRows DEF AffInv, AffiliatesTypeOK
  <1>11. \A tx \in PayoutTxs : payout[tx] <= payout'[tx]
    BY <1>2, PayRows
  <1>12. \A x \in Threads \ {w} : InHand(payReq[x]) => payReq[x].tx # q.tx
    BY <1>1, <1>2, <1>8 DEF AffInv, HandsDiffer, InHand
  <1>13. q.tx \in PayoutTxs /\ sent[q.tx] > 0 /\ payout'[q.tx] > 0 /\ OrdersOf(q.tx) = {}
    BY <1>2, <1>8
  <1>14. /\ \A o \in q.left : accrual[o].status # "none"
         /\ Total(Micro(accrual), q.left) <= payout'[q.tx]
    BY <1>2, <1>5, <1>6, <1>8
  <1> QED
    BY ONLY AffInv, <1>9, <1>10, <1>11, <1>12, <1>13, <1>14, PayStep_Aff

\* The flush gives this payout the rows it selected, and takes them from the
\* payouts that wrote them since.
LEMMA PayoutCover_Aff ==
  ASSUME AffInv, NEW w \in Threads, PayoutCover(w) PROVE AffInv'
PROOF
  <1>1. PICK r : r = payReq[w]
    OBVIOUS
  <1>2. /\ r.pc = "selected" /\ r.tx \in PayoutTxs /\ r.tx # None /\ payout[r.tx] > 0
        /\ OrdersOf(r.tx) = {} /\ r.left \in SUBSET Orders
        /\ \A o \in r.left : accrual[o].status # "none"
        /\ Total(Micro(accrual), r.left) <= payout[r.tx]
        /\ UNCHANGED <<payout, sent>> /\ payReq' = [payReq EXCEPT ![w] = NoPayout]
    BY <1>1, AffiliatesAssumption DEF PayoutCover, AffInv, AffiliatesTypeOK, PayLocals, InHand
  <1>3. \A o \in Orders : accrual'[o] =
          IF o \in r.left THEN [accrual[o] EXCEPT !.status = "paid", !.payout = r.tx]
                          ELSE accrual[o]
    BY <1>1 DEF PayoutCover
  <1>4. \A o \in Orders :
          /\ accrual'[o] \in AccrualRow /\ accrual'[o].micro = accrual[o].micro
          /\ accrual'[o].payout = IF o \in r.left THEN r.tx ELSE accrual[o].payout
          /\ accrual'[o].status = IF o \in r.left THEN "paid" ELSE accrual[o].status
    <2> SUFFICES ASSUME NEW o \in Orders, NEW a, a = accrual[o]
                 PROVE  /\ accrual'[o] \in AccrualRow /\ accrual'[o].micro = a.micro
                        /\ accrual'[o].payout = IF o \in r.left THEN r.tx ELSE a.payout
                        /\ accrual'[o].status = IF o \in r.left THEN "paid" ELSE a.status
      OBVIOUS
    <2>1. a \in AccrualRow
      BY PayRows
    <2>2. CASE o \in r.left
      <3>1. accrual'[o] = [a EXCEPT !.status = "paid", !.payout = r.tx]
        BY <1>3, <2>2
      <3> QED
        BY <1>2, <2>1, <2>2, <3>1 DEF AccrualRow, AccrualStatus
    <2>3. CASE o \notin r.left
      BY <1>3, <2>1, <2>3
    <2> QED
      BY <2>2, <2>3
  <1>5. AffiliatesTypeOK'
    <2>1. accrual' \in [Orders -> AccrualRow]
      BY <1>4 DEF PayoutCover
    <2> QED
      BY SMTT(60), <1>2, <2>1, PayRows DEF AffInv, AffiliatesTypeOK
  <1>6. ASSUME NEW S \in SUBSET Orders PROVE Total(Micro(accrual'), S) = Total(Micro(accrual), S)
    BY <1>4, MicroKept
  <1>7. \A x \in Threads : payReq'[x] = IF x = w THEN NoPayout ELSE payReq[x]
    BY <1>2 DEF AffInv, AffiliatesTypeOK
  <1>8. ASSUME NEW tx \in PayoutTxs
        PROVE  /\ tx = r.tx => OrdersOf(tx)' = r.left
               /\ tx # r.tx => OrdersOf(tx)' \subseteq OrdersOf(tx)
    BY <1>2, <1>4, <1>8 DEF OrdersOf
  <1>9. Covered'
    <2> SUFFICES ASSUME NEW tx \in PayoutTxs
                 PROVE  Total(Micro(accrual'), OrdersOf(tx)') <= payout[tx]
      BY <1>2 DEF Covered
    <2>1. CASE tx = r.tx
      BY <1>2, <1>6, <1>8, <2>1
    <2>2. CASE tx # r.tx
      <3>1. PICK T : T = OrdersOf(tx)'
        OBVIOUS
      <3>2. T \in SUBSET OrdersOf(tx) /\ T \in SUBSET Orders /\ OrdersOf(tx) \in SUBSET Orders
        BY <1>8, <2>2, <3>1 DEF OrdersOf
      <3>3. Total(Micro(accrual), OrdersOf(tx)) <= payout[tx] /\ payout[tx] \in Nat
        BY PayRows DEF AffInv, Covered
      <3>4. Total(Micro(accrual), T) <= Total(Micro(accrual), OrdersOf(tx))
        BY <3>2, MicroNat, PayRows, TotalSubset
      <3>5. Total(Micro(accrual), T) \in Nat /\ Total(Micro(accrual), OrdersOf(tx)) \in Nat
        BY <3>2, MicroNat, PayRows
      <3>6. Total(Micro(accrual'), T) = Total(Micro(accrual), T)
        BY <1>6, <3>2
      <3> QED
        BY <3>1, <3>3, <3>4, <3>5, <3>6
    <2> QED
      BY <2>1, <2>2
  <1>10. AccrualRows'
    BY <1>2, <1>4 DEF AffInv, AccrualRows
  <1>11. HandsDiffer'
    BY <1>7 DEF AffInv, HandsDiffer, InHand, NoPayout
  <1>12. PayLocals'
    <2> SUFFICES ASSUME NEW x \in Threads, NEW q, q = payReq'[x]
                 PROVE  /\ q.pc # "idle" => q.tx \in PayoutTxs /\ sent[q.tx] > 0
                        /\ InHand(q) => payout[q.tx] > 0 /\ OrdersOf(q.tx)' = {}
                        /\ q.pc = "selected" =>
                             /\ \A o \in q.left : accrual'[o].status # "none"
                             /\ Total(Micro(accrual'), q.left) <= payout[q.tx]
      BY <1>2 DEF PayLocals
    <2>1. CASE x = w
      BY <1>7, <2>1 DEF NoPayout, InHand
    <2>2. CASE x # w
      <3>1. q = payReq[x] /\ q.left \in SUBSET Orders
        BY <1>7, <2>2, PayRows
      <3>2. /\ q.pc # "idle" => q.tx \in PayoutTxs /\ sent[q.tx] > 0
            /\ InHand(q) => payout[q.tx] > 0 /\ OrdersOf(q.tx) = {}
            /\ q.pc = "selected" =>
                 /\ \A o \in q.left : accrual[o].status # "none"
                 /\ Total(Micro(accrual), q.left) <= payout[q.tx]
        BY <3>1 DEF AffInv, PayLocals
      <3>3. InHand(q) => q.tx # r.tx /\ q.tx \in PayoutTxs
        BY <1>1, <1>2, <2>2, <3>1, <3>2 DEF AffInv, HandsDiffer, InHand
      <3>4. InHand(q) => OrdersOf(q.tx)' = {}
        BY <1>8, <3>2, <3>3
      <3>5. \A o \in q.left : accrual[o].status # "none" => accrual'[o].status # "none"
        BY <1>4, <3>1
      <3> QED
        BY <1>6, <3>1, <3>2, <3>4, <3>5
    <2> QED
      BY <2>1, <2>2
  <1> QED
    BY <1>5, <1>9, <1>10, <1>11, <1>12 DEF AffInv

LEMMA AffiliatesStep == ASSUME AffInv, AffiliatesNext PROVE AffInv'
PROOF
  <1>1. ASSUME NEW tx \in PayoutTxs, SendPayout(tx) \/ \E w \in Threads : PayoutBegin(w, tx)
        PROVE  AffInv'
    BY <1>1, PayReads_Aff
  <1>2. ASSUME NEW w \in Threads,
               PayoutRecord(w) \/ PayoutSelect(w) \/ PayoutCover(w) \/ PayoutDies(w)
        PROVE  AffInv'
    BY <1>2, PayReads_Aff, PayoutRecord_Aff, PayoutSelect_Aff, PayoutCover_Aff
  <1> QED
    BY <1>1, <1>2 DEF AffiliatesNext

\* Steps of the refunds that leave the accruals alone.
LEMMA AffStutter == ASSUME AffInv, UNCHANGED affVars PROVE AffInv'
PROOF
  <1>1. \A tx : OrdersOf(tx)' = OrdersOf(tx)
    BY DEF OrdersOf, affVars
  <1>2. PayLocals' /\ Covered'
    BY <1>1 DEF AffInv, affVars, PayLocals, Covered
  <1> QED
    BY <1>2 DEF AffInv, affVars, AffiliatesTypeOK, HandsDiffer, AccrualRows

LEMMA AffiliatesStart == AffiliatesInit => AffInv
PROOF
  <1> SUFFICES ASSUME AffiliatesInit PROVE AffInv
    OBVIOUS
  <1> USE AffiliatesAssumption DEF AffiliatesInit, NoAccrual, NoPayout
  <1>1. AffiliatesTypeOK
    BY DEF AffiliatesTypeOK, AccrualRow, AccrualStatus
  <1>2. PayLocals /\ HandsDiffer /\ AccrualRows
    BY DEF PayLocals, HandsDiffer, InHand, AccrualRows
  <1>3. Covered
    <2> SUFFICES ASSUME NEW tx \in PayoutTxs
                 PROVE  Total(Micro(accrual), OrdersOf(tx)) <= payout[tx]
      BY DEF Covered
    <2>1. OrdersOf(tx) = {}
      BY DEF OrdersOf
    <2>2. Total(Micro(accrual), {}) = 0 /\ payout[tx] = 0
      BY TotalEmpty
    <2> QED
      BY <2>1, <2>2
  <1> QED
    BY <1>1, <1>2, <1>3 DEF AffInv

\* The sum of the parts: every paid row counts towards the payout it names.
LEMMA PaidWithinPayouts == AffInv => PayoutBacked
PROOF
  <1> SUFFICES ASSUME AffInv PROVE PayoutBacked
    OBVIOUS
  <1>1. PICK f : f = Micro(accrual)
    OBVIOUS
  <1>2. ASSUME NEW S \in SUBSET Orders
        PROVE  /\ MicroOf(S) = Total(f, S) /\ IsFiniteSet(S) /\ Counts(f, S)
               /\ \A o \in S : f[o] \in Nat /\ Total(f, S) \in Nat
    BY <1>1, MicroSum, MicroNat, PayRows
  <1>3. \A tx \in PayoutTxs : Total(f, OrdersOf(tx)) <= payout[tx] /\ payout[tx] \in Nat
    BY <1>1, PayRows DEF AffInv, Covered
  <1>4. ASSUME NEW tx \in PayoutTxs
        PROVE  MicroOf({o \in Orders : accrual[o].payout = tx}) <= payout[tx]
    BY <1>2, <1>3 DEF OrdersOf
  <1>5. PICK Paid : Paid = {o \in Orders : accrual[o].status = "paid"}
    OBVIOUS
  <1>6. PICK p : p = [o \in Orders |-> accrual[o].payout]
    OBVIOUS
  <1>7. PICK g : g = [tx \in PayoutTxs |-> Total(f, PartOf(Paid, p, tx))]
    OBVIOUS
  <1>8. \A o \in Paid : p[o] \in PayoutTxs
    BY <1>5, <1>6, PayRows DEF AffInv, AccrualRows, AccrualRow
  <1>9. IsFiniteSet(Paid) /\ Counts(f, Paid) /\ MicroOf(Paid) = Total(f, Paid)
    BY <1>2, <1>5
  <1>10. IsFiniteSet(PayoutTxs)
    BY AffiliatesAssumption
  <1>11. Total(f, Paid) = Total(g, PayoutTxs)
    <2>1. \A tx \in PayoutTxs : g[tx] = Total(f, PartOf(Paid, p, tx))
      BY <1>7
    <2> QED
      BY ONLY <1>8, <1>9, <1>10, <2>1, TotalParts
  <1>12. ASSUME NEW tx \in PayoutTxs PROVE g[tx] \in Nat /\ g[tx] <= payout[tx]
    <2>1. PICK T : T = PartOf(Paid, p, tx)
      OBVIOUS
    <2>2. T \in SUBSET OrdersOf(tx) /\ T \in SUBSET Orders /\ OrdersOf(tx) \in SUBSET Orders
      BY <1>5, <1>6, <2>1 DEF OrdersOf, PartOf
    <2>3. Total(f, T) <= Total(f, OrdersOf(tx))
      BY <1>2, <2>2, TotalSubset
    <2>4. Total(f, T) \in Nat /\ Total(f, OrdersOf(tx)) \in Nat
      BY <1>2, <2>2, TotalNat
    <2> QED
      BY <1>3, <1>7, <2>1, <2>3, <2>4
  <1>13. Counts(g, PayoutTxs) /\ Counts(payout, PayoutTxs)
    BY <1>3, <1>12 DEF Counts
  <1>14. Total(g, PayoutTxs) <= Total(payout, PayoutTxs)
    BY ONLY <1>10, <1>12, <1>13, TotalPointwise
  <1>15. MapThenSumSet(LAMBDA tx : payout[tx], PayoutTxs) = Total(payout, PayoutTxs)
    BY DEF Total
  <1>16. Summary["paid"] = MicroOf(Paid)
    BY <1>5 DEF Summary
  <1> QED
    BY <1>4, <1>9, <1>11, <1>14, <1>15, <1>16 DEF PayoutBacked

-----------------------------------------------------------------------------
(* Refunds: what an order's refunded sum rests on *)

\* The rows of an order in the refunds ledger add up to this.
Ledger(rows, o) == Total(Amount(rows), RowsOf(rows, o))

RefRequest == [pc : {"idle", "receipt", "recorded"}, order : Orders \cup {None},
               row : SaleRow, tx : RefundTxs \cup {None}, kind : Kinds]

\* What a request holds: the row it read, however old, and the transfer it found
\* on the chain; once the refund's row is inserted, the sum that it is about to
\* write is in the ledger and is all that was paid, or all that was too much.
LocalHolds(r) ==
  /\ r.pc # "idle" =>
       /\ r.order \in Orders /\ r.tx \in RefundTxs /\ returned[r.tx] > 0
       /\ sale[r.order].status # "none"
       /\ r.row.over = sale[r.order].over /\ r.row.paid <= sale[r.order].paid
  /\ r.pc = "receipt" /\ refund[r.tx] = NoRefund =>
       r.row.refunded <= Ledger(refund, r.order)
  /\ r.pc = "recorded" =>
       /\ r.row.refunded + returned[r.tx] <= Ledger(refund, r.order)
       /\ r.row.refunded + returned[r.tx] = IF r.kind = "full" THEN r.row.paid ELSE r.row.over

SaleHolds(o) ==
  /\ sale[o].refunded <= Ledger(refund, o) /\ sale[o].refunded <= sale[o].paid
  /\ sale[o].over <= sale[o].paid
  /\ sale[o].status = "delivered" => sale[o].refunded <= sale[o].over
  /\ sale[o].status \in {"none", "underpaid", "confirmed", "overpaid", "late_paid"} =>
       sale[o].refunded = 0

RefInv ==
  /\ AffInv /\ RefundsTypeOK
  /\ \A w \in Threads : LocalHolds(refReq[w])
  /\ \A o \in Orders : SaleHolds(o)

\* What no step undoes, so that old reads stay true.
Forward ==
  /\ \A o \in Orders : sale[o].status # "none" =>
       /\ sale'[o].status # "none" /\ sale'[o].over = sale[o].over
       /\ sale[o].paid <= sale'[o].paid
  /\ \A tx \in RefundTxs : returned[tx] > 0 => returned'[tx] = returned[tx]
  /\ \A tx \in RefundTxs : refund'[tx] = NoRefund => refund[tx] = NoRefund
  /\ \A o \in Orders : Ledger(refund, o) <= Ledger(refund', o)

RefundRows == [RefundTxs -> [order : Orders \cup {None}, amount : Nat]]

LEMMA LedgerNat ==
  ASSUME NEW rows \in RefundRows, NEW o
  PROVE  /\ IsFiniteSet(RowsOf(rows, o)) /\ Counts(Amount(rows), RowsOf(rows, o))
         /\ Ledger(rows, o) \in Nat
PROOF
  <1>1. RowsOf(rows, o) \in SUBSET RefundTxs
    BY DEF RowsOf
  <1>2. IsFiniteSet(RowsOf(rows, o))
    BY <1>1, RefundsAssumption, FS_Subset
  <1>3. \A tx \in RowsOf(rows, o) : Amount(rows)[tx] \in Nat
    BY <1>1 DEF Amount, RefundRows
  <1>4. Total(Amount(rows), RowsOf(rows, o)) \in Nat
    BY ONLY <1>2, <1>3, TotalNat
  <1> QED
    BY <1>2, <1>3, <1>4 DEF Counts, Ledger

\* Inserting the row of a transaction that had none adds its amount.
LEMMA LedgerInsert ==
  ASSUME NEW rows \in RefundRows, NEW tx \in RefundTxs, rows[tx] = NoRefund,
         NEW o \in Orders, NEW v \in Nat, NEW new, new[tx].order = o, new[tx].amount = v,
         \A t \in RefundTxs \ {tx} : new[t] = rows[t]
  PROVE  /\ Ledger(new, o) = Ledger(rows, o) + v
         /\ \A x \in Orders \ {o} : Ledger(new, x) = Ledger(rows, x)
PROOF
  <1>1. o # None /\ rows[tx].order = None
    BY AffiliatesAssumption DEF NoRefund
  <1>2. \A t \in RefundTxs :
          /\ t = tx => new[t].order = o /\ new[t].amount = v
          /\ t # tx => new[t] = rows[t]
    OBVIOUS
  <1>3. ASSUME NEW x \in Orders
        PROVE  Total(Amount(new), RowsOf(rows, x)) = Total(Amount(rows), RowsOf(rows, x))
    <2>1. tx \notin RowsOf(rows, x)
      BY <1>1, AffiliatesAssumption DEF RowsOf
    <2>2. \A t \in RowsOf(rows, x) : Amount(new)[t] = Amount(rows)[t]
      BY <1>2, <2>1 DEF RowsOf, Amount
    <2>3. IsFiniteSet(RowsOf(rows, x))
      BY LedgerNat
    <2> QED
      BY ONLY <2>2, <2>3, TotalAgrees
  <1>4. ASSUME NEW x \in Orders \ {o} PROVE Ledger(new, x) = Ledger(rows, x)
    <2>1. RowsOf(new, x) = RowsOf(rows, x)
      BY <1>1, <1>2, AffiliatesAssumption DEF RowsOf
    <2> QED
      BY <1>3, <2>1 DEF Ledger
  <1>5. Ledger(new, o) = Ledger(rows, o) + v
    <2>1. RowsOf(new, o) = RowsOf(rows, o) \cup {tx} /\ tx \notin RowsOf(rows, o)
      BY <1>1, <1>2 DEF RowsOf
    <2>2. Amount(new)[tx] = v
      BY <1>2 DEF Amount
    <2>3. Counts(Amount(new), RowsOf(rows, o)) /\ IsFiniteSet(RowsOf(rows, o))
      <3>1. \A t \in RowsOf(rows, o) : Amount(new)[t] = Amount(rows)[t]
        BY <1>2, <2>1 DEF RowsOf, Amount
      <3> QED
        BY <3>1, LedgerNat DEF Counts
    <2>4. Total(Amount(new), RowsOf(rows, o) \cup {tx}) = v + Total(Amount(new), RowsOf(rows, o))
      BY <2>1, <2>2, <2>3, TotalAdd
    <2>5. Ledger(rows, o) \in Nat /\ Ledger(rows, o) = Total(Amount(new), RowsOf(rows, o))
      BY <1>3, LedgerNat DEF Ledger
    <2>6. Ledger(new, o) = Total(Amount(new), RowsOf(rows, o) \cup {tx})
      BY <2>1 DEF Ledger
    <2> QED
      BY <2>4, <2>5, <2>6
  <1> QED
    BY <1>4, <1>5

LEMMA LocalKept ==
  ASSUME RefundsTypeOK, RefundsTypeOK', Forward, NEW r \in RefRequest, LocalHolds(r)
  PROVE  LocalHolds(r)'
PROOF
  <1>1. CASE r.pc = "idle"
    BY <1>1 DEF LocalHolds
  <1>2. CASE r.pc # "idle"
    <2>1. /\ r.order \in Orders /\ r.tx \in RefundTxs /\ returned[r.tx] > 0
          /\ sale[r.order].status # "none"
          /\ r.row.over = sale[r.order].over /\ r.row.paid <= sale[r.order].paid
      BY <1>2 DEF LocalHolds
    <2>2. /\ sale'[r.order].status # "none" /\ sale'[r.order].over = sale[r.order].over
          /\ sale[r.order].paid <= sale'[r.order].paid
          /\ returned'[r.tx] = returned[r.tx]
          /\ refund'[r.tx] = NoRefund => refund[r.tx] = NoRefund
          /\ Ledger(refund, r.order) <= Ledger(refund', r.order)
      BY <2>1 DEF Forward
    <2>3. /\ r.row.paid \in Nat /\ r.row.refunded \in Nat /\ returned[r.tx] \in Nat
          /\ sale[r.order].paid \in Nat /\ sale'[r.order].paid \in Nat
      BY <2>1 DEF RefundsTypeOK, RefRequest, SaleRow
    <2>4. Ledger(refund, r.order) \in Nat /\ Ledger(refund', r.order) \in Nat
      BY LedgerNat DEF RefundsTypeOK, RefundRows
    <2> QED
      BY <2>1, <2>2, <2>3, <2>4 DEF LocalHolds
  <1> QED
    BY <1>1, <1>2

\* One step of the books: one request moves on, or none.
LEMMA BooksStep ==
  ASSUME RefInv, AffInv', RefundsTypeOK', Forward,
         \A w \in Threads, r \in RefRequest :
           r = refReq'[w] => r = refReq[w] \/ LocalHolds(r)',
         \A o \in Orders : sale'[o] = sale[o] \/ SaleHolds(o)'
  PROVE  RefInv'
PROOF
  <1>1. ASSUME NEW w \in Threads PROVE LocalHolds(refReq[w])'
    <2>1. PICK r : r = refReq'[w]
      OBVIOUS
    <2>2. r \in RefRequest
      BY <2>1 DEF RefundsTypeOK, RefRequest
    <2>3. r = refReq[w] => LocalHolds(r)
      BY DEF RefInv
    <2>4. LocalHolds(r)'
      BY <2>1, <2>2, <2>3, LocalKept DEF RefInv
    <2> QED
      BY <2>1, <2>4 DEF LocalHolds
  <1>2. ASSUME NEW o \in Orders, sale'[o] = sale[o] PROVE SaleHolds(o)'
    <2>1. SaleHolds(o) /\ sale[o].refunded \in Nat
      BY DEF RefInv, RefundsTypeOK, SaleRow
    <2>2. Ledger(refund, o) <= Ledger(refund', o)
      BY DEF Forward
    <2>3. Ledger(refund, o) \in Nat /\ Ledger(refund', o) \in Nat
      BY LedgerNat DEF RefInv, RefundsTypeOK, RefundRows
    <2> QED
      BY <1>2, <2>1, <2>2, <2>3 DEF SaleHolds
  <1> QED
    BY <1>1, <1>2 DEF RefInv

LEMMA BookRows ==
  ASSUME RefInv
  PROVE  /\ sale \in [Orders -> SaleRow] /\ refund \in RefundRows /\ returned \in [RefundTxs -> Nat]
         /\ refReq \in [Threads -> RefRequest] /\ accrual \in [Orders -> AccrualRow]
         /\ \A o \in Orders : Ledger(refund, o) \in Nat /\ SaleHolds(o)
         /\ \A w \in Threads : refReq[w] \in RefRequest /\ LocalHolds(refReq[w])
BY LedgerNat DEF RefInv, AffInv, AffiliatesTypeOK, RefundsTypeOK, RefundRows, RefRequest

LEMMA NoRefReqHolds == NoRefReq \in RefRequest /\ LocalHolds(NoRefReq) /\ LocalHolds(NoRefReq)'
BY DEF NoRefReq, LocalHolds, RefRequest, NoSale, SaleRow, Kinds

\* A step that writes at most one row of orders, for the better.
LEMMA SaleStep ==
  ASSUME RefInv, AffInv', RefundsTypeOK', UNCHANGED <<refund, returned, refReq>>, NEW o \in Orders,
         \A x \in Orders \ {o} : sale'[x] = sale[x],
         SaleHolds(o)',
         sale[o].status # "none" =>
           /\ sale'[o].status # "none" /\ sale'[o].over = sale[o].over
           /\ sale[o].paid <= sale'[o].paid
  PROVE  RefInv'
PROOF
  <1>1. \A x \in Orders : sale[x].paid \in Nat
    BY BookRows DEF SaleRow
  <1>2. Forward
    BY <1>1, BookRows DEF Forward
  <1>3. \A w \in Threads, r \in RefRequest :
          r = refReq'[w] => r = refReq[w] \/ LocalHolds(r)'
    OBVIOUS
  <1>4. \A x \in Orders : sale'[x] = sale[x] \/ SaleHolds(x)'
    <2> TAKE x \in Orders
    <2>1. CASE x = o
      BY <2>1
    <2>2. CASE x # o
      BY <2>2
    <2> QED
      BY <2>1, <2>2
  <1> QED
    BY ONLY RefInv, AffInv', RefundsTypeOK', <1>2, <1>3, <1>4, BooksStep

LEMMA PayOrder_Books == ASSUME RefInv, NEW o \in Orders, PayOrder(o) PROVE RefInv'
PROOF
  <1>1. PICK row \in SaleRow :
          /\ sale' = [sale EXCEPT ![o] = row] /\ row.refunded = 0 /\ row.over <= row.paid
          /\ row.status \in {"underpaid", "confirmed", "overpaid", "late_paid"}
    <2>1. PICK p \in Prices, s \in 0..MaxSurplus :
            \/ \E late \in BOOLEAN : sale' = [sale EXCEPT ![o] =
                 [status |-> IF late THEN "late_paid" ELSE IF s > 0 THEN "overpaid" ELSE "confirmed",
                  paid |-> p + s, over |-> s, refunded |-> 0]]
            \/ /\ p > 1
               /\ sale' = [sale EXCEPT ![o] = [NoSale EXCEPT !.status = "underpaid", !.paid = p - 1]]
      BY DEF PayOrder
    <2>2. p \in Nat /\ s \in Nat
      BY AffiliatesAssumption, RefundsAssumption
    <2>3. ASSUME NEW late \in BOOLEAN, sale' = [sale EXCEPT ![o] =
                 [status |-> IF late THEN "late_paid" ELSE IF s > 0 THEN "overpaid" ELSE "confirmed",
                  paid |-> p + s, over |-> s, refunded |-> 0]]
          PROVE  \E row \in SaleRow :
                   /\ sale' = [sale EXCEPT ![o] = row] /\ row.refunded = 0 /\ row.over <= row.paid
                   /\ row.status \in {"underpaid", "confirmed", "overpaid", "late_paid"}
      <3>1. PICK st : st = IF late THEN "late_paid" ELSE IF s > 0 THEN "overpaid" ELSE "confirmed"
        OBVIOUS
      <3>2. st \in {"confirmed", "overpaid", "late_paid"}
        BY <3>1
      <3>3. PICK row : row = [status |-> st, paid |-> p + s, over |-> s, refunded |-> 0]
        OBVIOUS
      <3>4. row \in SaleRow /\ row.refunded = 0 /\ row.over <= row.paid /\ row.status = st
        BY <2>2, <3>2, <3>3 DEF SaleRow, REFUNDABLE
      <3>5. sale' = [sale EXCEPT ![o] = row]
        BY <2>3, <3>1, <3>3
      <3> QED
        BY <3>2, <3>4, <3>5
    <2>4. ASSUME p > 1, sale' = [sale EXCEPT ![o] = [NoSale EXCEPT !.status = "underpaid", !.paid = p - 1]]
          PROVE  \E row \in SaleRow :
                   /\ sale' = [sale EXCEPT ![o] = row] /\ row.refunded = 0 /\ row.over <= row.paid
                   /\ row.status \in {"underpaid", "confirmed", "overpaid", "late_paid"}
      <3>1. PICK q : q = p - 1
        OBVIOUS
      <3>2. q \in Nat
        BY <2>2, <2>4, <3>1
      <3>3. PICK row : row = [NoSale EXCEPT !.status = "underpaid", !.paid = q]
        OBVIOUS
      <3>4. row \in SaleRow /\ row.refunded = 0 /\ row.over <= row.paid /\ row.status = "underpaid"
        <4>1. row = [status |-> "underpaid", paid |-> q, over |-> 0, refunded |-> 0]
          BY <3>3 DEF NoSale
        <4> QED
          BY <3>2, <4>1 DEF SaleRow, REFUNDABLE
      <3>5. sale' = [sale EXCEPT ![o] = row]
        BY <2>4, <3>1, <3>3
      <3> QED
        BY <3>4, <3>5
    <2> QED
      BY <2>1, <2>3, <2>4
  <1>2. /\ UNCHANGED <<refund, returned, early, entitled, refReq>> /\ UNCHANGED affVars
        /\ sale[o].status = "none"
    BY DEF PayOrder
  <1>3. AffInv'
    BY <1>2, AffStutter DEF RefInv
  <1>4. sale'[o] = row /\ \A x \in Orders \ {o} : sale'[x] = sale[x]
    BY <1>1, BookRows
  <1>5. RefundsTypeOK'
    BY <1>1, <1>2, <1>3 DEF RefInv, AffInv, RefundsTypeOK
  <1>6. Ledger(refund', o) \in Nat /\ row.paid \in Nat
    BY <1>1, <1>2, BookRows DEF SaleRow
  <1>7. SaleHolds(o)'
    BY <1>1, <1>4, <1>6 DEF SaleHolds
  <1>8. UNCHANGED <<refund, returned, refReq>>
    BY <1>2
  <1> QED
    BY ONLY RefInv, <1>2, <1>3, <1>4, <1>5, <1>7, <1>8, SaleStep

LEMMA TopUpOrder_Books == ASSUME RefInv, NEW o \in Orders, TopUpOrder(o) PROVE RefInv'
PROOF
  <1>1. /\ sale' = [sale EXCEPT ![o].status = "confirmed", ![o].paid = @ + 1]
        /\ sale[o].status = "underpaid"
        /\ UNCHANGED <<refund, returned, early, entitled, refReq>> /\ UNCHANGED affVars
    BY DEF TopUpOrder
  <1>2. AffInv'
    BY <1>1, AffStutter DEF RefInv
  <1>3. sale[o] \in SaleRow /\ SaleHolds(o) /\ Ledger(refund, o) \in Nat
    BY BookRows
  <1>4. /\ sale'[o] \in SaleRow /\ sale'[o].status = "confirmed" /\ sale'[o].paid = sale[o].paid + 1
        /\ sale'[o].over = sale[o].over /\ sale'[o].refunded = sale[o].refunded
        /\ \A x \in Orders \ {o} : sale'[x] = sale[x]
    BY <1>1, <1>3, BookRows DEF SaleRow, REFUNDABLE
  <1>5. RefundsTypeOK'
    <2>1. sale' \in [Orders -> SaleRow]
      BY <1>1, <1>4, BookRows
    <2> QED
      BY <1>1, <1>2, <2>1 DEF RefInv, AffInv, RefundsTypeOK
  <1>6. sale[o].refunded = 0 /\ sale[o].paid \in Nat /\ sale[o].over <= sale[o].paid
        /\ sale[o].over \in Nat
    BY <1>1, <1>3 DEF SaleHolds, SaleRow
  <1>7. SaleHolds(o)'
    BY <1>1, <1>3, <1>4, <1>6 DEF SaleHolds
  <1>8. /\ UNCHANGED <<refund, returned, refReq>>
        /\ sale'[o].status # "none" /\ sale'[o].over = sale[o].over /\ sale[o].paid <= sale'[o].paid
    BY <1>1, <1>4, <1>6
  <1>9. \A x \in Orders \ {o} : sale'[x] = sale[x]
    BY <1>4
  <1> QED
    BY ONLY RefInv, <1>2, <1>5, <1>7, <1>8, <1>9, SaleStep

LEMMA DeliverSale_Books == ASSUME RefInv, NEW o \in Orders, DeliverSale(o) PROVE RefInv'
PROOF
  <1>1. /\ sale' = [sale EXCEPT ![o].status = "delivered"]
        /\ sale[o].status \in {"confirmed", "overpaid", "late_paid"}
        /\ entitled' = [entitled EXCEPT ![o] = "active"]
        /\ UNCHANGED <<refund, returned, early, refReq, payout, sent, payReq>>
    BY DEF DeliverSale
  <1>2. sale[o] \in SaleRow /\ SaleHolds(o) /\ Ledger(refund, o) \in Nat
    BY BookRows
  <1>3. /\ sale[o].refunded = 0 /\ sale[o].paid \in Nat /\ sale[o].over <= sale[o].paid
        /\ sale[o].over \in Nat /\ sale[o].paid - sale[o].over \in Nat
    BY <1>1, <1>2 DEF SaleHolds, SaleRow
  <1>4. AffInv'
    <2>1. PICK ref : accrual' = Accrue(o, ref, sale[o].paid - sale[o].over)
      BY DEF DeliverSale
    <2> QED
      BY <1>1, <1>3, <2>1, Accrue_Aff DEF RefInv
  <1>5. /\ sale'[o] \in SaleRow /\ sale'[o].status = "delivered" /\ sale'[o].paid = sale[o].paid
        /\ sale'[o].over = sale[o].over /\ sale'[o].refunded = sale[o].refunded
        /\ \A x \in Orders \ {o} : sale'[x] = sale[x]
    BY <1>1, <1>2, BookRows DEF SaleRow, REFUNDABLE
  <1>6. RefundsTypeOK'
    <2>1. sale' \in [Orders -> SaleRow]
      BY <1>1, <1>5, BookRows
    <2> QED
      BY <1>1, <1>4, <2>1 DEF RefInv, AffInv, RefundsTypeOK
  <1>7. SaleHolds(o)'
    BY <1>1, <1>2, <1>3, <1>5 DEF SaleHolds
  <1>8. /\ UNCHANGED <<refund, returned, refReq>>
        /\ sale'[o].status # "none" /\ sale'[o].over = sale[o].over /\ sale[o].paid <= sale'[o].paid
    BY <1>1, <1>3, <1>5
  <1>9. \A x \in Orders \ {o} : sale'[x] = sale[x]
    BY <1>5
  <1> QED
    BY ONLY RefInv, <1>4, <1>6, <1>7, <1>8, <1>9, SaleStep

\* A step that leaves the orders and their refunds alone, but for one request.
LEMMA RequestStep ==
  ASSUME RefInv, AffInv', UNCHANGED <<sale, refund, entitled>>,
         returned' \in [RefundTxs -> Nat], early' \in SUBSET RefundTxs,
         \A tx \in RefundTxs : returned[tx] > 0 => returned'[tx] = returned[tx],
         NEW w, NEW r \in RefRequest, LocalHolds(r)',
         refReq' = refReq \/ refReq' = [refReq EXCEPT ![w] = r]
  PROVE  RefInv'
PROOF
  <1>1. refReq' \in [Threads -> RefRequest]
    BY BookRows
  <1>2. RefundsTypeOK'
    BY <1>1 DEF RefInv, AffInv, RefundsTypeOK, RefRequest
  <1>3. \A x \in Orders : sale[x].paid \in Nat
    BY BookRows DEF SaleRow
  <1>4. Forward
    BY <1>3, BookRows DEF Forward
  <1>5. \A x \in Threads : refReq'[x] = refReq[x] \/ refReq'[x] = r
    BY BookRows
  <1>6. \A x \in Threads, q \in RefRequest :
          q = refReq'[x] => q = refReq[x] \/ LocalHolds(q)'
    <2> TAKE x \in Threads, q \in RefRequest
    <2> HAVE q = refReq'[x]
    <2>1. q = refReq[x] \/ q = r
      BY <1>5
    <2> QED
      BY <2>1
  <1>7. \A x \in Orders : sale'[x] = sale[x] \/ SaleHolds(x)'
    OBVIOUS
  <1> QED
    BY ONLY RefInv, AffInv', <1>2, <1>4, <1>6, <1>7, BooksStep

LEMMA SendRefund_Books == ASSUME RefInv, NEW tx \in RefundTxs, SendRefund(tx) PROVE RefInv'
PROOF
  <1>1. /\ returned[tx] = 0 /\ UNCHANGED <<sale, refund, entitled, refReq>> /\ UNCHANGED affVars
    BY DEF SendRefund
  <1>2. PICK v \in 1..(MaxPayout + MaxSurplus), old \in SUBSET {tx} :
          returned' = [returned EXCEPT ![tx] = v] /\ early' = early \cup old
    BY DEF SendRefund
  <1>3. v \in Nat
    BY AffiliatesAssumption, RefundsAssumption
  <1>4. returned' \in [RefundTxs -> Nat] /\ early' \in SUBSET RefundTxs
    BY <1>2, <1>3, BookRows DEF RefInv, RefundsTypeOK
  <1>5. \A t \in RefundTxs : returned[t] > 0 => returned'[t] = returned[t]
    BY <1>1, <1>2, BookRows
  <1>6. AffInv'
    BY <1>1, AffStutter DEF RefInv
  <1>7. UNCHANGED <<sale, refund, entitled>> /\ refReq' = refReq
    BY <1>1
  <1> QED
    BY <1>4, <1>5, <1>6, <1>7, NoRefReqHolds, RequestStep

LEMMA RefundRead_Books ==
  ASSUME RefInv, NEW w \in Threads, NEW o \in Orders, NEW tx \in RefundTxs, NEW k \in Kinds,
         RefundRead(w, o, tx, k)
  PROVE  RefInv'
PROOF
  <1>1. PICK r : r = [pc |-> "receipt", order |-> o, row |-> sale[o], tx |-> tx, kind |-> k]
    OBVIOUS
  <1>2. /\ sale[o].status # "none" /\ returned[tx] > 0 /\ refReq' = [refReq EXCEPT ![w] = r]
        /\ UNCHANGED <<sale, refund, returned, early, entitled>> /\ UNCHANGED affVars
    BY <1>1 DEF RefundRead
  <1>3. r \in RefRequest
    BY <1>1, BookRows DEF RefRequest
  <1>4. LocalHolds(r)'
    <2>1. /\ r.pc = "receipt" /\ r.order = o /\ r.tx = tx /\ r.row = sale[o]
      BY <1>1
    <2>2. sale[o].refunded <= Ledger(refund, o) /\ sale[o].paid \in Nat
      BY BookRows DEF SaleHolds, SaleRow
    <2> QED
      BY <1>2, <2>1, <2>2 DEF LocalHolds
  <1>5. AffInv'
    BY <1>2, AffStutter DEF RefInv
  <1>6. /\ returned' \in [RefundTxs -> Nat] /\ early' \in SUBSET RefundTxs
        /\ \A t \in RefundTxs : returned[t] > 0 => returned'[t] = returned[t]
        /\ UNCHANGED <<sale, refund, entitled>>
    BY <1>2, BookRows DEF RefInv, RefundsTypeOK
  <1> QED
    BY <1>2, <1>3, <1>4, <1>5, <1>6, RequestStep

\* A request that ends: refused, crashed, or beaten to the order's row.
LEMMA RefundEnds ==
  ASSUME RefInv, NEW w \in Threads, refReq' = [refReq EXCEPT ![w] = NoRefReq],
         UNCHANGED <<sale, refund, returned, early, entitled>>, UNCHANGED affVars
  PROVE  RefInv'
PROOF
  <1>1. AffInv'
    BY AffStutter DEF RefInv
  <1>2. /\ returned' \in [RefundTxs -> Nat] /\ early' \in SUBSET RefundTxs
        /\ \A t \in RefundTxs : returned[t] > 0 => returned'[t] = returned[t]
    BY BookRows DEF RefInv, RefundsTypeOK
  <1> QED
    BY <1>1, <1>2, NoRefReqHolds, RequestStep

\* The row that is inserted raises the ledger by the value of the transfer,
\* which is exactly what the row the request read leaves due.
LEMMA RefundVerify_Books == ASSUME RefInv, NEW w \in Threads, RefundVerify(w) PROVE RefInv'
PROOF
  <1>1. PICK r : r = refReq[w]
    OBVIOUS
  <1>2. /\ r \in RefRequest /\ LocalHolds(r) /\ r.pc = "receipt"
        /\ UNCHANGED <<sale, returned, early, entitled>> /\ UNCHANGED affVars
    BY <1>1, BookRows DEF RefundVerify
  <1>3. /\ r.order \in Orders /\ r.tx \in RefundTxs /\ returned[r.tx] > 0 /\ returned[r.tx] \in Nat
        /\ sale[r.order].status # "none"
        /\ r.row.over = sale[r.order].over /\ r.row.paid <= sale[r.order].paid
        /\ refund[r.tx] = NoRefund => r.row.refunded <= Ledger(refund, r.order)
    BY <1>2, BookRows DEF LocalHolds
  <1>4. CASE refReq' = [refReq EXCEPT ![w] = NoRefReq] /\ UNCHANGED refund
    BY <1>2, <1>4, RefundEnds
  <1>5. CASE /\ refund[r.tx] = NoRefund /\ returned[r.tx] = AmountDue(r.row, r.kind)
             /\ refund' = [refund EXCEPT ![r.tx] = [order |-> r.order, amount |-> returned[r.tx]]]
             /\ refReq' = [refReq EXCEPT ![w].pc = "recorded"]
    <2>1. PICK q : q = [r EXCEPT !.pc = "recorded"]
      OBVIOUS
    <2>2. /\ q \in RefRequest /\ q.pc = "recorded" /\ q.order = r.order /\ q.tx = r.tx
          /\ q.row = r.row /\ q.kind = r.kind /\ refReq' = [refReq EXCEPT ![w] = q]
      BY <1>1, <1>2, <1>5, <2>1, BookRows DEF RefRequest
    <2>3. /\ Ledger(refund', r.order) = Ledger(refund, r.order) + returned[r.tx]
          /\ \A x \in Orders \ {r.order} : Ledger(refund', x) = Ledger(refund, x)
      <3>1. PICK o \in Orders, tx \in RefundTxs, v \in Nat :
              o = r.order /\ tx = r.tx /\ v = returned[r.tx]
        BY <1>3
      <3>2. PICK rows, new : rows = refund /\ new = refund'
        OBVIOUS
      <3>3. /\ rows[tx] = NoRefund /\ new[tx].order = o /\ new[tx].amount = v
            /\ \A t \in RefundTxs \ {tx} : new[t] = rows[t]
        BY <1>5, <3>1, <3>2, BookRows DEF RefundRows
      <3>4. /\ Ledger(new, o) = Ledger(rows, o) + v
            /\ \A x \in Orders \ {o} : Ledger(new, x) = Ledger(rows, x)
        <4>1. o \in Orders /\ tx \in RefundTxs /\ v \in Nat /\ rows \in RefundRows
          BY <3>1, <3>2, BookRows
        <4> QED
          BY ONLY <3>3, <4>1, LedgerInsert
      <3> QED
        BY <3>1, <3>2, <3>4
    <2>4. \A x \in Orders : Ledger(refund, x) <= Ledger(refund', x)
      BY <1>3, <2>3, BookRows
    <2>5. \A tx \in RefundTxs : refund'[tx] = NoRefund => refund[tx] = NoRefund
      BY <1>5, BookRows DEF RefundRows
    <2>6. \A x \in Orders : sale[x].paid \in Nat
      BY BookRows DEF SaleRow
    <2>7. Forward
      BY <1>2, <2>4, <2>5, <2>6 DEF Forward
    <2>8. AffInv'
      BY <1>2, AffStutter DEF RefInv
    <2>9. RefundsTypeOK'
      <3>1. refund' \in RefundRows
        BY <1>3, <1>5, BookRows DEF RefundRows
      <3>2. refReq' \in [Threads -> RefRequest]
        BY <2>2, BookRows
      <3> QED
        BY <1>2, <2>8, <3>1, <3>2 DEF RefInv, AffInv, RefundsTypeOK, RefundRows, RefRequest
    <2>10. r.row.refunded + returned[r.tx] = IF r.kind = "full" THEN r.row.paid ELSE r.row.over
      <3>1. r.row \in SaleRow /\ r.kind \in Kinds
        BY <1>2 DEF RefRequest
      <3>2. /\ r.row.refunded \in Nat /\ r.row.paid \in Nat /\ r.row.over \in Nat
        BY <3>1 DEF SaleRow
      <3>3. CASE r.kind = "overage"
        <4>1. returned[r.tx] = r.row.over - r.row.refunded
          BY <1>3, <1>5, <3>3 DEF AmountDue
        <4> QED
          BY <1>3, <3>2, <3>3, <4>1
      <3>4. CASE r.kind = "full"
        <4>1. returned[r.tx] = r.row.paid - r.row.refunded
          BY <1>3, <1>5, <3>4 DEF AmountDue
        <4> QED
          BY <1>3, <3>2, <3>4, <4>1
      <3> QED
        BY <3>1, <3>3, <3>4 DEF Kinds
    <2>11. r.row.refunded + returned[r.tx] <= Ledger(refund', r.order)
      <3>1. r.row.refunded \in Nat /\ Ledger(refund, r.order) \in Nat
        BY <1>2, <1>3, BookRows DEF RefRequest, SaleRow
      <3> QED
        BY <1>3, <1>5, <2>3, <3>1
    <2>12. LocalHolds(q)'
      BY <1>2, <1>3, <2>2, <2>10, <2>11 DEF LocalHolds
    <2>13. \A x \in Threads : refReq'[x] = refReq[x] \/ refReq'[x] = q
      BY <2>2, BookRows
    <2>14. \A x \in Threads, z \in RefRequest :
             z = refReq'[x] => z = refReq[x] \/ LocalHolds(z)'
      <3> TAKE x \in Threads, z \in RefRequest
      <3> HAVE z = refReq'[x]
      <3>1. z = refReq[x] \/ z = q
        BY <2>13
      <3> QED
        BY <2>12, <3>1
    <2>15. \A x \in Orders : sale'[x] = sale[x] \/ SaleHolds(x)'
      BY <1>2
    <2> QED
      BY ONLY RefInv, <2>7, <2>8, <2>9, <2>14, <2>15, BooksStep
  <1> QED
    BY <1>1, <1>4, <1>5 DEF RefundVerify

\* The request's row is written: the orders change, nothing else of the books.
LEMMA ApplyStep ==
  ASSUME RefInv, AffInv', NEW w \in Threads, NEW o \in Orders, NEW n \in Nat, NEW st,
         st \in REFUNDABLE \cup {"refunded"}, sale[o].status # "none",
         sale' = [sale EXCEPT ![o].status = st, ![o].refunded = n],
         n <= Ledger(refund, o), n <= sale[o].paid, st = "delivered" => n <= sale[o].over,
         st \in {"refunded"} \cup OVERAGE_STATES,
         refReq' = [refReq EXCEPT ![w] = NoRefReq], UNCHANGED <<refund, returned, early>>,
         entitled' \in [Orders -> {"none", "active", "revoked"}]
  PROVE  RefInv'
PROOF
  <1>1. /\ sale'[o] \in SaleRow /\ sale'[o].status = st /\ sale'[o].refunded = n
        /\ sale'[o].paid = sale[o].paid /\ sale'[o].over = sale[o].over
        /\ \A x \in Orders \ {o} : sale'[x] = sale[x]
    BY BookRows DEF SaleRow
  <1>2. sale' \in [Orders -> SaleRow] /\ refReq' \in [Threads -> RefRequest]
    BY <1>1, BookRows, NoRefReqHolds
  <1>3. RefundsTypeOK'
    BY <1>2 DEF RefInv, AffInv, RefundsTypeOK, RefRequest
  <1>4. \A x \in Orders : sale[x].paid \in Nat
    BY BookRows DEF SaleRow
  <1>5. st # "none"
    BY DEF OVERAGE_STATES
  <1>6. Forward
    BY <1>1, <1>4, <1>5, BookRows DEF Forward
  <1>7. \A x \in Threads : refReq'[x] = refReq[x] \/ refReq'[x] = NoRefReq
    BY BookRows
  <1>8. \A x \in Threads, q \in RefRequest :
          q = refReq'[x] => q = refReq[x] \/ LocalHolds(q)'
    <2> TAKE x \in Threads, q \in RefRequest
    <2> HAVE q = refReq'[x]
    <2>1. q = refReq[x] \/ q = NoRefReq
      BY <1>7
    <2>2. LocalHolds(NoRefReq)'
      BY NoRefReqHolds
    <2> QED
      BY <2>1, <2>2
  <1>9. SaleHolds(o)'
    <2>1. sale[o].over <= sale[o].paid
      BY BookRows DEF SaleHolds
    <2>2. st \notin {"none", "underpaid", "confirmed", "overpaid", "late_paid"}
      BY DEF OVERAGE_STATES
    <2> QED
      BY <1>1, <2>1, <2>2 DEF SaleHolds
  <1>10. \A x \in Orders : sale'[x] = sale[x] \/ SaleHolds(x)'
    <2> TAKE x \in Orders
    <2>1. CASE x = o
      BY <1>9, <2>1
    <2>2. CASE x # o
      BY <1>1, <2>2
    <2> QED
      BY <2>1, <2>2
  <1> QED
    BY ONLY RefInv, AffInv', <1>3, <1>6, <1>8, <1>10, BooksStep

LEMMA ApplyFull_Books == ASSUME RefInv, NEW w \in Threads, ApplyFull(w) PROVE RefInv'
PROOF
  <1>1. PICK r, o : r = refReq[w] /\ o = r.order
    OBVIOUS
  <1>2. /\ r \in RefRequest /\ LocalHolds(r) /\ r.pc = "recorded" /\ r.kind = "full"
        /\ refReq' = [refReq EXCEPT ![w] = NoRefReq]
        /\ UNCHANGED <<refund, returned, early, payout, sent, payReq>>
    BY <1>1, BookRows DEF ApplyFull
  <1>3. PICK n : n = r.row.refunded + returned[r.tx]
    OBVIOUS
  <1>4. /\ o \in Orders /\ sale[o].status # "none" /\ n \in Nat
        /\ n <= Ledger(refund, o) /\ n <= sale[o].paid
    <2>1. /\ o \in Orders /\ r.tx \in RefundTxs /\ sale[o].status # "none"
          /\ r.row.paid <= sale[o].paid /\ n = r.row.paid /\ n <= Ledger(refund, o)
      BY <1>1, <1>2, <1>3 DEF LocalHolds
    <2>2. r.row.paid \in Nat
      BY <1>2 DEF RefRequest, SaleRow
    <2> QED
      BY <2>1, <2>2
  <1>5. CASE UNCHANGED <<sale, entitled, accrual>>
    <2>1. UNCHANGED affVars
      BY <1>2, <1>5 DEF affVars
    <2> QED
      BY <1>2, <1>5, <2>1, RefundEnds
  <1>6. CASE /\ sale' = [sale EXCEPT ![o].status = "refunded", ![o].refunded = n]
             /\ entitled' = [entitled EXCEPT ![o] = IF @ = "active" THEN "revoked" ELSE @]
             /\ accrual' = VoidAccrual(o)
    <2>1. AffInv'
      BY <1>2, <1>4, <1>6, VoidAccrual_Aff DEF RefInv
    <2>2. entitled' \in [Orders -> {"none", "active", "revoked"}]
      BY <1>4, <1>6 DEF RefInv, RefundsTypeOK
    <2> QED
      BY <1>2, <1>4, <1>6, <2>1, <2>2, ApplyStep
  <1> QED
    BY <1>1, <1>3, <1>5, <1>6 DEF ApplyFull

\* The goods stay delivered; what is written is the whole of the overage.
LEMMA ApplyOverage_Books == ASSUME RefInv, NEW w \in Threads, ApplyOverage(w) PROVE RefInv'
PROOF
  <1>1. PICK r, o : r = refReq[w] /\ o = r.order
    OBVIOUS
  <1>2. /\ r \in RefRequest /\ LocalHolds(r) /\ r.pc = "recorded" /\ r.kind = "overage"
        /\ refReq' = [refReq EXCEPT ![w] = NoRefReq]
        /\ UNCHANGED <<refund, returned, early, entitled>> /\ UNCHANGED affVars
    BY <1>1, BookRows DEF ApplyOverage
  <1>3. PICK n : n = r.row.refunded + returned[r.tx]
    OBVIOUS
  <1>4. /\ o \in Orders /\ sale[o].status # "none" /\ n \in Nat
        /\ n <= Ledger(refund, o) /\ n <= sale[o].paid /\ n <= sale[o].over
    <2>1. /\ o \in Orders /\ sale[o].status # "none"
          /\ n = sale[o].over /\ n <= Ledger(refund, o)
      BY <1>1, <1>2, <1>3 DEF LocalHolds
    <2>2. sale[o].over \in Nat /\ sale[o].over <= sale[o].paid
      BY <2>1, BookRows DEF SaleRow, SaleHolds
    <2> QED
      BY <2>1, <2>2
  <1>5. CASE sale' = sale
    BY <1>2, <1>5, RefundEnds
  <1>6. CASE /\ sale[o].status \in OVERAGE_STATES
             /\ sale' = [sale EXCEPT ![o].refunded = n]
    <2>1. PICK st : st = sale[o].status
      OBVIOUS
    <2>2. sale' = [sale EXCEPT ![o].status = st, ![o].refunded = n]
      BY <1>4, <1>6, <2>1, BookRows DEF SaleRow
    <2>3. st \in OVERAGE_STATES /\ st \in REFUNDABLE \cup {"refunded"}
      BY <1>6, <2>1 DEF OVERAGE_STATES, REFUNDABLE
    <2>4. AffInv' /\ entitled' \in [Orders -> {"none", "active", "revoked"}]
      BY <1>2, AffStutter DEF RefInv, RefundsTypeOK
    <2> QED
      BY <1>2, <1>4, <2>2, <2>3, <2>4, ApplyStep
  <1> QED
    BY <1>1, <1>3, <1>5, <1>6 DEF ApplyOverage

LEMMA RefundsStart == RefundsInit => RefInv
PROOF
  <1> SUFFICES ASSUME RefundsInit PROVE RefInv
    OBVIOUS
  <1> USE DEF RefundsInit
  <1>1. AffInv
    BY AffiliatesStart
  <1>2. RefundsTypeOK
    BY <1>1 DEF AffInv, RefundsTypeOK, NoSale, NoRefund, NoRefReq, SaleRow, Kinds
  <1>3. \A w \in Threads : LocalHolds(refReq[w])
    BY NoRefReqHolds
  <1>4. ASSUME NEW o \in Orders PROVE SaleHolds(o)
    <2>1. Ledger(refund, o) \in Nat
      BY <1>2, LedgerNat DEF RefundsTypeOK, RefundRows
    <2> QED
      BY <2>1 DEF SaleHolds, NoSale
  <1> QED
    BY <1>1, <1>2, <1>3, <1>4 DEF RefInv

LEMMA RefundsStep == RefInv /\ [RefundsNext]_moneyVars => RefInv'
PROOF
  <1> SUFFICES ASSUME RefInv, [RefundsNext]_moneyVars PROVE RefInv'
    OBVIOUS
  <1>1. ASSUME AffiliatesNext, UNCHANGED refVars PROVE RefInv'
    <2>1. AffInv'
      BY <1>1, AffiliatesStep DEF RefInv
    <2>2. UNCHANGED <<sale, refund, entitled, returned, early, refReq>>
      BY <1>1 DEF refVars
    <2>3. /\ returned' \in [RefundTxs -> Nat] /\ early' \in SUBSET RefundTxs
          /\ \A t \in RefundTxs : returned[t] > 0 => returned'[t] = returned[t]
      BY <2>2, BookRows DEF RefInv, RefundsTypeOK
    <2> QED
      BY <2>1, <2>2, <2>3, NoRefReqHolds, RequestStep
  <1>2. ASSUME NEW o \in Orders, PayOrder(o) \/ TopUpOrder(o) \/ DeliverSale(o) PROVE RefInv'
    BY <1>2, PayOrder_Books, TopUpOrder_Books, DeliverSale_Books
  <1>3. ASSUME NEW tx \in RefundTxs, SendRefund(tx) PROVE RefInv'
    BY <1>3, SendRefund_Books
  <1>4. ASSUME NEW w \in Threads, NEW o \in Orders, NEW tx \in RefundTxs, NEW k \in Kinds,
               RefundRead(w, o, tx, k)
        PROVE  RefInv'
    BY <1>4, RefundRead_Books
  <1>5. ASSUME NEW w \in Threads, RefundVerify(w) \/ ApplyFull(w) \/ ApplyOverage(w)
        PROVE  RefInv'
    BY <1>5, RefundVerify_Books, ApplyFull_Books, ApplyOverage_Books
  <1>6. ASSUME NEW w \in Threads, RefundDies(w) PROVE RefInv'
    BY <1>6, RefundEnds DEF RefundDies
  <1>7. ASSUME UNCHANGED moneyVars PROVE RefInv'
    <2>1. AffInv'
      BY <1>7, AffStutter DEF RefInv, moneyVars
    <2>2. UNCHANGED <<sale, refund, entitled, returned, early, refReq>>
      BY <1>7 DEF moneyVars, refVars
    <2>3. /\ returned' \in [RefundTxs -> Nat] /\ early' \in SUBSET RefundTxs
          /\ \A t \in RefundTxs : returned[t] > 0 => returned'[t] = returned[t]
      BY <2>2, BookRows DEF RefInv, RefundsTypeOK
    <2> QED
      BY <2>1, <2>2, <2>3, NoRefReqHolds, RequestStep
  <1> QED
    BY <1>1, <1>2, <1>3, <1>4, <1>5, <1>6, <1>7 DEF RefundsNext

LEMMA RefundsSafe == RefundsSpec => []RefInv
BY RefundsStart, RefundsStep, PTL DEF RefundsSpec

\* app/refunds.py, refund_order(): the row of the ledger is inserted before the
\* order's row is written, from an order that may be older than either.  What
\* an order says was refunded is still covered by the ledger and by what was
\* paid, and by the overage while the buyer keeps the goods.
THEOREM RefundsAreBacked == RefundsSpec => []RefundBacked
PROOF
  <1>1. ASSUME NEW o \in Orders PROVE LedgerOf(o) = Ledger(refund, o)
    BY LedgerSum DEF Ledger
  <1>2. RefInv => RefundBacked
    BY <1>1 DEF RefInv, SaleHolds, RefundBacked
  <1> QED
    BY <1>2, RefundsSafe, PTL

\* app/affiliates.py, verify_and_record_payout(): the accruals that a payout
\* covers are chosen and written in steps of their own, while others pay and
\* refunds void.  They never sum to more than the transfer that was verified.
THEOREM PayoutsAreBacked == RefundsSpec => []PayoutBacked
PROOF
  <1>1. RefInv => PayoutBacked
    BY PaidWithinPayouts DEF RefInv
  <1> QED
    BY <1>1, RefundsSafe, PTL

\* The rows of refunds, orders, accruals and payouts keep their types.
THEOREM RefundsTyped == RefundsSpec => []RefundsTypeOK
PROOF
  <1>1. RefInv => RefundsTypeOK
    BY DEF RefInv
  <1> QED
    BY <1>1, RefundsSafe, PTL

-----------------------------------------------------------------------------
(* Growth: attempts, and the events that count them *)

\* Per store: the events since a day, and the attempts of one day.
RunsCol(rr, since) == [s \in Shops |-> Total(rr[s], since..MaxDays)]
AttemptsCol(att, e) == [s \in Shops |-> att[s][e]]

InRun == IF tick.step = "run" THEN 1 ELSE 0
InRunOf(s) == IF tick.step = "run" /\ tick.shop = s THEN 1 ELSE 0

\* An attempt of a day is an event of that day or a later one, was cut off, or
\* is the one that the tick waits for.
Counted ==
  \A e \in Days :
    /\ Total(AttemptsCol(attempts, e), Shops)
         <= Total(RunsCol(runs, e), Shops) + growthFaults + InRun
    /\ \A s \in Shops : attempts[s][e] <= Total(runs[s], e..MaxDays) + growthFaults + InRunOf(s)

Capped ==
  \A e \in Days :
    /\ Total(AttemptsCol(attempts, e), Shops) <= GROWTH_DAILY_MAX + growthFaults
    /\ \A s \in Shops : attempts[s][e] <= GROWTH_SCHED_STORE_DAILY_MAX + growthFaults

TickLocals ==
  /\ tick.since <= day /\ (tick.step = "run" => tick.shop \in Shops)
  /\ \A s \in Shops, e \in Days : e > day => attempts[s][e] = 0

GrowthInv == GrowthTypeOK /\ TickLocals /\ Counted /\ Capped

GlobalAdds(g, rr, since, S) ==
  g = [s \in SUBSET S |-> IF s = {} THEN 0
                          ELSE Total(rr[Some(s)], since..MaxDays) + g[s \ {Some(s)}]]
GlobalIn(rr, since) == (CHOOSE g : GlobalAdds(g, rr, since, Shops))[Shops]

LEMMA GlobalTotal ==
  ASSUME NEW rr, NEW since PROVE GlobalIn(rr, since) = Total(RunsCol(rr, since), Shops)
PROOF
  <1>1. IsFiniteSet(Shops)
    BY GrowthAssumption
  <1>2. \A g : GlobalAdds(g, rr, since, Shops) <=> Adds(g, RunsCol(rr, since), Shops)
    <2> TAKE g
    <2>1. \A s \in SUBSET Shops : s # {} =>
            RunsCol(rr, since)[Some(s)] = Total(rr[Some(s)], since..MaxDays)
      BY SomeOf DEF RunsCol
    <2> QED
      BY <2>1 DEF Adds, GlobalAdds
  <1>3. PICK h : h = CHOOSE g : GlobalAdds(g, rr, since, Shops)
    OBVIOUS
  <1>4. Adds(h, RunsCol(rr, since), Shops)
    BY <1>1, <1>2, <1>3, IterAdds
  <1>5. h[Shops] = Iter(RunsCol(rr, since), Shops)[Shops]
    BY <1>1, <1>4, AddsAgree, IterAdds
  <1> QED
    BY <1>3, <1>5, TotalIsIter DEF GlobalIn

LEMMA GlobalIs == ASSUME NEW since PROVE GlobalRunsSince(since) = GlobalIn(runs, since)
BY DEF GlobalRunsSince, RunsSince, OnDays, GlobalIn, GlobalAdds, Total, Some,
       MapThenSumSet, MapThenFoldSet

AttemptsAdds(g, att, e, S) ==
  g = [s \in SUBSET S |-> IF s = {} THEN 0 ELSE att[Some(s)][e] + g[s \ {Some(s)}]]
AttemptsIn(att, e) == (CHOOSE g : AttemptsAdds(g, att, e, Shops))[Shops]

LEMMA AttemptsTotal ==
  ASSUME NEW att, NEW e PROVE AttemptsIn(att, e) = Total(AttemptsCol(att, e), Shops)
PROOF
  <1>1. IsFiniteSet(Shops)
    BY GrowthAssumption
  <1>2. \A g : AttemptsAdds(g, att, e, Shops) <=> Adds(g, AttemptsCol(att, e), Shops)
    <2> TAKE g
    <2>1. \A s \in SUBSET Shops : s # {} => AttemptsCol(att, e)[Some(s)] = att[Some(s)][e]
      BY SomeOf DEF AttemptsCol
    <2> QED
      BY <2>1 DEF Adds, AttemptsAdds
  <1>3. PICK h : h = CHOOSE g : AttemptsAdds(g, att, e, Shops)
    OBVIOUS
  <1>4. Adds(h, AttemptsCol(att, e), Shops)
    BY <1>1, <1>2, <1>3, IterAdds
  <1>5. h[Shops] = Iter(AttemptsCol(att, e), Shops)[Shops]
    BY <1>1, <1>4, AddsAgree, IterAdds
  <1> QED
    BY <1>3, <1>5, TotalIsIter DEF AttemptsIn

LEMMA AttemptsIs ==
  ASSUME NEW e
  PROVE  MapThenSumSet(LAMBDA s : attempts[s][e], Shops) = AttemptsIn(attempts, e)
BY DEF AttemptsIn, AttemptsAdds, Some, MapThenSumSet, MapThenFoldSet

\* The sums of the model are those of the invariant.
LEMMA GrowthSums ==
  /\ \A since : GlobalRunsSince(since) = Total(RunsCol(runs, since), Shops)
  /\ \A s, since : RunsSince(s, since) = Total(runs[s], since..MaxDays)
  /\ \A e : MapThenSumSet(LAMBDA s : attempts[s][e], Shops) = Total(AttemptsCol(attempts, e), Shops)
PROOF
  <1>1. ASSUME NEW s, NEW since PROVE RunsSince(s, since) = Total(runs[s], since..MaxDays)
    BY DEF RunsSince, OnDays, Total
  <1> QED
    BY <1>1, GlobalIs, GlobalTotal, AttemptsIs, AttemptsTotal

Tables == [Shops -> [Days -> Nat]]

LEMMA ColsNat ==
  ASSUME NEW table \in Tables, NEW e \in Days
  PROVE  /\ IsFiniteSet(Shops) /\ IsFiniteSet(e..MaxDays) /\ e..MaxDays \subseteq Days
         /\ \A s \in Shops : Counts(table[s], e..MaxDays) /\ Total(table[s], e..MaxDays) \in Nat
         /\ Counts(RunsCol(table, e), Shops) /\ Total(RunsCol(table, e), Shops) \in Nat
         /\ Counts(AttemptsCol(table, e), Shops) /\ Total(AttemptsCol(table, e), Shops) \in Nat
PROOF
  <1>1. IsFiniteSet(Shops) /\ MaxDays \in Nat
    BY GrowthAssumption
  <1>2. e..MaxDays \subseteq Days /\ IsFiniteSet(e..MaxDays)
    BY <1>1, FS_Interval DEF Days
  <1>3. ASSUME NEW s \in Shops
        PROVE  Counts(table[s], e..MaxDays) /\ Total(table[s], e..MaxDays) \in Nat
    <2>1. \A d \in e..MaxDays : table[s][d] \in Nat
      BY <1>2 DEF Tables
    <2>2. Total(table[s], e..MaxDays) \in Nat
      BY ONLY <1>2, <2>1, TotalNat
    <2> QED
      BY <2>1, <2>2 DEF Counts
  <1>4. \A s \in Shops : RunsCol(table, e)[s] \in Nat
    BY <1>3 DEF RunsCol
  <1>5. \A s \in Shops : AttemptsCol(table, e)[s] \in Nat
    BY DEF AttemptsCol, Tables
  <1>6. Total(RunsCol(table, e), Shops) \in Nat
    BY ONLY <1>1, <1>4, TotalNat
  <1>7. Total(AttemptsCol(table, e), Shops) \in Nat
    BY ONLY <1>1, <1>5, TotalNat
  <1> QED
    BY <1>1, <1>2, <1>3, <1>4, <1>5, <1>6, <1>7 DEF Counts

\* One more in a cell: in the column of that day, and in the sums from a day on.
LEMMA CellAdds ==
  ASSUME NEW table \in Tables, NEW s \in Shops, NEW d \in Days, NEW new \in Tables,
         \A x \in Shops \ {s} : new[x] = table[x],
         \A x \in Days \ {d} : new[s][x] = table[s][x],
         new[s][d] = table[s][d] + 1,
         NEW e \in Days
  PROVE  /\ Total(AttemptsCol(new, e), Shops)
              = Total(AttemptsCol(table, e), Shops) + (IF e = d THEN 1 ELSE 0)
         /\ Total(new[s], e..MaxDays) = Total(table[s], e..MaxDays) + (IF e <= d THEN 1 ELSE 0)
         /\ Total(RunsCol(new, e), Shops)
              = Total(RunsCol(table, e), Shops) + (IF e <= d THEN 1 ELSE 0)
PROOF
  <1>1. \A x \in Shops, y \in Days : table[x][y] \in Nat /\ new[x][y] \in Nat
    BY DEF Tables
  <1>2. /\ IsFiniteSet(Shops) /\ Counts(AttemptsCol(table, e), Shops)
        /\ Total(AttemptsCol(table, e), Shops) \in Nat
        /\ Counts(RunsCol(table, e), Shops) /\ Total(RunsCol(table, e), Shops) \in Nat
        /\ IsFiniteSet(e..MaxDays) /\ e..MaxDays \subseteq Days /\ Counts(table[s], e..MaxDays)
        /\ Total(table[s], e..MaxDays) \in Nat /\ Total(new[s], e..MaxDays) \in Nat
    BY ColsNat
  <1>3. Total(AttemptsCol(new, e), Shops)
          = Total(AttemptsCol(table, e), Shops) + (IF e = d THEN 1 ELSE 0)
    <2>1. PICK f, g : f = AttemptsCol(table, e) /\ g = AttemptsCol(new, e)
      OBVIOUS
    <2>2. /\ \A x \in Shops \ {s} : g[x] = f[x]
          /\ f[s] = table[s][e] /\ g[s] = new[s][e] /\ g[s] \in Int
      BY <1>1, <2>1 DEF AttemptsCol
    <2>3. Counts(f, Shops) /\ IsFiniteSet(Shops)
      BY <1>2, <2>1
    <2>4. Total(g, Shops) = Total(f, Shops) + g[s] - f[s]
      BY ONLY <2>2, <2>3, s \in Shops, TotalChange
    <2>5. new[s][e] = table[s][e] + (IF e = d THEN 1 ELSE 0) /\ table[s][e] \in Nat
      BY <1>1
    <2> QED
      BY <1>2, <2>1, <2>2, <2>4, <2>5
  <1>4. Total(new[s], e..MaxDays) = Total(table[s], e..MaxDays) + (IF e <= d THEN 1 ELSE 0)
    <2>1. PICK f, g, D : f = table[s] /\ g = new[s] /\ D = e..MaxDays
      OBVIOUS
    <2>2. Counts(f, D) /\ IsFiniteSet(D) /\ D \subseteq Days /\ Total(f, D) \in Nat
      BY <1>2, <2>1
    <2>3. e \in Int /\ d \in Int /\ d <= MaxDays /\ MaxDays \in Int
      BY GrowthAssumption DEF Days
    <2>4. CASE e <= d
      <3>1. d \in D
        BY <2>1, <2>3, <2>4
      <3>2. /\ \A x \in D \ {d} : g[x] = f[x]
            /\ g[d] \in Int /\ f[d] \in Int /\ g[d] = f[d] + 1
        BY <1>1, <2>1, <2>2
      <3>3. Total(g, D) = Total(f, D) + g[d] - f[d]
        BY ONLY <2>2, <3>1, <3>2, TotalChange
      <3> QED
        BY <2>1, <2>2, <2>4, <3>2, <3>3
    <2>5. CASE ~ (e <= d)
      <3>1. \A x \in D : x # d /\ g[x] = f[x]
        BY <2>1, <2>2, <2>3, <2>5
      <3>2. Total(g, D) = Total(f, D)
        BY <2>2, <3>1, TotalAgrees
      <3> QED
        BY <2>1, <2>2, <2>5, <3>2
    <2> QED
      BY <2>4, <2>5
  <1>5. Total(RunsCol(new, e), Shops)
          = Total(RunsCol(table, e), Shops) + (IF e <= d THEN 1 ELSE 0)
    <2>1. PICK f, g : f = RunsCol(table, e) /\ g = RunsCol(new, e)
      OBVIOUS
    <2>2. /\ \A x \in Shops \ {s} : g[x] = f[x]
          /\ f[s] = Total(table[s], e..MaxDays) /\ g[s] = Total(new[s], e..MaxDays)
      BY <2>1 DEF RunsCol
    <2>3. Counts(f, Shops) /\ IsFiniteSet(Shops) /\ g[s] \in Int
      BY <1>2, <2>1, <2>2
    <2>4. Total(g, Shops) = Total(f, Shops) + g[s] - f[s]
      BY ONLY <2>2, <2>3, s \in Shops, TotalChange
    <2> QED
      BY <1>2, <1>4, <2>1, <2>2, <2>4
  <1> QED
    BY <1>3, <1>4, <1>5

\* Counting from a later day leaves out days.
LEMMA LaterLess ==
  ASSUME NEW table \in Tables, NEW d \in Days, NEW e \in Days, d <= e
  PROVE  /\ \A s \in Shops : Total(table[s], e..MaxDays) <= Total(table[s], d..MaxDays)
         /\ Total(RunsCol(table, e), Shops) <= Total(RunsCol(table, d), Shops)
PROOF
  <1>1. e..MaxDays \in SUBSET (d..MaxDays)
    BY GrowthAssumption DEF Days
  <1>2. ASSUME NEW s \in Shops
        PROVE  Total(table[s], e..MaxDays) <= Total(table[s], d..MaxDays)
    <2>1. IsFiniteSet(d..MaxDays) /\ \A x \in d..MaxDays : table[s][x] \in Nat
      BY ColsNat DEF Tables
    <2> QED
      BY ONLY <1>1, <2>1, TotalSubset
  <1>3. /\ IsFiniteSet(Shops) /\ Counts(RunsCol(table, e), Shops)
        /\ Counts(RunsCol(table, d), Shops)
    BY ColsNat
  <1>4. \A s \in Shops : RunsCol(table, e)[s] <= RunsCol(table, d)[s]
    BY <1>2 DEF RunsCol
  <1>5. Total(RunsCol(table, e), Shops) <= Total(RunsCol(table, d), Shops)
    BY ONLY <1>3, <1>4, TotalPointwise
  <1> QED
    BY <1>2, <1>5

\* What the steps below read of the invariant, day by day.
LEMMA GrowthFacts ==
  ASSUME GrowthInv
  PROVE  /\ runs \in Tables /\ attempts \in Tables /\ growthFaults \in Nat /\ day \in Days
         /\ GROWTH_DAILY_MAX \in Nat /\ GROWTH_SCHED_STORE_DAILY_MAX \in Nat
         /\ InRun \in Nat /\ \A s : InRunOf(s) \in Nat
         /\ \A e \in Days :
              /\ Total(AttemptsCol(attempts, e), Shops) \in Nat
              /\ Total(RunsCol(runs, e), Shops) \in Nat
              /\ \A s \in Shops : attempts[s][e] \in Nat /\ Total(runs[s], e..MaxDays) \in Nat
PROOF
  <1>1. runs \in Tables /\ attempts \in Tables /\ growthFaults \in Nat /\ day \in Days
    BY GrowthAssumption DEF GrowthInv, GrowthTypeOK, Tables
  <1>2. GROWTH_DAILY_MAX \in Nat /\ GROWTH_SCHED_STORE_DAILY_MAX \in Nat
    BY GrowthAssumption
  <1>3. InRun \in Nat /\ \A s : InRunOf(s) \in Nat
    BY DEF InRun, InRunOf
  <1>4. \A s \in Shops, e \in Days : attempts[s][e] \in Nat
    BY <1>1 DEF Tables
  <1> QED
    BY <1>1, <1>2, <1>3, <1>4, ColsNat

\* What leaves one side of a bound arrives on the other.
LEMMA BoundShifts ==
  ASSUME NEW a \in Nat, NEW c \in Nat, NEW p \in Nat, NEW q \in Nat, NEW g \in Nat, NEW h \in Nat,
         a <= c + g + p, g + p <= h + q
  PROVE  a <= c + h + q
OBVIOUS

\* Steps that count nothing: a run that is cut off is a fault instead.
LEMMA QuietStep ==
  ASSUME GrowthInv, GrowthTypeOK', UNCHANGED <<runs, attempts>>, day <= day',
         tick'.since <= day', tick'.step = "run" => tick'.shop \in Shops,
         growthFaults <= growthFaults', growthFaults + InRun <= growthFaults' + InRun',
         \A s \in Shops : growthFaults + InRunOf(s) <= growthFaults' + InRunOf(s)'
  PROVE  GrowthInv'
PROOF
  <1>1. growthFaults' \in Nat /\ day \in Nat /\ day' \in Nat
    BY GrowthAssumption DEF GrowthInv, GrowthTypeOK, Days
  <1>2. InRun' \in Nat /\ \A s : InRunOf(s)' \in Nat
    BY DEF InRun, InRunOf
  <1>3. TickLocals'
    BY <1>1 DEF GrowthInv, TickLocals, Days
  <1>4. Counted'
    <2> SUFFICES ASSUME NEW e \in Days
                 PROVE  /\ Total(AttemptsCol(attempts, e), Shops)
                             <= Total(RunsCol(runs, e), Shops) + growthFaults' + InRun'
                        /\ \A s \in Shops : attempts[s][e]
                             <= Total(runs[s], e..MaxDays) + growthFaults' + InRunOf(s)'
      BY DEF Counted
    <2>1. /\ Total(AttemptsCol(attempts, e), Shops)
               <= Total(RunsCol(runs, e), Shops) + growthFaults + InRun
          /\ \A s \in Shops :
               attempts[s][e] <= Total(runs[s], e..MaxDays) + growthFaults + InRunOf(s)
      BY DEF GrowthInv, Counted
    <2>2. /\ Total(AttemptsCol(attempts, e), Shops) \in Nat
          /\ Total(RunsCol(runs, e), Shops) \in Nat
          /\ \A s \in Shops : attempts[s][e] \in Nat /\ Total(runs[s], e..MaxDays) \in Nat
          /\ growthFaults \in Nat /\ InRun \in Nat /\ \A s : InRunOf(s) \in Nat
      BY GrowthFacts
    <2>3. Total(AttemptsCol(attempts, e), Shops)
            <= Total(RunsCol(runs, e), Shops) + growthFaults' + InRun'
      <3>1. PICK a, c : /\ a = Total(AttemptsCol(attempts, e), Shops)
                        /\ c = Total(RunsCol(runs, e), Shops)
        OBVIOUS
      <3>2. /\ a \in Nat /\ c \in Nat /\ a <= c + growthFaults + InRun
            /\ growthFaults \in Nat /\ InRun \in Nat
            /\ growthFaults + InRun <= growthFaults' + InRun'
        BY <2>1, <2>2, <3>1
      <3>3. PICK p, q, g, h : p = InRun /\ q = InRun' /\ g = growthFaults /\ h = growthFaults'
        OBVIOUS
      <3>4. p \in Nat /\ q \in Nat /\ g \in Nat /\ h \in Nat /\ g + p <= h + q /\ a <= c + g + p
        BY <1>1, <1>2, <3>2, <3>3
      <3>5. a <= c + h + q
        BY ONLY <3>2, <3>4
      <3> QED
        BY <3>1, <3>3, <3>5
    <2>4. ASSUME NEW s \in Shops
          PROVE  attempts[s][e] <= Total(runs[s], e..MaxDays) + growthFaults' + InRunOf(s)'
      <3>1. /\ attempts[s][e] \in Nat /\ Total(runs[s], e..MaxDays) \in Nat
            /\ InRunOf(s) \in Nat /\ InRunOf(s)' \in Nat
            /\ attempts[s][e] <= Total(runs[s], e..MaxDays) + growthFaults + InRunOf(s)
            /\ growthFaults + InRunOf(s) <= growthFaults' + InRunOf(s)'
        BY <1>2, <2>1, <2>2
      <3>2. PICK a, c, p, q, g, h :
              /\ a = attempts[s][e] /\ c = Total(runs[s], e..MaxDays)
              /\ p = InRunOf(s) /\ q = InRunOf(s)' /\ g = growthFaults /\ h = growthFaults'
        OBVIOUS
      <3>3. /\ a \in Nat /\ c \in Nat /\ p \in Nat /\ q \in Nat /\ g \in Nat /\ h \in Nat
            /\ a <= c + g + p /\ g + p <= h + q
        BY <1>1, <2>2, <3>1, <3>2
      <3>4. a <= c + h + q
        BY ONLY <3>3, BoundShifts
      <3> QED
        BY <3>2, <3>4
    <2> QED
      BY <2>3, <2>4
  <1>5. Capped'
    <2> SUFFICES ASSUME NEW e \in Days
                 PROVE  /\ Total(AttemptsCol(attempts, e), Shops) <= GROWTH_DAILY_MAX + growthFaults'
                        /\ \A s \in Shops :
                             attempts[s][e] <= GROWTH_SCHED_STORE_DAILY_MAX + growthFaults'
      BY DEF Capped
    <2>1. /\ Total(AttemptsCol(attempts, e), Shops) <= GROWTH_DAILY_MAX + growthFaults
          /\ \A s \in Shops : attempts[s][e] <= GROWTH_SCHED_STORE_DAILY_MAX + growthFaults
      BY DEF GrowthInv, Capped
    <2>2. /\ Total(AttemptsCol(attempts, e), Shops) \in Nat
          /\ \A s \in Shops : attempts[s][e] \in Nat
          /\ GROWTH_DAILY_MAX \in Nat /\ GROWTH_SCHED_STORE_DAILY_MAX \in Nat
          /\ growthFaults \in Nat
      BY GrowthFacts
    <2> QED
      BY <1>1, <2>1, <2>2
  <1> QED
    BY <1>3, <1>4, <1>5 DEF GrowthInv

\* The model is asked once more today: the tick has just seen both budgets kept.
LEMMA Asks ==
  ASSUME GrowthInv, NEW s \in tick.todo, tick.step = "next",
         GlobalRunsSince(tick.since) < GROWTH_DAILY_MAX,
         RunsSince(s, tick.since) < GROWTH_SCHED_STORE_DAILY_MAX,
         tick' = [tick EXCEPT !.step = "run", !.todo = @ \ {s}, !.shop = s],
         attempts' = [attempts EXCEPT ![s][day] = @ + 1],
         UNCHANGED <<day, plan, runs, draft, growthFaults>>
  PROVE  GrowthInv'
PROOF
  <1>1. s \in Shops /\ tick.since \in Days /\ tick.since <= day /\ day \in Days
    BY DEF GrowthInv, GrowthTypeOK, TickLocals
  <1>2. /\ tick'.step = "run" /\ tick'.shop = s /\ tick'.since = tick.since
        /\ tick'.todo = tick.todo \ {s}
    BY DEF GrowthInv, GrowthTypeOK
  <1>3. /\ \A x \in Shops \ {s} : attempts'[x] = attempts[x]
        /\ \A x \in Days \ {day} : attempts'[s][x] = attempts[s][x]
        /\ attempts'[s][day] = attempts[s][day] + 1 /\ attempts' \in Tables
    BY SMTT(60), <1>1, GrowthFacts DEF Tables
  <1>4. GrowthTypeOK'
    BY <1>1, <1>3 DEF GrowthInv, GrowthTypeOK, Tables
  <1>5. TickLocals'
    <2>1. \A e \in Days : e > day => e # day
      BY <1>1 DEF Days
    <2> QED
      BY <1>1, <1>2, <1>3, <2>1 DEF GrowthInv, TickLocals
  <1>6. /\ InRun = 0 /\ InRun' = 1
        /\ \A x : InRunOf(x) = 0 /\ InRunOf(x)' = IF x = s THEN 1 ELSE 0
    BY <1>2 DEF InRun, InRunOf
  <1>7. ASSUME NEW e \in Days
        PROVE  /\ Total(AttemptsCol(attempts', e), Shops)
                    = Total(AttemptsCol(attempts, e), Shops) + (IF e = day THEN 1 ELSE 0)
               /\ \A x \in Shops : attempts'[x][e]
                    = attempts[x][e] + (IF x = s /\ e = day THEN 1 ELSE 0)
    <2>1. Total(AttemptsCol(attempts', e), Shops)
            = Total(AttemptsCol(attempts, e), Shops) + (IF e = day THEN 1 ELSE 0)
      <3>1. attempts \in Tables /\ attempts' \in Tables /\ day \in Days /\ s \in Shops
        BY <1>1, <1>3, GrowthFacts
      <3> QED
        BY ONLY <1>3, <3>1, e \in Days, CellAdds
    <2>2. \A x \in Shops : attempts[x][e] \in Nat
      BY GrowthFacts
    <2> QED
      BY <1>3, <2>1, <2>2
  <1>8. Counted'
    <2> SUFFICES ASSUME NEW e \in Days
                 PROVE  /\ Total(AttemptsCol(attempts', e), Shops)
                             <= Total(RunsCol(runs, e), Shops) + growthFaults + InRun'
                        /\ \A x \in Shops : attempts'[x][e]
                             <= Total(runs[x], e..MaxDays) + growthFaults + InRunOf(x)'
      BY DEF Counted
    <2>1. /\ Total(AttemptsCol(attempts, e), Shops)
               <= Total(RunsCol(runs, e), Shops) + growthFaults + InRun
          /\ \A x \in Shops :
               attempts[x][e] <= Total(runs[x], e..MaxDays) + growthFaults + InRunOf(x)
      BY DEF GrowthInv, Counted
    <2>2. /\ Total(AttemptsCol(attempts, e), Shops) \in Nat
          /\ Total(RunsCol(runs, e), Shops) \in Nat
          /\ \A x \in Shops : attempts[x][e] \in Nat /\ Total(runs[x], e..MaxDays) \in Nat
          /\ growthFaults \in Nat
      BY GrowthFacts
    <2>3. Total(AttemptsCol(attempts', e), Shops)
            <= Total(RunsCol(runs, e), Shops) + growthFaults + InRun'
      <3>1. PICK a, b, c : /\ a = Total(AttemptsCol(attempts, e), Shops)
                           /\ b = Total(AttemptsCol(attempts', e), Shops)
                           /\ c = Total(RunsCol(runs, e), Shops)
        OBVIOUS
      <3>2. /\ b = a + (IF e = day THEN 1 ELSE 0) /\ a \in Nat /\ c \in Nat
            /\ a <= c + growthFaults + 0 /\ growthFaults \in Nat
        BY <1>6, <1>7, <2>1, <2>2, <3>1
      <3>3. b <= c + growthFaults + 1
        BY ONLY <3>2
      <3> QED
        BY <1>6, <3>1, <3>3
    <2>4. ASSUME NEW x \in Shops
          PROVE  attempts'[x][e] <= Total(runs[x], e..MaxDays) + growthFaults + InRunOf(x)'
      BY <1>6, <1>7, <2>1, <2>2
    <2> QED
      BY <2>3, <2>4
  <1>9. Capped'
    <2> SUFFICES ASSUME NEW e \in Days
                 PROVE  /\ Total(AttemptsCol(attempts', e), Shops) <= GROWTH_DAILY_MAX + growthFaults
                        /\ \A x \in Shops :
                             attempts'[x][e] <= GROWTH_SCHED_STORE_DAILY_MAX + growthFaults
      BY DEF Capped
    <2>1. /\ Total(AttemptsCol(attempts, e), Shops) <= GROWTH_DAILY_MAX + growthFaults
          /\ \A x \in Shops : attempts[x][e] <= GROWTH_SCHED_STORE_DAILY_MAX + growthFaults
          /\ Total(AttemptsCol(attempts, e), Shops) \in Nat
          /\ \A x \in Shops : attempts[x][e] \in Nat
          /\ GROWTH_DAILY_MAX \in Nat /\ GROWTH_SCHED_STORE_DAILY_MAX \in Nat
          /\ growthFaults \in Nat
      BY GrowthFacts DEF GrowthInv, Capped
    <2>2. CASE e # day
      <3>1. Total(AttemptsCol(attempts', e), Shops) = Total(AttemptsCol(attempts, e), Shops)
        <4>1. PICK a, b : /\ a = Total(AttemptsCol(attempts, e), Shops)
                          /\ b = Total(AttemptsCol(attempts', e), Shops)
          OBVIOUS
        <4>2. b = a + (IF e = day THEN 1 ELSE 0) /\ a \in Nat
          BY <1>7, <2>1, <4>1
        <4>3. b = a
          BY ONLY <2>2, <4>2
        <4> QED
          BY <4>1, <4>3
      <3>2. \A x \in Shops : attempts'[x][e] = attempts[x][e]
        BY <1>7, <2>1, <2>2
      <3> QED
        BY <2>1, <3>1, <3>2
    <2>3. CASE e = day
      <3>1. /\ Total(RunsCol(runs, day), Shops) <= Total(RunsCol(runs, tick.since), Shops)
            /\ Total(runs[s], day..MaxDays) <= Total(runs[s], tick.since..MaxDays)
        BY <1>1, GrowthFacts, LaterLess
      <3>2. /\ Total(RunsCol(runs, tick.since), Shops) < GROWTH_DAILY_MAX
            /\ Total(runs[s], tick.since..MaxDays) < GROWTH_SCHED_STORE_DAILY_MAX
        BY GrowthSums
      <3>3. /\ Total(AttemptsCol(attempts, day), Shops)
                 <= Total(RunsCol(runs, day), Shops) + growthFaults
            /\ attempts[s][day] <= Total(runs[s], day..MaxDays) + growthFaults
        <4>1. /\ Total(AttemptsCol(attempts, day), Shops)
                   <= Total(RunsCol(runs, day), Shops) + growthFaults + 0
              /\ attempts[s][day] <= Total(runs[s], day..MaxDays) + growthFaults + 0
          BY <1>1, <1>6 DEF GrowthInv, Counted
        <4>2. /\ Total(RunsCol(runs, day), Shops) \in Nat /\ growthFaults \in Nat
              /\ Total(runs[s], day..MaxDays) \in Nat
          BY <1>1, GrowthFacts
        <4> QED
          BY <4>1, <4>2
      <3>4. /\ Total(RunsCol(runs, day), Shops) \in Nat /\ Total(runs[s], day..MaxDays) \in Nat
            /\ Total(RunsCol(runs, tick.since), Shops) \in Nat
            /\ Total(runs[s], tick.since..MaxDays) \in Nat
        BY <1>1, GrowthFacts
      <3>5. Total(AttemptsCol(attempts', e), Shops) <= GROWTH_DAILY_MAX + growthFaults
        <4>1. Total(AttemptsCol(attempts', e), Shops)
                = Total(AttemptsCol(attempts, day), Shops) + 1
          BY <1>7, <2>3
        <4> QED
          BY <2>1, <2>3, <3>1, <3>2, <3>3, <3>4, <4>1
      <3>6. ASSUME NEW x \in Shops
            PROVE  attempts'[x][e] <= GROWTH_SCHED_STORE_DAILY_MAX + growthFaults
        <4>1. CASE x = s
          <5>1. attempts'[x][e] = attempts[s][day] + 1 /\ attempts[s][day] \in Nat
            BY <1>7, <2>1, <2>3, <4>1
          <5> QED
            BY <2>1, <3>1, <3>2, <3>3, <3>4, <5>1
        <4>2. CASE x # s
          <5>1. attempts'[x][e] = attempts[x][e]
            BY <1>7, <2>1, <4>2
          <5> QED
            BY <2>1, <5>1
        <4> QED
          BY <4>1, <4>2
      <3> QED
        BY <3>5, <3>6
    <2> QED
      BY <2>2, <2>3
  <1> QED
    BY <1>4, <1>5, <1>8, <1>9 DEF GrowthInv

\* The attempt's event is logged, today or, over midnight, a day later.
LEMMA Logs == ASSUME GrowthInv, Generated PROVE GrowthInv'
PROOF
  <1>1. PICK s : s = tick.shop
    OBVIOUS
  <1>2. /\ s \in Shops /\ tick.step = "run" /\ day \in Days
        /\ runs' = [runs EXCEPT ![s][day] = @ + 1]
        /\ tick' = [tick EXCEPT !.step = "next", !.shop = None]
        /\ UNCHANGED <<day, plan, attempts, growthFaults>>
    BY <1>1 DEF Generated, Logged, GrowthInv, TickLocals, GrowthTypeOK
  <1>3. /\ \A x \in Shops \ {s} : runs'[x] = runs[x]
        /\ \A x \in Days \ {day} : runs'[s][x] = runs[s][x]
        /\ runs'[s][day] = runs[s][day] + 1 /\ runs' \in Tables
    BY <1>2, GrowthFacts DEF Tables
  <1>4. tick'.step = "next" /\ tick'.since = tick.since /\ tick'.todo = tick.todo
    BY <1>2 DEF GrowthInv, GrowthTypeOK
  <1>5. GrowthTypeOK'
    <2>1. draft' \in [Drafts -> {"none", "pending", "blocked", "approved", "discarded", "published"}]
      BY DEF Generated, Drafted, GrowthInv, GrowthTypeOK
    <2> QED
      BY <1>2, <1>3, <2>1 DEF GrowthInv, GrowthTypeOK, Tables
  <1>6. TickLocals'
    BY <1>2, <1>4 DEF GrowthInv, TickLocals
  <1>7. /\ InRun = 1 /\ InRun' = 0
        /\ \A x : InRunOf(x)' = 0 /\ InRunOf(x) = IF x = s THEN 1 ELSE 0
    BY <1>1, <1>2, <1>4 DEF InRun, InRunOf
  <1>8. Counted'
    <2> SUFFICES ASSUME NEW e \in Days
                 PROVE  /\ Total(AttemptsCol(attempts, e), Shops)
                             <= Total(RunsCol(runs', e), Shops) + growthFaults + InRun'
                        /\ \A x \in Shops : attempts[x][e]
                             <= Total(runs'[x], e..MaxDays) + growthFaults + InRunOf(x)'
      BY <1>2 DEF Counted
    <2>1. /\ Total(AttemptsCol(attempts, e), Shops)
               <= Total(RunsCol(runs, e), Shops) + growthFaults + InRun
          /\ \A x \in Shops :
               attempts[x][e] <= Total(runs[x], e..MaxDays) + growthFaults + InRunOf(x)
      BY DEF GrowthInv, Counted
    <2>2. /\ Total(AttemptsCol(attempts, e), Shops) \in Nat
          /\ Total(RunsCol(runs, e), Shops) \in Nat
          /\ \A x \in Shops : attempts[x][e] \in Nat /\ Total(runs[x], e..MaxDays) \in Nat
          /\ growthFaults \in Nat
      BY GrowthFacts
    <2>3. /\ Total(runs'[s], e..MaxDays)
               = Total(runs[s], e..MaxDays) + (IF e <= day THEN 1 ELSE 0)
          /\ Total(RunsCol(runs', e), Shops)
               = Total(RunsCol(runs, e), Shops) + (IF e <= day THEN 1 ELSE 0)
      <3>1. runs \in Tables /\ runs' \in Tables /\ day \in Days /\ s \in Shops
        BY <1>2, <1>3, GrowthFacts
      <3> QED
        BY ONLY <1>3, <3>1, e \in Days, CellAdds
    <2>4. CASE e <= day
      <3>1. Total(AttemptsCol(attempts, e), Shops)
              <= Total(RunsCol(runs', e), Shops) + growthFaults + InRun'
        <4>1. PICK a, b, c : /\ a = Total(AttemptsCol(attempts, e), Shops)
                             /\ b = Total(RunsCol(runs', e), Shops)
                             /\ c = Total(RunsCol(runs, e), Shops)
          OBVIOUS
        <4>2. /\ b = c + (IF e <= day THEN 1 ELSE 0) /\ a \in Nat /\ c \in Nat
              /\ a <= c + growthFaults + 1 /\ growthFaults \in Nat
          BY <1>7, <2>1, <2>2, <2>3, <4>1
        <4>3. a <= b + growthFaults + 0
          BY ONLY <2>4, <4>2
        <4> QED
          BY <1>7, <4>1, <4>3
      <3>2. ASSUME NEW x \in Shops
            PROVE  attempts[x][e] <= Total(runs'[x], e..MaxDays) + growthFaults + InRunOf(x)'
        <4>1. PICK a, b, c : /\ a = attempts[x][e]
                             /\ b = Total(runs'[x], e..MaxDays)
                             /\ c = Total(runs[x], e..MaxDays)
          OBVIOUS
        <4>2. /\ b = c + (IF x = s /\ e <= day THEN 1 ELSE 0)
          BY <1>3, <2>2, <2>3, <4>1
        <4>3. /\ a \in Nat /\ c \in Nat /\ growthFaults \in Nat
              /\ a <= c + growthFaults + (IF x = s THEN 1 ELSE 0)
          BY <1>7, <2>1, <2>2, <4>1
        <4>4. a <= b + growthFaults + 0
          BY ONLY <2>4, <4>2, <4>3
        <4> QED
          BY <1>7, <4>1, <4>4
      <3> QED
        BY <3>1, <3>2
    <2>5. CASE ~ (e <= day)
      <3>1. e > day /\ e \in Nat /\ day \in Nat
        BY <1>2, <2>5, GrowthAssumption DEF Days
      <3>2. \A x \in Shops : attempts[x][e] = 0
        BY <3>1 DEF GrowthInv, TickLocals
      <3>3. Total(AttemptsCol(attempts, e), Shops) = 0
        <4>1. \A x \in Shops : AttemptsCol(attempts, e)[x] = 0
          BY <3>2 DEF AttemptsCol
        <4> QED
          BY <4>1, GrowthAssumption, TotalZero
      <3>4. /\ Total(RunsCol(runs', e), Shops) \in Nat
            /\ \A x \in Shops : Total(runs'[x], e..MaxDays) \in Nat
        BY <1>3, ColsNat
      <3> QED
        BY <1>7, <2>2, <3>2, <3>3, <3>4
    <2> QED
      BY <2>4, <2>5
  <1>9. Capped'
    BY <1>2 DEF GrowthInv, Capped
  <1> QED
    BY <1>5, <1>6, <1>8, <1>9 DEF GrowthInv

LEMMA GrowthStep == GrowthInv /\ [GrowthNext]_growthVars => GrowthInv'
PROOF
  <1> SUFFICES ASSUME GrowthInv, [GrowthNext]_growthVars PROVE GrowthInv'
    OBVIOUS
  <1> DEFINE States == {"none", "pending", "blocked", "approved", "discarded", "published"}
  <1>0. /\ GrowthTypeOK /\ growthFaults \in Nat /\ day \in Nat /\ MaxDays \in Nat
        /\ MaxGrowthFaults \in Nat /\ tick.since <= day
        /\ tick.step = "run" => tick.shop \in Shops
        /\ InRun \in Nat /\ \A s : InRunOf(s) \in Nat
    BY GrowthFacts, GrowthAssumption DEF GrowthInv, TickLocals, Days
  \* Steps of the merchant and of the drafts.
  <1>1. ASSUME UNCHANGED <<day, runs, attempts, tick, growthFaults>>,
               plan' \in [Shops -> {"paused", "daily", "weekly"}],
               draft' \in [Drafts -> States]
        PROVE  GrowthInv'
    <2>1. GrowthTypeOK'
      BY <1>0, <1>1 DEF GrowthTypeOK
    <2>2. InRun' = InRun /\ \A s : InRunOf(s)' = InRunOf(s)
      BY <1>1 DEF InRun, InRunOf
    <2> QED
      BY <1>0, <1>1, <2>1, <2>2, QuietStep
  <1>2. ASSUME Midnight PROVE GrowthInv'
    <2>1. day' = day + 1 /\ UNCHANGED <<plan, runs, attempts, draft, tick, growthFaults>>
      BY <1>2 DEF Midnight
    <2>2. GrowthTypeOK'
      <3>1. day' \in Days
        BY <1>0, <1>2, <2>1 DEF Midnight, GrowthTypeOK, Days
      <3> QED
        BY <1>0, <2>1, <3>1 DEF GrowthTypeOK
    <2>3. InRun' = InRun /\ \A s : InRunOf(s)' = InRunOf(s)
      BY <2>1 DEF InRun, InRunOf
    <2>4. tick'.since <= day' /\ day <= day'
      BY <1>0, <2>1 DEF GrowthTypeOK, Days
    <2> QED
      BY <1>0, <2>1, <2>2, <2>3, <2>4, QuietStep
  \* The tick starts, moves on or ends; a run that fails is a fault.
  <1>3. ASSUME UNCHANGED <<day, plan, runs, attempts, draft>>,
               tick' \in [step : {"idle", "next"}, since : Days, todo : SUBSET Shops,
                          shop : Shops \cup {None}],
               tick'.since <= day, growthFaults' \in 0..MaxGrowthFaults,
               growthFaults' >= growthFaults + InRun
        PROVE  GrowthInv'
    <2>1. tick'.step # "run"
      BY <1>3
    <2>2. InRun' = 0 /\ \A s : InRunOf(s)' = 0 /\ InRunOf(s) <= InRun
      BY <2>1 DEF InRun, InRunOf
    <2>3. growthFaults' \in Nat /\ growthFaults <= growthFaults'
      BY <1>0, <1>3
    <2>4. GrowthTypeOK'
      BY <1>0, <1>3 DEF GrowthTypeOK
    <2>5. \A s \in Shops : growthFaults + InRunOf(s) <= growthFaults' + InRunOf(s)'
      BY <1>0, <1>3, <2>2, <2>3
    <2>6. growthFaults + InRun <= growthFaults' + InRun'
      <3>1. PICK p, g, h : p = InRun /\ g = growthFaults /\ h = growthFaults'
        OBVIOUS
      <3>2. p \in Nat /\ g \in Nat /\ h \in Nat /\ h >= g + p
        BY <1>0, <1>3, <2>3, <3>1
      <3>3. g + p <= h + 0
        BY ONLY <3>2
      <3> QED
        BY <2>2, <3>1, <3>3
    <2>8. day <= day' /\ tick'.since <= day'
      BY <1>0, <1>3
    <2>7. UNCHANGED <<runs, attempts>>
      BY <1>3
    <2> QED
      BY <2>1, <2>3, <2>4, <2>5, <2>6, <2>7, <2>8, QuietStep
  <1>4. NoTick \in [step : {"idle", "next"}, since : Days, todo : SUBSET Shops,
                    shop : Shops \cup {None}] /\ NoTick.since = 1 /\ 1 <= day /\ day \in Days
    BY <1>0, GrowthAssumption DEF NoTick, GrowthTypeOK, Days
  <1>5. ASSUME TickStart PROVE GrowthInv'
    <2>1. /\ UNCHANGED <<day, plan, runs, attempts, draft, growthFaults>> /\ tick.step = "idle"
          /\ tick' = [NoTick EXCEPT !.step = "next", !.since = day,
                                    !.todo = {s \in Shops : plan[s] # "paused"}]
      BY <1>5 DEF TickStart
    <2>2. /\ tick' \in [step : {"idle", "next"}, since : Days, todo : SUBSET Shops,
                        shop : Shops \cup {None}]
          /\ tick'.since <= day
      <3>1. PICK T : T = {s \in Shops : plan[s] # "paused"} /\ T \in SUBSET Shops
        OBVIOUS
      <3>2. tick' = [step |-> "next", since |-> day, todo |-> T, shop |-> None]
        BY <2>1, <3>1 DEF NoTick
      <3> QED
        BY <1>0, <1>4, <3>1, <3>2
    <2>3. growthFaults' >= growthFaults + InRun /\ growthFaults' \in 0..MaxGrowthFaults
      BY <1>0, <2>1 DEF InRun, GrowthTypeOK
    <2> QED
      BY <1>3, <2>1, <2>2, <2>3
  <1>6. ASSUME TickNext PROVE GrowthInv'
    <2>1. tick.step = "next" /\ UNCHANGED <<day, plan, runs, draft, growthFaults>>
      BY <1>6 DEF TickNext
    <2>2. growthFaults' >= growthFaults + InRun /\ growthFaults' \in 0..MaxGrowthFaults
      BY <1>0, <2>1 DEF InRun, GrowthTypeOK
    <2>3. CASE tick' = NoTick /\ UNCHANGED attempts
      BY <1>0, <1>3, <1>4, <2>1, <2>2, <2>3
    <2>4. ASSUME NEW s \in tick.todo, tick' = [tick EXCEPT !.todo = @ \ {s}], UNCHANGED attempts
          PROVE  GrowthInv'
      <3>1. /\ tick' \in [step : {"idle", "next"}, since : Days, todo : SUBSET Shops,
                          shop : Shops \cup {None}]
            /\ tick'.since <= day
        BY <1>0, <2>1, <2>4 DEF GrowthTypeOK
      <3> QED
        BY <1>3, <2>1, <2>2, <2>4, <3>1
    <2>5. ASSUME NEW s \in tick.todo, GlobalRunsSince(tick.since) < GROWTH_DAILY_MAX,
                 ~ (RunsSince(s, tick.since) >= GROWTH_SCHED_STORE_DAILY_MAX),
                 tick' = [tick EXCEPT !.step = "run", !.todo = @ \ {s}, !.shop = s],
                 attempts' = [attempts EXCEPT ![s][day] = @ + 1]
          PROVE  GrowthInv'
      <3>1. RunsSince(s, tick.since) < GROWTH_SCHED_STORE_DAILY_MAX
        <4>1. RunsSince(s, tick.since) \in Nat
          BY <1>0, GrowthSums, GrowthFacts DEF GrowthTypeOK
        <4> QED
          BY <2>5, <4>1, GrowthFacts
      <3> QED
        BY <2>1, <2>5, <3>1, Asks
    <2> QED
      BY <1>6, <2>3, <2>4, <2>5 DEF TickNext
  <1>7. ASSUME RunFails PROVE GrowthInv'
    <2>1. /\ tick.step = "run" /\ growthFaults' = growthFaults + 1
          /\ UNCHANGED <<day, plan, runs, attempts, draft>>
          /\ tick' = NoTick \/ tick' = [tick EXCEPT !.step = "next", !.shop = None]
      BY <1>7 DEF RunFails
    <2>2. growthFaults' >= growthFaults + InRun /\ growthFaults' \in 0..MaxGrowthFaults
      BY <1>0, <1>7, <2>1 DEF RunFails, InRun, GrowthTypeOK
    <2>3. /\ tick' \in [step : {"idle", "next"}, since : Days, todo : SUBSET Shops,
                        shop : Shops \cup {None}]
          /\ tick'.since <= day
      BY <1>0, <1>4, <2>1 DEF GrowthTypeOK
    <2> QED
      BY <1>3, <2>1, <2>2, <2>3
  <1>8. ASSUME KitDrafts PROVE GrowthInv'
    BY <1>0, <1>1, <1>8 DEF KitDrafts, GrowthTypeOK
  <1>9. ASSUME NEW s \in Shops, NEW p \in {"paused", "daily", "weekly"}, SetCalendar(s, p)
        PROVE  GrowthInv'
    BY <1>0, <1>1, <1>9 DEF SetCalendar, GrowthTypeOK
  <1>10. ASSUME NEW d \in Drafts,
                ChannelDraft(d) \/ ApproveDraft(d) \/ DiscardDraft(d) \/ MarkPublished(d)
         PROVE  GrowthInv'
    BY <1>0, <1>1, <1>10
       DEF ChannelDraft, ApproveDraft, DiscardDraft, MarkPublished, MoveDraft, GrowthTypeOK
  <1>11. ASSUME UNCHANGED growthVars PROVE GrowthInv'
    BY <1>0, <1>1, <1>11 DEF growthVars, GrowthTypeOK
  <1> QED
    BY <1>2, <1>5, <1>6, <1>7, <1>8, <1>9, <1>10, <1>11, Logs DEF GrowthNext

LEMMA GrowthStart == GrowthInit => GrowthInv
PROOF
  <1> SUFFICES ASSUME GrowthInit PROVE GrowthInv
    OBVIOUS
  <1>1. /\ runs = [s \in Shops |-> [d \in Days |-> 0]] /\ attempts = runs /\ growthFaults = 0
        /\ day = 1 /\ tick = NoTick
    BY DEF GrowthInit
  <1>2. GrowthTypeOK
    BY GrowthAssumption DEF GrowthInit, GrowthTypeOK, NoTick, Days
  <1>3. TickLocals
    BY <1>1 DEF TickLocals, NoTick
  <1>4. runs \in Tables /\ attempts \in Tables
    BY <1>2 DEF GrowthTypeOK, Tables
  <1>5. ASSUME NEW e \in Days PROVE Total(AttemptsCol(attempts, e), Shops) = 0
    <2>1. \A s \in Shops : AttemptsCol(attempts, e)[s] = 0
      BY <1>1 DEF AttemptsCol
    <2> QED
      BY <2>1, GrowthAssumption, TotalZero
  <1>6. InRun = 0 /\ \A s : InRunOf(s) = 0
    BY <1>1 DEF InRun, InRunOf, NoTick
  <1>7. GROWTH_DAILY_MAX \in Nat /\ GROWTH_SCHED_STORE_DAILY_MAX \in Nat
    BY GrowthAssumption
  <1>8. Counted
    <2> SUFFICES ASSUME NEW e \in Days
                 PROVE  /\ Total(AttemptsCol(attempts, e), Shops)
                             <= Total(RunsCol(runs, e), Shops) + growthFaults + InRun
                        /\ \A s \in Shops : attempts[s][e]
                             <= Total(runs[s], e..MaxDays) + growthFaults + InRunOf(s)
      BY DEF Counted
    <2>1. Total(RunsCol(runs, e), Shops) \in Nat
          /\ \A s \in Shops : Total(runs[s], e..MaxDays) \in Nat
      BY <1>4, ColsNat
    <2>2. \A s \in Shops : attempts[s][e] = 0
      BY <1>1
    <2> QED
      BY <1>1, <1>5, <1>6, <2>1, <2>2
  <1>9. Capped
    BY <1>1, <1>5, <1>7 DEF Capped
  <1> QED
    BY <1>2, <1>3, <1>8, <1>9 DEF GrowthInv

\* app/growth_scheduler.py, run_scheduler_tick(): the budgets are counts of the
\* events that runs leave behind, read before the model is asked, and a run's
\* event may fall on a later day than its request.  For any number of stores
\* and any budgets, no day sees more requests than the budgets allow and the
\* runs that were cut off.
THEOREM SpendIsCapped == GrowthSpec => []SpendCapped
PROOF
  <1>1. GrowthInv => SpendCapped
    BY GrowthSums DEF GrowthInv, Capped, SpendCapped
  <1> QED
    BY <1>1, GrowthStart, GrowthStep, PTL DEF GrowthSpec

=============================================================================
