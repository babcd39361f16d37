---------------------------- MODULE LedgerProofs ----------------------------
(***************************************************************************)
(* Proofs about the three components that keep a ledger of money somebody  *)
(* else holds: Escrow, Mpp and Subscriptions.  A request writes from what  *)
(* it read before it called the chain or an agent, so each invariant says  *)
(* what the locals of a request in flight still promise.                   *)
(***************************************************************************)
EXTENDS Escrow, Mpp, Subscriptions, SumLemmas

-----------------------------------------------------------------------------
(* Escrow *)

Funded == {"funded", "submitted", "completed", "disputed"}

\* What a job's row says of the chain: its deposit and its release were sent.
RowBacked(r) ==
  /\ r.status \in Funded \cup {"budget_set"} => r.budget \in Budgets
  /\ r.status \in Funded <=> r.funded # None
  /\ r.status \in Funded =>
       /\ Verified(r.funded, r.buyer, r.holder, r.budget, 0)
       /\ r.fundedBlock = transfer[r.funded].block
  /\ r.status = "completed" <=> r.released # None
  /\ r.status = "completed" =>
       Verified(r.released, r.holder, "provider", r.budget, r.fundedBlock)

\* No two jobs hold one deposit or one release: the unique indexes.
HashesDiffer ==
  \A j, k \in Jobs : j # k =>
    /\ job[j].funded # None => job[k].funded # job[j].funded
    /\ job[j].released # None => job[k].released # job[j].released

EscLocals ==
  \A w \in Threads : escReq[w].step # "idle" =>
    escReq[w].job \in Jobs /\ escReq[w].tx \in EscrowTxs

\* Blocks are counted by the transfers already sent.
SentTransfers == {x \in EscrowTxs : transfer[x] # NoTransfer}
TransferType ==
  /\ IsFiniteSet(SentTransfers)
  /\ transfer \in [EscrowTxs -> [from : Wallets \cup {None}, to : Wallets \cup {None},
                                 value : Nat, block : Nat]]

EscInv ==
  /\ EscrowTypeOK /\ TransferType /\ EscLocals
  /\ HashesDiffer /\ \A j \in Jobs : RowBacked(job[j])

\* A row that is replaced by one that is backed, and takes no hash of another.
LEMMA JobWrite ==
  ASSUME EscInv, NEW j \in Jobs, NEW new \in JobRow,
         job' = [job EXCEPT ![j] = new], UNCHANGED transfer,
         RowBacked(new),
         new.funded = job[j].funded \/ \A k \in Jobs : job[k].funded # new.funded,
         new.released = job[j].released \/ \A k \in Jobs : job[k].released # new.released
  PROVE  /\ job' \in [Jobs -> JobRow] /\ TransferType'
         /\ HashesDiffer' /\ \A k \in Jobs : RowBacked(job[k])'
PROOF
  <1>1. job' \in [Jobs -> JobRow]
    BY DEF EscInv, EscrowTypeOK
  <1>2. \A k \in Jobs : job'[k] = IF k = j THEN new ELSE job[k]
    BY DEF EscInv, EscrowTypeOK
  <1>3. TransferType'
    BY DEF EscInv, TransferType, SentTransfers
  <1>4. HashesDiffer'
    BY <1>2 DEF EscInv, HashesDiffer
  <1>5. \A k \in Jobs : RowBacked(job[k])'
    BY <1>2 DEF EscInv, RowBacked, Verified
  <1> QED
    BY <1>1, <1>3, <1>4, <1>5

\* A request ends, or begins on a job and a transaction.
LEMMA RequestWrites ==
  ASSUME EscInv, NEW w \in Threads,
         NEW r \in {NoEscReq} \cup [step : {"fund", "release"}, job : Jobs, tx : EscrowTxs],
         escReq' = [escReq EXCEPT ![w] = r] \/ UNCHANGED escReq
  PROVE  /\ EscLocals'
         /\ escReq' \in [Threads -> [step : {"idle", "fund", "release"}, job : Jobs \cup {None},
                                     tx : EscrowTxs \cup {None}]]
BY DEF EscInv, EscrowTypeOK, EscLocals, NoEscReq

LEMMA EscrowInit_Inv == ASSUME EscrowInit PROVE EscInv
PROOF
  <1>1. NoJob \in JobRow
    BY DEF NoJob, JobRow, JobStatus, Wallets
  <1>2. EscrowTypeOK
    BY <1>1 DEF EscrowInit, EscrowTypeOK, NoEscReq
  <1>3. SentTransfers = {}
    BY DEF EscrowInit, SentTransfers
  <1>4. TransferType
    BY <1>3, FS_EmptySet DEF EscrowInit, TransferType, NoTransfer
  <1>5. EscLocals
    BY DEF EscrowInit, EscLocals, NoEscReq
  <1>6. HashesDiffer /\ \A j \in Jobs : RowBacked(job[j])
    BY DEF EscrowInit, HashesDiffer, RowBacked, NoJob, Funded
  <1> QED
    BY <1>2, <1>4, <1>5, <1>6 DEF EscInv

\* A transfer that no job holds may be sent: a held one carries a budget, and
\* no budget is zero.
LEMMA SendTransfer_Inv ==
  ASSUME EscInv, NEW tx \in EscrowTxs, SendTransfer(tx)
  PROVE  EscInv'
PROOF
  <1> DEFINE n == Cardinality(SentTransfers)
  <1>1. n \in Nat
    BY FS_CardinalityType DEF EscInv, TransferType
  <1>2. PICK f \in {"buyer", "holder"}, t \in {"holder", "provider"}, v \in Budgets :
          transfer' = [transfer EXCEPT ![tx] = [from |-> f, to |-> t, value |-> v, block |-> n + 1]]
    BY DEF SendTransfer, SentTransfers
  <1> HIDE DEF n
  <1>3. SentTransfers' = SentTransfers \cup {tx}
    <2>1. transfer'[tx] # NoTransfer
      BY <1>2, EscrowAssumption DEF EscInv, TransferType, NoTransfer
    <2> QED
      BY <1>2, <2>1 DEF EscInv, TransferType, SentTransfers
  <1>4. TransferType'
    <2>1. IsFiniteSet(SentTransfers')
      BY <1>3, FS_AddElement DEF EscInv, TransferType
    <2>2. [from |-> f, to |-> t, value |-> v, block |-> n + 1]
            \in [from : Wallets \cup {None}, to : Wallets \cup {None}, value : Nat, block : Nat]
      BY <1>1, EscrowAssumption DEF Wallets
    <2> QED
      BY <1>2, <2>1, <2>2 DEF EscInv, TransferType
  <1>5. ASSUME NEW y \in EscrowTxs, transfer[y].value \in Budgets PROVE transfer'[y] = transfer[y]
    BY <1>2, <1>5, EscrowAssumption DEF EscInv, TransferType, SendTransfer, NoTransfer
  <1>6. ASSUME NEW j \in Jobs PROVE RowBacked(job[j])'
    <2>1. job[j] \in JobRow /\ RowBacked(job[j]) /\ job' = job
      BY DEF EscInv, EscrowTypeOK, SendTransfer
    <2>2. job[j].status \in Funded => transfer'[job[j].funded] = transfer[job[j].funded]
      BY <2>1, <1>5 DEF RowBacked, Verified, JobRow
    <2>3. job[j].status = "completed" => transfer'[job[j].released] = transfer[job[j].released]
      BY <2>1, <1>5 DEF RowBacked, Verified, JobRow, Funded
    <2> QED
      BY <2>1, <2>2, <2>3 DEF RowBacked, Verified
  <1> QED
    BY <1>4, <1>6 DEF EscInv, SendTransfer, EscrowTypeOK, EscLocals, HashesDiffer

\* The edits of a job that touch no hash: create, set-budget, submit, cancel
\* and dispute.
LEMMA JobEdits_Inv ==
  ASSUME EscInv, NEW j \in Jobs, NEW caller \in Wallets,
         \/ CreateJob(j) \/ SetBudget(j, caller) \/ SubmitWork(j, caller)
         \/ CancelJob(j, caller) \/ DisputeJob(j, caller)
  PROVE  EscInv'
PROOF
  <1>0. /\ job[j] \in JobRow /\ RowBacked(job[j]) /\ UNCHANGED <<transfer, escReq>>
    BY DEF EscInv, EscrowTypeOK, CreateJob, SetBudget, SubmitWork, CancelJob, DisputeJob
  <1> SUFFICES ASSUME NEW new \in JobRow, job' = [job EXCEPT ![j] = new], RowBacked(new),
                      new.funded = job[j].funded, new.released = job[j].released
               PROVE  EscInv'
    <2>1. CASE CreateJob(j)
      <3>1. PICK b \in {"buyer", "holder"}, e \in {None, "evaluator"} :
              job' = [job EXCEPT ![j] = [NoJob EXCEPT !.status = "open", !.buyer = b, !.evaluator = e]]
        BY <2>1 DEF CreateJob
      <3> DEFINE new == [NoJob EXCEPT !.status = "open", !.buyer = b, !.evaluator = e]
      <3>2. new \in JobRow /\ RowBacked(new) /\ new.funded = None /\ new.released = None
        BY DEF NoJob, JobRow, JobStatus, Wallets, RowBacked, Funded
      <3>3. job[j].funded = None /\ job[j].released = None
        BY <1>0, <2>1 DEF CreateJob, RowBacked, Funded
      <3> QED
        BY <3>1, <3>2, <3>3
    <2>2. CASE SetBudget(j, caller)
      <3>1. PICK m \in Budgets, h \in {"holder", "provider"} :
              job' = [job EXCEPT ![j] =
                [job[j] EXCEPT !.status = "budget_set", !.budget = m, !.holder = h]]
        BY <2>2 DEF SetBudget, EscTransition
      <3> DEFINE new == [job[j] EXCEPT !.status = "budget_set", !.budget = m, !.holder = h]
      <3>2. new \in JobRow
        BY <1>0, EscrowAssumption DEF JobRow, JobStatus, Wallets
      <3>3. RowBacked(new) /\ new.funded = job[j].funded /\ new.released = job[j].released
        BY <1>0, <2>2 DEF SetBudget, RowBacked, Funded, JobRow
      <3> QED
        BY <3>1, <3>2, <3>3
    <2>3. CASE SubmitWork(j, caller)
      <3> DEFINE new == [job[j] EXCEPT !.status = "submitted"]
      <3>1. job' = [job EXCEPT ![j] = new]
        BY <2>3 DEF SubmitWork, EscTransition
      <3>2. new \in JobRow
        BY <1>0 DEF JobRow, JobStatus
      <3>3. RowBacked(new) /\ new.funded = job[j].funded /\ new.released = job[j].released
        BY <1>0, <2>3 DEF SubmitWork, RowBacked, Funded, JobRow
      <3> QED
        BY <3>1, <3>2, <3>3
    <2>4. CASE CancelJob(j, caller)
      <3> DEFINE new == [job[j] EXCEPT !.status = "cancelled"]
      <3>1. job' = [job EXCEPT ![j] = new]
        BY <2>4 DEF CancelJob, EscTransition
      <3>2. new \in JobRow
        BY <1>0 DEF JobRow, JobStatus
      <3>3. RowBacked(new) /\ new.funded = job[j].funded /\ new.released = job[j].released
        BY <1>0, <2>4 DEF CancelJob, RowBacked, Funded, JobRow
      <3> QED
        BY <3>1, <3>2, <3>3
    <2>5. CASE DisputeJob(j, caller)
      <3> DEFINE new == [job[j] EXCEPT !.status = "disputed"]
      <3>1. job' = [job EXCEPT ![j] = new]
        BY <2>5 DEF DisputeJob, EscTransition
      <3>2. new \in JobRow
        BY <1>0 DEF JobRow, JobStatus
      <3>3. RowBacked(new) /\ new.funded = job[j].funded /\ new.released = job[j].released
        BY <1>0, <2>5 DEF DisputeJob, RowBacked, Funded, JobRow
      <3> QED
        BY <3>1, <3>2, <3>3
    <2> QED
      BY <2>1, <2>2, <2>3, <2>4, <2>5
  <1> QED
    BY <1>0, JobWrite DEF EscInv, EscrowTypeOK, EscLocals

\* What a request reads only sets its locals.
LEMMA EscReads_Inv ==
  ASSUME EscInv, NEW w \in Threads, NEW j \in Jobs, NEW tx \in EscrowTxs, NEW caller \in Wallets,
         FundRead(w, j, tx, caller) \/ ReleaseRead(w, j, tx, caller)
  PROVE  EscInv'
PROOF
  <1>1. PICK r \in [step : {"fund", "release"}, job : Jobs, tx : EscrowTxs] :
          escReq' = [escReq EXCEPT ![w] = r]
    BY DEF FundRead, ReleaseRead
  <1>2. UNCHANGED <<job, transfer>>
    BY DEF FundRead, ReleaseRead
  <1>3. /\ EscLocals'
        /\ escReq' \in [Threads -> [step : {"idle", "fund", "release"}, job : Jobs \cup {None},
                                    tx : EscrowTxs \cup {None}]]
    BY <1>1, RequestWrites
  <1> QED
    BY <1>2, <1>3
    DEF EscInv, EscrowTypeOK, TransferType, SentTransfers, HashesDiffer, RowBacked, Verified

\* Funding writes what the chain said of a hash no job holds, and only if the
\* job still waits for its deposit: a budget set meanwhile is compared again.
LEMMA FundWrite_Inv ==
  ASSUME EscInv, NEW w \in Threads, FundWrite(w)
  PROVE  EscInv'
PROOF
  <1> DEFINE j == escReq[w].job
             tx == escReq[w].tx
             new == [job[j] EXCEPT !.status = "funded", !.funded = tx,
                                   !.fundedBlock = transfer[tx].block]
  <1>1. /\ j \in Jobs /\ tx \in EscrowTxs /\ job[j] \in JobRow /\ RowBacked(job[j])
        /\ transfer[tx].block \in Nat
    BY DEF FundWrite, EscInv, EscLocals, EscrowTypeOK, TransferType
  <1>2. UNCHANGED transfer /\ escReq' = [escReq EXCEPT ![w] = NoEscReq]
    BY DEF FundWrite
  <1>3. /\ EscLocals'
        /\ escReq' \in [Threads -> [step : {"idle", "fund", "release"}, job : Jobs \cup {None},
                                    tx : EscrowTxs \cup {None}]]
    BY <1>2, RequestWrites
  <1>4. CASE UNCHANGED job
    BY <1>2, <1>3, <1>4
    DEF EscInv, EscrowTypeOK, TransferType, SentTransfers, HashesDiffer, RowBacked, Verified
  <1>5. CASE /\ Verified(tx, job[j].buyer, job[j].holder, job[j].budget, 0)
             /\ \A k \in Jobs : job[k].funded # tx
             /\ job[j].status = "budget_set" /\ job' = [job EXCEPT ![j] = new]
    <2>1. new \in JobRow
      BY <1>1 DEF JobRow, JobStatus
    <2>2. RowBacked(new)
      BY <1>1, <1>5, EscrowAssumption DEF RowBacked, Verified, JobRow, Funded
    <2>3. new.funded = tx /\ new.released = job[j].released
      BY <1>1 DEF JobRow
    <2> HIDE DEF new
    <2> QED
      BY <1>1, <1>2, <1>3, <1>5, <2>1, <2>2, <2>3, JobWrite DEF EscInv, EscrowTypeOK
  <1> QED
    BY <1>4, <1>5 DEF FundWrite, EscTransition

\* Completing a job writes a release that no other job holds and that is not
\* older than the deposit.
LEMMA ReleaseWrite_Inv ==
  ASSUME EscInv, NEW w \in Threads, ReleaseWrite(w)
  PROVE  EscInv'
PROOF
  <1> DEFINE j == escReq[w].job
             tx == escReq[w].tx
             new == [job[j] EXCEPT !.status = "completed", !.released = tx]
  <1>1. j \in Jobs /\ tx \in EscrowTxs /\ job[j] \in JobRow /\ RowBacked(job[j])
    BY DEF ReleaseWrite, EscInv, EscLocals, EscrowTypeOK
  <1>2. UNCHANGED transfer /\ escReq' = [escReq EXCEPT ![w] = NoEscReq]
    BY DEF ReleaseWrite
  <1>3. /\ EscLocals'
        /\ escReq' \in [Threads -> [step : {"idle", "fund", "release"}, job : Jobs \cup {None},
                                    tx : EscrowTxs \cup {None}]]
    BY <1>2, RequestWrites
  <1>4. CASE UNCHANGED job
    BY <1>2, <1>3, <1>4
    DEF EscInv, EscrowTypeOK, TransferType, SentTransfers, HashesDiffer, RowBacked, Verified
  <1>5. CASE /\ Verified(tx, job[j].holder, "provider", job[j].budget, job[j].fundedBlock)
             /\ \A k \in Jobs : job[k].released # tx
             /\ job[j].status = "submitted" /\ job' = [job EXCEPT ![j] = new]
    <2>1. new \in JobRow
      BY <1>1 DEF JobRow, JobStatus
    <2>2. RowBacked(new)
      BY <1>1, <1>5, EscrowAssumption DEF RowBacked, Verified, JobRow, Funded
    <2>3. new.released = tx /\ new.funded = job[j].funded
      BY <1>1 DEF JobRow
    <2> HIDE DEF new
    <2> QED
      BY <1>1, <1>2, <1>3, <1>5, <2>1, <2>2, <2>3, JobWrite DEF EscInv, EscrowTypeOK
  <1> QED
    BY <1>4, <1>5 DEF ReleaseWrite, EscTransition

\* Every step keeps the invariant.
LEMMA EscrowNext_Inv ==
  ASSUME EscInv, [EscrowNext]_escrowVars PROVE EscInv'
PROOF
  <1>1. CASE UNCHANGED escrowVars
    BY <1>1 DEF escrowVars, EscInv, EscrowTypeOK, TransferType, SentTransfers, EscLocals,
      HashesDiffer, RowBacked, Verified
  <1>2. CASE EscrowNext
    BY <1>2, SendTransfer_Inv, JobEdits_Inv, EscReads_Inv, FundWrite_Inv, ReleaseWrite_Inv
    DEF EscrowNext, Wallets
  <1> QED
    BY <1>1, <1>2

LEMMA EscInv_Backed == ASSUME EscInv PROVE JobsAreBacked
PROOF
  <1> SUFFICES ASSUME NEW j \in Jobs
               PROVE  /\ job[j].status \in Funded =>
                          /\ job[j].funded # None
                          /\ Verified(job[j].funded, job[j].buyer, job[j].holder, job[j].budget, 0)
                          /\ \A k \in Jobs \ {j} : job[k].funded # job[j].funded
                      /\ job[j].status = "completed" =>
                          /\ job[j].released # None
                          /\ Verified(job[j].released, job[j].holder, "provider", job[j].budget,
                                      transfer[job[j].funded].block)
                          /\ \A k \in Jobs \ {j} : job[k].released # job[j].released
    BY DEF JobsAreBacked, Funded
  <1>1. RowBacked(job[j]) /\ HashesDiffer
    BY DEF EscInv
  <1> QED
    BY <1>1 DEF RowBacked, HashesDiffer, Funded

\* A job past funding holds a deposit of its own, of exactly its budget between
\* its wallets; a completed one a release of its own, not older than that
\* deposit: for any jobs, transactions, budgets and racing requests.
THEOREM JobsBacked == EscrowSpec => []JobsAreBacked
PROOF
  <1>1. EscInv /\ [EscrowNext]_escrowVars => EscInv'
    BY EscrowNext_Inv
  <1> QED
    BY <1>1, EscrowInit_Inv, EscInv_Backed, PTL DEF EscrowSpec

\* The rows and the locals of Escrow keep their types.
THEOREM EscrowTyped == EscrowSpec => []EscrowTypeOK
PROOF
  <1>1. EscInv /\ [EscrowNext]_escrowVars => EscInv'
    BY EscrowNext_Inv
  <1>2. EscInv => EscrowTypeOK
    BY DEF EscInv
  <1> QED
    BY <1>1, <1>2, EscrowInit_Inv, PTL DEF EscrowSpec

-----------------------------------------------------------------------------
(* Mpp *)

\* What a request still has to add to the local deposit of a channel: money the
\* agent took and the row does not show yet.
Adding(r, ch) == IF r.step \in {"topup", "topupWrite"} /\ r.ch = ch THEN r.amount ELSE 0
Pending(ch) == [w \in Threads |-> Adding(mppReq[w], ch)]

MppRequest == [step : {"idle", "open", "voucher", "topup", "topupWrite", "close", "closeWrite"},
               ch : Channels \cup {None}, amount : (0..MaxDeposit) \cup {None}, row : ChannelRow]

\* What the locals of a request promise.
RequestHolds(r) ==
  /\ r \in MppRequest
  /\ r.step # "idle" => r.ch \in Channels
  /\ r.step \in {"open", "voucher", "topup", "topupWrite"} => r.amount \in 1..MaxDeposit
  /\ r.step = "open" => agent[r.ch].status # "none" /\ r.amount <= agent[r.ch].deposit
  /\ r.step = "voucher" =>
       r.row.spent < r.amount /\ r.amount <= r.row.deposit /\ r.row.deposit <= channel[r.ch].deposit
  /\ r.step \in {"topup", "topupWrite"} => channel[r.ch].status # "none"

\* A channel's local deposit and what is still to be added to it are with the
\* agent; one that was never opened here has neither.
ChannelHolds(ch) ==
  /\ channel[ch].deposit + Total(Pending(ch), Threads) <= agent[ch].deposit
  /\ channel[ch].status = "open" =>
       channel[ch].spent = served[ch] /\ served[ch] <= channel[ch].deposit
  /\ channel[ch].status = "none" =>
       channel[ch] = NoChannel /\ served[ch] = 0 /\ Total(Pending(ch), Threads) = 0
  /\ agent[ch].status = "none" => channel[ch].status = "none" /\ agent[ch].deposit = 0

MppInv ==
  /\ MppTypeOK /\ mppReq \in [Threads -> MppRequest]
  /\ \A w \in Threads : RequestHolds(mppReq[w])
  /\ \A ch \in Channels : ChannelHolds(ch)

LEMMA AddingType ==
  ASSUME NEW r, RequestHolds(r), NEW ch PROVE Adding(r, ch) \in Nat
BY MppAssumption DEF Adding, RequestHolds

\* One request changes: what is pending changes by what it adds.
LEMMA PendingChange ==
  ASSUME MppInv, NEW w \in Threads, NEW new, NEW ch, Adding(new, ch) \in Nat,
         mppReq' = [mppReq EXCEPT ![w] = new]
  PROVE  /\ Total(Pending(ch), Threads) \in Nat
         /\ Total(Pending(ch), Threads)' \in Nat
         /\ Total(Pending(ch), Threads)'
              = Total(Pending(ch), Threads) + Adding(new, ch) - Adding(mppReq[w], ch)
PROOF
  <1> DEFINE g == [x \in Threads |-> Adding([mppReq EXCEPT ![w] = new][x], ch)]
  <1>1. \A x \in Threads : Pending(ch)[x] = Adding(mppReq[x], ch) /\ Pending(ch)[x] \in Nat
    BY AddingType DEF MppInv, Pending
  <1>2. /\ g[w] = Adding(new, ch) /\ g[w] \in Nat
        /\ \A x \in Threads \ {w} : g[x] = Pending(ch)[x]
    BY <1>1 DEF MppInv, Pending
  <1>3. \A x \in Threads : g[x] \in Nat
    BY <1>1, <1>2
  <1>4. Total(Pending(ch), Threads)' = Total(g, Threads)
    BY DEF Pending
  <1> HIDE DEF g
  <1>5. Counts(Pending(ch), Threads)
    BY <1>1 DEF Counts
  <1>6. Total(g, Threads) = Total(Pending(ch), Threads) + g[w] - Pending(ch)[w]
    BY <1>2, <1>5, ServerAssumption, TotalChange
  <1>7. Total(Pending(ch), Threads) \in Nat /\ Total(g, Threads) \in Nat
    BY <1>1, <1>3, ServerAssumption, TotalNat
  <1> QED
    BY <1>1, <1>2, <1>4, <1>6, <1>7

\* Deposits only grow and nothing returns to never having been opened.
Grows ==
  \A ch \in Channels :
    /\ agent[ch].deposit <= agent'[ch].deposit
    /\ agent[ch].status # "none" => agent'[ch].status # "none"
    /\ channel[ch].deposit <= channel'[ch].deposit
    /\ channel[ch].status # "none" => channel'[ch].status # "none"

LEMMA RequestsHold ==
  ASSUME MppInv, MppTypeOK', Grows, NEW w \in Threads, NEW new, RequestHolds(new)',
         mppReq' = [mppReq EXCEPT ![w] = new]
  PROVE  mppReq' \in [Threads -> MppRequest] /\ \A x \in Threads : RequestHolds(mppReq[x])'
PROOF
  <1>1. mppReq' \in [Threads -> MppRequest]
    BY DEF MppInv, RequestHolds
  <1>2. ASSUME NEW x \in Threads, x # w PROVE RequestHolds(mppReq[x])'
    <2>1. RequestHolds(mppReq[x]) /\ mppReq'[x] = mppReq[x]
      BY <1>2 DEF MppInv
    <2>2. PICK r : r = mppReq[x]
      OBVIOUS
    <2>3. r \in MppRequest
      BY <2>1, <2>2 DEF RequestHolds
    <2>4. CASE r.step = "idle"
      BY <2>1, <2>2, <2>4 DEF RequestHolds
    <2>5. CASE r.step # "idle"
      <3>1. r.ch \in Channels /\ channel[r.ch] \in ChannelRow /\ channel'[r.ch] \in ChannelRow
        BY <2>1, <2>2, <2>5 DEF RequestHolds, MppInv, MppTypeOK
      <3>2. agent[r.ch].deposit \in 0..MaxDeposit /\ agent'[r.ch].deposit \in 0..MaxDeposit
        BY <3>1 DEF MppInv, MppTypeOK
      <3>3. r.step \in {"open", "voucher", "topup", "topupWrite"} => r.amount \in 1..MaxDeposit
        BY <2>1, <2>2 DEF RequestHolds
      <3>4. r.step = "open" => agent'[r.ch].status # "none" /\ r.amount <= agent'[r.ch].deposit
        BY <2>1, <2>2, <3>1, <3>2, <3>3, MppAssumption DEF RequestHolds, Grows
      <3>5. r.step = "voucher" =>
              /\ r.row.spent < r.amount /\ r.amount <= r.row.deposit
              /\ r.row.deposit <= channel'[r.ch].deposit
        BY <2>1, <2>2, <2>3, <3>1 DEF RequestHolds, Grows, MppRequest, ChannelRow
      <3>6. r.step \in {"topup", "topupWrite"} => channel'[r.ch].status # "none"
        BY <2>1, <2>2, <3>1 DEF RequestHolds, Grows
      <3> QED
        BY <2>1, <2>2, <2>3, <3>1, <3>3, <3>4, <3>5, <3>6 DEF RequestHolds
    <2> QED
      BY <2>4, <2>5
  <1> QED
    BY <1>1, <1>2 DEF MppInv

\* A request that reads, or dies, leaves no more pending than before.
LEMMA RequestOnly ==
  ASSUME MppInv, UNCHANGED <<channel, agent, served>>, NEW w \in Threads, NEW new,
         mppReq' = [mppReq EXCEPT ![w] = new], RequestHolds(new),
         \A ch \in Channels : Adding(new, ch) <= Adding(mppReq[w], ch)
  PROVE  MppInv'
PROOF
  <1>1. MppTypeOK' /\ Grows
    BY MppAssumption DEF MppInv, MppTypeOK, Grows, ChannelRow
  <1>2. RequestHolds(new)'
    BY DEF RequestHolds
  <1>3. ASSUME NEW ch \in Channels PROVE ChannelHolds(ch)'
    <2>1. Adding(new, ch) \in Nat /\ Adding(mppReq[w], ch) \in Nat
      BY AddingType DEF MppInv
    <2>2. /\ Total(Pending(ch), Threads) \in Nat
          /\ Total(Pending(ch), Threads)' \in Nat
          /\ Total(Pending(ch), Threads)'
               = Total(Pending(ch), Threads) + Adding(new, ch) - Adding(mppReq[w], ch)
      BY <2>1, PendingChange
    <2>3. Total(Pending(ch), Threads)' <= Total(Pending(ch), Threads)
      BY <2>1, <2>2
    <2>4. channel[ch].deposit \in Nat /\ agent[ch].deposit \in Nat
      BY MppAssumption DEF MppInv, MppTypeOK, ChannelRow
    <2> QED
      BY <2>2, <2>3, <2>4 DEF MppInv, ChannelHolds
  <1> QED
    BY <1>1, <1>2, <1>3, RequestsHold DEF MppInv

LEMMA IdleHolds == RequestHolds(NoMppReq) /\ \A ch \in Channels : Adding(NoMppReq, ch) = 0
BY DEF RequestHolds, NoMppReq, MppRequest, ChannelRow, NoChannel, Adding

\* The reads of a request: its locals are what the row said.
LEMMA MppReads_Inv ==
  ASSUME MppInv, NEW w \in Threads,
         \/ \E ch \in Channels : \E c \in 1..MaxDeposit : VoucherRead(w, ch, c)
         \/ TopupRead(w) \/ CloseRead(w) \/ MppDies(w)
  PROVE  MppInv'
PROOF
  <1>0. UNCHANGED <<channel, agent, served>> /\ RequestHolds(mppReq[w])
    BY DEF VoucherRead, TopupRead, CloseRead, MppDies, MppInv
  <1>i. \A ch \in Channels : Adding(mppReq[w], ch) \in Nat
    BY <1>0, AddingType
  <1>1. ASSUME NEW ch \in Channels, NEW c \in 1..MaxDeposit, VoucherRead(w, ch, c) PROVE MppInv'
    <2> DEFINE new == [step |-> "voucher", ch |-> ch, amount |-> c, row |-> channel[ch]]
    <2>1. channel[ch] \in ChannelRow /\ c <= channel[ch].deposit /\ channel[ch].spent < c
      BY <1>1, MppAssumption DEF VoucherRead, MppInv, MppTypeOK, ChannelRow
    <2>2. new \in MppRequest
      BY <2>1, MppAssumption DEF MppRequest
    <2>3. RequestHolds(new)
      BY <2>1, <2>2 DEF RequestHolds, ChannelRow
    <2>4. mppReq' = [mppReq EXCEPT ![w] = new]
      BY <1>1 DEF VoucherRead, Become
    <2>5. \A x \in Channels : Adding(new, x) <= Adding(mppReq[w], x)
      BY <1>i DEF Adding
    <2> QED
      BY <1>0, <2>3, <2>4, <2>5, RequestOnly
  <1>2. CASE TopupRead(w) /\ channel[mppReq[w].ch].status = "open"
    <2> DEFINE r == mppReq[w]
               new == [r EXCEPT !.step = "topupWrite", !.row = channel[r.ch]]
    <2>1. r.ch \in Channels /\ r \in MppRequest /\ r.step = "topup" /\ channel[r.ch] \in ChannelRow
      BY <1>0, <1>2 DEF TopupRead, RequestHolds, MppInv, MppTypeOK
    <2>2. new \in MppRequest /\ new.step = "topupWrite" /\ new.ch = r.ch /\ new.amount = r.amount
      BY <2>1 DEF MppRequest
    <2>3. RequestHolds(new)
      BY <1>0, <2>1, <2>2 DEF RequestHolds
    <2>4. mppReq' = [mppReq EXCEPT ![w] = new]
      BY <1>2 DEF TopupRead, Become
    <2>5. \A x \in Channels : Adding(new, x) <= Adding(mppReq[w], x)
      <3>1. \A x \in Channels : Adding(new, x) = Adding(mppReq[w], x)
        BY <2>1, <2>2 DEF Adding
      <3> QED
        BY <1>i, <3>1
    <2> QED
      BY <1>0, <2>3, <2>4, <2>5, RequestOnly
  <1>3. CASE CloseRead(w)
    <2> DEFINE r == mppReq[w]
               new == [r EXCEPT !.step = "closeWrite", !.row = channel[r.ch]]
    <2>1. r.ch \in Channels /\ r \in MppRequest /\ r.step = "close" /\ channel[r.ch] \in ChannelRow
      BY <1>0, <1>3 DEF CloseRead, RequestHolds, MppInv, MppTypeOK
    <2>2. new \in MppRequest /\ new.step = "closeWrite" /\ new.ch = r.ch
      BY <2>1 DEF MppRequest
    <2>3. RequestHolds(new)
      BY <2>1, <2>2 DEF RequestHolds
    <2>4. mppReq' = [mppReq EXCEPT ![w] = new]
      BY <1>3 DEF CloseRead, Become
    <2>5. \A x \in Channels : Adding(new, x) <= Adding(mppReq[w], x)
      BY <1>i, <2>2 DEF Adding
    <2> QED
      BY <1>0, <2>3, <2>4, <2>5, RequestOnly
  <1>4. CASE mppReq' = [mppReq EXCEPT ![w] = NoMppReq]
    <2>1. \A x \in Channels : Adding(NoMppReq, x) <= Adding(mppReq[w], x)
      BY <1>i, IdleHolds
    <2> QED
      BY <1>0, <1>4, <2>1, IdleHolds, RequestOnly
  <1> QED
    BY <1>1, <1>2, <1>3, <1>4 DEF TopupRead, MppDies, Become

\* A step of one request on one channel: the others stay as they are.
LEMMA MppStep ==
  ASSUME MppInv, NEW w \in Threads, NEW c \in Channels, NEW new,
         mppReq' = [mppReq EXCEPT ![w] = new], RequestHolds(new)', Adding(new, c) \in Nat,
         MppTypeOK', Grows,
         \A x \in Channels \ {c} :
           /\ channel'[x] = channel[x] /\ agent'[x] = agent[x] /\ served'[x] = served[x]
           /\ Adding(new, x) = 0 /\ Adding(mppReq[w], x) = 0,
         \A T, P \in Nat :
           /\ T = Total(Pending(c), Threads)
           /\ P = Total(Pending(c), Threads)'
           /\ P = T + Adding(new, c) - Adding(mppReq[w], c)
           => ChannelHolds(c)'
  PROVE  MppInv'
PROOF
  <1>1. ASSUME NEW ch \in Channels
        PROVE  /\ Total(Pending(ch), Threads) \in Nat
               /\ Total(Pending(ch), Threads)' \in Nat
               /\ Total(Pending(ch), Threads)'
                    = Total(Pending(ch), Threads) + Adding(new, ch) - Adding(mppReq[w], ch)
    <2>1. Adding(new, ch) \in Nat
      OBVIOUS
    <2> QED
      BY <2>1, PendingChange
  <1>2. ChannelHolds(c)'
    BY <1>1
  <1>3. ASSUME NEW x \in Channels, x # c PROVE ChannelHolds(x)'
    <2>1. Total(Pending(x), Threads)' = Total(Pending(x), Threads)
      BY <1>1, <1>3
    <2> QED
      BY <1>3, <2>1 DEF MppInv, ChannelHolds
  <1> QED
    BY <1>2, <1>3, RequestsHold DEF MppInv

\* What a row and an agent's account are.
LEMMA MppRows ==
  ASSUME MppInv, NEW ch \in Channels
  PROVE  /\ channel[ch] \in ChannelRow /\ agent[ch].deposit \in 0..MaxDeposit
         /\ agent[ch] \in [status : {"none", "open", "closed"}, deposit : 0..MaxDeposit]
         /\ served[ch] \in 0..MaxDeposit
         /\ channel[ch].deposit \in Nat /\ channel[ch].spent \in Nat
         /\ agent[ch].deposit \in Nat /\ served[ch] \in Nat
         /\ ChannelHolds(ch)
BY MppAssumption DEF MppInv, MppTypeOK, ChannelRow

\* The agent opens a channel once: a deposit it did not hold comes when the
\* channel is nowhere, and a repetition names the deposit it holds.
LEMMA SaOpen_Inv ==
  ASSUME MppInv, NEW w \in Threads, NEW c \in Channels, SaOpen(w, c) PROVE MppInv'
PROOF
  <1>1. PICK d \in 1..MaxDeposit :
          /\ agent[c].status = "none" \/ agent[c].deposit = d
          /\ agent' = IF agent[c].status = "none"
                        THEN [agent EXCEPT ![c] = [status |-> "open", deposit |-> d]] ELSE agent
          /\ mppReq' = [mppReq EXCEPT ![w] = [NoMppReq EXCEPT !.step = "open", !.ch = c, !.amount = d]]
    BY DEF SaOpen, Become
  <1>0. PICK new : new = [NoMppReq EXCEPT !.step = "open", !.ch = c, !.amount = d]
    OBVIOUS
  <1>2. /\ new \in MppRequest /\ new.step = "open" /\ new.ch = c /\ new.amount = d
        /\ mppReq' = [mppReq EXCEPT ![w] = new]
    <2>1. d \in (0..MaxDeposit) \cup {None}
      BY MppAssumption
    <2> QED
      BY <1>1, <1>0, <2>1 DEF NoMppReq, MppRequest, ChannelRow, NoChannel
  <1>3. UNCHANGED <<channel, served>> /\ mppReq[w].step = "idle"
    BY DEF SaOpen
  <1>4. agent'[c].deposit = d /\ agent'[c].status # "none"
    BY <1>1, MppRows DEF MppInv, MppTypeOK
  <1>5. channel[c].deposit <= d
    <2>1. Total(Pending(c), Threads) \in Nat
      <3>1. \A x \in Threads : Pending(c)[x] \in Nat
        BY AddingType DEF MppInv, Pending
      <3> QED
        BY <3>1, ServerAssumption, TotalNat
    <2> QED
      BY <1>1, <2>1, MppRows, MppAssumption DEF ChannelHolds, NoChannel
  <1>6. MppTypeOK'
    BY <1>1, <1>3, MppAssumption DEF MppInv, MppTypeOK
  <1>7. Grows
    <2>1. \A x \in Channels \ {c} : agent'[x] = agent[x]
      BY <1>1 DEF MppInv, MppTypeOK
    <2>2. agent[c].deposit <= d
      BY <1>1, MppRows, MppAssumption DEF ChannelHolds
    <2> QED
      BY <1>3, <1>4, <2>1, <2>2, MppRows DEF Grows
  <1>8. RequestHolds(new)'
    BY <1>2, <1>4, MppAssumption DEF RequestHolds
  <1>9. \A x \in Channels : Adding(new, x) = 0 /\ Adding(mppReq[w], x) = 0
    BY <1>2, <1>3 DEF Adding
  <1>10. \A x \in Channels \ {c} :
           /\ channel'[x] = channel[x] /\ agent'[x] = agent[x] /\ served'[x] = served[x]
           /\ Adding(new, x) = 0 /\ Adding(mppReq[w], x) = 0
    <2>1. \A x \in Channels \ {c} : agent'[x] = agent[x]
      BY <1>1 DEF MppInv, MppTypeOK
    <2> QED
      BY <1>3, <1>9, <2>1
  <1>11. \A T, P \in Nat :
           /\ T = Total(Pending(c), Threads)
           /\ P = Total(Pending(c), Threads)'
           /\ P = T + Adding(new, c) - Adding(mppReq[w], c)
           => ChannelHolds(c)'
    <2> TAKE T, P \in Nat
    <2> HAVE /\ T = Total(Pending(c), Threads)
             /\ P = Total(Pending(c), Threads)'
             /\ P = T + Adding(new, c) - Adding(mppReq[w], c)
    <2>1. P = T
      BY <1>9
    <2>2. channel[c].deposit + T <= d
      BY <1>1, <1>5, MppRows, MppAssumption DEF ChannelHolds
    <2> QED
      BY <1>3, <1>4, <2>1, <2>2, MppRows DEF ChannelHolds
  <1>12. Adding(new, c) \in Nat
    BY <1>9
  <1> QED
    BY <1>2, <1>6, <1>7, <1>8, <1>10, <1>11, <1>12, MppStep

LEMMA NoRequestHolds == ASSUME MppInv PROVE RequestHolds(NoMppReq)'
BY DEF RequestHolds, NoMppReq, MppRequest, ChannelRow, NoChannel

\* A row begins with the deposit the receipt named, which the agent still holds.
LEMMA OpenWrite_Inv ==
  ASSUME MppInv, NEW w \in Threads, OpenWrite(w) PROVE MppInv'
PROOF
  <1>0. PICK c : c = mppReq[w].ch
    OBVIOUS
  <1>1. /\ c \in Channels /\ mppReq[w].step = "open" /\ mppReq[w].amount \in 1..MaxDeposit
        /\ agent[c].status # "none" /\ mppReq[w].amount <= agent[c].deposit
    BY <1>0 DEF OpenWrite, MppInv, RequestHolds
  <1>2. UNCHANGED <<agent, served>> /\ mppReq' = [mppReq EXCEPT ![w] = NoMppReq]
    BY DEF OpenWrite, Become
  <1>3. \A x \in Channels : Adding(NoMppReq, x) = 0 /\ Adding(mppReq[w], x) = 0
    BY <1>1, IdleHolds DEF Adding
  <1>4. CASE channel[c].status # "none"
    <2>1. UNCHANGED channel
      BY <1>0, <1>4 DEF OpenWrite
    <2>2. \A x \in Channels : Adding(NoMppReq, x) <= Adding(mppReq[w], x)
      BY <1>3
    <2> QED
      BY <1>2, <2>1, <2>2, IdleHolds, RequestOnly
  <1>5. CASE channel[c].status = "none"
    <2>1. PICK row : row = [status |-> "open", deposit |-> mppReq[w].amount, spent |-> 0]
      OBVIOUS
    <2>2. channel' = [channel EXCEPT ![c] = row] /\ row \in ChannelRow
      BY <1>0, <1>1, <1>5, <2>1, MppAssumption DEF OpenWrite, ChannelRow
    <2>3. MppTypeOK'
      BY <1>1, <1>2, <2>2 DEF MppInv, MppTypeOK
    <2>4. Grows
      BY <1>1, <1>2, <1>5, <2>1, <2>2, MppRows, MppAssumption
      DEF Grows, MppInv, MppTypeOK, ChannelHolds, NoChannel
    <2>5. \A x \in Channels \ {c} :
           /\ channel'[x] = channel[x] /\ agent'[x] = agent[x] /\ served'[x] = served[x]
           /\ Adding(NoMppReq, x) = 0 /\ Adding(mppReq[w], x) = 0
      BY <1>2, <1>3, <2>2 DEF MppInv, MppTypeOK
    <2>6. \A T, P \in Nat :
           /\ T = Total(Pending(c), Threads)
           /\ P = Total(Pending(c), Threads)'
           /\ P = T + Adding(NoMppReq, c) - Adding(mppReq[w], c)
           => ChannelHolds(c)'
      <3> TAKE T, P \in Nat
      <3> HAVE /\ T = Total(Pending(c), Threads)
               /\ P = Total(Pending(c), Threads)'
               /\ P = T + Adding(NoMppReq, c) - Adding(mppReq[w], c)
      <3>1. P = T /\ T = 0
        BY <1>1, <1>3, <1>5, MppRows DEF ChannelHolds
      <3>2. channel'[c] = row /\ row.deposit = mppReq[w].amount /\ row.spent = 0
        BY <1>1, <2>1, <2>2 DEF MppInv, MppTypeOK
      <3>3. served[c] = 0
        BY <1>1, <1>5, MppRows DEF ChannelHolds
      <3> QED
        BY <1>1, <1>2, <2>1, <3>1, <3>2, <3>3, MppAssumption DEF ChannelHolds
    <2>7. Adding(NoMppReq, c) \in Nat
      BY <1>1, IdleHolds
    <2> QED
      BY <1>1, <1>2, <2>3, <2>4, <2>5, <2>6, <2>7, NoRequestHolds, MppStep
  <1> QED
    BY <1>4, <1>5

\* The spend moves from the value that was read to the voucher's, and the unit
\* is served for it: a voucher that lost the race changes nothing.
LEMMA VoucherWrite_Inv ==
  ASSUME MppInv, NEW w \in Threads, VoucherWrite(w) PROVE MppInv'
PROOF
  <1>0. PICK c : c = mppReq[w].ch
    OBVIOUS
  <1>1. PICK r : r = mppReq[w] /\ r.ch = c
    BY <1>0
  <1>2. /\ c \in Channels /\ r.step = "voucher" /\ r.amount \in 1..MaxDeposit /\ r.row \in ChannelRow
        /\ r.row.spent < r.amount /\ r.amount <= r.row.deposit /\ r.row.deposit <= channel[c].deposit
    BY <1>1 DEF VoucherWrite, MppInv, RequestHolds, MppRequest
  <1>3. UNCHANGED agent /\ mppReq' = [mppReq EXCEPT ![w] = NoMppReq]
    BY DEF VoucherWrite, Become
  <1>4. \A x \in Channels : Adding(NoMppReq, x) = 0 /\ Adding(mppReq[w], x) = 0
    BY <1>1, <1>2, IdleHolds DEF Adding
  <1>5. CASE UNCHANGED <<channel, served>>
    <2>1. \A x \in Channels : Adding(NoMppReq, x) <= Adding(mppReq[w], x)
      BY <1>4
    <2> QED
      BY <1>3, <1>5, <2>1, IdleHolds, RequestOnly
  <1>6. CASE /\ channel[c].status = "open" /\ channel[c].spent = r.row.spent
             /\ channel' = [channel EXCEPT ![c].spent = r.amount]
             /\ served' = [served EXCEPT ![c] = IF r.amount > @ THEN r.amount ELSE @]
    <2>1. /\ channel'[c].status = "open" /\ channel'[c].spent = r.amount
          /\ channel'[c].deposit = channel[c].deposit
          /\ channel' \in [Channels -> ChannelRow]
          /\ \A x \in Channels \ {c} : channel'[x] = channel[x]
      BY <1>2, <1>6, MppAssumption DEF MppInv, MppTypeOK, ChannelRow
    <2>2. served'[c] = r.amount /\ \A x \in Channels \ {c} : served'[x] = served[x]
      BY <1>2, <1>6, MppRows, MppAssumption DEF MppInv, MppTypeOK, ChannelHolds, ChannelRow
    <2>3. served' \in [Channels -> 0..MaxDeposit]
      BY <1>2, <1>6, MppAssumption DEF MppInv, MppTypeOK
    <2>4. MppTypeOK'
      BY <1>3, <2>1, <2>3 DEF MppInv, MppTypeOK
    <2>5. Grows
      BY <1>2, <1>3, <1>6, <2>1, MppRows DEF Grows
    <2>6. \A x \in Channels \ {c} :
           /\ channel'[x] = channel[x] /\ agent'[x] = agent[x] /\ served'[x] = served[x]
           /\ Adding(NoMppReq, x) = 0 /\ Adding(mppReq[w], x) = 0
      BY <1>3, <1>4, <2>1, <2>2
    <2>7. \A T, P \in Nat :
           /\ T = Total(Pending(c), Threads)
           /\ P = Total(Pending(c), Threads)'
           /\ P = T + Adding(NoMppReq, c) - Adding(mppReq[w], c)
           => ChannelHolds(c)'
      <3> TAKE T, P \in Nat
      <3> HAVE /\ T = Total(Pending(c), Threads)
               /\ P = Total(Pending(c), Threads)'
               /\ P = T + Adding(NoMppReq, c) - Adding(mppReq[w], c)
      <3>1. P = T
        BY <1>2, <1>4
      <3>2. r.amount <= channel[c].deposit
        BY <1>2, MppRows, MppAssumption DEF ChannelRow
      <3> QED
        BY <1>2, <1>3, <1>6, <2>1, <2>2, <3>1, <3>2, MppRows DEF ChannelHolds
    <2>8. Adding(NoMppReq, c) \in Nat
      BY <1>2, IdleHolds
    <2> QED
      BY <1>2, <1>3, <2>4, <2>5, <2>6, <2>7, <2>8, NoRequestHolds, MppStep
  <1> QED
    BY <1>1, <1>5, <1>6 DEF VoucherWrite

\* The agent takes a top-up first: from here on it is pending.
LEMMA SaTopup_Inv ==
  ASSUME MppInv, NEW w \in Threads, NEW c \in Channels, NEW add \in 1..MaxDeposit,
         SaTopup(w, c, add)
  PROVE  MppInv'
PROOF
  <1>0. PICK new : new = [NoMppReq EXCEPT !.step = "topup", !.ch = c, !.amount = add]
    OBVIOUS
  <1>1. /\ new \in MppRequest /\ new.step = "topup" /\ new.ch = c /\ new.amount = add
        /\ mppReq' = [mppReq EXCEPT ![w] = new]
    <2>1. add \in (0..MaxDeposit) \cup {None}
      BY MppAssumption
    <2> QED
      BY <1>0, <2>1 DEF SaTopup, Become, NoMppReq, MppRequest, ChannelRow, NoChannel
  <1>2. /\ mppReq[w].step = "idle" /\ channel[c].status # "none" /\ agent[c].status = "open"
        /\ agent[c].deposit + add <= MaxDeposit /\ UNCHANGED <<channel, served>>
        /\ agent' = [agent EXCEPT ![c].deposit = @ + add]
    BY DEF SaTopup
  <1>3. agent'[c].status = "open" /\ agent'[c].deposit = agent[c].deposit + add
    BY <1>2, MppRows DEF MppInv, MppTypeOK
  <1>4. \A x \in Channels \ {c} : agent'[x] = agent[x]
    BY <1>2 DEF MppInv, MppTypeOK
  <1>5. MppTypeOK'
    <2>1. agent[c].deposit + add \in 0..MaxDeposit
      BY <1>2, MppRows, MppAssumption
    <2> QED
      BY <1>2, <2>1 DEF MppInv, MppTypeOK
  <1>6. Grows
    BY <1>2, <1>3, <1>4, MppRows, MppAssumption DEF Grows
  <1>7. RequestHolds(new)'
    BY <1>1, <1>2 DEF RequestHolds
  <1>8. Adding(new, c) = add /\ Adding(mppReq[w], c) = 0
    BY <1>1, <1>2 DEF Adding
  <1>9. \A x \in Channels \ {c} :
           /\ channel'[x] = channel[x] /\ agent'[x] = agent[x] /\ served'[x] = served[x]
           /\ Adding(new, x) = 0 /\ Adding(mppReq[w], x) = 0
    BY <1>1, <1>2, <1>4 DEF Adding
  <1>10. \A T, P \in Nat :
           /\ T = Total(Pending(c), Threads)
           /\ P = Total(Pending(c), Threads)'
           /\ P = T + Adding(new, c) - Adding(mppReq[w], c)
           => ChannelHolds(c)'
    <2> TAKE T, P \in Nat
    <2> HAVE /\ T = Total(Pending(c), Threads)
             /\ P = Total(Pending(c), Threads)'
             /\ P = T + Adding(new, c) - Adding(mppReq[w], c)
    <2>1. P = T + add
      BY <1>8
    <2> QED
      BY <1>2, <1>3, <2>1, MppRows, MppAssumption DEF ChannelHolds
  <1>11. Adding(new, c) \in Nat
    BY <1>8, MppAssumption
  <1> QED
    BY <1>1, <1>5, <1>6, <1>7, <1>9, <1>10, <1>11, MppStep

\* The local deposit takes in the top-up, unless another one was first: either
\* way nothing of this request is pending any more.
LEMMA TopupWrite_Inv ==
  ASSUME MppInv, NEW w \in Threads, TopupWrite(w) PROVE MppInv'
PROOF
  <1>0. PICK c : c = mppReq[w].ch
    OBVIOUS
  <1>1. PICK r : r = mppReq[w] /\ r.ch = c
    BY <1>0
  <1>2. /\ c \in Channels /\ r.step = "topupWrite" /\ r.amount \in 1..MaxDeposit
    BY <1>1 DEF TopupWrite, MppInv, RequestHolds, MppRequest
  <1>3. UNCHANGED <<agent, served>> /\ mppReq' = [mppReq EXCEPT ![w] = NoMppReq]
    BY DEF TopupWrite, Become
  <1>4. /\ Adding(NoMppReq, c) = 0 /\ Adding(mppReq[w], c) = r.amount
        /\ \A x \in Channels \ {c} : Adding(NoMppReq, x) = 0 /\ Adding(mppReq[w], x) = 0
    BY <1>1, <1>2, IdleHolds DEF Adding
  <1>5. CASE UNCHANGED channel
    <2>1. \A x \in Channels : Adding(NoMppReq, x) <= Adding(mppReq[w], x)
      BY <1>2, <1>4, MppAssumption
    <2> QED
      BY <1>3, <1>5, <2>1, IdleHolds, RequestOnly
  <1>6. CASE /\ channel[c].status = "open" /\ channel[c].deposit = r.row.deposit
             /\ channel' = [channel EXCEPT ![c].deposit = r.row.deposit + r.amount]
    <2>1. /\ channel'[c].status = "open" /\ channel'[c].spent = channel[c].spent
          /\ channel'[c].deposit = channel[c].deposit + r.amount
          /\ channel' \in [Channels -> ChannelRow]
          /\ \A x \in Channels \ {c} : channel'[x] = channel[x]
      BY <1>2, <1>6, MppAssumption DEF MppInv, MppTypeOK, ChannelRow
    <2>2. MppTypeOK'
      BY <1>3, <2>1 DEF MppInv, MppTypeOK
    <2>3. Grows
      BY <1>2, <1>3, <1>6, <2>1, MppRows, MppAssumption DEF Grows
    <2>4. \A x \in Channels \ {c} :
           /\ channel'[x] = channel[x] /\ agent'[x] = agent[x] /\ served'[x] = served[x]
           /\ Adding(NoMppReq, x) = 0 /\ Adding(mppReq[w], x) = 0
      BY <1>3, <1>4, <2>1
    <2>5. \A T, P \in Nat :
           /\ T = Total(Pending(c), Threads)
           /\ P = Total(Pending(c), Threads)'
           /\ P = T + Adding(NoMppReq, c) - Adding(mppReq[w], c)
           => ChannelHolds(c)'
      <3> TAKE T, P \in Nat
      <3> HAVE /\ T = Total(Pending(c), Threads)
               /\ P = Total(Pending(c), Threads)'
               /\ P = T + Adding(NoMppReq, c) - Adding(mppReq[w], c)
      <3>1. P = T - r.amount
        BY <1>2, <1>4, MppAssumption
      <3> QED
        BY <1>2, <1>3, <1>6, <2>1, <3>1, MppRows, MppAssumption DEF ChannelHolds
    <2>6. Adding(NoMppReq, c) \in Nat
      BY <1>4
    <2> QED
      BY <1>2, <1>3, <2>2, <2>3, <2>4, <2>5, <2>6, NoRequestHolds, MppStep
  <1> QED
    BY <1>1, <1>5, <1>6 DEF TopupWrite

\* The agent settles: it keeps the deposit and the channel stays opened.
LEMMA SaClose_Inv ==
  ASSUME MppInv, NEW w \in Threads, NEW c \in Channels, NEW f \in {None} \cup 0..MaxDeposit,
         SaClose(w, c, f)
  PROVE  MppInv'
PROOF
  <1>0. PICK new : new = [NoMppReq EXCEPT !.step = "close", !.ch = c, !.amount = f]
    OBVIOUS
  <1>1. /\ new \in MppRequest /\ new.step = "close" /\ new.ch = c
        /\ mppReq' = [mppReq EXCEPT ![w] = new]
    BY <1>0 DEF SaClose, Become, NoMppReq, MppRequest, ChannelRow, NoChannel
  <1>2. /\ mppReq[w].step = "idle" /\ agent[c].status # "none" /\ UNCHANGED <<channel, served>>
        /\ agent' = [agent EXCEPT ![c].status = "closed"]
    BY DEF SaClose
  <1>3. agent'[c].status = "closed" /\ agent'[c].deposit = agent[c].deposit
    BY <1>2, MppRows DEF MppInv, MppTypeOK
  <1>4. \A x \in Channels \ {c} : agent'[x] = agent[x]
    BY <1>2 DEF MppInv, MppTypeOK
  <1>5. MppTypeOK'
    BY <1>2 DEF MppInv, MppTypeOK
  <1>6. Grows
    BY <1>2, <1>3, <1>4, MppRows DEF Grows
  <1>7. RequestHolds(new)'
    BY <1>1 DEF RequestHolds
  <1>8. Adding(new, c) = 0 /\ Adding(mppReq[w], c) = 0
    BY <1>1, <1>2 DEF Adding
  <1>9. \A x \in Channels \ {c} :
           /\ channel'[x] = channel[x] /\ agent'[x] = agent[x] /\ served'[x] = served[x]
           /\ Adding(new, x) = 0 /\ Adding(mppReq[w], x) = 0
    BY <1>1, <1>2, <1>4 DEF Adding
  <1>10. \A T, P \in Nat :
           /\ T = Total(Pending(c), Threads)
           /\ P = Total(Pending(c), Threads)'
           /\ P = T + Adding(new, c) - Adding(mppReq[w], c)
           => ChannelHolds(c)'
    <2> TAKE T, P \in Nat
    <2> HAVE /\ T = Total(Pending(c), Threads)
             /\ P = Total(Pending(c), Threads)'
             /\ P = T + Adding(new, c) - Adding(mppReq[w], c)
    <2>1. P = T
      BY <1>8
    <2> QED
      BY <1>2, <1>3, <2>1, MppRows DEF ChannelHolds
  <1>11. Adding(new, c) \in Nat
    BY <1>8
  <1> QED
    BY <1>1, <1>5, <1>6, <1>7, <1>9, <1>10, <1>11, MppStep

\* A closed row keeps its deposit; its spend is no longer compared.
LEMMA CloseWrite_Inv ==
  ASSUME MppInv, NEW w \in Threads, CloseWrite(w) PROVE MppInv'
PROOF
  <1>0. PICK c : c = mppReq[w].ch
    OBVIOUS
  <1>1. PICK r : r = mppReq[w] /\ r.ch = c
    BY <1>0
  <1>2. /\ c \in Channels /\ r.step = "closeWrite" /\ r \in MppRequest
    BY <1>1 DEF CloseWrite, MppInv, RequestHolds, MppRequest
  <1>3. UNCHANGED <<agent, served>> /\ mppReq' = [mppReq EXCEPT ![w] = NoMppReq]
    BY DEF CloseWrite, Become
  <1>4. \A x \in Channels : Adding(NoMppReq, x) = 0 /\ Adding(mppReq[w], x) = 0
    BY <1>1, <1>2, IdleHolds DEF Adding
  <1>5. CASE UNCHANGED channel
    <2>1. \A x \in Channels : Adding(NoMppReq, x) <= Adding(mppReq[w], x)
      BY <1>4
    <2> QED
      BY <1>3, <1>5, <2>1, IdleHolds, RequestOnly
  <1>6. CASE channel[c].status = "open"
    <2>1. PICK s \in Nat :
            channel' = [channel EXCEPT ![c].status = "closed", ![c].spent = s]
      <3>1. channel[c].spent \in Nat /\ r.row.spent \in Nat
        BY <1>2, MppRows DEF MppRequest, ChannelRow
      <3>2. r.amount # None => r.amount \in Nat
        BY <1>2, MppAssumption DEF MppRequest
      <3>3. CASE r.amount = None
        BY <1>1, <1>2, <1>6, <3>1, <3>3 DEF CloseWrite, MppInv, MppTypeOK
      <3>4. CASE r.amount # None
        BY <1>1, <1>2, <1>6, <3>1, <3>2, <3>4 DEF CloseWrite, MppInv, MppTypeOK
      <3> QED
        BY <3>3, <3>4
    <2>2. /\ channel'[c].status = "closed" /\ channel'[c].deposit = channel[c].deposit
          /\ channel' \in [Channels -> ChannelRow]
          /\ \A x \in Channels \ {c} : channel'[x] = channel[x]
      BY <1>2, <2>1 DEF MppInv, MppTypeOK, ChannelRow
    <2>3. MppTypeOK'
      BY <1>3, <2>2 DEF MppInv, MppTypeOK
    <2>4. Grows
      BY <1>2, <1>3, <2>2, MppRows DEF Grows
    <2>5. \A x \in Channels \ {c} :
           /\ channel'[x] = channel[x] /\ agent'[x] = agent[x] /\ served'[x] = served[x]
           /\ Adding(NoMppReq, x) = 0 /\ Adding(mppReq[w], x) = 0
      BY <1>3, <1>4, <2>2
    <2>6. \A T, P \in Nat :
           /\ T = Total(Pending(c), Threads)
           /\ P = Total(Pending(c), Threads)'
           /\ P = T + Adding(NoMppReq, c) - Adding(mppReq[w], c)
           => ChannelHolds(c)'
      <3> TAKE T, P \in Nat
      <3> HAVE /\ T = Total(Pending(c), Threads)
               /\ P = Total(Pending(c), Threads)'
               /\ P = T + Adding(NoMppReq, c) - Adding(mppReq[w], c)
      <3>1. P = T
        BY <1>2, <1>4
      <3> QED
        BY <1>2, <1>3, <1>6, <2>2, <3>1, MppRows DEF ChannelHolds
    <2>7. Adding(NoMppReq, c) \in Nat
      BY <1>2, IdleHolds
    <2> QED
      BY <1>2, <1>3, <2>3, <2>4, <2>5, <2>6, <2>7, NoRequestHolds, MppStep
  <1> QED
    BY <1>0, <1>5, <1>6 DEF CloseWrite

LEMMA MppInit_Inv == ASSUME MppInit PROVE MppInv
PROOF
  <1>1. MppTypeOK
    BY MppAssumption DEF MppInit, MppTypeOK, ChannelRow, NoChannel
  <1>2. mppReq \in [Threads -> MppRequest] /\ \A w \in Threads : mppReq[w] = NoMppReq
    BY DEF MppInit, MppRequest, NoMppReq, ChannelRow, NoChannel
  <1>3. \A w \in Threads : RequestHolds(mppReq[w])
    BY <1>2, IdleHolds
  <1>4. ASSUME NEW ch \in Channels PROVE ChannelHolds(ch)
    <2>1. \A w \in Threads : Pending(ch)[w] = 0
      BY <1>2, IdleHolds DEF Pending
    <2>2. Total(Pending(ch), Threads) = 0
      BY <2>1, ServerAssumption, TotalZero
    <2> QED
      BY <2>2 DEF MppInit, ChannelHolds, NoChannel
  <1> QED
    BY <1>1, <1>2, <1>3, <1>4 DEF MppInv

LEMMA MppNext_Inv == ASSUME MppInv, [MppNext]_mppVars PROVE MppInv'
PROOF
  <1>1. CASE UNCHANGED mppVars
    <2>1. MppTypeOK' /\ mppReq' \in [Threads -> MppRequest]
      BY <1>1 DEF mppVars, MppInv, MppTypeOK
    <2>2. \A w \in Threads : RequestHolds(mppReq[w])'
      BY <1>1 DEF mppVars, MppInv, RequestHolds
    <2>3. \A ch \in Channels : Total(Pending(ch), Threads)' = Total(Pending(ch), Threads)
      BY <1>1 DEF mppVars, Pending
    <2>4. \A ch \in Channels : ChannelHolds(ch)'
      BY <1>1, <2>3 DEF mppVars, MppInv, ChannelHolds
    <2> QED
      BY <2>1, <2>2, <2>4 DEF MppInv
  <1>2. CASE MppNext
    BY <1>2, SaOpen_Inv, OpenWrite_Inv, MppReads_Inv, VoucherWrite_Inv, SaTopup_Inv,
       TopupWrite_Inv, SaClose_Inv, CloseWrite_Inv DEF MppNext
  <1> QED
    BY <1>1, <1>2

LEMMA MppInv_Served == ASSUME MppInv PROVE SpendIsServed
PROOF
  <1> SUFFICES ASSUME NEW ch \in Channels
               PROVE  /\ channel[ch].deposit <= agent[ch].deposit
                      /\ channel[ch].status = "open" =>
                           channel[ch].spent = served[ch] /\ channel[ch].spent <= channel[ch].deposit
    BY DEF SpendIsServed
  <1>1. Total(Pending(ch), Threads) \in Nat
    <2>1. \A w \in Threads : Pending(ch)[w] \in Nat
      BY AddingType DEF MppInv, Pending
    <2> QED
      BY <2>1, ServerAssumption, TotalNat
  <1> QED
    BY <1>1, MppRows DEF ChannelHolds

\* While a channel is open its spend is what was served for, within a deposit
\* the settlement agent holds: for any number of channels and of requests that
\* open, top up, pay and close them at once.
THEOREM SpendServed == MppSpec => []SpendIsServed
PROOF
  <1>1. MppInv /\ [MppNext]_mppVars => MppInv'
    BY MppNext_Inv
  <1> QED
    BY <1>1, MppInit_Inv, MppInv_Served, PTL DEF MppSpec

-----------------------------------------------------------------------------
(* Subscriptions *)

\* A request that may write an order holds a signature that was charged.
SubLocals ==
  \A w \in Threads :
    /\ subReq[w].step # "idle" => subReq[w].sig \in TermsSigs
    /\ subReq[w].step = "fulfill" => subReq[w].sig \in charged

SubInv == SubscriptionsTypeOK /\ SubLocals /\ SubscriptionBacked /\ inline \in [TermsSigs -> Nat]

LEMMA SubscriptionsInit_Inv == ASSUME SubscriptionsInit PROVE SubInv
BY DEF SubscriptionsInit, SubInv, SubscriptionsTypeOK, SubLocals, SubscriptionBacked, NoSubReq

LEMMA SubscriptionsNext_Inv ==
  ASSUME SubInv, [SubscriptionsNext]_subVars PROVE SubInv'
PROOF
  <1> USE DEF SubInv, SubscriptionsTypeOK, NoSubReq
  <1>1. ASSUME NEW w \in Threads, NEW sig \in TermsSigs, Subscribe(w, sig) PROVE SubInv'
    <2>1. UNCHANGED <<charged, subOrder, inline>>
      BY <1>1 DEF Subscribe
    <2>2. CASE UNCHANGED subReq
      BY <2>1, <2>2 DEF SubLocals, SubscriptionBacked
    <2>3. CASE subReq' = [subReq EXCEPT ![w] = [step |-> "settle", sig |-> sig, paid |-> FALSE]]
      BY <2>1, <2>3 DEF SubLocals, SubscriptionBacked
    <2> QED
      BY <1>1, <2>2, <2>3 DEF Subscribe
  <1>2. ASSUME NEW w \in Threads, SettleSub(w) PROVE SubInv'
    <2>1. UNCHANGED <<subOrder, inline>> /\ subReq[w].step = "settle" /\ subReq[w].sig \in TermsSigs
      BY <1>2 DEF SettleSub, SubLocals
    <2>2. CASE /\ charged' = charged \cup {subReq[w].sig}
               /\ subReq' = [subReq EXCEPT ![w].step = "fulfill", ![w].paid = TRUE]
      BY <2>1, <2>2 DEF SubLocals, SubscriptionBacked
    <2>3. CASE subReq' = [subReq EXCEPT ![w] = NoSubReq] /\ UNCHANGED charged
      BY <2>1, <2>3 DEF SubLocals, SubscriptionBacked
    <2> QED
      BY <1>2, <2>2, <2>3 DEF SettleSub
  <1>3. ASSUME NEW w \in Threads, FulfillSub(w) PROVE SubInv'
    <2>1. PICK sig \in TermsSigs : sig = subReq[w].sig /\ sig \in charged
      BY <1>3 DEF FulfillSub, SubLocals
    <2>2. /\ subOrder' = [subOrder EXCEPT ![sig] = TRUE]
          /\ inline' = [inline EXCEPT ![sig] = IF subOrder[sig] THEN @ ELSE @ + 1]
          /\ subReq' = [subReq EXCEPT ![w] = NoSubReq] /\ UNCHANGED charged
      BY <1>3, <2>1 DEF FulfillSub
    <2>3. SubscriptionsTypeOK' /\ inline' \in [TermsSigs -> Nat]
      BY <2>2
    <2>4. SubLocals'
      BY <2>2 DEF SubLocals
    <2>5. \A s \in TermsSigs : subOrder[s] \in BOOLEAN /\ inline[s] = IF subOrder[s] THEN 1 ELSE 0
      BY DEF SubscriptionBacked
    <2>6. inline'[sig] = 1 /\ subOrder'[sig] = TRUE
      BY <2>2, <2>5
    <2>7. \A s \in TermsSigs \ {sig} : inline'[s] = inline[s] /\ subOrder'[s] = subOrder[s]
      BY <2>2
    <2>8. SubscriptionBacked'
      BY <2>1, <2>2, <2>6, <2>7 DEF SubscriptionBacked
    <2> QED
      BY <2>3, <2>4, <2>8
  <1>4. ASSUME NEW w \in Threads, SubDies(w) PROVE SubInv'
    BY <1>4 DEF SubDies, SubLocals, SubscriptionBacked
  <1>5. CASE UNCHANGED subVars
    BY <1>5 DEF subVars, SubLocals, SubscriptionBacked
  <1> QED
    BY <1>1, <1>2, <1>3, <1>4, <1>5 DEF SubscriptionsNext

\* Every subscription order is for a signature the facilitator charged, and its
\* goods leave inline once, whichever of the racing requests writes it.
THEOREM SubscriptionsBacked == SubscriptionsSpec => []SubscriptionBacked
PROOF
  <1>1. SubInv /\ [SubscriptionsNext]_subVars => SubInv'
    BY SubscriptionsNext_Inv
  <1>2. SubInv => SubscriptionBacked
    BY DEF SubInv
  <1> QED
    BY <1>1, <1>2, SubscriptionsInit_Inv, PTL DEF SubscriptionsSpec

=============================================================================
