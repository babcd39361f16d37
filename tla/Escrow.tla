------------------------------- MODULE Escrow -------------------------------
(***************************************************************************)
(* Commissioned jobs (app/escrow.py): a job walks from open to completed   *)
(* on two on-chain transfers the server verifies but never sends, the      *)
(* buyer's deposit and the holder's release.  Funding and releasing read   *)
(* the job, ask the chain, and then update it conditionally.               *)
(*                                                                         *)
(* Abstractions: the wallets are a buyer, a holder, the provider, which is *)
(* the store's pay_to, and an evaluator; a transaction carries one         *)
(* transfer; dispute and cancel have no way back.                          *)
(***************************************************************************)
EXTENDS Server

CONSTANTS
  Jobs, EscrowTxs,
  Budgets           \* budget_micro of a job

ASSUME EscrowAssumption == Budgets \subseteq Nat \ {0} /\ None \notin Jobs \cup EscrowTxs

VARIABLES
  job,       \* commission_jobs
  transfer,  \* the chain: the transfer of each transaction, or NoTransfer
  escReq     \* locals of the fund and release requests in flight

escrowVars == <<job, transfer, escReq>>

-----------------------------------------------------------------------------

Wallets == {"buyer", "holder", "provider", "evaluator"}

JobStatus == {"none", "open", "budget_set", "funded", "submitted", "completed",
              "disputed", "cancelled"}

JobRow == [status : JobStatus, buyer : Wallets, evaluator : {None, "evaluator"},
           budget : Nat, holder : Wallets, funded : EscrowTxs \cup {None},
           fundedBlock : Nat, released : EscrowTxs \cup {None}]

NoJob == [status |-> "none", buyer |-> "buyer", evaluator |-> None, budget |-> 0,
          holder |-> "holder", funded |-> None, fundedBlock |-> 0, released |-> None]

NoTransfer == [from |-> None, to |-> None, value |-> 0, block |-> 0]

NoEscReq == [step |-> "idle", job |-> None, tx |-> None]

\* The conditional UPDATE: a job that left `from` meanwhile is not moved.
EscTransition(j, from, new) ==
  job' = IF job[j].status \in from THEN [job EXCEPT ![j] = new] ELSE job

\* An action of one transaction, taken by a wallet the code asks for.
Party(caller, required) == caller \in required

CreateJob(j) ==
  /\ job[j].status = "none"
  /\ \E b \in {"buyer", "holder"}, e \in {None, "evaluator"} :
       job' = [job EXCEPT ![j] = [NoJob EXCEPT !.status = "open", !.buyer = b, !.evaluator = e]]
  /\ UNCHANGED <<transfer, escReq>>

SetBudget(j, caller) ==
  /\ Party(caller, {job[j].buyer}) /\ job[j].status = "open"
  /\ \E m \in Budgets, h \in {"holder", "provider"} :
       EscTransition(j, {"open"}, [job[j] EXCEPT !.status = "budget_set", !.budget = m, !.holder = h])
  /\ UNCHANGED <<transfer, escReq>>

\* _verify_transfer(): succeeded, between these wallets, exactly the budget,
\* and not before the block it must follow.
Verified(tx, from, to, amount, minBlock) ==
  /\ transfer[tx].from = from /\ transfer[tx].to = to
  /\ transfer[tx].value = amount /\ transfer[tx].block >= minBlock

\* The route reads the job and looks the hash up before it calls the chain.
FundRead(w, j, tx, caller) ==
  /\ escReq[w].step = "idle" /\ transfer[tx] # NoTransfer
  /\ Party(caller, {job[j].buyer}) /\ job[j].status = "budget_set"
  /\ \A k \in Jobs : job[k].funded # tx
  /\ escReq' = [escReq EXCEPT ![w] = [step |-> "fund", job |-> j, tx |-> tx]]
  /\ UNCHANGED <<job, transfer>>

\* Mutant of FundWrite: the unique index on funded_tx is missing.
FundWriteTwice(w) ==
  LET r == escReq[w]  j == r.job IN
  /\ r.step = "fund"
  /\ IF Verified(r.tx, job[j].buyer, job[j].holder, job[j].budget, 0)
       THEN EscTransition(j, {"budget_set"}, [job[j] EXCEPT !.status = "funded",
              !.funded = r.tx, !.fundedBlock = transfer[r.tx].block])
       ELSE UNCHANGED job
  /\ escReq' = [escReq EXCEPT ![w] = NoEscReq]
  /\ UNCHANGED transfer

\* The deposit is verified and recorded, unless another job took the hash.
FundWrite(w) ==
  LET r == escReq[w]  j == r.job IN
  /\ r.step = "fund"
  /\ IF /\ Verified(r.tx, job[j].buyer, job[j].holder, job[j].budget, 0)
        /\ \A k \in Jobs : job[k].funded # r.tx
       THEN EscTransition(j, {"budget_set"}, [job[j] EXCEPT !.status = "funded",
              !.funded = r.tx, !.fundedBlock = transfer[r.tx].block])
       ELSE UNCHANGED job
  /\ escReq' = [escReq EXCEPT ![w] = NoEscReq]
  /\ UNCHANGED transfer

\* The provider's work, screened before it is stored.
SubmitWork(j, caller) ==
  /\ Party(caller, {"provider"}) /\ job[j].status = "funded"
  /\ EscTransition(j, {"funded"}, [job[j] EXCEPT !.status = "submitted"])
  /\ UNCHANGED <<transfer, escReq>>

ReleaseRead(w, j, tx, caller) ==
  /\ escReq[w].step = "idle" /\ transfer[tx] # NoTransfer
  /\ Party(caller, IF job[j].evaluator # None THEN {job[j].evaluator} ELSE {job[j].buyer})
  /\ job[j].status = "submitted"
  /\ \A k \in Jobs : job[k].released # tx
  /\ escReq' = [escReq EXCEPT ![w] = [step |-> "release", job |-> j, tx |-> tx]]
  /\ UNCHANGED <<job, transfer>>

ReleaseWrite(w) ==
  LET r == escReq[w]  j == r.job IN
  /\ r.step = "release"
  /\ IF /\ Verified(r.tx, job[j].holder, "provider", job[j].budget, job[j].fundedBlock)
        /\ \A k \in Jobs : job[k].released # r.tx
       THEN EscTransition(j, {"submitted"}, [job[j] EXCEPT !.status = "completed", !.released = r.tx])
       ELSE UNCHANGED job
  /\ escReq' = [escReq EXCEPT ![w] = NoEscReq]
  /\ UNCHANGED transfer

\* Mutant of CancelJob: spelled like the status of an order.
CancelJobSpelled(j, caller) ==
  /\ Party(caller, {job[j].buyer}) /\ job[j].status \in {"open", "budget_set"}
  /\ EscTransition(j, {"open", "budget_set"}, [job[j] EXCEPT !.status = "canceled"])
  /\ UNCHANGED <<transfer, escReq>>

CancelJob(j, caller) ==
  /\ Party(caller, {job[j].buyer}) /\ job[j].status \in {"open", "budget_set"}
  /\ EscTransition(j, {"open", "budget_set"}, [job[j] EXCEPT !.status = "cancelled"])
  /\ UNCHANGED <<transfer, escReq>>

DisputeJob(j, caller) ==
  /\ Party(caller, {job[j].buyer, "provider"}) /\ job[j].status \in {"funded", "submitted"}
  /\ EscTransition(j, {"funded", "submitted"}, [job[j] EXCEPT !.status = "disputed"])
  /\ UNCHANGED <<transfer, escReq>>

\* A party sends tokens from one wallet to another; blocks grow.
SendTransfer(tx) ==
  /\ transfer[tx] = NoTransfer
  /\ \E f \in {"buyer", "holder"}, t \in {"holder", "provider"}, v \in Budgets :
       transfer' = [transfer EXCEPT ![tx] =
         [from |-> f, to |-> t, value |-> v,
          block |-> Cardinality({x \in EscrowTxs : transfer[x] # NoTransfer}) + 1]]
  /\ UNCHANGED <<job, escReq>>

EscrowInit ==
  /\ job = [j \in Jobs |-> NoJob]
  /\ transfer = [tx \in EscrowTxs |-> NoTransfer]
  /\ escReq = [w \in Threads |-> NoEscReq]

EscrowNext ==
  \/ \E tx \in EscrowTxs : SendTransfer(tx)
  \/ \E j \in Jobs : CreateJob(j)
  \/ \E j \in Jobs, caller \in Wallets :
       SetBudget(j, caller) \/ SubmitWork(j, caller) \/ CancelJob(j, caller) \/ DisputeJob(j, caller)
  \/ \E w \in Threads, j \in Jobs, tx \in EscrowTxs, caller \in Wallets :
       FundRead(w, j, tx, caller) \/ ReleaseRead(w, j, tx, caller)
  \/ \E w \in Threads : FundWrite(w) \/ ReleaseWrite(w)

EscrowSpec == EscrowInit /\ [][EscrowNext]_escrowVars

-----------------------------------------------------------------------------
(* Properties *)

EscrowTypeOK ==
  /\ job \in [Jobs -> JobRow]
  /\ escReq \in [Threads -> [step : {"idle", "fund", "release"}, job : Jobs \cup {None},
                             tx : EscrowTxs \cup {None}]]

\* A job past funding holds a deposit of exactly its budget that no other job
\* holds; a completed one also a release, not older than the deposit.
JobsAreBacked ==
  \A j \in Jobs :
    /\ job[j].status \in {"funded", "submitted", "completed", "disputed"} =>
         /\ job[j].funded # None
         /\ Verified(job[j].funded, job[j].buyer, job[j].holder, job[j].budget, 0)
         /\ \A k \in Jobs \ {j} : job[k].funded # job[j].funded
    /\ job[j].status = "completed" =>
         /\ job[j].released # None
         /\ Verified(job[j].released, job[j].holder, "provider", job[j].budget,
                     transfer[job[j].funded].block)
         /\ \A k \in Jobs \ {j} : job[k].released # job[j].released

(* Statements of the repository that the code does not keep (README). *)

\* app/escrow.py:22-30: every fund-relevant transition records a transfer of
\* its own; no transfer is both a deposit and a release.
OneTransferOneUse ==
  \A j, k \in Jobs : job[j].funded # None => job[j].funded # job[k].released

=============================================================================
