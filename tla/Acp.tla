-------------------------------- MODULE Acp --------------------------------
(***************************************************************************)
(* Agentic Commerce Protocol sessions (app/acp.py): a checkout session     *)
(* wraps one order of one store.  Its stored status is reconciled with the *)
(* order on retrieval, completed by a transaction hash, canceled on        *)
(* request; meanwhile the sweep moves the order on its own.                *)
(*                                                                         *)
(* Abstractions: the order machine of Checkout.tla is reduced to the       *)
(* statuses a session looks at; `paid` stands for every status between     *)
(* detection and delivery.                                                 *)
(***************************************************************************)
EXTENDS Server

CONSTANTS
  Sessions,   \* ids of sessions and of the orders they wrap
  AcpKeys     \* idempotency keys of the store's clients

ASSUME AcpAssumption == None \notin Sessions \cup AcpKeys

VARIABLES
  acp,       \* acp_sessions
  acpOrder,  \* status of the order of a session
  acpReq     \* locals of the requests in flight

acpVars == <<acp, acpOrder, acpReq>>

-----------------------------------------------------------------------------

AcpStatus == {"none", "ready_for_payment", "completed", "canceled"}
AcpRow == [status : AcpStatus, key : AcpKeys \cup {None}]
NoAcp == [status |-> "none", key |-> None]
NoAcpReq == [step |-> "idle", id |-> None, key |-> None, row |-> NoAcp]
Closed == {"completed", "canceled"}

AcpDone(w) == acpReq' = [acpReq EXCEPT ![w] = NoAcpReq]

\* checkout.create_order and the sweep, external to the sessions: the steps of
\* Checkout.tla as a session can see them.
OrderSteps ==
  {<<"pending", "paid">>, <<"pending", "expired">>, <<"expired", "paid">>,
   <<"paid", "delivered">>, <<"paid", "reorged">>, <<"delivered", "refunded">>}

SweepOrder(s) ==
  /\ \E st \in OrderSteps :
       acpOrder[s] = st[1] /\ acpOrder' = [acpOrder EXCEPT ![s] = st[2]]
  /\ UNCHANGED <<acp, acpReq>>

\* _create_core(): a known key is answered with its session; otherwise the
\* request goes on to create_order, which asks the chain for the head.
CreateSession(w, key) ==
  /\ acpReq[w].step = "idle"
  /\ key # None => \A s \in Sessions : acp[s].key # key
  /\ acpReq' = [acpReq EXCEPT ![w] = [NoAcpReq EXCEPT !.step = "create", !.key = key]]
  /\ UNCHANGED <<acp, acpOrder>>

\* Mutant of InsertSession: the lost race keeps its order.
InsertSessionKeepOrder(w) ==
  LET key == acpReq[w].key IN
  /\ acpReq[w].step = "create"
  /\ \E s \in Sessions :
       /\ acp[s].status = "none" /\ acpOrder[s] = "none"
       /\ acpOrder' = [acpOrder EXCEPT ![s] = "pending"]
       /\ acp' = IF key # None /\ \E t \in Sessions : acp[t].key = key THEN acp
                 ELSE [acp EXCEPT ![s] = [status |-> "ready_for_payment", key |-> key]]
  /\ AcpDone(w)

\* The order and the session are one transaction: a lost UNIQUE(store, key)
\* rolls both back and answers with the winner's session.
InsertSession(w) ==
  LET key == acpReq[w].key IN
  /\ acpReq[w].step = "create"
  /\ IF key # None /\ \E t \in Sessions : acp[t].key = key
       THEN UNCHANGED <<acp, acpOrder>>
       ELSE \E s \in Sessions :
              /\ acp[s].status = "none" /\ acpOrder[s] = "none"
              /\ acpOrder' = [acpOrder EXCEPT ![s] = "pending"]
              /\ acp' = [acp EXCEPT ![s] = [status |-> "ready_for_payment", key |-> key]]
  /\ AcpDone(w)

\* _retrieve_core(), _complete_core() and _cancel_core() load the row; a
\* completion asks for a session that is still open and goes to the chain.
LoadSession(w, s, step) ==
  /\ acpReq[w].step = "idle" /\ acp[s].status # "none"
  /\ step = "verify" => acp[s].status \notin Closed
  /\ step = "cancel" => acp[s].status # "completed"
  /\ acpReq' = [acpReq EXCEPT ![w] = [step |-> step, id |-> s, key |-> None, row |-> acp[s]]]
  /\ UNCHANGED <<acp, acpOrder>>

\* _effective_status()
EffectiveStatus(row, st) ==
  IF row.status \in Closed THEN row.status
  ELSE IF st = "delivered" THEN "completed"
  ELSE IF st \in {"expired", "canceled", "reorged", "refunded"} THEN "canceled"
  ELSE "ready_for_payment"

\* refresh_order() may have moved the order; the reconciled status is written
\* over a row that was open when it was loaded.
RetrieveWrite(w) ==
  LET r == acpReq[w]  eff == EffectiveStatus(r.row, acpOrder[r.id]) IN
  /\ r.step = "retrieve"
  /\ acp' = IF r.row.status \notin Closed /\ eff # r.row.status
              THEN [acp EXCEPT ![r.id].status = eff] ELSE acp
  /\ AcpDone(w) /\ UNCHANGED acpOrder

\* verify_txhash() credits the order, perhaps up to its delivery, or refuses.
CompleteVerify(w) ==
  LET r == acpReq[w] IN
  /\ r.step = "verify"
  /\ \/ /\ acpOrder[r.id] \in {"pending", "expired", "paid", "delivered"}
        /\ \E st \in {"paid", "delivered"} :
             acpOrder' = [acpOrder EXCEPT ![r.id] = IF @ = "delivered" THEN @ ELSE st]
        /\ acpReq' = [acpReq EXCEPT ![w].step = "complete"]
     \/ AcpDone(w) /\ UNCHANGED acpOrder
  /\ UNCHANGED acp

\* Completed only if the order, read afresh, was delivered.
CompleteWrite(w) ==
  LET r == acpReq[w] IN
  /\ r.step = "complete"
  /\ acp' = IF acpOrder[r.id] = "delivered" THEN [acp EXCEPT ![r.id].status = "completed"]
            ELSE acp
  /\ AcpDone(w) /\ UNCHANGED acpOrder

\* Only an unpaid order is released, by a conditional UPDATE; the session is
\* canceled whatever became of the order.
CancelWrite(w) ==
  LET r == acpReq[w] IN
  /\ r.step = "cancel"
  /\ acpOrder' = [acpOrder EXCEPT ![r.id] = IF @ \in {"pending", "expired"} THEN "canceled" ELSE @]
  /\ acp' = [acp EXCEPT ![r.id].status = "canceled"]
  /\ AcpDone(w)

AcpDies(w) ==
  /\ acpReq[w].step # "idle" /\ AcpDone(w) /\ UNCHANGED <<acp, acpOrder>>

AcpInit ==
  /\ acp = [s \in Sessions |-> NoAcp] /\ acpOrder = [s \in Sessions |-> "none"]
  /\ acpReq = [w \in Threads |-> NoAcpReq]

AcpNext ==
  \/ \E s \in Sessions : SweepOrder(s)
  \/ \E w \in Threads :
       \/ \E key \in AcpKeys \cup {None} : CreateSession(w, key)
       \/ \E s \in Sessions, step \in {"retrieve", "verify", "cancel"} : LoadSession(w, s, step)
       \/ InsertSession(w) \/ RetrieveWrite(w) \/ CompleteVerify(w) \/ CompleteWrite(w)
       \/ CancelWrite(w) \/ AcpDies(w)

AcpSpec == AcpInit /\ [][AcpNext]_acpVars

-----------------------------------------------------------------------------
(* Properties *)

AcpTypeOK ==
  /\ acp \in [Sessions -> AcpRow]
  /\ acpOrder \in [Sessions -> {"none", "pending", "expired", "canceled", "paid", "delivered",
                                "reorged", "refunded"}]

\* A repeated create opens one session per key and leaves no order behind that
\* no session wraps; a session that says completed has had its goods delivered.
SessionsWrapOrders ==
  \A s \in Sessions :
    /\ acp[s].key # None => \A t \in Sessions \ {s} : acp[t].key # acp[s].key
    /\ acpOrder[s] # "none" => acp[s].status # "none"
    /\ acp[s].status = "completed" => acpOrder[s] \in {"delivered", "refunded"}

(* Statements of the repository that the code does not keep (README). *)

\* app/acp.py:156-158: a delivered order is completed.
DeliveredIsNotCanceled ==
  \A s \in Sessions : acp[s].status = "canceled" => acpOrder[s] # "delivered"

=============================================================================
