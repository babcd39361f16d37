------------------------------- MODULE Attest -------------------------------
(***************************************************************************)
(* The on-chain receipt attester (app/attest.py): one background worker    *)
(* that signs an attestation per delivered order, records the signed hash  *)
(* and nonce, broadcasts, and reconciles what a crash or a silent node     *)
(* left behind.                                                            *)
(*                                                                         *)
(* The chain mines, per nonce, one of the transactions broadcast for it; a *)
(* transaction is its order, nonce and gas price, which is what its hash   *)
(* distinguishes.  The schema registration is the transaction of no order. *)
(* A failed call, a transaction the node drops or reverts and a gas price  *)
(* over the cap each take one of MaxAttFaults; a receipt call that fails,  *)
(* which the code takes for "not found", one of MaxLostReceipts; a new     *)
(* process one of MaxAttCrashes.                                           *)
(***************************************************************************)
EXTENDS Server, Sequences

CONSTANTS
  AttOrders,            \* order ids
  GasPrices, GasCap,    \* gas prices the node may quote, TILLA_ATTEST_MAX_GAS_WEI
  ATTEST_MAX_PER_TICK, RECONCILE_MAX_TICKS, IDLE_ALERT_TICKS,
  MaxAttFaults, MaxLostReceipts, MaxAttCrashes \* bounds of the run

ASSUME AttestAssumption ==
  /\ GasPrices \subseteq Nat /\ GasCap \in Nat /\ None \notin AttOrders
  /\ ATTEST_MAX_PER_TICK \in Nat \ {0} /\ RECONCILE_MAX_TICKS \in Nat \ {0}
  /\ IDLE_ALERT_TICKS \in Nat /\ MaxAttFaults \in Nat /\ MaxLostReceipts \in Nat
  /\ MaxAttCrashes \in Nat

VARIABLES
  att,       \* orders.attest_status, attest_tx, attest_nonce
  pool,      \* transactions broadcast and not mined
  mined,     \* transactions mined, by nonce, with their status
  seen,      \* _reconcile_seen
  schemaOk,  \* _schema_registered
  idle,      \* _idle_ticks
  wk,        \* locals of attest_tick and the functions it calls
  attFaults, lostReceipts, attCrashes

attVars == <<att, pool, mined, seen, schemaOk, idle, wk, attFaults, lostReceipts, attCrashes>>
chainSide == <<pool, mined>>

-----------------------------------------------------------------------------

AttStatus == {"none", "pending", "sending", "sent", "attested", "failed"}

NoAtt == [status |-> "none", tx |-> None, nonce |-> None, hollow |-> FALSE]

NoWork == [pc |-> "rest", todo |-> {}, order |-> None, tx |-> None,
           acted |-> FALSE, broken |-> FALSE]

IsMined(tx) == \E n \in 1..Len(mined) : mined[n].tx = tx

\* The next free nonce: the account's mined transaction count.
NextNonce == Len(mined)

WithStatus(S) == {o \in AttOrders : att[o].status \in S}

\* A call fails, or the node behaves badly, as often as the bound allows.
Fault == attFaults < MaxAttFaults /\ attFaults' = attFaults + 1

\* deliver() or record_settlement() queues the order in its own transaction;
\* hollow: buyer, payment hash or delivery payload are missing.
QueueAttest(o) ==
  /\ att[o].status = "none"
  /\ \E h \in BOOLEAN : att' = [att EXCEPT ![o].status = "pending", ![o].hollow = h]
  /\ UNCHANGED <<pool, mined, seen, schemaOk, idle, wk, attFaults, lostReceipts, attCrashes>>

-----------------------------------------------------------------------------
(* The chain *)

MineAtt(tx) ==
  /\ tx \in pool /\ tx.nonce = NextNonce
  /\ \/ mined' = Append(mined, [tx |-> tx, ok |-> TRUE]) /\ UNCHANGED attFaults
     \/ Fault /\ mined' = Append(mined, [tx |-> tx, ok |-> FALSE])
  /\ pool' = {t \in pool : t.nonce # tx.nonce}
  /\ UNCHANGED <<att, seen, schemaOk, idle, wk, lostReceipts, attCrashes>>

DropTx(tx) ==
  /\ tx \in pool /\ Fault /\ pool' = pool \ {tx}
  /\ UNCHANGED <<att, mined, seen, schemaOk, idle, wk, lostReceipts, attCrashes>>

\* send_raw_transaction(): refused when the nonce is used up or the transaction
\* known, possibly refused when another one holds its nonce.
Accepted(tx) == tx.nonce >= NextNonce /\ tx \notin pool /\ pool' = pool \cup {tx}
Rejected(tx) ==
  (tx.nonce < NextNonce \/ \E t \in pool : t.nonce = tx.nonce) /\ UNCHANGED pool

\* An exception although the node took the transaction, or because it never saw it.
Uncertain(tx) ==
  Fault /\ tx.nonce >= NextNonce /\ pool' \in {pool, pool \cup {tx}}

-----------------------------------------------------------------------------
(* One tick *)

\* _resolve_receipt(): the order after its receipt was read.
Resolved(o) ==
  [att EXCEPT ![o].status =
     IF \E n \in 1..Len(mined) : mined[n].tx = att[o].tx /\ mined[n].ok
       THEN "attested" ELSE "failed"]

\* The receipt is found, or not: unmined, or the call failed and was swallowed.
Found(o) == IsMined(att[o].tx) /\ UNCHANGED lostReceipts
NotFound(o) ==
  IF IsMined(att[o].tx)
    THEN lostReceipts < MaxLostReceipts /\ lostReceipts' = lostReceipts + 1
    ELSE UNCHANGED lostReceipts

\* _idle(): counted up to the number that raises the alarm.
Idle == idle' = IF idle < IDLE_ALERT_TICKS THEN idle + 1 ELSE idle

\* attest_tick(): the connected chain is checked, then the rows left sending.
TickBegin ==
  /\ wk.pc = "rest"
  /\ \/ wk' = [NoWork EXCEPT !.pc = "sending", !.todo = WithStatus({"sending"})]
        /\ UNCHANGED <<idle, attFaults>>
     \/ Fault /\ Idle /\ UNCHANGED wk
  /\ UNCHANGED <<att, chainSide, seen, schemaOk, lostReceipts, attCrashes>>

Done(o) == wk' = [wk EXCEPT !.pc = "sending", !.todo = @ \ {o}, !.order = None, !.tx = None]

SendingReceipt(o) ==
  /\ wk.pc = "sending" /\ o \in wk.todo
  /\ \/ Found(o) /\ att' = Resolved(o) /\ Done(o)
     \/ NotFound(o) /\ wk' = [wk EXCEPT !.pc = "nonce", !.order = o] /\ UNCHANGED att
  /\ UNCHANGED <<chainSide, seen, schemaOk, idle, attFaults, attCrashes>>

\* The confirmed nonce decides: taken by some transaction, or still free.
SendingNonce ==
  LET o == wk.order IN
  /\ wk.pc = "nonce"
  /\ \/ /\ wk' = [wk EXCEPT !.pc = IF NextNonce > att[o].nonce THEN "recheck" ELSE "resend"]
        /\ UNCHANGED attFaults
     \/ Fault /\ Done(o)
  /\ UNCHANGED <<att, chainSide, seen, schemaOk, idle, lostReceipts, attCrashes>>

\* Mutant of SendingRecheck: the second look at the receipt is left out.
SendingRecheckNever ==
  LET o == wk.order IN
  /\ wk.pc = "recheck"
  /\ att' = [att EXCEPT ![o].status = "pending", ![o].tx = None, ![o].nonce = None]
  /\ Done(o)
  /\ UNCHANGED <<chainSide, seen, schemaOk, idle, attFaults, lostReceipts, attCrashes>>

\* Mutant of SendingRecheck: a nonce another transaction took leaves the row as it is.
SendingRecheckWait ==
  LET o == wk.order IN
  /\ wk.pc = "recheck"
  /\ IF IsMined(att[o].tx) THEN att' = Resolved(o) ELSE UNCHANGED att
  /\ Done(o)
  /\ UNCHANGED <<chainSide, seen, schemaOk, idle, attFaults, lostReceipts, attCrashes>>

\* The nonce is taken: one more look at the receipt before attesting afresh.
SendingRecheck ==
  LET o == wk.order IN
  /\ wk.pc = "recheck"
  /\ \/ Found(o) /\ att' = Resolved(o) /\ UNCHANGED seen
     \/ /\ NotFound(o)
        /\ att' = [att EXCEPT ![o].status = "pending", ![o].tx = None, ![o].nonce = None]
        /\ seen' = [seen EXCEPT ![o] = 0]
  /\ Done(o)
  /\ UNCHANGED <<chainSide, schemaOk, idle, attFaults, attCrashes>>

\* The nonce is free: sign again at the price of the day and broadcast; only
\* then is the new hash recorded.
SendingResend ==
  LET o == wk.order IN
  /\ wk.pc = "resend"
  /\ \E p \in GasPrices :
       LET tx == [order |-> o, nonce |-> att[o].nonce, price |-> p] IN
       \/ p > GasCap /\ Fault /\ UNCHANGED pool /\ Done(o)
       \/ /\ p <= GasCap
          /\ \/ Accepted(tx) /\ wk' = [wk EXCEPT !.pc = "resent", !.tx = tx] /\ UNCHANGED attFaults
             \/ Rejected(tx) /\ Done(o) /\ UNCHANGED attFaults
             \/ Uncertain(tx) /\ Done(o)
  /\ UNCHANGED <<att, mined, seen, schemaOk, idle, lostReceipts, attCrashes>>

SendingResent ==
  /\ wk.pc = "resent"
  /\ att' = [att EXCEPT ![wk.order].status = "sent", ![wk.order].tx = wk.tx]
  /\ Done(wk.order)
  /\ UNCHANGED <<chainSide, seen, schemaOk, idle, attFaults, lostReceipts, attCrashes>>

SendingDone ==
  /\ wk.pc = "sending" /\ wk.todo = {}
  /\ wk' = [wk EXCEPT !.pc = "sent", !.todo = WithStatus({"sent"})]
  /\ UNCHANGED <<att, chainSide, seen, schemaOk, idle, attFaults, lostReceipts, attCrashes>>

\* _reconcile_sent(): never sends again; a receipt that stays away is failed.
SentReceipt(o) ==
  /\ wk.pc = "sent" /\ o \in wk.todo
  /\ \/ Found(o) /\ att' = Resolved(o) /\ seen' = [seen EXCEPT ![o] = 0]
     \/ /\ NotFound(o)
        /\ IF seen[o] + 1 >= RECONCILE_MAX_TICKS
             THEN att' = [att EXCEPT ![o].status = "failed"] /\ seen' = [seen EXCEPT ![o] = 0]
             ELSE seen' = [seen EXCEPT ![o] = @ + 1] /\ UNCHANGED att
  /\ wk' = [wk EXCEPT !.todo = @ \ {o}]
  /\ UNCHANGED <<chainSide, schemaOk, idle, attFaults, attCrashes>>

\* _pending_orders(): the oldest ones, as many as a tick may attest.
Picked(S) ==
  {T \in SUBSET S : Cardinality(T) = IF Cardinality(S) < ATTEST_MAX_PER_TICK
                                       THEN Cardinality(S) ELSE ATTEST_MAX_PER_TICK}

StartPending ==
  \E T \in Picked(WithStatus({"pending"})) :
    wk' = [NoWork EXCEPT !.pc = "pending", !.todo = T]

\* _ensure_schema(): cached, found on chain, or registered now.
EnsureSchema ==
  /\ wk.pc = "sent" /\ wk.todo = {}
  /\ \/ /\ schemaOk \/ \E n \in 1..Len(mined) : mined[n].tx.order = None /\ mined[n].ok
        /\ schemaOk' = TRUE /\ StartPending /\ UNCHANGED <<pool, idle, attFaults>>
     \/ /\ ~schemaOk /\ \A n \in 1..Len(mined) : ~(mined[n].tx.order = None /\ mined[n].ok)
        /\ \E p \in GasPrices :
             LET tx == [order |-> None, nonce |-> NextNonce, price |-> p] IN
             \/ /\ p <= GasCap /\ Accepted(tx)
                /\ wk' = [NoWork EXCEPT !.pc = "schema"] /\ UNCHANGED <<idle, attFaults>>
             \/ /\ p <= GasCap /\ Rejected(tx)
                /\ wk' = NoWork /\ Idle /\ UNCHANGED attFaults
             \/ /\ p > GasCap /\ Fault /\ wk' = NoWork /\ Idle /\ UNCHANGED pool
        /\ UNCHANGED schemaOk
  /\ UNCHANGED <<att, mined, seen, lostReceipts, attCrashes>>

\* The registration confirmed within the wait, or the tick is idle.
SchemaWait ==
  /\ wk.pc = "schema"
  /\ IF \E n \in 1..Len(mined) : mined[n].tx.order = None /\ mined[n].ok
       THEN schemaOk' = TRUE /\ StartPending /\ UNCHANGED idle
       ELSE wk' = NoWork /\ Idle /\ UNCHANGED schemaOk
  /\ UNCHANGED <<att, chainSide, seen, attFaults, lostReceipts, attCrashes>>

\* The order left the tick's list: with progress, or broken.
Acted(o) == wk' = [wk EXCEPT !.pc = "pending", !.todo = @ \ {o}, !.order = None,
                             !.tx = None, !.acted = TRUE]
Broken(o) == wk' = [wk EXCEPT !.pc = "pending", !.todo = @ \ {o}, !.order = None,
                              !.tx = None, !.broken = TRUE]

\* _attest_one(): a hollow order fails; otherwise build and sign at the next
\* free nonce, unless gas is too dear or the node does not answer.
Prepare(o) ==
  /\ wk.pc = "pending" /\ o \in wk.todo
  /\ \/ /\ att[o].hollow /\ att' = [att EXCEPT ![o].status = "failed"]
        /\ Acted(o) /\ UNCHANGED attFaults
     \/ /\ ~att[o].hollow /\ UNCHANGED att
        /\ \/ \E p \in GasPrices :
                IF p > GasCap THEN Fault /\ Acted(o)
                ELSE /\ wk' = [wk EXCEPT !.pc = "claim", !.order = o,
                          !.tx = [order |-> o, nonce |-> NextNonce, price |-> p]]
                     /\ UNCHANGED attFaults
           \/ Fault /\ Broken(o)
  /\ UNCHANGED <<chainSide, seen, schemaOk, idle, lostReceipts, attCrashes>>

\* Mutant of ClaimSending: the hash is stored without its nonce.
ClaimSendingNoNonce ==
  /\ wk.pc = "claim"
  /\ att' = [att EXCEPT ![wk.order].status = "sending", ![wk.order].tx = wk.tx]
  /\ wk' = [wk EXCEPT !.pc = "broadcast"]
  /\ UNCHANGED <<chainSide, seen, schemaOk, idle, attFaults, lostReceipts, attCrashes>>

\* pending -> sending with the hash and the nonce, before anything is broadcast.
ClaimSending ==
  /\ wk.pc = "claim"
  /\ att' = [att EXCEPT ![wk.order].status = "sending",
                        ![wk.order].tx = wk.tx, ![wk.order].nonce = wk.tx.nonce]
  /\ wk' = [wk EXCEPT !.pc = "broadcast"]
  /\ UNCHANGED <<chainSide, seen, schemaOk, idle, attFaults, lostReceipts, attCrashes>>

Broadcast ==
  /\ wk.pc = "broadcast"
  /\ \/ Accepted(wk.tx) /\ wk' = [wk EXCEPT !.pc = "flip"] /\ UNCHANGED attFaults
     \/ Rejected(wk.tx) /\ Broken(wk.order) /\ UNCHANGED attFaults
     \/ Uncertain(wk.tx) /\ Broken(wk.order)
  /\ UNCHANGED <<att, mined, seen, schemaOk, idle, lostReceipts, attCrashes>>

FlipSent ==
  /\ wk.pc = "flip"
  /\ att' = [att EXCEPT ![wk.order].status = "sent"]
  /\ wk' = [wk EXCEPT !.pc = "wait"]
  /\ UNCHANGED <<chainSide, seen, schemaOk, idle, attFaults, lostReceipts, attCrashes>>

\* The time-boxed wait: a receipt resolves the order, none leaves it sent.
WaitReceipt ==
  /\ wk.pc = "wait"
  /\ att' = IF IsMined(wk.tx) THEN Resolved(wk.order) ELSE att
  /\ Acted(wk.order)
  /\ UNCHANGED <<chainSide, seen, schemaOk, idle, attFaults, lostReceipts, attCrashes>>

TickEnd ==
  /\ wk.pc = "pending" /\ wk.todo = {}
  /\ IF wk.broken /\ ~wk.acted THEN Idle ELSE idle' = 0
  /\ wk' = NoWork
  /\ UNCHANGED <<att, chainSide, seen, schemaOk, attFaults, lostReceipts, attCrashes>>

\* A new process: the tick's locals and the module's caches are gone.
AttCrash ==
  /\ attCrashes < MaxAttCrashes /\ attCrashes' = attCrashes + 1
  /\ wk' = NoWork /\ idle' = 0 /\ schemaOk' = FALSE
  /\ seen' = [o \in AttOrders |-> 0]
  /\ UNCHANGED <<att, chainSide, attFaults, lostReceipts>>

AttestInit ==
  /\ att = [o \in AttOrders |-> NoAtt]
  /\ pool = {} /\ mined = <<>>
  /\ seen = [o \in AttOrders |-> 0] /\ schemaOk = FALSE /\ idle = 0
  /\ wk = NoWork /\ attFaults = 0 /\ lostReceipts = 0 /\ attCrashes = 0

AttestTick ==
  \/ TickBegin \/ SendingNonce \/ SendingRecheck \/ SendingResend \/ SendingResent
  \/ SendingDone \/ EnsureSchema \/ SchemaWait
  \/ ClaimSending \/ Broadcast \/ FlipSent \/ WaitReceipt \/ TickEnd
  \/ \E o \in AttOrders : SendingReceipt(o) \/ SentReceipt(o) \/ Prepare(o)

Mining == \E tx \in pool : MineAtt(tx)

AttestNext ==
  \/ AttestTick \/ Mining \/ AttCrash
  \/ \E tx \in pool : DropTx(tx)
  \/ \E o \in AttOrders : QueueAttest(o)

\* attest_loop runs on; a transaction at the next nonce is eventually mined.
AttestFairness == WF_attVars(AttestTick) /\ WF_attVars(Mining)

AttestSpec == AttestInit /\ [][AttestNext]_attVars /\ AttestFairness

-----------------------------------------------------------------------------
(* Properties *)

AttestTypeOK ==
  /\ \A o \in AttOrders :
       /\ att[o].status \in AttStatus
       /\ att[o].status \in {"sending", "sent", "attested"} =>
            att[o].tx.order = o /\ att[o].nonce = att[o].tx.nonce
  /\ \A n \in 1..Len(mined) : mined[n].tx.nonce = n - 1
  /\ wk.todo \subseteq AttOrders /\ seen \in [AttOrders -> 0..RECONCILE_MAX_TICKS]
  /\ idle \in 0..IDLE_ALERT_TICKS

\* Attestations of an order on chain.
Attestations(o) == {n \in 1..Len(mined) : mined[n].tx.order = o /\ mined[n].ok}

\* An order is attested at most once, whatever crashes, failed calls and lost
\* broadcasts lie between signing and recording; a row that waits to be
\* attested afresh has no transaction left that could still be mined; and a row
\* says attested only when the transaction it names is mined and succeeded.
AttestedOnce ==
  \A o \in AttOrders :
    /\ Cardinality(Attestations(o)) <= 1
    /\ att[o].status = "pending" =>
         Attestations(o) = {} /\ \A tx \in pool : tx.order = o => tx.nonce < NextNonce
    /\ att[o].status = "attested" => \E n \in Attestations(o) : mined[n].tx = att[o].tx

\* Every queued order is eventually attested or failed: no crash, lost
\* broadcast or nonce taken by another order leaves it in between for ever.
AttestResolves ==
  \A o \in AttOrders :
    att[o].status = "pending" ~> att[o].status \in {"attested", "failed"}

=============================================================================
