------------------------------ MODULE Checkout ------------------------------
(***************************************************************************)
(* The web checkout of Tilla (app/checkout.py): orders that reserve a      *)
(* unique amount on one merchant address, the polling sweeper, the buyer's *)
(* txhash fast path, the polling GET that matures an order, expiry with    *)
(* its quarantine, and the chain they all read.                            *)
(*                                                                         *)
(* A row of the orders table is a record; a request or the sweeper keeps   *)
(* the row it read as a snapshot and writes later, because SQLite takes    *)
(* its write lock at the first UPDATE and every RPC happens before it.     *)
(* What is one transaction in the code is one action here.                 *)
(*                                                                         *)
(* Abstractions: one merchant address on one chain; a transaction carries  *)
(* one transfer and a block at most one transaction, so a getLogs window   *)
(* is one block.  Time is a coarse clock that moves independently of the   *)
(* chain.  0 is NULL for created_block.                                    *)
(***************************************************************************)
EXTENDS Integers, FiniteSets

CONSTANTS
  Orders,             \* order ids
  Txs,                \* hashes of transactions paying the merchant address
  AgentTxs,           \* those of them that settle an agent order
  Workers,            \* request threads of the server
  LogIdx,             \* log indexes a transfer may get when it is mined
  Price, OffsetSpan,  \* price_micro and the widest matching offset
  CONFIRMATIONS, ORDER_TTL, QUARANTINE, SWEEP_MAX_WINDOWS,
  MaxBlock, MaxTime,  \* bounds of the run: chain height and clock
  MaxReorgs, MaxFaults, \* bounds of the run: reorgs, failed ticks and restarts
  NoOrder, NoTx

ASSUME ConstantsAssumption ==
  /\ Price \in Nat \ {0} /\ OffsetSpan \in Nat
  /\ CONFIRMATIONS \in Nat /\ ORDER_TTL \in Nat /\ QUARANTINE \in Nat
  /\ SWEEP_MAX_WINDOWS \in Nat
  /\ MaxBlock \in Nat /\ MaxTime \in Nat
  /\ MaxReorgs \in Nat /\ MaxFaults \in Nat
  /\ NoOrder \notin Orders /\ NoTx \notin Txs
  /\ AgentTxs \subseteq Txs /\ LogIdx # {}

VARIABLES
  order,      \* orders: the table, one row per id
  processed,  \* processed_transfers: (tx, log index) -> order it was consumed by
  settled,    \* transactions recorded as an agent order's settlement
  cursor,     \* chain_cursor.last_block
  sw,         \* locals of the running sweep_tick
  req,        \* locals of the requests in flight
  clock,      \* wall clock
  head,       \* chain height
  txs,        \* the chain: value, block (0: not mined), log index of each transfer
  reorgs, faults \* how many have happened, for the bounds

chainVars == <<head, txs, reorgs>>
dbVars == <<order, processed, settled, cursor>>
vars == <<order, processed, settled, cursor, sw, req, clock, head, txs, reorgs, faults>>

-----------------------------------------------------------------------------
(* The orders table *)

IN_FLIGHT == {"pending", "detected", "underpaid"}
READY_TO_DELIVER == {"confirmed", "overpaid", "late_paid"}
ALWAYS_HOLD == IN_FLIGHT \cup READY_TO_DELIVER
COOLDOWN_HOLD == {"delivered"}

\* The predicate of the partial unique index ux_orders_active_amount.
IndexedStatus == {"pending", "detected", "underpaid", "expired", "late_paid"}

\* "none": the row does not exist yet.
Status == {"none", "expired", "canceled", "reorged"} \cup ALWAYS_HOLD \cup COOLDOWN_HOLD

Row == [status : Status, expected : Nat, paid : Nat, over : Int,
        tx : Txs \cup {NoTx}, block : Nat, createdBlock : Nat,
        expiresAt : Nat, paidAt : Nat, sold : Nat]

NoRow == [status |-> "none", expected |-> 0, paid |-> 0, over |-> 0,
          tx |-> NoTx, block |-> 0, createdBlock |-> 0,
          expiresAt |-> 0, paidAt |-> 0, sold |-> 0]

\* The conditional UPDATE every status change goes through: a row whose status
\* is no longer in `from` is left alone.
Transition(row, from, new) == IF row.status \in from THEN new ELSE row

\* Mutant of Deliver: every caller delivers, not only the one that moved the row.
DeliverUnguarded(row, now) ==
  [row EXCEPT !.status = "delivered", !.paidAt = now, !.sold = @ + 1]

\* deliver(): the winning caller flips a ready row and queues order.paid;
\* `sold` counts how often that branch was taken for the row.
Deliver(row, now) ==
  Transition(row, READY_TO_DELIVER,
             [row EXCEPT !.status = "delivered", !.paidAt = now, !.sold = @ + 1])

InQuarantine(row, now) == row.expiresAt + QUARANTINE > now

\* Mutant of AmountTaken: a delivered amount is free at once.
AmountTakenNoCooldown(amount, now) ==
  \E o \in Orders :
    /\ order[o].expected = amount
    /\ \/ order[o].status \in ALWAYS_HOLD
       \/ order[o].status = "expired" /\ InQuarantine(order[o], now)

AmountTaken(amount, now) ==
  \E o \in Orders :
    /\ order[o].expected = amount
    /\ \/ order[o].status \in ALWAYS_HOLD
       \/ order[o].status = "expired" /\ InQuarantine(order[o], now)
       \/ order[o].status \in COOLDOWN_HOLD /\ order[o].paidAt + QUARANTINE > now

\* Mutant of AmountIndexed: expired rows are left out of the unique index.
AmountIndexedLive(amount) ==
  \E o \in Orders : order[o].status \in IN_FLIGHT /\ order[o].expected = amount

AmountIndexed(amount) ==
  \E o \in Orders : order[o].status \in IndexedStatus /\ order[o].expected = amount

-----------------------------------------------------------------------------
(* Payment matching *)

\* Mutant of Matches: an expired order is never matched.
MatchesInFlight(value, now) ==
  {o \in Orders : order[o].expected = value /\ order[o].status \in IN_FLIGHT}

\* The order a swept transfer of this value credits: an in-flight one first,
\* else an expired one still in quarantine.
Matches(value, now) ==
  LET exact == {o \in Orders : order[o].expected = value}
      inFlight == {o \in exact : order[o].status \in IN_FLIGHT}
  IN  IF inFlight # {} THEN inFlight
      ELSE {o \in exact : order[o].status = "expired" /\ InQuarantine(order[o], now)}

\* _drive_state: the target state is chosen from the snapshot the caller read,
\* the UPDATE then applies to the row as it is by now.
DriveState(row, snap, value, tx, block, depthOk, now) ==
  LET cumulative == snap.paid + value
      surplus == cumulative - snap.expected
      credit == [row EXCEPT !.paid = cumulative, !.tx = tx, !.block = block]
      As(status) == [credit EXCEPT !.status = status]
      AsPaid(status) == [As(status) EXCEPT !.over = surplus]
      Late == Transition(row, {"expired"}, As("late_paid"))
  IN  CASE snap.status = "expired" -> IF depthOk THEN Deliver(Late, now) ELSE Late
        [] snap.status # "expired" /\ cumulative < snap.expected ->
             Transition(row, {"pending", "underpaid"}, As("underpaid"))
        [] snap.status # "expired" /\ cumulative >= snap.expected /\ ~depthOk ->
             Transition(row, IN_FLIGHT, AsPaid("detected"))
        [] OTHER ->
             Deliver(Transition(row, IN_FLIGHT,
                                AsPaid(IF surplus > 0 THEN "overpaid" ELSE "confirmed")),
                     now)

\* Mutant of ApplyTransfer: the transfer is credited but not recorded.
ApplyTransferUnrecorded(o, snap, tx, idx, block, atHead) ==
  /\ UNCHANGED processed
  /\ order' = [order EXCEPT ![o] =
        DriveState(@, snap, txs[tx].value, tx, block,
                   atHead - block >= CONFIRMATIONS, clock)]

\* The write transaction shared by the sweeper and the fast path: the transfer
\* row and the order's new state commit together.
ApplyTransfer(o, snap, tx, idx, block, atHead) ==
  /\ processed' = [processed EXCEPT ![<<tx, idx>>] = o]
  /\ order' = [order EXCEPT ![o] =
        DriveState(@, snap, txs[tx].value, tx, block,
                   atHead - block >= CONFIRMATIONS, clock)]

\* Mutant of ReceiptStillValid: the block of the receipt is not compared.
ReceiptStillMined(row) == row.tx # NoTx /\ txs[row.tx].block # 0

\* _receipt_still_valid: the transaction is still mined in the recorded block.
ReceiptStillValid(row) == row.tx # NoTx /\ txs[row.tx].block = row.block /\ row.block # 0

\* Mutant of MarkReorged: the row is overwritten whatever it has become.
MarkReorgedUnguarded(row) == [row EXCEPT !.status = "reorged"]

MarkReorged(row) == Transition(row, {"detected", "late_paid"},
                               [row EXCEPT !.status = "reorged"])

\* What a matured order becomes, given the row that was read and the receipt.
Mature(row, snap, valid, now) ==
  IF ~valid THEN MarkReorged(row)
  ELSE LET confirmed == IF snap.paid > snap.expected THEN "overpaid" ELSE "confirmed"
       IN  Deliver(IF snap.status = "detected"
                   THEN Transition(row, {"detected"}, [row EXCEPT !.status = confirmed])
                   ELSE row, now)

Maturing(row, atHead) ==
  row.status \in {"detected", "late_paid"} /\ row.block <= atHead - CONFIRMATIONS

-----------------------------------------------------------------------------
(* Requests.  `snap` is the row the request loaded. *)

IdleReq == [pc |-> "idle", o |-> NoOrder, snap |-> NoRow, tx |-> NoTx,
            idx |-> CHOOSE i \in LogIdx : TRUE, block |-> 0, head |-> 0, valid |-> FALSE]

ReqPc == {"idle", "receipt", "mature", "check", "apply"}

\* POST /s/{slug}/checkout.  created_block is best effort: 0 when the RPC fails.
CreateOrder(o, offset, floor) ==
  LET amount == Price + offset IN
  /\ order[o].status = "none"
  /\ ~AmountTaken(amount, clock)
  /\ ~AmountIndexed(amount)
  /\ order' = [order EXCEPT ![o] =
        [NoRow EXCEPT !.status = "pending", !.expected = amount,
                      !.createdBlock = floor, !.expiresAt = clock + ORDER_TTL]]
  /\ UNCHANGED <<processed, settled, cursor, sw, req, clock, chainVars, faults>>

\* GET /api/checkout/{id} on a pending order past its deadline.
RefreshExpire(o) ==
  /\ order[o].status = "pending" /\ clock > order[o].expiresAt
  /\ order' = [order EXCEPT ![o].status = "expired"]
  /\ UNCHANGED <<processed, settled, cursor, sw, req, clock, chainVars, faults>>

\* Cancelling an ACP session releases its order while no funds are in flight.
CancelCheckout(o) ==
  /\ order[o].status \in {"pending", "expired"}
  /\ order' = [order EXCEPT ![o].status = "canceled"]
  /\ UNCHANGED <<processed, settled, cursor, sw, req, clock, chainVars, faults>>

\* GET on a detected or late_paid order: read the row, then the chain head ...
RefreshHead(w, o) ==
  /\ req[w].pc = "idle"
  /\ Maturing(order[o], head)
  /\ req' = [req EXCEPT ![w] = [IdleReq EXCEPT !.pc = "receipt", !.o = o,
                                !.snap = order[o], !.head = head]]
  /\ UNCHANGED <<dbVars, sw, clock, chainVars, faults>>

\* ... then the receipt ...
RefreshReceipt(w) ==
  /\ req[w].pc = "receipt"
  /\ req' = [req EXCEPT ![w].pc = "mature", ![w].valid = ReceiptStillValid(req[w].snap)]
  /\ UNCHANGED <<dbVars, sw, clock, chainVars, faults>>

\* ... and commit.
RefreshWrite(w) ==
  /\ req[w].pc = "mature"
  /\ order' = [order EXCEPT ![req[w].o] = Mature(@, req[w].snap, req[w].valid, clock)]
  /\ req' = [req EXCEPT ![w] = IdleReq]
  /\ UNCHANGED <<processed, settled, cursor, sw, clock, chainVars, faults>>

\* POST /api/checkout/{id}/tx: load the order, refuse a dead or long expired
\* one, and fetch the receipt.  A transfer mined below the order's creation
\* floor is refused.
SubmitReceipt(w, o, t) ==
  /\ req[w].pc = "idle"
  /\ order[o].status \in ALWAYS_HOLD \cup {"expired"}
  /\ order[o].status = "expired" => InQuarantine(order[o], clock)
  /\ txs[t].block # 0 /\ txs[t].block >= order[o].createdBlock
  /\ req' = [req EXCEPT ![w] = [IdleReq EXCEPT !.pc = "check", !.o = o,
                !.snap = order[o], !.tx = t, !.idx = txs[t].idx, !.block = txs[t].block]]
  /\ UNCHANGED <<dbVars, sw, clock, chainVars, faults>>

\* Mutant of SubmitCheck: the amount is not compared.
SubmitCheckAnyAmount(w) ==
  /\ req[w].pc = "check"
  /\ processed[<<req[w].tx, req[w].idx>>] = NoOrder
  /\ req[w].tx \notin settled
  /\ req' = [req EXCEPT ![w].pc = "apply", ![w].head = head]
  /\ UNCHANGED <<dbVars, sw, clock, chainVars, faults>>

\* The transfer must be unconsumed, no agent's settlement, and exact; only then
\* is the chain head read.
SubmitCheck(w) ==
  /\ req[w].pc = "check"
  /\ processed[<<req[w].tx, req[w].idx>>] = NoOrder
  /\ req[w].tx \notin settled
  /\ txs[req[w].tx].value = req[w].snap.expected
  /\ req' = [req EXCEPT ![w].pc = "apply", ![w].head = head]
  /\ UNCHANGED <<dbVars, sw, clock, chainVars, faults>>

\* The commit; a transfer consumed meanwhile trips the unique constraint, and
\* then the request only rolls back (EndRequest).
SubmitApply(w) ==
  /\ req[w].pc = "apply"
  /\ processed[<<req[w].tx, req[w].idx>>] = NoOrder
  /\ ApplyTransfer(req[w].o, req[w].snap, req[w].tx, req[w].idx, req[w].block, req[w].head)
  /\ req' = [req EXCEPT ![w] = IdleReq]
  /\ UNCHANGED <<settled, cursor, sw, clock, chainVars, faults>>

\* A request ends without a commit: a 4xx, an RPC error, a rollback.
EndRequest(w) ==
  /\ req[w].pc # "idle"
  /\ req' = [req EXCEPT ![w] = IdleReq]
  /\ UNCHANGED <<dbVars, sw, clock, chainVars, faults>>

-----------------------------------------------------------------------------
(* The sweeper: one tick at a time, off the event loop *)

IdleSweep == [pc |-> "idle", now |-> 0, head |-> 0, windows |-> 0, tx |-> NoTx,
              o |-> NoOrder, snap |-> NoRow, seen |-> [o \in Orders |-> NoRow],
              valid |-> {}]

SweepPc == {"idle", "head", "addresses", "window", "apply", "promote", "commit"}

SafeHead == sw.head - CONFIRMATIONS

FlipExpired(row, now) ==
  IF row.status \in {"pending", "underpaid"} /\ now > row.expiresAt
  THEN [row EXCEPT !.status = "expired"] ELSE row

\* Mutant of ReleaseExpired: a status no query knows.
ReleaseExpiredTypo(row, now) ==
  IF row.status = "expired" /\ ~InQuarantine(row, now)
  THEN [row EXCEPT !.status = "cancelled"] ELSE row

ReleaseExpired(row, now) ==
  IF row.status = "expired" /\ ~InQuarantine(row, now)
  THEN [row EXCEPT !.status = "canceled"] ELSE row

\* sweep_tick: `now` is read once; expiries are flipped and released first.
SweepStart ==
  /\ sw.pc = "idle"
  /\ sw' = [sw EXCEPT !.pc = "head", !.now = clock]
  /\ order' = [o \in Orders |-> ReleaseExpired(FlipExpired(order[o], clock), clock)]
  /\ UNCHANGED <<processed, settled, cursor, req, clock, chainVars, faults>>

\* _sweep_chain reads the head once for the whole tick.
SweepHead ==
  /\ sw.pc = "head"
  /\ sw' = IF head < CONFIRMATIONS THEN IdleSweep
           ELSE [sw EXCEPT !.head = head,
                           !.pc = IF cursor < head - CONFIRMATIONS
                                  THEN "addresses" ELSE "promote"]
  /\ UNCHANGED <<dbVars, req, clock, chainVars, faults>>

\* Mutant of ActiveAddress: pending orders do not count as waiting.
ActiveAddressDetected(now) ==
  \E o \in Orders : \/ order[o].status \in {"detected", "underpaid"}
                    \/ order[o].status = "expired" /\ InQuarantine(order[o], now)

ActiveAddress(now) ==
  \E o \in Orders : \/ order[o].status \in {"pending", "detected", "underpaid"}
                    \/ order[o].status = "expired" /\ InQuarantine(order[o], now)

\* No order is waiting on the address: the whole range is skipped.
SweepAddresses ==
  /\ sw.pc = "addresses"
  /\ IF ActiveAddress(sw.now)
     THEN sw' = [sw EXCEPT !.pc = "window"] /\ UNCHANGED cursor
     ELSE sw' = [sw EXCEPT !.pc = "promote"] /\ cursor' = SafeHead
  /\ UNCHANGED <<order, processed, settled, req, clock, chainVars, faults>>

InWindow == sw.pc = "window" /\ cursor < SafeHead /\ sw.windows < SWEEP_MAX_WINDOWS

\* The next window holds nothing to credit: no transfer, one already consumed,
\* an agent's settlement, or one no order matches.
SweepSkip ==
  /\ InWindow
  /\ \A t \in Txs : txs[t].block = cursor + 1 =>
        \/ processed[<<t, txs[t].idx>>] # NoOrder
        \/ t \in settled
        \/ Matches(txs[t].value, sw.now) = {}
  /\ cursor' = cursor + 1
  /\ sw' = [sw EXCEPT !.windows = @ + 1]
  /\ UNCHANGED <<order, processed, settled, req, clock, chainVars, faults>>

\* _process_log finds the order this transfer pays.
SweepMatch(t) ==
  /\ InWindow
  /\ txs[t].block = cursor + 1
  /\ processed[<<t, txs[t].idx>>] = NoOrder
  /\ t \notin settled
  /\ \E o \in Matches(txs[t].value, sw.now) :
        sw' = [sw EXCEPT !.pc = "apply", !.tx = t, !.o = o, !.snap = order[o]]
  /\ UNCHANGED <<dbVars, req, clock, chainVars, faults>>

\* The window's transaction: transfer, order and cursor commit together.
SweepApply ==
  /\ sw.pc = "apply"
  /\ processed[<<sw.tx, txs[sw.tx].idx>>] = NoOrder
  /\ ApplyTransfer(sw.o, sw.snap, sw.tx, txs[sw.tx].idx, cursor + 1, sw.head)
  /\ cursor' = cursor + 1
  /\ sw' = [sw EXCEPT !.pc = "window", !.windows = @ + 1,
                      !.tx = NoTx, !.o = NoOrder, !.snap = NoRow]
  /\ UNCHANGED <<settled, req, clock, chainVars, faults>>

\* The fast path consumed the transfer first: the insert fails, and the tick with it.
SweepConflict ==
  /\ sw.pc = "apply"
  /\ processed[<<sw.tx, txs[sw.tx].idx>>] # NoOrder
  /\ sw' = IdleSweep
  /\ UNCHANGED <<dbVars, req, clock, chainVars, faults>>

\* Mutant of SweepWindowsDone: a capped tick writes the cursor it aimed for.
SweepWindowsDoneCapped ==
  /\ sw.pc = "window"
  /\ cursor >= SafeHead \/ sw.windows >= SWEEP_MAX_WINDOWS
  /\ sw' = [sw EXCEPT !.pc = "promote"]
  /\ cursor' = SafeHead
  /\ UNCHANGED <<order, processed, settled, req, clock, chainVars, faults>>

SweepWindowsDone ==
  /\ sw.pc = "window"
  /\ cursor >= SafeHead \/ sw.windows >= SWEEP_MAX_WINDOWS
  /\ sw' = [sw EXCEPT !.pc = "promote"]
  /\ UNCHANGED <<dbVars, req, clock, chainVars, faults>>

\* _promote_matured: the rows that reached depth, and their receipts.
PromoteRead ==
  LET matured == {o \in Orders : Maturing(order[o], sw.head)} IN
  /\ sw.pc = "promote"
  /\ sw' = IF matured = {} THEN IdleSweep
           ELSE [sw EXCEPT !.pc = "commit",
                   !.seen = [o \in Orders |-> IF o \in matured THEN order[o] ELSE NoRow],
                   !.valid = {o \in matured : ReceiptStillValid(order[o])}]
  /\ UNCHANGED <<dbVars, req, clock, chainVars, faults>>

PromoteWrite ==
  /\ sw.pc = "commit"
  /\ order' = [o \in Orders |-> IF sw.seen[o].status = "none" THEN order[o]
                 ELSE Mature(order[o], sw.seen[o], o \in sw.valid, clock)]
  /\ sw' = IdleSweep
  /\ UNCHANGED <<processed, settled, cursor, req, clock, chainVars, faults>>

\* A tick fails (RPC error) or the process restarts: only the database survives.
SweepFail ==
  /\ faults < MaxFaults /\ sw.pc # "idle"
  /\ faults' = faults + 1 /\ sw' = IdleSweep
  /\ UNCHANGED <<dbVars, req, clock, chainVars>>

Restart ==
  /\ faults < MaxFaults
  /\ faults' = faults + 1 /\ sw' = IdleSweep /\ req' = [w \in Workers |-> IdleReq]
  /\ UNCHANGED <<dbVars, clock, chainVars>>

-----------------------------------------------------------------------------
(* The environment: the chain, the clock and the agent rail *)

NoTransfer == [value |-> 0, block |-> 0, idx |-> CHOOSE i \in LogIdx : TRUE]

Mine ==
  /\ head < MaxBlock
  /\ head' = head + 1
  /\ UNCHANGED <<dbVars, sw, req, clock, txs, reorgs, faults>>

\* A new block carries a transfer to the merchant, at whatever value the payer
\* chose; the bound leaves room for it to reach depth.
Pay(t, value, i) ==
  /\ txs[t].value = 0 /\ head + 1 + CONFIRMATIONS <= MaxBlock
  /\ head' = head + 1
  /\ txs' = [txs EXCEPT ![t] = [value |-> value, block |-> head + 1, idx |-> i]]
  /\ UNCHANGED <<dbVars, sw, req, clock, reorgs, faults>>

\* A reorg drops a transfer that has not reached depth ...
Reorg(t) ==
  /\ reorgs < MaxReorgs
  /\ txs[t].block # 0 /\ head - txs[t].block < CONFIRMATIONS
  /\ reorgs' = reorgs + 1
  /\ txs' = [txs EXCEPT ![t].block = 0]
  /\ UNCHANGED <<dbVars, sw, req, clock, head, faults>>

\* ... and a later block may carry it again, at another log index.
Remine(t, i) ==
  /\ txs[t].value # 0 /\ txs[t].block = 0 /\ head + 1 + CONFIRMATIONS <= MaxBlock
  /\ head' = head + 1
  /\ txs' = [txs EXCEPT ![t].block = head + 1, ![t].idx = i]
  /\ UNCHANGED <<dbVars, sw, req, clock, reorgs, faults>>

Tick ==
  /\ clock < MaxTime
  /\ clock' = clock + 1
  /\ UNCHANGED <<dbVars, sw, req, chainVars, faults>>

\* record_settlement or the reconciler writes an agent order's settlement tx,
\* some time after it was mined.
AgentSettle(t) ==
  /\ t \in AgentTxs /\ txs[t].block # 0
  /\ settled' = settled \cup {t}
  /\ UNCHANGED <<order, processed, cursor, sw, req, clock, chainVars, faults>>

-----------------------------------------------------------------------------

Init ==
  /\ order = [o \in Orders |-> NoRow]
  /\ processed = [k \in Txs \X LogIdx |-> NoOrder]
  /\ settled = {}
  /\ cursor = 0
  /\ sw = IdleSweep
  /\ req = [w \in Workers |-> IdleReq]
  /\ clock = 0
  /\ head = CONFIRMATIONS
  /\ txs = [t \in Txs |-> NoTransfer]
  /\ reorgs = 0 /\ faults = 0

Sweeper ==
  \/ SweepStart \/ SweepHead \/ SweepAddresses \/ SweepSkip
  \/ \E t \in Txs : SweepMatch(t)
  \/ SweepApply \/ SweepConflict \/ SweepWindowsDone
  \/ PromoteRead \/ PromoteWrite

Request(w) ==
  \/ \E o \in Orders : RefreshHead(w, o)
  \/ RefreshReceipt(w) \/ RefreshWrite(w)
  \/ \E o \in Orders, t \in Txs : SubmitReceipt(w, o, t)
  \/ SubmitCheck(w) \/ SubmitApply(w) \/ EndRequest(w)

Buyer ==
  \/ \E o \in Orders, offset \in 1..OffsetSpan, floor \in {0, head} :
       CreateOrder(o, offset, floor)
  \/ \E o \in Orders : RefreshExpire(o) \/ CancelCheckout(o)

Environment ==
  \/ Mine \/ Tick
  \/ \E t \in Txs, value \in Price..(Price + OffsetSpan), i \in LogIdx : Pay(t, value, i)
  \/ \E t \in Txs : Reorg(t) \/ AgentSettle(t)
  \/ \E t \in Txs, i \in LogIdx : Remine(t, i)

Next ==
  \/ Sweeper
  \/ \E w \in Workers : Request(w)
  \/ Buyer \/ Environment
  \/ SweepFail \/ Restart

Spec == Init /\ [][Next]_vars

\* sweeper_loop runs for ever and the chain keeps growing; buyers owe nothing.
FairSpec == Spec /\ WF_vars(Sweeper) /\ WF_vars(Mine)

-----------------------------------------------------------------------------
(* Properties *)

Transfer == [value : Nat, block : Nat, idx : LogIdx]

Request_ == [pc : ReqPc, o : Orders \cup {NoOrder}, snap : Row, tx : Txs \cup {NoTx},
             idx : LogIdx, block : Nat, head : Nat, valid : BOOLEAN]

Sweep_ == [pc : SweepPc, now : Nat, head : Nat, windows : Nat, tx : Txs \cup {NoTx},
           o : Orders \cup {NoOrder}, snap : Row, seen : [Orders -> Row],
           valid : SUBSET Orders]

\* The tables, the chain and the locals of every thread keep their shape.
TypeOK ==
  /\ order \in [Orders -> Row]
  /\ processed \in [Txs \X LogIdx -> Orders \cup {NoOrder}]
  /\ settled \subseteq Txs
  /\ cursor \in Nat
  /\ sw \in Sweep_
  /\ req \in [Workers -> Request_]
  /\ clock \in Nat /\ head \in Nat /\ reorgs \in Nat /\ faults \in Nat
  /\ txs \in [Txs -> Transfer]

PaidStatus == {"detected", "delivered"} \cup READY_TO_DELIVER

Consumed(o) == {k \in Txs \X LogIdx : processed[k] = o}

\* No free goods (verify_txhash, _process_log): an order that is paid or
\* delivered has consumed a transfer of exactly its own amount, whatever the
\* sweeper, two requests and the expiry of the order did in between.
PaidBacked ==
  \A o \in Orders : order[o].status \in PaidStatus =>
    \E k \in Consumed(o) : txs[k[1]].value = order[o].expected

\* One transfer pays at most one amount reservation (ux_orders_active_amount,
\* _amount_taken): a late transfer can only ever match the order it was meant for.
UniqueReservation ==
  \A o, p \in Orders :
    /\ o # p
    /\ order[o].status \in IndexedStatus /\ order[p].status \in IndexedStatus
    => order[o].expected # order[p].expected

\* deliver() is won once per order: order.paid is queued exactly when the goods
\* are released, by whichever of the sweeper, the fast path and a GET gets there.
SoldOnce ==
  \A o \in Orders : order[o].sold = IF order[o].status = "delivered" THEN 1 ELSE 0

\* A snapshot read before the commit of another thread never revives an order
\* that is delivered, released or reorged (transition's conditional UPDATE).
TerminalStays ==
  [][\A o \in Orders : order[o].status \in {"delivered", "canceled", "reorged"} =>
       order'[o].status = order[o].status /\ order'[o].paid = order[o].paid]_vars

\* The cooldown of a delivered amount (_amount_taken): an order of the same
\* amount exists only if it was created a quarantine after the delivery, so an
\* accidental duplicate payment cannot confirm a stranger's order.
CooldownHeld ==
  \A o, p \in Orders :
    /\ o # p /\ order[o].expected = order[p].expected
    /\ order[o].status = "delivered" /\ order[p].status \in IN_FLIGHT
    => order[p].expiresAt >= order[o].paidAt + QUARANTINE + ORDER_TTL

\* The cursor never passes a payment (_sweep_chain, across failed ticks,
\* restarts, stale addresses and capped windows): a pending order whose exact
\* transfer was mined after it was created and lies below the cursor was credited.
NoSkippedPayment ==
  \A o \in Orders, t \in Txs :
    /\ order[o].status = "pending" /\ order[o].createdBlock # 0
    /\ txs[t].value = order[o].expected /\ t \notin settled
    /\ txs[t].block > order[o].createdBlock /\ txs[t].block <= cursor
    => processed[<<t, txs[t].idx>>] # NoOrder

\* The order consumed a transfer of its amount that no reorg can take back.
PaidForGood(o) ==
  \E k \in Consumed(o) : /\ txs[k[1]].value = order[o].expected
                         /\ txs[k[1]].block # 0
                         /\ head - txs[k[1]].block >= CONFIRMATIONS

\* Maturing re-checks the receipt after the head (_receipt_still_valid), so the
\* orders a GET or the sweeper promotes are paid for good, although a reorg, the
\* other one and a second submission ran between their read and their write.
MaturedIsFinal ==
  [][PromoteWrite \/ (\E w \in Workers : RefreshWrite(w)) =>
       \A o \in Orders : order[o].status # "delivered" /\ order'[o].status = "delivered"
                         => PaidForGood(o)]_vars

\* Nothing is credited out of thin air: an order's paid_micro never exceeds the
\* exact transfers it consumed, whichever threads credited them.
CreditBacked ==
  \A o \in Orders :
    order[o].paid <= order[o].expected *
      Cardinality({k \in Consumed(o) : txs[k[1]].value = order[o].expected})

\* One transfer settles one order, on whichever rail: the settlement of an
\* agent order is never credited to a web order (_is_agent_settlement).
OneTransferOneOrder ==
  \A k \in Txs \X LogIdx : processed[k] # NoOrder => k[1] \notin settled

PaidOnTime(o, t) ==
  /\ order[o].status = "pending" /\ order[o].createdBlock # 0
  /\ t \notin AgentTxs /\ txs[t].value = order[o].expected
  /\ txs[t].block > order[o].createdBlock
  /\ processed[<<t, txs[t].idx>>] = NoOrder

\* A buyer who pays the exact amount while the order is open gets the goods, as
\* long as the clock stays within the quarantine and the order is not canceled.
PaidIsDelivered ==
  \A o \in Orders, t \in Txs :
    PaidOnTime(o, t) ~> order[o].status \in {"delivered", "canceled"}

\* ... and even when the order expires or is canceled meanwhile, the sweeper gets
\* to a payment: its transfer is consumed, or its order needs it no more.
PaidIsSwept ==
  \A o \in Orders, t \in Txs :
    PaidOnTime(o, t) ~> \/ processed[<<t, txs[t].idx>>] # NoOrder
                       \/ order[o].status \in {"delivered", "canceled"}

-----------------------------------------------------------------------------
(* The abstract specification *)

\* The stage of a sale that a row stands for.
StageOf(row) ==
  CASE row.status = "none" -> "none"
    [] row.status \in {"pending", "underpaid", "expired"} -> "open"
    [] row.status \in {"detected"} \cup READY_TO_DELIVER -> "paid"
    [] row.status = "delivered" -> "delivered"
    [] row.status \in {"canceled", "reorged"} -> "dead"

Booking == INSTANCE Payments WITH
  Sales <- Orders, Transfers <- Txs \X LogIdx, NoSale <- NoOrder,
  stage <- [o \in Orders |-> StageOf(order[o])], ledger <- processed

\* The checkout implements Payments: whatever the sweeper, the fast path, the
\* polling GETs and the expiry of an order do to each other's snapshots, each
\* transfer is booked once and an order is paid by a booking and nothing else.
ImplementsPayments == Booking!PaymentsSpec

=============================================================================
