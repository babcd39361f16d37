---------------------------- MODULE AgentOrders ----------------------------
(***************************************************************************)
(* The agent checkout of Tilla (app/agentic.py) and the chain reconciler   *)
(* that settles it (app/reconcile.py).  An x402 buy delivers an order into *)
(* the provisional status `settling`; four parties then race to end it:    *)
(* record_settlement, on a served response that carries a transaction;     *)
(* settle_failed_core, on a failed one; the reconciler, which looks for    *)
(* the facilitator's transfer on chain; and the reaper, which voids what   *)
(* an allegedly complete chain scan did not find.                          *)
(*                                                                         *)
(* One (buyer, merchant) pair, the unit of the reconciler's state.  Order  *)
(* ids are numbers in the order of created_at.  The chain mines one block  *)
(* per unit of time (BLOCKS_PER_SEC is 1), so heights are also times, and  *)
(* a block holds at most one transfer of the pair.  0 is NULL for          *)
(* created_block and "no entry" for _pair_cursors.                         *)
(***************************************************************************)
EXTENDS Integers, FiniteSets, FiniteSetsExt

CONSTANTS
  NumOrders, Txs,        \* order ids are 1..NumOrders; settlement transactions
  Workers,               \* request threads of the server
  Loops,                 \* background threads running: "loop", "reaper"
  Prices,                \* product prices
  Answers,               \* what a settle call that was accepted may return
  AGGR_DEFERRED_ENABLED, RECONCILE_MAX_PER_TICK, LOOKBACK,
  WALK,                  \* RECONCILE_MAX_WINDOWS windows, in blocks
  SAFETY_BLOCKS, REAP_AFTER,
  SETTLE_DELAY,          \* lifetime of a signed authorization
  SCAN_TIME,             \* how long one tick may take
  MAX_GAP,               \* longest time between two completed walks
  MaxBlock, MaxBuys, MaxFaults, MaxMisses, \* bounds of the run
  NoTx, Pending

ASSUME ConstantsAssumption ==
  /\ NumOrders \in Nat /\ IsFiniteSet(Txs) /\ Loops \subseteq {"loop", "reaper"}
  /\ Prices \subseteq Nat \ {0} /\ Answers \subseteq {"tx", "none", "pending", "lost"}
  /\ AGGR_DEFERRED_ENABLED \in BOOLEAN
  /\ RECONCILE_MAX_PER_TICK \in Nat /\ LOOKBACK \in Nat /\ WALK \in Nat \ {0}
  /\ SAFETY_BLOCKS \in Nat /\ REAP_AFTER \in Nat /\ SETTLE_DELAY \in Nat
  /\ SCAN_TIME \in Nat /\ MAX_GAP \in Nat
  /\ MaxBlock \in Nat \ {0} /\ MaxBuys \in Nat /\ MaxFaults \in Nat /\ MaxMisses \in Nat
  /\ NoTx \notin Txs /\ Pending \notin Txs /\ NoTx # Pending

VARIABLES
  order,     \* orders: the agent rows of the pair
  req,       \* the paid requests in flight
  rec,       \* locals of the background ticks
  scan,      \* the reconciler's process-local globals
  auth,      \* the facilitator: what became of each signed authorization
  txs,       \* the chain: block (0: not mined) and orders paid by each transfer
  head,      \* the chain height, and the clock
  lastWalk,  \* head of the last completed walk while the pair is at head
  buys, faults, misses \* how many have happened, for the bounds

vars == <<order, req, rec, scan, auth, txs, head, lastWalk, buys, faults, misses>>

Orders == 1..NumOrders

-----------------------------------------------------------------------------
(* The orders table *)

TERMINAL_DELIVERED == {"delivered"}

Status == {"none", "settling", "canceled"} \cup TERMINAL_DELIVERED

\* settle_ref: NULL, a pending facilitator reference, or the settling transaction.
Refs == Txs \cup {NoTx, Pending}

Row == [status : Status, expected : Nat, ref : Refs, tx : Txs \cup {NoTx},
        createdBlock : Nat, bornAt : Nat]

NoRow == [status |-> "none", expected |-> 0, ref |-> NoTx, tx |-> NoTx,
          createdBlock |-> 0, bornAt |-> 0]

\* The conditional UPDATE both outcomes go through.
Transition(row, new) == IF row.status = "settling" THEN new ELSE row

\* Mutant of VoidSettling: the name of the webhook event is written as the status.
VoidAsEvent(row) == Transition(row, [row EXCEPT !.status = "voided"])

VoidSettling(row) == Transition(row, [row EXCEPT !.status = "canceled"])

\* Finalize keeps settle_ref; the reconciler also stamps it (Settle).
FinalizeSettled(row, t) == Transition(row, [row EXCEPT !.status = "delivered", !.tx = t])

FinalizeStamped(row, t) ==
  Transition(row, [row EXCEPT !.status = "delivered", !.tx = t, !.ref = t])

Settling == {o \in Orders : order[o].status = "settling"}
Unreferenced == {o \in Settling : order[o].ref = NoTx}

\* Mutant of Oldest: the limit is off by one.
OldestButOne(S) == {o \in S : Cardinality({q \in S : q <= o}) < RECONCILE_MAX_PER_TICK}

\* ORDER BY created_at LIMIT RECONCILE_MAX_PER_TICK
Oldest(S) == {o \in S : Cardinality({q \in S : q < o}) < RECONCILE_MAX_PER_TICK}

PriceOf(S) == MapThenSumSet(LAMBDA o : order[o].expected, S)

-----------------------------------------------------------------------------
(* The chain and the facilitator *)

Value(t) == PriceOf(txs[t].pays)
Landed(o) == \E t \in Txs : o \in txs[t].pays
Mined(from, to) == {t \in Txs : txs[t].block # 0 /\ txs[t].block >= from /\ txs[t].block <= to}

\* An authorization is good for SETTLE_DELAY (validBefore of EIP-3009).
Valid(o, at) == at <= order[o].bornAt + SETTLE_DELAY

-----------------------------------------------------------------------------
(* Locals *)

RequestPC == {"idle", "settle", "answer", "record", "hook"}
Idle == [pc |-> "idle", order |-> 0, ans |-> NoTx]

TickPC == {"idle", "tick", "head", "read", "write", "reap", "void", "status", "poll"}
NoTick == [pc |-> "idle", since |-> 0, list |-> {}, found |-> {}, consumed |-> {},
           at |-> 0, next |-> 0]

\* Nothing known of the pair: after a start, and whenever nothing is settling.
NoScan == [cursor |-> 0, atHead |-> FALSE, scanned |-> {}, stamped |-> FALSE]

Init ==
  /\ order = [o \in Orders |-> NoRow]
  /\ req = [w \in Workers |-> Idle]
  /\ rec = [p \in Loops |-> NoTick]
  /\ scan = NoScan
  /\ auth = [o \in Orders |-> "no"]
  /\ txs = [t \in Txs |-> [block |-> 0, pays |-> {}]]
  /\ head = 1 /\ lastWalk = 0
  /\ buys = 0 /\ faults = 0 /\ misses = 0

-----------------------------------------------------------------------------
(* Paid requests *)

dbVars == <<order>>
loopVars == <<rec, scan, lastWalk>>
chainVars == <<txs, head>>

Unborn == {o \in Orders : order[o].status = "none"}

\* fulfill_agent_order commits an order that is delivered and held `settling`;
\* created_block is NULL when the head cannot be read.  REAP_AFTER is left
\* below MaxBlock so that a run sees what becomes of every order.
Create(w, o, price, block) ==
  /\ \A q \in Unborn : o <= q
  /\ head + REAP_AFTER < MaxBlock
  /\ faults + (IF block = 0 THEN 1 ELSE 0) <= MaxFaults
  /\ faults' = faults + (IF block = 0 THEN 1 ELSE 0)
  /\ order' = [order EXCEPT ![o] = [NoRow EXCEPT
       !.status = "settling", !.expected = price, !.createdBlock = block, !.bornAt = head]]

\* A paid POST: a new nonce creates the order, a known one returns the stored
\* order whatever became of it; both go on to settle.
Buy(w) ==
  /\ req[w].pc = "idle" /\ buys < MaxBuys
  /\ buys' = buys + 1
  /\ \E o \in Orders :
       /\ \/ o \in Unborn /\ \E price \in Prices, block \in {0, head} : Create(w, o, price, block)
          \/ o \notin Unborn /\ UNCHANGED <<order, faults>>
       /\ req' = [req EXCEPT ![w] = [pc |-> "settle", order |-> o, ans |-> NoTx]]
  /\ UNCHANGED <<loopVars, chainVars, auth, misses>>

Goto(w, pc, ans) == req' = [req EXCEPT ![w].pc = pc, ![w].ans = ans]

\* The facilitator takes the authorization (again, if it has it already).
Accept(w) ==
  LET o == req[w].order
  IN  /\ req[w].pc = "settle" /\ auth[o] # "failed" /\ Valid(o, head)
      /\ auth' = [auth EXCEPT ![o] = IF @ = "no" THEN "queued" ELSE @]
      /\ Goto(w, "answer", NoTx)
      /\ UNCHANGED <<dbVars, loopVars, chainVars, buys, faults, misses>>

\* ... or refuses it: no funds, expired, or the nonce was already submitted.
Refuse(w) ==
  /\ req[w].pc = "settle"
  /\ Goto(w, "hook", NoTx)
  /\ UNCHANGED <<dbVars, loopVars, chainVars, auth, buys, faults, misses>>

\* What the response says of an accepted settle.  "lost": the call failed on our
\* side although the facilitator has the authorization.
Answer(w) ==
  LET o == req[w].order
  IN  /\ req[w].pc = "answer"
      /\ \/ "tx" \in Answers /\ \E t \in Txs : o \in txs[t].pays /\ Goto(w, "record", t)
         \/ "none" \in Answers /\ Goto(w, "record", NoTx)
         \/ "pending" \in Answers /\ Goto(w, "record", Pending)
         \/ "lost" \in Answers /\ Goto(w, "hook", NoTx)
         \/ auth[o] = "failed" /\ Goto(w, "hook", NoTx)
      /\ UNCHANGED <<dbVars, loopVars, chainVars, auth, buys, faults, misses>>

\* record_settlement: deliver on a transaction, keep a pending reference, else
\* leave the order to the reconciler.
Record(w) ==
  LET o == req[w].order
      ans == req[w].ans
  IN  /\ req[w].pc = "record"
      /\ order' = [order EXCEPT ![o] =
           CASE ans \in Txs -> FinalizeSettled(@, ans)
             [] ans = Pending -> Transition(@, [@ EXCEPT !.ref = Pending])
             [] OTHER -> @]
      /\ req' = [req EXCEPT ![w] = Idle]
      /\ UNCHANGED <<loopVars, chainVars, auth, buys, faults, misses>>

\* settle_failed_core: a delivered order is reported as recovered, a settling one
\* is voided.
Hook(w) ==
  /\ req[w].pc = "hook"
  /\ order' = [order EXCEPT ![req[w].order] =
       IF @.status \in TERMINAL_DELIVERED THEN @ ELSE VoidSettling(@)]
  /\ req' = [req EXCEPT ![w] = Idle]
  /\ UNCHANGED <<loopVars, chainVars, auth, buys, faults, misses>>

-----------------------------------------------------------------------------
(* The chain scan, run by the reconcile loop and by the reaper *)

Become(p, tick) == rec' = [rec EXCEPT ![p] = tick]
AfterScan(p) == IF p = "reaper" THEN "reap" ELSE "status"

\* _reap_tick: the chain answers, and the stamp of the last scan is noted.
Reachable(p) ==
  /\ p = "reaper" /\ rec[p].pc = "idle"
  /\ scan' = [scan EXCEPT !.stamped = FALSE]
  /\ Become(p, [NoTick EXCEPT !.pc = "tick", !.since = head])
  /\ UNCHANGED <<dbVars, req, chainVars, auth, lastWalk, buys, faults, misses>>

\* reconcile_chain_tick, up to its query.  No candidates is a complete scan.
TickStart(p) ==
  LET since == IF p = "reaper" THEN rec[p].since ELSE head
      tick == [NoTick EXCEPT !.since = since, !.list = Oldest(Unreferenced)]
  IN  /\ rec[p].pc = IF p = "reaper" THEN "tick" ELSE "idle"
      /\ IF ~AGGR_DEFERRED_ENABLED
         THEN /\ Become(p, [tick EXCEPT !.pc = AfterScan(p), !.list = {}])
              /\ UNCHANGED <<scan, lastWalk>>
         ELSE IF tick.list = {}
         THEN /\ Become(p, [tick EXCEPT !.pc = AfterScan(p)])
              /\ scan' = [NoScan EXCEPT !.stamped = TRUE]
              /\ lastWalk' = 0
         ELSE /\ Become(p, [tick EXCEPT !.pc = "head"])
              /\ UNCHANGED <<scan, lastWalk>>
      /\ UNCHANGED <<dbVars, req, chainVars, auth, buys, faults, misses>>

\* _scan_start: the age of the oldest candidate, over-estimated, as a depth.
Anchor(orders) ==
  LET oldest == CHOOSE o \in orders : \A q \in orders : o <= q
      depth == ((head - order[oldest].bornAt) * 5) \div 4 + SAFETY_BLOCKS
  IN  Min({Max({head - LOOKBACK, 0}), Max({head - depth, 0})})

\* Mutant of ScanStart: a pair without a cursor starts at the trailing window.
TrailingStart(orders) == IF scan.cursor # 0 THEN scan.cursor ELSE Max({head - LOOKBACK, 0})

ScanStart(orders) ==
  IF scan.cursor # 0 THEN scan.cursor
  ELSE IF scan.atHead THEN Max({head - LOOKBACK, 0})
  ELSE Anchor(orders)

\* The head, then the transfers of at most WALK blocks.  A transfer whose receipt
\* the node does not return is left out (a miss), and the walk goes on.
Scan(p) ==
  LET start == ScanStart(rec[p].list)
      last == Min({start + WALK - 1, head})
  IN  /\ rec[p].pc = "head"
      /\ \E missed \in SUBSET Mined(start, last) :
           /\ misses + Cardinality(missed) <= MaxMisses
           /\ misses' = misses + Cardinality(missed)
           /\ Become(p, [rec[p] EXCEPT !.pc = "read", !.found = Mined(start, last) \ missed,
                           !.at = head, !.next = IF last = head THEN 0 ELSE last + 1])
      /\ UNCHANGED <<dbVars, req, scan, lastWalk, chainVars, auth, buys, faults>>

\* The head cannot be read (the globals stay as they are) or the logs cannot (no
\* order counts as scanned); either way there is no stamp.
ScanFails(p) ==
  /\ rec[p].pc = "head" /\ faults < MaxFaults
  /\ faults' = faults + 1
  /\ scan' \in {scan, [scan EXCEPT !.scanned = {}]}
  /\ Become(p, [NoTick EXCEPT !.pc = AfterScan(p), !.since = rec[p].since])
  /\ UNCHANGED <<dbVars, req, lastWalk, chainVars, auth, buys, misses>>

\* Mutant of Consumed: only the orders still settling are read.
ConsumedBySettling == {order[o].ref : o \in Settling} \ {NoTx}

\* A transaction on either column of any order of the pair is used up.
Consumed == ({order[o].ref : o \in Orders} \cup {order[o].tx : o \in Orders}) \ {NoTx}

ReadConsumed(p) ==
  /\ rec[p].pc = "read"
  /\ Become(p, [rec[p] EXCEPT !.pc = "write", !.consumed = Consumed])
  /\ UNCHANGED <<dbVars, req, scan, lastWalk, chainVars, auth, buys, faults, misses>>

\* Mutant of Covered: created_block is no floor.
CoveredNoFloor(t, pending) == {o \in pending : PriceOf({q \in pending : q <= o}) <= Value(t)}

\* Mutant of Covered: the exact amount is not enough.
CoveredStrictly(t, pending) ==
  {o \in pending : PriceOf({q \in pending : q <= o}) < Value(t)}

\* The pending orders a transfer pays for, oldest first: it stops at the first
\* one it cannot pay in full, or that was created after it was mined.
Covered(t, pending) ==
  {o \in pending :
     LET upTo == {q \in pending : q <= o}
     IN  /\ PriceOf(upTo) <= Value(t)
         /\ \A q \in upTo : txs[t].block >= order[q].createdBlock}

\* What is left of the candidates after the transfers up to block b.
Unpaid(list, fresh) ==
  LET left[b \in 0..MaxBlock] ==
        IF b = 0 THEN list
        ELSE left[b - 1] \ UNION {Covered(t, left[b - 1]) : t \in {u \in fresh : txs[u].block = b}}
  IN  left

\* The transfer the walk assigns an order to, if any.
PayerOf(o, list, fresh) ==
  LET left == Unpaid(list, fresh)
      payers == {t \in fresh : o \in Covered(t, left[txs[t].block - 1])}
  IN  IF payers = {} THEN NoTx ELSE CHOOSE t \in payers : TRUE

\* One transaction finalizes what the walk found; then the position of the pair
\* and the set of scanned orders are written.
Write(p) ==
  LET list == rec[p].list
      fresh == rec[p].found \ rec[p].consumed
      reached == rec[p].next = 0
  IN  /\ rec[p].pc = "write"
      /\ order' = [o \in Orders |->
           IF o \in list /\ PayerOf(o, list, fresh) # NoTx
           THEN FinalizeStamped(order[o], PayerOf(o, list, fresh)) ELSE order[o]]
      /\ scan' = [cursor |-> rec[p].next,
                  atHead |-> scan.atHead \/ reached,
                  scanned |-> IF reached THEN list ELSE {},
                  stamped |-> scan.stamped \/ reached]
      /\ lastWalk' = IF reached THEN rec[p].at ELSE lastWalk
      /\ Become(p, [NoTick EXCEPT !.pc = AfterScan(p), !.since = rec[p].since])
      /\ UNCHANGED <<req, chainVars, auth, buys, faults, misses>>

\* The transaction fails (database is locked): the tick ends, nothing is kept.
WriteFails(p) ==
  /\ rec[p].pc = "write" /\ faults < MaxFaults
  /\ faults' = faults + 1
  /\ Become(p, NoTick)
  /\ UNCHANGED <<dbVars, req, scan, lastWalk, chainVars, auth, buys, misses>>

-----------------------------------------------------------------------------
(* The reaper *)

\* reap_agent_orders: only on a completed scan, only orders that scan walked.
ReapRead(p) ==
  LET old == {o \in scan.scanned \cap Unreferenced : head - order[o].bornAt >= REAP_AFTER}
  IN  /\ p = "reaper" /\ rec[p].pc = "reap"
      /\ Become(p, IF scan.stamped /\ old # {}
                   THEN [rec[p] EXCEPT !.pc = "void", !.list = old] ELSE NoTick)
      /\ UNCHANGED <<dbVars, req, scan, lastWalk, chainVars, auth, buys, faults, misses>>

Reap(p) ==
  /\ p = "reaper" /\ rec[p].pc = "void"
  /\ order' = [o \in Orders |-> IF o \in rec[p].list THEN VoidSettling(order[o]) ELSE order[o]]
  /\ Become(p, NoTick)
  /\ UNCHANGED <<req, scan, lastWalk, chainVars, auth, buys, faults, misses>>

-----------------------------------------------------------------------------
(* The settle-status poll of the reconcile loop *)

\* reconcile_tick: the orders with a pending reference, in no particular order.
StatusRead(p) ==
  /\ p = "loop" /\ rec[p].pc = "status"
  /\ \E list \in SUBSET (Settling \ Unreferenced) :
       /\ Cardinality(list) =
            Min({RECONCILE_MAX_PER_TICK, Cardinality(Settling \ Unreferenced)})
       /\ Become(p, IF list = {} THEN NoTick ELSE [rec[p] EXCEPT !.pc = "poll", !.list = list])
  /\ UNCHANGED <<dbVars, req, scan, lastWalk, chainVars, auth, buys, faults, misses>>

\* _reconcile_one: deliver on a transaction, void on a definite failure, else
\* leave the order alone.
Poll(p) ==
  /\ p = "loop" /\ rec[p].pc = "poll"
  /\ \E o \in rec[p].list :
       /\ order' = [order EXCEPT ![o] =
            IF Landed(o) THEN FinalizeStamped(@, CHOOSE t \in Txs : o \in txs[t].pays)
            ELSE IF auth[o] = "failed" THEN VoidSettling(@) ELSE @]
       /\ LET rest == rec[p].list \ {o}
          IN  Become(p, IF rest = {} THEN NoTick ELSE [rec[p] EXCEPT !.list = rest])
  /\ UNCHANGED <<req, scan, lastWalk, chainVars, auth, buys, faults, misses>>

-----------------------------------------------------------------------------
(* Crashes, and the world outside *)

\* Requests, ticks and the reconciler's globals are lost.
Restart ==
  /\ faults < MaxFaults
  /\ faults' = faults + 1
  /\ req' = [w \in Workers |-> Idle]
  /\ rec' = [p \in Loops |-> NoTick]
  /\ scan' = NoScan /\ lastWalk' = 0
  /\ UNCHANGED <<dbVars, chainVars, auth, buys, misses>>

\* Ticks are time-boxed, and a pair at head is walked again within MAX_GAP.
OnTime(h) ==
  /\ \A p \in Loops : rec[p].pc # "idle" => h - rec[p].since <= SCAN_TIME
  /\ scan.atHead => h - lastWalk <= MAX_GAP

\* The next block: without a transfer of the pair, or with one that pays a batch
\* of the queued authorizations.
Mine ==
  /\ head < MaxBlock /\ OnTime(head + 1)
  /\ head' = head + 1
  /\ \/ UNCHANGED <<txs, auth>>
     \/ \E t \in Txs, batch \in SUBSET {o \in Orders : auth[o] = "queued"} :
          /\ txs[t].block = 0 /\ batch # {}
          /\ \A o \in batch : Valid(o, head + 1)
          /\ txs' = [txs EXCEPT ![t] = [block |-> head + 1, pays |-> batch]]
          /\ auth' = [o \in Orders |-> IF o \in batch THEN "landed" ELSE auth[o]]
  /\ UNCHANGED <<dbVars, req, loopVars, buys, faults, misses>>

\* The facilitator gives up on an authorization.
Drop(o) ==
  /\ auth[o] = "queued"
  /\ auth' = [auth EXCEPT ![o] = "failed"]
  /\ UNCHANGED <<dbVars, req, loopVars, chainVars, buys, faults, misses>>

-----------------------------------------------------------------------------

Request(w) ==
  Buy(w) \/ Accept(w) \/ Refuse(w) \/ Answer(w) \/ Record(w) \/ Hook(w)

Tick(p) ==
  \/ Reachable(p) \/ TickStart(p) \/ Scan(p) \/ ReadConsumed(p) \/ Write(p)
  \/ ReapRead(p) \/ Reap(p) \/ StatusRead(p) \/ Poll(p)

TickFails(p) == ScanFails(p) \/ WriteFails(p)

Next ==
  \/ \E w \in Workers : Request(w)
  \/ \E p \in Loops : Tick(p) \/ TickFails(p)
  \/ \E o \in Orders : Drop(o)
  \/ Mine \/ Restart

Spec == Init /\ [][Next]_vars

\* Both loops run forever and catch what a tick raises; the chain grows.
FairSpec == Spec /\ WF_vars(Mine) /\ \A p \in Loops : WF_vars(Tick(p))

-----------------------------------------------------------------------------
(* Properties *)

TypeOK ==
  /\ order \in [Orders -> Row]
  /\ req \in [Workers -> [pc : RequestPC, order : Orders \cup {0}, ans : Refs]]
  /\ rec \in [Loops -> [pc : TickPC, since : Nat, list : SUBSET Orders, found : SUBSET Txs,
                        consumed : SUBSET (Txs \cup {Pending}), at : Nat, next : Nat]]
  /\ scan \in [cursor : Nat, atHead : BOOLEAN, scanned : SUBSET Orders, stamped : BOOLEAN]
  /\ auth \in [Orders -> {"no", "queued", "landed", "failed"}]
  /\ txs \in [Txs -> [block : Nat, pays : SUBSET Orders]]
  /\ head \in 1..MaxBlock /\ lastWalk \in Nat
  /\ buys \in 0..MaxBuys /\ faults \in 0..MaxFaults /\ misses \in 0..MaxMisses

\* A delivered order carries a mined transfer that is not older than the order,
\* whoever delivered it (the created_block floor of _reconcile_chain_pair); that
\* the transfer is also large enough follows from TransferNotOverspent.
DeliveredHasTransfer ==
  \A o \in Orders : order[o].status = "delivered" =>
    \E t \in Txs : /\ order[o].tx = t /\ txs[t].block # 0
                   /\ txs[t].block >= order[o].createdBlock

\* The orders delivered on one transfer cost no more than it moved: a re-scanned
\* or concurrently scanned transfer never settles a later order again.
TransferNotOverspent ==
  \A t \in Txs :
    PriceOf({o \in Orders : order[o].status = "delivered" /\ order[o].tx = t}) <= Value(t)

\* The reaper never voids an order whose payment is on chain
\* (reap_agent_orders, _reap_tick), through failed scans, restarts, partial
\* walks and two ticks sharing the reconciler's globals.  True of a pair with one
\* order at a time.
ReapedIsUnpaid ==
  [][\A p \in Loops : Reap(p) =>
       \A o \in rec[p].list : order'[o].status # order[o].status => ~Landed(o)]_vars

\* A paid order that was held without a transaction is delivered by the
\* reconciler (comment in record_settlement).
PaidIsSettled ==
  \A o \in Orders : order[o].status = "settling" /\ Landed(o) ~> order[o].status = "delivered"

\* An order nobody paid does not stay settling (fulfill_agent_order: the reaper
\* voids orders stuck settling).
StuckIsReaped ==
  \A o \in Orders : o \in Unreferenced ~> o \notin Unreferenced

=============================================================================
