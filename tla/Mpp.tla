-------------------------------- MODULE Mpp --------------------------------
(***************************************************************************)
(* Metered pay-as-you-go channels (app/mpp.py): a local row per channel of *)
(* a settlement agent that holds the deposit.  Open, top-up and close call *)
(* the agent first and write the row afterwards; a voucher is accounted    *)
(* locally only.  The session reads the row and then updates it under a    *)
(* condition on what it read.                                              *)
(***************************************************************************)
EXTENDS Server

CONSTANTS
  Channels,
  MaxDeposit   \* bound of the run: deposit of a channel

ASSUME MppAssumption == MaxDeposit \in Nat /\ None \notin Channels

VARIABLES
  channel,   \* mpp_channels
  agent,     \* the settlement agent: status and deposit of each channel
  served,    \* the highest cumulative amount a unit was served for
  mppReq     \* locals of the requests in flight

mppVars == <<channel, agent, served, mppReq>>

-----------------------------------------------------------------------------

ChannelRow == [status : {"none", "open", "closed"}, deposit : Nat, spent : Nat]
NoChannel == [status |-> "none", deposit |-> 0, spent |-> 0]
NoMppReq == [step |-> "idle", ch |-> None, amount |-> None, row |-> NoChannel]

Become(w, new) == mppReq' = [mppReq EXCEPT ![w] = new]

\* mpp_open: the agent opens the channel and its receipt names the deposit;
\* a repeated open is answered with the same channel.
SaOpen(w, ch) ==
  /\ mppReq[w].step = "idle"
  /\ \E d \in 1..MaxDeposit :
       /\ agent[ch].status = "none" \/ agent[ch].deposit = d
       /\ agent' = IF agent[ch].status = "none"
                     THEN [agent EXCEPT ![ch] = [status |-> "open", deposit |-> d]] ELSE agent
       /\ Become(w, [NoMppReq EXCEPT !.step = "open", !.ch = ch, !.amount = d])
  /\ UNCHANGED <<channel, served>>

\* open_channel(): UNIQUE(channel_id) makes the row of a repeated open win.
OpenWrite(w) ==
  LET r == mppReq[w] IN
  /\ r.step = "open"
  /\ channel' = IF channel[r.ch].status = "none"
       THEN [channel EXCEPT ![r.ch] = [status |-> "open", deposit |-> r.amount, spent |-> 0]]
       ELSE channel
  /\ Become(w, NoMppReq) /\ UNCHANGED <<agent, served>>

\* apply_voucher() reads the row: a cumulative amount must advance within the
\* deposit.
VoucherRead(w, ch, c) ==
  /\ mppReq[w].step = "idle" /\ channel[ch].status = "open"
  /\ c > channel[ch].spent /\ c <= channel[ch].deposit
  /\ Become(w, [step |-> "voucher", ch |-> ch, amount |-> c, row |-> channel[ch]])
  /\ UNCHANGED <<channel, agent, served>>

\* Mutant of VoucherWrite: the UPDATE does not compare the spend it read.
VoucherWriteBlind(w) ==
  LET r == mppReq[w] IN
  /\ r.step = "voucher"
  /\ IF channel[r.ch].status = "open"
       THEN /\ channel' = [channel EXCEPT ![r.ch].spent = r.amount]
            /\ served' = [served EXCEPT ![r.ch] = IF r.amount > @ THEN r.amount ELSE @]
       ELSE UNCHANGED <<channel, served>>
  /\ Become(w, NoMppReq) /\ UNCHANGED agent

\* The spend moves only from the value that was read; then the unit is served.
VoucherWrite(w) ==
  LET r == mppReq[w] IN
  /\ r.step = "voucher"
  /\ IF channel[r.ch].status = "open" /\ channel[r.ch].spent = r.row.spent
       THEN /\ channel' = [channel EXCEPT ![r.ch].spent = r.amount]
            /\ served' = [served EXCEPT ![r.ch] = IF r.amount > @ THEN r.amount ELSE @]
       ELSE UNCHANGED <<channel, served>>
  /\ Become(w, NoMppReq) /\ UNCHANGED agent

\* mpp_topup: the agent takes the money first.
SaTopup(w, ch, add) ==
  /\ mppReq[w].step = "idle" /\ channel[ch].status # "none"
  /\ agent[ch].status = "open" /\ agent[ch].deposit + add <= MaxDeposit
  /\ agent' = [agent EXCEPT ![ch].deposit = @ + add]
  /\ Become(w, [NoMppReq EXCEPT !.step = "topup", !.ch = ch, !.amount = add])
  /\ UNCHANGED <<channel, served>>

TopupRead(w) ==
  LET r == mppReq[w] IN
  /\ r.step = "topup"
  /\ Become(w, IF channel[r.ch].status = "open"
                 THEN [r EXCEPT !.step = "topupWrite", !.row = channel[r.ch]] ELSE NoMppReq)
  /\ UNCHANGED <<channel, agent, served>>

\* topup_channel(): a lost race leaves the local deposit behind the agent's.
TopupWrite(w) ==
  LET r == mppReq[w] IN
  /\ r.step = "topupWrite"
  /\ channel' = IF channel[r.ch].status = "open" /\ channel[r.ch].deposit = r.row.deposit
       THEN [channel EXCEPT ![r.ch].deposit = r.row.deposit + r.amount] ELSE channel
  /\ Become(w, NoMppReq) /\ UNCHANGED <<agent, served>>

\* mpp_close: the agent settles, then the row is read and closed.  No amount:
\* the body names no final spend.
SaClose(w, ch, final) ==
  /\ mppReq[w].step = "idle" /\ channel[ch].status # "none" /\ agent[ch].status # "none"
  /\ agent' = [agent EXCEPT ![ch].status = "closed"]
  /\ Become(w, [NoMppReq EXCEPT !.step = "close", !.ch = ch, !.amount = final])
  /\ UNCHANGED <<channel, served>>

CloseRead(w) ==
  LET r == mppReq[w] IN
  /\ r.step = "close"
  /\ Become(w, [r EXCEPT !.step = "closeWrite", !.row = channel[r.ch]])
  /\ UNCHANGED <<channel, agent, served>>

\* close_channel(): a final spend can only raise the spend that was read.
CloseWrite(w) ==
  LET r == mppReq[w] IN
  /\ r.step = "closeWrite"
  /\ channel' = IF channel[r.ch].status # "open" THEN channel
       ELSE [channel EXCEPT ![r.ch].status = "closed",
               ![r.ch].spent = IF r.amount = None THEN @
                               ELSE IF r.amount > r.row.spent THEN r.amount ELSE r.row.spent]
  /\ Become(w, NoMppReq) /\ UNCHANGED <<agent, served>>

\* The agent's answer is lost, or the process dies before the row is written.
MppDies(w) ==
  /\ mppReq[w].step # "idle" /\ Become(w, NoMppReq)
  /\ UNCHANGED <<channel, agent, served>>

MppInit ==
  /\ channel = [ch \in Channels |-> NoChannel]
  /\ agent = [ch \in Channels |-> [status |-> "none", deposit |-> 0]]
  /\ served = [ch \in Channels |-> 0]
  /\ mppReq = [w \in Threads |-> NoMppReq]

MppNext ==
  \E w \in Threads :
    \/ \E ch \in Channels :
         \/ SaOpen(w, ch)
         \/ \E c \in 1..MaxDeposit : VoucherRead(w, ch, c) \/ SaTopup(w, ch, c)
         \/ \E f \in {None} \cup 0..MaxDeposit : SaClose(w, ch, f)
    \/ OpenWrite(w) \/ VoucherWrite(w) \/ TopupRead(w) \/ TopupWrite(w)
    \/ CloseRead(w) \/ CloseWrite(w) \/ MppDies(w)

MppSpec == MppInit /\ [][MppNext]_mppVars

-----------------------------------------------------------------------------
(* Properties *)

MppTypeOK ==
  /\ channel \in [Channels -> ChannelRow]
  /\ agent \in [Channels -> [status : {"none", "open", "closed"}, deposit : 0..MaxDeposit]]
  /\ served \in [Channels -> 0..MaxDeposit]

\* While a channel is open its spend is what was served for, within a deposit
\* the settlement agent really holds, whatever vouchers and top-ups race.
SpendIsServed ==
  \A ch \in Channels :
    /\ channel[ch].deposit <= agent[ch].deposit
    /\ channel[ch].status = "open" =>
         channel[ch].spent = served[ch] /\ channel[ch].spent <= channel[ch].deposit

(* Statements of the repository that the code does not keep (README). *)

\* app/mpp.py:366-369: closing never lowers the spend below what was served.
ClosedAtServed ==
  \A ch \in Channels : channel[ch].status = "closed" => channel[ch].spent >= served[ch]

=============================================================================
