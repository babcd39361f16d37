------------------------------ MODULE Payments ------------------------------
(***************************************************************************)
(* What a checkout promises, whoever moves it: every transfer is booked    *)
(* once, on one order; an order becomes paid only in the step that books a *)
(* transfer on it, and is delivered only from there; what is delivered or  *)
(* dead stays so.  Checkout implements it.                                 *)
(***************************************************************************)
CONSTANTS
  Sales,      \* orders
  Transfers,  \* transfers on chain, by transaction and log index
  NoSale      \* the booking of a transfer nobody claimed

VARIABLES
  stage,      \* how far a sale has come
  ledger      \* the sale a transfer is booked on

paymentVars == <<stage, ledger>>

Stages == {"none", "open", "paid", "delivered", "dead"}

\* The moves of a sale that book nothing.
Moves == {<<"none", "open">>, <<"open", "dead">>, <<"paid", "delivered">>, <<"paid", "dead">>}

\* A sweep or a request moves any number of sales on.
Progress ==
  /\ stage' \in [Sales -> Stages]
  /\ \A s \in Sales : stage'[s] # stage[s] => <<stage[s], stage'[s]>> \in Moves
  /\ UNCHANGED ledger

\* A transfer is booked: an open sale is paid and perhaps delivered at once, a
\* paid one may be delivered, and for a delivered or dead one it is surplus.
Book(k, s) ==
  /\ ledger[k] = NoSale
  /\ ledger' = [ledger EXCEPT ![k] = s]
  /\ \E to \in Stages :
       /\ to = stage[s] \/ <<stage[s], to>> \in {<<"open", "paid">>, <<"open", "delivered">>,
                                                 <<"paid", "delivered">>}
       /\ stage' = [stage EXCEPT ![s] = to]

PaymentsInit ==
  /\ stage = [s \in Sales |-> "none"]
  /\ ledger = [k \in Transfers |-> NoSale]

PaymentsNext == Progress \/ \E k \in Transfers, s \in Sales : Book(k, s)

PaymentsSpec == PaymentsInit /\ [][PaymentsNext]_paymentVars

=============================================================================
