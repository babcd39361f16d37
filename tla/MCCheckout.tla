----------------------------- MODULE MCCheckout -----------------------------
(***************************************************************************)
(* TLC instances of Checkout.  Orders and transactions are interchangeable *)
(* model values, so invariants may be checked up to their permutations.    *)
(***************************************************************************)
EXTENDS Checkout, TLC

Symmetry == Permutations(Orders) \cup Permutations(Txs \ AgentTxs)

=============================================================================
