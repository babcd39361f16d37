--------------------------- MODULE MCAgentOrders ---------------------------
(***************************************************************************)
(* TLC instances of AgentOrders.  Transactions and requests are            *)
(* interchangeable model values; order ids are ordered, so they are not.   *)
(***************************************************************************)
EXTENDS AgentOrders, TLC

Symmetry == Permutations(Txs) \cup Permutations(Workers)

=============================================================================
