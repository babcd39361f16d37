------------------------------- MODULE Server -------------------------------
(***************************************************************************)
(* What the models of Tilla's components share: the request threads of the *)
(* one server process and SQL's NULL.                                      *)
(***************************************************************************)
EXTENDS Integers, FiniteSets

CONSTANTS
  Threads,  \* request threads of the server: a pool of fixed size
  None      \* NULL

ASSUME ServerAssumption == IsFiniteSet(Threads) /\ None \notin Threads

=============================================================================
