-------------------------- MODULE MCTrivyCachePool --------------------------
(***************************************************************************)
(* Instances of TrivyCachePool for TLC: two runs that share one slot.      *)
(***************************************************************************)
EXTENDS TrivyCachePool
=============================================================================
