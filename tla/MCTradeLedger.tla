---------------------------- MODULE MCTradeLedger ----------------------------
(* TradeLedger on small instances. *)
EXTENDS TradeLedger, TLC

MCSlippages == {0, 1}
NoSlippage == {0}

Symmetry == Permutations(Requests) \cup Permutations(Reconcilers)
=============================================================================
