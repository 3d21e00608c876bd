--------------------------- MODULE MCRepositories ---------------------------
(* Repositories on small instances. *)
EXTENDS Repositories, TLC

\* A buy, a winning and a losing sale.
SomeDeals ==
  {[side |-> "buy",  qty |-> 2, delta |-> -2, pnl |-> 0,  after |-> 2],
   [side |-> "sell", qty |-> 1, delta |-> 1,  pnl |-> 1,  after |-> 3],
   [side |-> "sell", qty |-> 2, delta |-> 1,  pnl |-> -1, after |-> 1]}

Symmetry == Permutations(Fills) \cup Permutations(Hashes) \cup Permutations(Alerts)
=============================================================================
