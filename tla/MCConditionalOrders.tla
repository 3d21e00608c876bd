------------------------- MODULE MCConditionalOrders -------------------------
(* ConditionalOrders on small instances. *)
EXTENDS ConditionalOrders, TLC

BothKinds == {Kinds}
StopLossOnly == {{"stop_loss"}}
BothOrNone == {Kinds, NoParams}

Symmetry == Permutations(Servers)
=============================================================================
