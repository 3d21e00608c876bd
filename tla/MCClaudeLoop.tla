--------------------------- MODULE MCClaudeLoop ---------------------------
(* ClaudeLoop on small instances. *)
EXTENDS ClaudeLoop
=============================================================================
