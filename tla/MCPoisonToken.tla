--------------------------- MODULE MCPoisonToken ---------------------------
(***************************************************************************)
(* Instances of PoisonToken for TLC.                                       *)
(***************************************************************************)
EXTENDS MCPipeline, PoisonToken
============================================================================
