------------------------- MODULE MCPipelineResults -------------------------
(***************************************************************************)
(* Pipeline and the results it implements, for TLC.                        *)
(***************************************************************************)
EXTENDS MCPipeline, StoreResults
============================================================================
