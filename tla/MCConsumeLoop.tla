--------------------------- MODULE MCConsumeLoop ---------------------------
(***************************************************************************)
(* Instances of ConsumeLoop for TLC: the bounds are in the cfg.            *)
(***************************************************************************)
EXTENDS LoopBroker
============================================================================
