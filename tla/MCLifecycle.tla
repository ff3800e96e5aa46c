---------------------------- MODULE MCLifecycle ----------------------------
(***************************************************************************)
(* Instances of Lifecycle for TLC: the bounds are in the cfg.              *)
(***************************************************************************)
EXTENDS Lifecycle
============================================================================
