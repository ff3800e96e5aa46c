-------------------------- MODULE MCMockExtractor --------------------------
(***************************************************************************)
(* Instances of MockExtractor for TLC: the bounds are in the cfg.          *)
(***************************************************************************)
EXTENDS MockExtractor
============================================================================
