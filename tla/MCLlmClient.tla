---------------------------- MODULE MCLlmClient ----------------------------
(***************************************************************************)
(* Instances of LlmClient for TLC: the bounds are in the cfg.              *)
(***************************************************************************)
EXTENDS LlmClient
============================================================================
