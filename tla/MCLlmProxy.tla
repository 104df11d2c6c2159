----------------------------- MODULE MCLlmProxy -----------------------------
(* Bounded instances of LlmProxy for TLC.                                  *)
EXTENDS LlmProxy, TLC

(* Requests are interchangeable.                                           *)
RequestSymmetry == Permutations(Requests)
=============================================================================
