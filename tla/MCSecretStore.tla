--------------------------- MODULE MCSecretStore ---------------------------
(* A bounded instance of SecretStore for TLC; the constants are given      *)
(* their values in secret_store.cfg.                                       *)
EXTENDS SecretStore, TLC

\* Processes, secrets and keys are only compared.
Sym == Permutations(Procs) \cup Permutations(Vals) \cup Permutations(Keys)
=============================================================================
