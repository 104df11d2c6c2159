----------------------------- MODULE MCSignIns -----------------------------
(* A bounded instance of SignIns for TLC; the constants are given their    *)
(* values in sign_ins.cfg.                                                 *)
EXTENDS SignIns
=============================================================================
