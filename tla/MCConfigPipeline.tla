-------------------------- MODULE MCConfigPipeline --------------------------
(* Bounded instances of ConfigPipeline for TLC: the constants are given    *)
(* their values in config.cfg.                                             *)
EXTENDS ConfigPipeline
=============================================================================
