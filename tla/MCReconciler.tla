---------------------------- MODULE MCReconciler ----------------------------
EXTENDS Reconciler, TLC

CONSTANTS s, r, m1, m2

(* A user daemon and a system daemon, with programs of every kind.         *)
MCModes == {<<"merge", "keyed">>, <<"owned", "headed">>}

MCOffered == {(s :> m1) @@ (r :> m2), (s :> None) @@ (r :> m1)}
=============================================================================
