--------------------------- MODULE MCFleetReports ---------------------------
EXTENDS FleetReports

(* An event at the limits, and one past a limit of each kind.              *)
E(k, c, n, u, i) == [kind |-> k, client |-> c, name |-> n, use |-> u, input |-> i]
MCEvents == {E("tool", 64, 128, 256, 262144), E("tool", 64, 129, 0, 0), E("session", 64, 257, 0, 0)}
=============================================================================
