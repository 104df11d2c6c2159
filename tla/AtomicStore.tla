---------------------------- MODULE AtomicStore ----------------------------
(***************************************************************************)
(* What a caller of the agent's secret store may rely on, whatever the     *)
(* platform keeps the secret in: one cell, calls of several processes that *)
(* take effect at one point each, failures, and an operating system that   *)
(* may lose what it was given to keep.                                     *)
(***************************************************************************)

CONSTANTS Procs,   \* threads and processes that use one state directory
          Vals     \* secrets

\* No secret; a secret that reads as an error.
Absent == "absent"
Unreadable == "unreadable"
Cell == Vals \cup {Absent, Unreadable}
Ops == [kind : {"get", "delete"}, arg : {Absent}] \cup [kind : {"set"}, arg : Vals]
Results == Cell \cup {"none", "ok", "error"}

VARIABLES value,     \* what a read returns
          leftover,  \* an older copy whose removal is not finished
          st,        \* per process: idle, pending, or taken (effect done)
          op,        \* per process: the call
          ret        \* per process: what the last call returned

vars == <<value, leftover, st, op, ret>>

Init ==
  /\ value \in Vals \cup {Absent}
  /\ leftover \in {Absent, value}
  /\ st = [p \in Procs |-> "idle"]
  /\ op = [p \in Procs |-> [kind |-> "get", arg |-> Absent]]
  /\ ret = [p \in Procs |-> "none"]

Invoke(p) ==
  /\ st[p] = "idle"
  /\ \E o \in Ops : op' = [op EXCEPT ![p] = o]
  /\ st' = [st EXCEPT ![p] = "pending"]
  /\ ret' = [ret EXCEPT ![p] = "none"]
  /\ UNCHANGED <<value, leftover>>

\* A read returns the value at that moment.
Read(p) ==
  /\ st[p] = "pending" /\ op[p].kind = "get"
  /\ ret' = [ret EXCEPT ![p] = value]
  /\ st' = [st EXCEPT ![p] = "idle"]
  /\ UNCHANGED <<value, leftover, op>>

Take(p) ==
  /\ st[p] = "pending" /\ op[p].kind \in {"set", "delete"}
  /\ st' = [st EXCEPT ![p] = "taken"]
  /\ value' = op[p].arg
  /\ leftover' = IF op[p].kind = "delete" THEN Absent ELSE leftover
  /\ UNCHANGED <<op, ret>>

\* The older copy goes: after a set took effect, or as a delete's first half.
Clean(p) ==
  /\ \/ st[p] = "taken" /\ op[p].kind = "set" /\ UNCHANGED value
     \/ st[p] = "pending" /\ op[p].kind = "delete" /\ value' \in {value, Absent}
  /\ leftover' = Absent
  /\ UNCHANGED <<st, op, ret>>

\* Only a secret that is lost already may give way to the older copy, while a
\* set replaces it.
Uncover(p) ==
  /\ st[p] = "pending" /\ op[p].kind = "set"
  /\ value \notin Vals
  /\ value' = leftover
  /\ UNCHANGED <<leftover, st, op, ret>>

\* A call succeeds only after its effect; it may fail before or after it.
Return(p) ==
  /\ st[p] # "idle"
  /\ st' = [st EXCEPT ![p] = "idle"]
  /\ \/ st[p] = "taken" /\ ret' = [ret EXCEPT ![p] = "ok"]
     \/ ret' = [ret EXCEPT ![p] = "error"]
  /\ UNCHANGED <<value, leftover, op>>

Crash(p) ==
  /\ st[p] # "idle"
  /\ st' = [st EXCEPT ![p] = "idle"]
  /\ UNCHANGED <<value, leftover, op, ret>>

\* The operating system loses a key or an entry.
Lose ==
  /\ value' \in {value, Absent} \/ (value \in Vals /\ value' = Unreadable)
  /\ leftover' \in {leftover, Absent}
  /\ UNCHANGED <<st, op, ret>>

Next ==
  \/ \E p \in Procs : Invoke(p) \/ Read(p) \/ Take(p) \/ Clean(p) \/ Uncover(p) \/ Return(p) \/ Crash(p)
  \/ Lose

Spec == Init /\ [][Next]_vars
=============================================================================
