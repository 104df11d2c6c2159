--------------------------- MODULE PolicyRegistry ---------------------------
(***************************************************************************)
(* Claude Desktop's managed settings on Windows: values under the machine  *)
(* policy key, planned by provider/claude_desktop/reconcile.rs and written *)
(* by reconcile/registry.rs.  A marker value under the same key lists the  *)
(* names that the daemon claims.                                           *)
(*                                                                         *)
(* Names stand for themselves up to case, as the registry compares them.   *)
(***************************************************************************)
EXTENDS Integers, Sequences

CONSTANTS Data, NoData

(* The settings that the daemon sets, one that an administrator may also   *)
(* set.                                                                    *)
Names == {"auth", "other", "url"}

(* unreadable: not a list of names, or not a string value.                 *)
Markers == {m \in [kind : {"absent", "claims", "unreadable"}, names : SUBSET Names] :
              m.kind = "claims" \/ m.names = {}}
NoMarker == [kind |-> "absent", names |-> {}]
Claims(ns) == [kind |-> "claims", names |-> ns]

(* exists and subkeys: whether the key is there, and has keys under it.    *)
NoKey == [exists |-> FALSE, subkeys |-> FALSE, values |-> [n \in Names |-> NoData], marker |-> NoMarker]

(* RegistryValues: what read_values returns.                               *)
read_values(key) == [values |-> key.values, marker |-> key.marker]

(* One change of a plan: a value or the marker set or deleted, or the key  *)
(* deleted if nothing is left under it.                                    *)
SetTo(n, d) == [change |-> "value", name |-> n, data |-> d]
SetMarker(m) == [change |-> "marker", marker |-> m]
DropEmpty == [change |-> "key"]

(* The names set to their data, in the order of the BTreeMap.              *)
NoValues == [n \in Names |-> NoData]
Ordered(ns, data) ==
  LET one(n) == IF n \in ns THEN <<SetTo(n, data[n])>> ELSE << >>
  IN  one("auth") \o one("other") \o one("url")

(* plan_registry_remove: without a marker nothing is touched.              *)
plan_registry_remove(key) ==
  LET present == {n \in key.marker.names : key.values[n] # NoData}
  IN  IF key.marker.kind = "absent" THEN << >>
      ELSE Ordered(present, NoValues) \o <<SetMarker(NoMarker), DropEmpty>>

(* The names that are set to something else and that nobody claimed.       *)
Foreign(key, desired) ==
  {n \in Names : /\ desired[n] # NoData /\ key.values[n] \notin {NoData, desired[n]}
                 /\ n \notin key.marker.names}

\* Mutant of plan_registry_settings: the claim is written after the values.
PlanRegistryClaimLast(key, desired) ==
  LET wanted  == {n \in Names : desired[n] # NoData}
      changed == {n \in wanted : key.values[n] # desired[n]}
  IN  IF wanted = {} THEN plan_registry_remove(key)
      ELSE Ordered(changed, desired) \o <<SetMarker(Claims(wanted))>>

(* plan_registry_settings without a foreign value: the marker claims all   *)
(* names the plan writes or deletes, then they are written and deleted,    *)
(* then the claim shrinks to the wanted ones.                              *)
plan_registry_settings(key, desired) ==
  LET wanted    == {n \in Names : desired[n] # NoData}
      stale     == key.marker.names \ wanted
      changed   == {n \in wanted : key.values[n] # desired[n]}
      gone      == {n \in stale : key.values[n] # NoData}
      full      == Claims(wanted \cup stale)
  IN  IF wanted = {} THEN plan_registry_remove(key)
      ELSE (IF key.marker # full THEN <<SetMarker(full)>> ELSE << >>)
             \o Ordered(changed, desired) \o Ordered(gone, NoValues)
             \o (IF stale # {} THEN <<SetMarker(Claims(wanted))>> ELSE << >>)

(* registry::apply of one change; the key is opened or created first.      *)
Changed(key, c) ==
  LET open == [key EXCEPT !.exists = TRUE]
  IN  CASE c.change = "value"  -> [open EXCEPT !.values[c.name] = c.data]
        [] c.change = "marker" -> [open EXCEPT !.marker = c.marker]
        [] c.change = "key"    -> IF /\ ~key.subkeys /\ key.marker = NoMarker
                                     /\ \A n \in Names : key.values[n] = NoData
                                    THEN NoKey ELSE key
=============================================================================
