------------------------------ MODULE JsonMerge ------------------------------
(***************************************************************************)
(* provider/json_merge.rs: managed settings merged into a file of the      *)
(* user's, with a sidecar that records the document before and after the   *)
(* merge, so that removal puts back what the user had.                     *)
(*                                                                         *)
(* A document gives each setting a value or None; the elements of an array *)
(* that is merged additively are settings with one value.  Users and       *)
(* configurations use different values, so a value tells who wrote it; an  *)
(* entry of the daemon's under a reserved name carries its pairing, and    *)
(* tells the entries of this daemon from those of another pairing.         *)
(***************************************************************************)
EXTENDS Integers

CONSTANTS
  Settings, Reserved,        \* the settings, and those under reserved names
  UserValues, ManagedValues,
  OtherPairing,              \* entries a daemon of another pairing wrote
  None

Docs == [Settings -> UserValues \cup ManagedValues \cup OtherPairing \cup {None}]
Empty == [k \in Settings |-> None]

Kinds == {"absent", "blank", "doc", "invalid", "unreadable"}
Files == {f \in [kind : Kinds, doc : Docs] : f.kind \in {"absent", "blank"} => f.doc = Empty}
Absent == [kind |-> "absent", doc |-> Empty]
Document(d) == [kind |-> "doc", doc |-> d]

NoState == [present |-> FALSE, created |-> FALSE, before |-> Empty, after |-> Empty]
States == {x \in [present : BOOLEAN, created : BOOLEAN, before : Docs, after : Docs] :
             x.present \/ x = NoState}
-----------------------------------------------------------------------------
\* Mutant of Rollback: a managed setting that was edited since is rolled back too.
RollbackBlindly(h, d, s) ==
  [k \in Settings |-> IF s.before[k] # s.after[k] THEN s.before[k] ELSE d[k]]

(* rollback_overlay, then remove_keyed of the elements the merge added.    *)
Rollback(h, d, s) ==
  [k \in Settings |->
     IF h = "keyed" /\ k \in Reserved /\ s.before[k] = None /\ s.after[k] # None THEN None
     ELSE IF d[k] = s.after[k] THEN s.before[k] ELSE d[k]]

Before(h, m, f, s) ==
  LET rolled == IF s.present THEN Rollback(h, f.doc, s) ELSE f.doc
  IN  [k \in Settings |->
         IF h = "keyed" /\ k \in Reserved /\ m[k] # None THEN None ELSE rolled[k]]

\* Mutant of MergeOverlay: a value that is there already wins.
MergeUnderlay(base, m) == [k \in Settings |-> IF base[k] = None THEN m[k] ELSE base[k]]

(* merge_overlay *)
MergeOverlay(base, m) == [k \in Settings |-> IF m[k] # None THEN m[k] ELSE base[k]]

Without(d, ks) == [k \in Settings |-> IF k \in ks THEN None ELSE d[k]]

(* The outcome of planning one program: what its files are to become.      *)
Planned(f, s) == [verdict |-> "ok", file |-> f, sidecar |-> s]
Refused(verdict, f, s) == [verdict |-> verdict, file |-> f, sidecar |-> s]

(* An entry of the user's under a reserved name before the first merge.    *)
foreign_managed_entry(h, m, f, s) ==
  /\ h = "keyed" /\ ~s.present /\ f.kind = "doc"
  /\ \E k \in Reserved : m[k] # None /\ f.doc[k] \in UserValues

\* Mutant of PlanMerge: that the file was created is not carried over.
PlanMergeForgets(h, m, f, s) ==
  LET before == Before(h, m, f, s)
      after  == MergeOverlay(before, m)
  IN  Planned(Document(after), [present |-> TRUE, created |-> f.kind = "absent",
                                before |-> before, after |-> after])

(* plan_merge_with, after foreign_managed_entry for a keyed program.       *)
PlanMerge(h, m, f, s) ==
  LET before  == Before(h, m, f, s)
      after   == MergeOverlay(before, m)
      created == f.kind = "absent" \/ s.created
  IN  IF f.kind = "unreadable" THEN Refused("failed", f, s)
      ELSE IF foreign_managed_entry(h, m, f, s) \/ f.kind = "invalid" THEN Refused("conflict", f, s)
      ELSE Planned(Document(after),
                   [present |-> TRUE, created |-> created, before |-> before, after |-> after])

(* plan_remove_with; without a sidecar plan_remove_orphaned, which goes by *)
(* the pairing in the entries: those in "own" are taken out.               *)
PlanRemove(h, own, f, s) ==
  LET rest     == Rollback(h, f.doc, s)
      orphaned == {k \in Reserved : h = "keyed" /\ f.kind = "doc" /\ f.doc[k] \in own}
  IN  IF ~s.present
        THEN Planned([kind |-> f.kind, doc |-> Without(f.doc, orphaned)], s)
      ELSE IF f.kind = "unreadable" THEN Refused("failed", f, s)
      ELSE IF f.kind = "invalid" THEN Refused("conflict", f, s)
      ELSE IF f.kind = "absent" \/ (f.kind = "blank" /\ ~s.created) THEN Planned(f, NoState)
      ELSE IF s.created /\ (f.kind = "blank" \/ rest = Empty) THEN Planned(Absent, NoState)
      ELSE Planned(Document(rest), NoState)
=============================================================================
