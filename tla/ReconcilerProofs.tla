-------------------------- MODULE ReconcilerProofs --------------------------
(***************************************************************************)
(* Proofs about Reconciler for every number of programs and every set of   *)
(* settings, values and configurations: type correctness, that the user's  *)
(* content survives management, that a report holds of what is on disk,    *)
(* and that an apply after a successful one changes nothing.               *)
(***************************************************************************)
EXTENDS Reconciler, TLAPS

(* What a file and its sidecar tell of the user's value of a setting: the  *)
(* value a removal would leave.                                            *)
OwnValue(h, f, s, k) ==
  IF h \in {"merge", "keyed"}
    THEN IF s.present /\ f.doc[k] = s.after[k] THEN s.before[k] ELSE f.doc[k]
    ELSE IF IsOwned(h, f, s) THEN None ELSE f.doc[k]

Matches(h, f, s, d) == \A k \in Settings : ~Named(h, k) => OwnValue(h, f, s, k) = d[k]

(* A sidecar differs between before and after in managed values only.      *)
WellFormed(h, s) ==
  \A k \in Settings :
    s.after[k] # s.before[k] =>
      s.after[k] \in ManagedValues /\ (h = "keyed" => k \in Reserved)

(* Nothing of the daemon's is left.                                        *)
Clean(h, f, s) ==
  IF h = "headed" THEN \A k \in Settings : f.doc[k] \notin ManagedValues ELSE ~s.present

(* The file of the program is written and its sidecar is not.              *)
Halfway(p) == pc = "sidecar" /\ p = at /\ FileOp(p)

SidecarsWellFormed ==
  \A p \in Programs : WellFormed(mode[p], sidecar[p]) /\ WellFormed(mode[p], plan.sidecar[p])

(* What is on disk, or was when planning, tells what is the user's.        *)
MineKnown ==
  \A p \in Programs \ (raced \cup torn) :
    /\ \A k \in Settings : mine[p][k] \notin ManagedValues
    /\ IF Halfway(p) THEN Matches(mode[p], plan.file[p], plan.sidecar[p], mine[p])
                     ELSE Matches(mode[p], file[p], sidecar[p], mine[p])

(* Up to its last write a program is on disk as it was planned from.       *)
AsPlanned ==
  /\ pc \in {"idle", "planned"} => at = 1
  /\ pc \in {"file", "sidecar"} =>
       /\ \A p \in Programs : Part(p).verdict = "ok"
       /\ \A p \in Programs \ raced :
            p >= at /\ (plan.config[p].status = "configured" \/ Changes(p)) =>
              /\ sidecar[p] = plan.sidecar[p]
              /\ file[p] = IF Halfway(p) THEN Part(p).file ELSE plan.file[p]

(* A program that is to be reported as not managed is free of management.  *)
ClearedInPlan ==
  pc # "idle" =>
    \A p \in Programs \ raced :
      plan.config[p].status \in {"absent", "optedOut"} /\ Part(p).verdict = "ok"
        /\ (~Changes(p) \/ (pc \in {"file", "sidecar"} /\ p < at))
        => Clean(mode[p], file[p], sidecar[p])

ClearedInReport ==
  \A p \in Programs \ raced : Unmanaged(p) => Clean(mode[p], file[p], sidecar[p])

IInv == TypeOK /\ SidecarsWellFormed /\ MineKnown /\ AsPlanned /\ ClearedInPlan /\ ClearedInReport

USE ReconcilerAssumption

-----------------------------------------------------------------------------
(* What one program's plan does, whatever the state it was made from.      *)

(* The empty document, the missing file and the two constant sidecars are  *)
(* well typed.                                                             *)
LEMMA DocTypes ==
  /\ Empty \in Docs /\ Absent \in Files /\ NoState \in States /\ Marker \in States
  /\ \A d \in Docs : Document(d) \in Files
BY Zenon DEF Empty, Docs, Absent, Files, Kinds, NoState, States, Marker, Document

(* Rollback, before, overlay and removal of keys yield documents.          *)
LEMMA MergeTypes ==
  ASSUME NEW h, NEW m \in Docs, NEW f \in Files, NEW s \in States
  PROVE  /\ Rollback(h, f.doc, s) \in Docs
         /\ Before(h, m, f, s) \in Docs
         /\ MergeOverlay(Before(h, m, f, s), m) \in Docs
         /\ \A ks : Without(f.doc, ks) \in Docs
<1>1. f.doc \in Docs /\ s.before \in Docs /\ s.after \in Docs
  BY Zenon DEF Files, States
<1>2. Rollback(h, f.doc, s) \in Docs
  BY <1>1, Zenon DEF Rollback, Docs
<1>3. Before(h, m, f, s) \in Docs
  BY <1>1, <1>2, Zenon DEF Before, Docs
<1>4. MergeOverlay(Before(h, m, f, s), m) \in Docs
  BY <1>3, Zenon DEF MergeOverlay, Docs
<1>5. \A ks : Without(f.doc, ks) \in Docs
  BY <1>1, Zenon DEF Without, Docs
<1> QED BY <1>2, <1>3, <1>4, <1>5, Zenon

(* A plan and the state it starts from.                                    *)
Planning(h, c, f, s) ==
  /\ h \in ManagedAs /\ c \in Wants(h) /\ f \in Files /\ s \in States
  /\ h = "headed" => s = NoState

(* What a program can be asked for.                                        *)
LEMMA WantsTypes ==
  ASSUME NEW h, NEW c \in Wants(h)
  PROVE  /\ c \in [status : Statuses, doc : Docs, paired : BOOLEAN]
         /\ c.status = "configured" => c.doc \in ManagedDocs(h)
         /\ c.status = "failClosed" => h = "keyed"
<1>1. ManagedDocs(h) \subseteq Docs
  BY Zenon DEF ManagedDocs, Docs
<1>2. CASE c \in [status : {"configured"}, doc : ManagedDocs(h), paired : {TRUE}]
  BY <1>1, <1>2, Zenon DEF Statuses
<1>3. CASE c \in [status : {"absent", "optedOut"}, doc : {Empty},
                  paired : IF h = "keyed" THEN BOOLEAN ELSE {TRUE}]
  BY <1>3, DocTypes, Zenon DEF Statuses
<1>4. CASE c \in [status : IF h = "keyed" THEN {"failClosed", "failOpen"} ELSE {}, doc : {Empty},
                  paired : {FALSE}]
  BY <1>4, DocTypes, Zenon DEF Statuses
<1> QED BY <1>2, <1>3, <1>4, Zenon DEF Wants

(* A managed document has managed values only, at least one, and a keyed   *)
(* one only under reserved names.                                          *)
LEMMA ManagedDocFacts ==
  ASSUME NEW h, NEW m \in ManagedDocs(h)
  PROVE  /\ m \in Docs
         /\ \A k \in Settings : m[k] = None \/ m[k] \in ManagedValues
         /\ \E k \in Settings : m[k] \in ManagedValues
         /\ h = "keyed" => \A k \in Settings \ Reserved : m[k] = None
<1>1. m \in [Settings -> ManagedValues \cup {None}] /\ m # Empty
  BY Zenon DEF ManagedDocs
<1>2. \E k \in Settings : m[k] # None
  BY <1>1, Zenon DEF Empty
<1> QED BY <1>1, <1>2, Zenon DEF ManagedDocs, Docs

(* The two facts that carry the argument: a plan that succeeds keeps what  *)
(* the files tell of the user's values, and so does writing the settings   *)
(* file alone, unless that is the write of a new sidecar's settings.       *)
Keeps(h, f, s, r, d) ==
  r.verdict = "ok" /\ Matches(h, f, s, d) =>
    /\ Matches(h, r.file, r.sidecar, d)
    /\ ~r.sidecar.present \/ (h = "keyed" /\ ~s.present) => Matches(h, r.file, s, d)

(* PlanMerge leaves the user's document computable from the file and the   *)
(* sidecar it plans.                                                       *)
LEMMA MergeKeeps ==
  ASSUME NEW h \in {"merge", "keyed"},
         NEW m \in ManagedDocs(h), NEW f \in Files, NEW s \in States, NEW d \in Docs,
         WellFormed(h, s)
  PROVE  LET r == PlanMerge(h, m, f, s)
         IN  /\ r.verdict \in {"ok", "failed", "conflict"} /\ r.file \in Files /\ r.sidecar \in States
             /\ r.verdict # "ok" => r.file = f /\ r.sidecar = s
             /\ WellFormed(h, r.sidecar)
             /\ Keeps(h, f, s, r, d)
<1> DEFINE r == PlanMerge(h, m, f, s)
           before == Before(h, m, f, s)
           after == MergeOverlay(before, m)
           made == [present |-> TRUE, created |-> f.kind = "absent" \/ s.created,
                    before |-> before, after |-> after]
<1>1. m \in Docs /\ before \in Docs /\ after \in Docs
  BY ManagedDocFacts, MergeTypes, Zenon
<1>2. f.doc \in Docs /\ s.created \in BOOLEAN
  BY Zenon DEF Files, States
<1>3. Document(after) \in Files /\ made \in States
  BY <1>1, <1>2, DocTypes, Zenon DEF States
<1>4. \/ r = Refused("failed", f, s)
      \/ r = Refused("conflict", f, s)
      \/ r = Planned(Document(after), made)
  BY Zenon DEF PlanMerge
<1>5. CASE r = Refused("failed", f, s) \/ r = Refused("conflict", f, s)
  BY <1>5 DEF Refused, Keeps
<1>6. CASE r = Planned(Document(after), made)
  <2>1. r.verdict = "ok" /\ r.file = Document(after) /\ r.sidecar = made
    BY <1>6 DEF Planned
  <2>2. \A k \in Settings : m[k] = None \/ m[k] \in ManagedValues
    BY ManagedDocFacts, Zenon
  <2>3. \A k \in Settings : h = "keyed" /\ k \notin Reserved => m[k] = None
    BY ManagedDocFacts, Zenon
  <2>4. \A k \in Settings : after[k] = IF m[k] # None THEN m[k] ELSE before[k]
    BY Zenon DEF MergeOverlay
  <2>5. WellFormed(h, made)
    BY <2>2, <2>3, <2>4, Zenon DEF WellFormed
  <2>6. \A k \in Settings : ~Named(h, k) =>
          before[k] = IF s.present /\ f.doc[k] = s.after[k] THEN s.before[k] ELSE f.doc[k]
    BY Zenon DEF Before, Rollback, Named
  <2>7. \A k \in Settings : OwnValue(h, Document(after), made, k) = before[k]
    BY Zenon DEF OwnValue, Document
  <2>8. Matches(h, f, s, d) => Matches(h, Document(after), made, d)
    BY <2>6, <2>7 DEF Matches, OwnValue
  <2>9. ASSUME h = "keyed", ~s.present, Matches(h, f, s, d)
        PROVE  Matches(h, Document(after), s, d)
    BY <2>3, <2>4, <2>6, <2>9, Zenon DEF Matches, OwnValue, Document, Named
  <2> QED BY <1>3, <2>1, <2>5, <2>8, <2>9 DEF Keeps
<1> QED BY <1>4, <1>5, <1>6, Zenon

(* PlanRemove leaves the user's document, and no sidecar.                  *)
LEMMA RemoveKeeps ==
  ASSUME NEW h \in {"merge", "keyed"},
         NEW own, NEW f \in Files, NEW s \in States, NEW d \in Docs,
         WellFormed(h, s)
  PROVE  LET r == PlanRemove(h, own, f, s)
         IN  /\ r.verdict \in {"ok", "failed", "conflict"} /\ r.file \in Files /\ r.sidecar \in States
             /\ r.verdict # "ok" => r.file = f /\ r.sidecar = s
             /\ WellFormed(h, r.sidecar)
             /\ Keeps(h, f, s, r, d)
             /\ r.verdict = "ok" => Clean(h, r.file, r.sidecar)
             /\ r.file # f \/ r.sidecar # s => s.present \/ (h = "keyed" /\ f.kind # "unreadable")
<1> DEFINE r == PlanRemove(h, own, f, s)
           rest == Rollback(h, f.doc, s)
           orphaned == {k \in Reserved : h = "keyed" /\ f.kind = "doc" /\ f.doc[k] \in own}
           left == [kind |-> f.kind, doc |-> Without(f.doc, orphaned)]
<1>1. f.doc \in Docs /\ rest \in Docs /\ Without(f.doc, orphaned) \in Docs
  BY MergeTypes, DocTypes, Zenon DEF Files
<1>2. f = [kind |-> f.kind, doc |-> f.doc] /\ f.kind \in Kinds
  BY Zenon DEF Files
<1>3. WellFormed(h, NoState) /\ ~NoState.present /\ NoState \in States
  BY DocTypes, Zenon DEF WellFormed, NoState
<1>4. CASE ~s.present
  <2>1. r = Planned(left, s)
    BY <1>4, Zenon DEF PlanRemove
  <2>2. left.kind = f.kind /\ left.doc = Without(f.doc, orphaned)
    BY Zenon DEF Files
  <2>3. f.kind # "doc" \/ h # "keyed" => left = f
    <3> SUFFICES ASSUME f.kind # "doc" \/ h # "keyed" PROVE left = f
      BY Zenon
    <3>1. orphaned = {}
      BY Zenon
    <3>2. Without(f.doc, orphaned) = f.doc
      BY <1>1, <3>1, Zenon DEF Without, Docs
    <3> QED BY <1>2, <2>2, <3>2, Zenon
  <2>4. left \in Files
    BY <1>1, <2>2, <2>3, Zenon DEF Files
  <2>5. \A k \in Settings : ~Named(h, k) => left.doc[k] = f.doc[k]
    BY <2>2, Zenon DEF Without, Named
  <2>6. Matches(h, f, s, d) => Matches(h, left, s, d)
    BY <1>4, <2>5, Zenon DEF Matches, OwnValue
  <2> QED BY <1>4, <2>1, <2>3, <2>4, <2>6 DEF Planned, Keeps, Clean
<1>5. CASE s.present
  <2>1. \/ r = Refused("failed", f, s)
        \/ r = Refused("conflict", f, s)
        \/ f.kind \in {"absent", "blank"} /\ r = Planned(f, NoState)
        \/ f.kind = "blank" /\ r = Planned(Absent, NoState)
        \/ rest = Empty /\ r = Planned(Absent, NoState)
        \/ r = Planned(Document(rest), NoState)
    BY <1>5, Zenon DEF PlanRemove
  <2>2. \A k \in Settings : ~Named(h, k) => OwnValue(h, f, s, k) = rest[k]
    BY <1>5, Zenon DEF OwnValue, Rollback, Named
  <2>3. f.kind \in {"absent", "blank"} => f.doc = Empty
    BY Zenon DEF Files
  <2>4. \A k \in Settings : s.after[k] = None => s.before[k] = None
    BY Zenon DEF WellFormed
  <2>5. f.doc = Empty => \A k \in Settings : ~Named(h, k) => rest[k] = None
    BY <2>4, Zenon DEF Rollback, Empty, Named
  <2>6. ASSUME NEW g \in Files, \A k \in Settings : ~Named(h, k) => g.doc[k] = rest[k],
               Matches(h, f, s, d)
        PROVE  Matches(h, g, NoState, d) /\ Matches(h, g, s, d)
    <3>1. \A k \in Settings : ~Named(h, k) => d[k] = rest[k]
      BY <2>2, <2>6, Zenon DEF Matches
    <3>2. Matches(h, g, NoState, d)
      BY <3>1, <2>6, <1>3, Zenon DEF Matches, OwnValue
    <3>3. \A k \in Settings : ~Named(h, k) /\ rest[k] = s.after[k] => s.before[k] = rest[k]
      BY Zenon DEF Rollback, Named
    <3>4. Matches(h, g, s, d)
      BY <3>1, <3>3, <2>6 DEF Matches, OwnValue
    <3> QED BY <3>2, <3>4, Zenon
  <2>7. CASE r = Refused("failed", f, s) \/ r = Refused("conflict", f, s)
    BY <1>5, <2>7 DEF Refused, Keeps
  <2>8. CASE f.kind \in {"absent", "blank"} /\ r = Planned(f, NoState)
    BY <1>3, <1>5, <2>3, <2>5, <2>6, <2>8 DEF Planned, Keeps, Clean, Empty
  <2>9. CASE (f.kind = "blank" \/ rest = Empty) /\ r = Planned(Absent, NoState)
    BY <1>3, <1>5, <2>3, <2>5, <2>6, <2>9, DocTypes DEF Planned, Keeps, Clean, Empty, Absent
  <2>10. CASE r = Planned(Document(rest), NoState)
    BY <1>1, <1>3, <1>5, <2>6, <2>10, DocTypes DEF Planned, Keeps, Clean, Document
  <2> QED BY <2>1, <2>7, <2>8, <2>9, <2>10, Zenon
<1> QED BY <1>4, <1>5, Zenon DEF States

(* PlanOwned replaces a file that is missing or its own, so that the       *)
(* user's document is kept or was empty.                                   *)
LEMMA OwnedKeeps ==
  ASSUME NEW h \in {"owned", "headed"},
         NEW m \in ManagedDocs(h), NEW f \in Files, NEW s \in States, NEW d \in Docs,
         h = "headed" => s = NoState,
         WellFormed(h, s), \A k \in Settings : d[k] \notin ManagedValues
  PROVE  LET r == PlanOwned(h, m, f, s)
         IN  /\ r.verdict \in {"ok", "failed", "conflict"} /\ r.file \in Files /\ r.sidecar \in States
             /\ h = "headed" => r.sidecar = NoState
             /\ r.verdict # "ok" => r.file = f /\ r.sidecar = s
             /\ WellFormed(h, r.sidecar)
             /\ Keeps(h, f, s, r, d)
<1> DEFINE r == PlanOwned(h, m, f, s)
           t == IF h = "owned" THEN Marker ELSE s
<1>1. m \in Docs /\ \E k \in Settings : m[k] \in ManagedValues
  BY ManagedDocFacts, Zenon
<1>2. t \in States /\ WellFormed(h, t) /\ (h = "headed" => t = s)
  BY DocTypes, Zenon DEF WellFormed, Marker
<1>3. Document(m) \in Files /\ Document(m).doc = m
  BY <1>1, DocTypes, Zenon DEF Document
<1>4. IsOwned(h, Document(m), t)
  BY <1>1, <1>3, Zenon DEF IsOwned, Marker
<1>5. CASE r = Refused("failed", f, s) \/ r = Refused("conflict", f, s)
  BY <1>5 DEF Refused, Keeps
<1>6. CASE (f.kind = "absent" \/ f = Document(m) \/ IsOwned(h, f, s)) /\ r = Planned(Document(m), t)
  <2>1. f.kind = "absent" => f.doc = Empty
    BY Zenon DEF Files
  <2>2. ASSUME Matches(h, f, s, d) PROVE \A k \in Settings : d[k] = None
    <3>1. \A k \in Settings : d[k] = IF IsOwned(h, f, s) THEN None ELSE f.doc[k]
      BY <2>2, Zenon DEF Matches, OwnValue, Named
    <3>2. CASE IsOwned(h, f, s)
      BY <3>1, <3>2, Zenon
    <3>3. CASE f.kind = "absent"
      BY <2>1, <3>1, <3>3, Zenon DEF Empty
    <3>4. CASE f = Document(m) /\ ~IsOwned(h, f, s)
      BY <1>1, <1>3, <3>1, <3>4, Zenon
    <3> QED BY <1>6, <3>2, <3>3, <3>4, Zenon
  <2>3. Matches(h, f, s, d) => Matches(h, Document(m), t, d)
    BY <1>4, <2>2, Zenon DEF Matches, OwnValue
  <2>4. ~t.present => t = s
    BY Zenon DEF Marker
  <2>5. r.verdict = "ok" /\ r.file = Document(m) /\ r.sidecar = t
    BY <1>6 DEF Planned
  <2> QED BY <1>2, <1>3, <2>3, <2>4, <2>5, Zenon DEF Keeps
<1>7. \/ r = Refused("failed", f, s) \/ r = Refused("conflict", f, s)
      \/ (f.kind = "absent" \/ f = Document(m) \/ IsOwned(h, f, s)) /\ r = Planned(Document(m), t)
  BY Zenon DEF PlanOwned
<1> QED BY <1>5, <1>6, <1>7, Zenon

(* PlanRemoveOwned removes a file that is its own and leaves any other.    *)
LEMMA RemoveOwnedKeeps ==
  ASSUME NEW h \in {"owned", "headed"},
         NEW f \in Files, NEW s \in States, NEW d \in Docs,
         h = "headed" => s = NoState, WellFormed(h, s)
  PROVE  LET r == PlanRemoveOwned(h, f, s)
         IN  /\ r.verdict \in {"ok", "failed", "conflict"} /\ r.file \in Files /\ r.sidecar \in States
             /\ h = "headed" => r.sidecar = NoState
             /\ r.verdict # "ok" => r.file = f /\ r.sidecar = s
             /\ WellFormed(h, r.sidecar)
             /\ Keeps(h, f, s, r, d)
             /\ r.verdict = "ok" => Clean(h, r.file, r.sidecar)
             /\ r.file # f \/ r.sidecar # s => s.present \/ h = "headed"
<1> DEFINE r == PlanRemoveOwned(h, f, s)
<1>1. WellFormed(h, NoState) /\ ~NoState.present /\ NoState \in States
  BY DocTypes, Zenon DEF WellFormed, NoState
<1>2. CASE r = Refused("failed", f, s)
  BY <1>2 DEF Refused, Keeps
<1>3. CASE ~IsOwned(h, f, s) /\ r = Planned(f, s)
  BY <1>3 DEF Planned, Keeps, Clean, IsOwned
<1>4. CASE IsOwned(h, f, s) /\ r = Planned(Absent, NoState)
  <2>1. \A k \in Settings : Absent.doc[k] = None
    BY Zenon DEF Absent, Empty
  <2>2. ~IsOwned(h, Absent, NoState)
    BY <1>1, <2>1, Zenon DEF IsOwned
  <2>3. Matches(h, f, s, d) => \A k \in Settings : d[k] = None
    BY <1>4, Zenon DEF Matches, OwnValue, Named
  <2>4. Matches(h, f, s, d) => Matches(h, Absent, NoState, d)
    BY <2>1, <2>2, <2>3, Zenon DEF Matches, OwnValue
  <2>5. Matches(h, f, s, d) => Matches(h, Absent, s, d)
    BY <2>1, <2>3, Zenon DEF Matches, OwnValue
  <2>6. Clean(h, Absent, NoState)
    BY <1>1, <2>1, Zenon DEF Clean
  <2>7. s.present \/ h = "headed"
    BY <1>4, Zenon DEF IsOwned
  <2>8. r.verdict = "ok" /\ r.file = Absent /\ r.sidecar = NoState
    BY <1>4 DEF Planned
  <2> QED BY <1>1, <2>4, <2>5, <2>6, <2>7, <2>8, DocTypes, Zenon DEF Keeps
<1>5. \/ r = Refused("failed", f, s)
      \/ ~IsOwned(h, f, s) /\ r = Planned(f, s)
      \/ IsOwned(h, f, s) /\ r = Planned(Absent, NoState)
  BY Zenon DEF PlanRemoveOwned, RemoveMarked, RemoveHeaded
<1> QED BY <1>2, <1>3, <1>4, <1>5, Zenon

(* Provider::plan as the rest of the argument uses it.                     *)
LEMMA PlanKeeps ==
  ASSUME NEW h, NEW c, NEW f, NEW s, Planning(h, c, f, s), WellFormed(h, s)
  PROVE  LET r == PlanProgram(h, c, f, s)
         IN  /\ r.verdict \in {"ok", "failed", "conflict"} /\ r.file \in Files /\ r.sidecar \in States
             /\ h = "headed" => r.sidecar = NoState
             /\ r.verdict # "ok" => r.file = f /\ r.sidecar = s
             /\ WellFormed(h, r.sidecar)
             /\ \A d \in Docs : (\A k \in Settings : d[k] \notin ManagedValues) => Keeps(h, f, s, r, d)
             /\ c.status \in {"absent", "optedOut"} /\ r.verdict = "ok" => Clean(h, r.file, r.sidecar)
             /\ r.file # f \/ r.sidecar # s =>
                  /\ c.status # "failClosed"
                  /\ \/ c.status = "configured" \/ s.present \/ h = "headed"
                     \/ h = "keyed" /\ f.kind # "unreadable"
<1> DEFINE r == PlanProgram(h, c, f, s)
<1>1. /\ h \in ManagedAs /\ c \in Wants(h) /\ f \in Files /\ s \in States
      /\ h = "headed" => s = NoState
  BY Zenon DEF Planning
<1>2. c.status \in Statuses /\ (c.status = "configured" => c.doc \in ManagedDocs(h))
  BY <1>1, WantsTypes
<1>3. Empty \in Docs /\ \A k \in Settings : Empty[k] \notin ManagedValues
  BY DocTypes, Zenon DEF Empty
<1>4. CASE c.status = "failClosed"
  <2>1. r = Planned(f, s)
    BY <1>4, Zenon DEF PlanProgram
  <2> QED BY <1>1, <1>4, <2>1 DEF Planned, Keeps
<1>5. CASE c.status = "configured" /\ h \in {"merge", "keyed"}
  <2>1. r = PlanMerge(h, c.doc, f, s)
    BY <1>5, Zenon DEF PlanProgram
  <2> QED BY <1>1, <1>2, <1>3, <1>5, <2>1, MergeKeeps
<1>6. CASE c.status = "configured" /\ h \in {"owned", "headed"}
  <2>1. r = PlanOwned(h, c.doc, f, s)
    BY <1>6, Zenon DEF PlanProgram
  <2> QED BY <1>1, <1>2, <1>3, <1>6, <2>1, OwnedKeeps
<1>7. CASE c.status \notin {"configured", "failClosed"} /\ h \in {"merge", "keyed"}
  <2>1. r = PlanRemove(h, Own(c), f, s)
    BY <1>7, Zenon DEF PlanProgram
  <2> QED BY <1>1, <1>3, <1>7, <2>1, RemoveKeeps
<1>8. CASE c.status \notin {"configured", "failClosed"} /\ h \in {"owned", "headed"}
  <2>1. r = PlanRemoveOwned(h, f, s)
    BY <1>8, Zenon DEF PlanProgram
  <2> QED BY <1>1, <1>3, <1>8, <2>1, RemoveOwnedKeeps
<1> QED BY <1>1, <1>4, <1>5, <1>6, <1>7, <1>8, Zenon DEF ManagedAs

(* A removal that is planned leaves the program free of management.        *)
LEMMA PlanCleans ==
  ASSUME NEW h, NEW c, NEW f, NEW s, Planning(h, c, f, s), WellFormed(h, s),
         c.status \in {"absent", "optedOut"}, PlanProgram(h, c, f, s).verdict = "ok"
  PROVE  Clean(h, PlanProgram(h, c, f, s).file, PlanProgram(h, c, f, s).sidecar)
BY PlanKeeps, Zenon

-----------------------------------------------------------------------------
(* Every step keeps the invariant.                                         *)

USE DEF disk, apply, bounds, history

(* The same of a program of the plan in progress.                          *)
LEMMA PartFacts ==
  ASSUME TypeOK, SidecarsWellFormed, NEW p \in Programs
  PROVE  /\ mode[p] \in ManagedAs /\ plan.config[p].status \in Statuses
         /\ Part(p).verdict \in {"ok", "failed", "conflict"}
         /\ Part(p).file \in Files /\ Part(p).sidecar \in States
         /\ mode[p] = "headed" => Part(p).sidecar = NoState
         /\ WellFormed(mode[p], Part(p).sidecar)
         /\ \A d \in Docs : (\A k \in Settings : d[k] \notin ManagedValues)
              => Keeps(mode[p], plan.file[p], plan.sidecar[p], Part(p), d)
         /\ plan.config[p].status \in {"absent", "optedOut"} /\ Part(p).verdict = "ok"
              => Clean(mode[p], Part(p).file, Part(p).sidecar)
         /\ Changes(p) => Observed(p) /\ plan.config[p].status # "failClosed"
<1>1. mode[p] \in ManagedAs
  BY DEF TypeOK
<1>2. Planning(mode[p], plan.config[p], plan.file[p], plan.sidecar[p])
  BY <1>1, Zenon DEF TypeOK, Planning
<1>3. WellFormed(mode[p], plan.sidecar[p])
  BY Zenon DEF SidecarsWellFormed
<1>4. plan.config[p].status \in Statuses
  BY Zenon DEF TypeOK
<1>5. Changes(p) =>
        /\ plan.config[p].status # "failClosed"
        /\ \/ plan.config[p].status = "configured" \/ plan.sidecar[p].present \/ mode[p] = "headed"
           \/ mode[p] = "keyed" /\ plan.file[p].kind # "unreadable"
  BY <1>2, <1>3, PlanKeeps DEF Part, Changes
<1>6. Changes(p) => Observed(p) /\ plan.config[p].status # "failClosed"
  BY <1>5, Zenon DEF Observed
<1>7. /\ Part(p).verdict \in {"ok", "failed", "conflict"}
      /\ Part(p).file \in Files /\ Part(p).sidecar \in States
      /\ mode[p] = "headed" => Part(p).sidecar = NoState
      /\ WellFormed(mode[p], Part(p).sidecar)
      /\ \A d \in Docs : (\A k \in Settings : d[k] \notin ManagedValues)
           => Keeps(mode[p], plan.file[p], plan.sidecar[p], Part(p), d)
      /\ plan.config[p].status \in {"absent", "optedOut"} /\ Part(p).verdict = "ok"
           => Clean(mode[p], Part(p).file, Part(p).sidecar)
  BY <1>2, <1>3, PlanKeeps DEF Part
<1> QED BY <1>1, <1>4, <1>6, <1>7, Zenon

(* The plan of no apply is well typed.                                     *)
LEMMA NoPlanFacts ==
  /\ NoPlan \in [config : [Programs -> [status : Statuses, doc : Docs, paired : BOOLEAN]],
                 file : [Programs -> Files], sidecar : [Programs -> States]]
  /\ \A p \in Programs : NoPlan.sidecar[p] = NoState /\ NoPlan.config[p] \in Wants(mode[p])
  /\ \A h : WellFormed(h, NoState)
<1>1. \A h : [status |-> "absent", doc |-> Empty, paired |-> TRUE] \in Wants(h)
  BY Zenon DEF Wants
<1>2. \A h : WellFormed(h, NoState)
  BY Zenon DEF WellFormed, NoState
<1>3. /\ NoPlan.config = [p \in Programs |-> [status |-> "absent", doc |-> Empty, paired |-> TRUE]]
      /\ NoPlan.sidecar = [p \in Programs |-> NoState]
      /\ NoPlan.file = [p \in Programs |-> Absent]
      /\ NoPlan = [config |-> NoPlan.config, file |-> NoPlan.file, sidecar |-> NoPlan.sidecar]
  BY Zenon DEF NoPlan
<1>4. NoPlan.config \in [Programs -> [status : Statuses, doc : Docs, paired : BOOLEAN]]
  BY <1>3, DocTypes DEF Statuses
<1>5. NoPlan.sidecar \in [Programs -> States] /\ NoPlan.file \in [Programs -> Files]
  BY <1>3, DocTypes, Zenon
<1>6. \A p \in Programs : NoPlan.sidecar[p] = NoState /\ NoPlan.config[p] \in Wants(mode[p])
  <2> SUFFICES ASSUME NEW p \in Programs
               PROVE  NoPlan.sidecar[p] = NoState /\ NoPlan.config[p] \in Wants(mode[p])
    BY Zenon
  <2>1. /\ NoPlan.sidecar[p] = NoState
        /\ NoPlan.config[p] = [status |-> "absent", doc |-> Empty, paired |-> TRUE]
    BY <1>3, Zenon
  <2>2. [status |-> "absent", doc |-> Empty, paired |-> TRUE] \in Wants(mode[p])
    BY <1>1, Zenon
  <2> QED BY <2>1, <2>2
<1>7. NoPlan \in [config : [Programs -> [status : Statuses, doc : Docs, paired : BOOLEAN]],
                  file : [Programs -> Files], sidecar : [Programs -> States]]
  BY <1>3, <1>4, <1>5, Zenon
<1> QED BY <1>2, <1>6, <1>7, Zenon

(* ProgramEntry::settled: who can be reported as not managed.              *)
LEMMA ReportFacts ==
  ASSUME TypeOK, SidecarsWellFormed, NEW F, NEW C, NEW R, Report(F, C, R)
  PROVE  /\ report' \in [Programs -> Outcomes] /\ result' \in {"ok", "error"}
         /\ \A p \in Programs : Unmanaged(p)' =>
              /\ p \notin F \cup C
              /\ plan.config[p].status \in {"absent", "optedOut"}
              /\ ~Changes(p) \/ p \in R
<1>1. \A p \in Programs : Settled(p, p \in R) \in Outcomes
  BY PartFacts, Zenon DEF Settled, Statuses, Outcomes
<1>2. report' = [p \in Programs |-> IF p \in F THEN "failed" ELSE IF p \in C THEN "conflict"
                                    ELSE Settled(p, p \in R)]
  BY Zenon DEF Report
<1>3. report' \in [Programs -> Outcomes]
  BY <1>1, <1>2, Zenon DEF Outcomes
<1>4. ASSUME NEW p \in Programs, Unmanaged(p)'
      PROVE  /\ p \notin F \cup C
             /\ plan.config[p].status \in {"absent", "optedOut"}
             /\ ~Changes(p) \/ p \in R
  <2>1. report'[p] \in {"removed", "unlisted", "optedOut"}
    BY <1>4, Zenon DEF Unmanaged
  <2>2. p \notin F \cup C /\ Settled(p, p \in R) \in {"removed", "unlisted", "optedOut"}
    BY <1>2, <2>1, Zenon
  <2>3. plan.config[p].status \in Statuses
    BY PartFacts, Zenon
  <2>4. ~(Changes(p) /\ p \notin R)
    BY <2>2, Zenon DEF Settled
  <2>5. plan.config[p].status \notin {"failClosed", "failOpen", "configured"}
    BY <2>2, <2>3, <2>4, Zenon DEF Settled
  <2> QED BY <2>2, <2>3, <2>4, <2>5, Zenon DEF Statuses
<1>5. result' \in {"ok", "error"}
  BY Zenon DEF Report
<1> QED BY <1>3, <1>4, <1>5, Zenon

(* The invariant holds on a device that was never managed.                 *)
LEMMA InitHolds == Init => IInv
<1> SUFFICES ASSUME Init PROVE IInv
  BY Zenon
<1>1. /\ \A p \in Programs : file[p] = Absent /\ sidecar[p] = NoState /\ mine[p] = Empty
      /\ plan = NoPlan /\ pc = "idle" /\ at = 1
  BY Zenon DEF Init
<1>2. TypeOK
  <2>1. config \in [Programs -> [status : Statuses, doc : Docs, paired : BOOLEAN]] /\ plan.config = config
    BY NoPlanFacts, Zenon DEF Init
  <2>2. file \in [Programs -> Files] /\ sidecar \in [Programs -> States] /\ mine \in [Programs -> Docs]
    BY DocTypes, Zenon DEF Init
  <2>3. report \in [Programs -> Outcomes]
    BY Zenon DEF Init, Outcomes
  <2>4. \A p \in Programs : /\ sidecar[p] = NoState /\ plan.sidecar[p] = NoState
                            /\ config[p] \in Wants(mode[p]) /\ plan.config[p] \in Wants(mode[p])
    BY <1>1, <2>1, NoPlanFacts, Zenon
  <2>5. plan \in [config : [Programs -> [status : Statuses, doc : Docs, paired : BOOLEAN]],
                 file : [Programs -> Files], sidecar : [Programs -> States]]
    BY <1>1, NoPlanFacts, Zenon
  <2>6. at \in Programs /\ changes \in 0 .. MaxChanges /\ crashes \in 0 .. MaxCrashes
    BY DEF Init, Programs
  <2>7. mode \in Modes /\ result = "none" /\ pc = "idle"
        /\ touched = {} /\ raced = {} /\ torn = {} /\ written = {}
    BY Zenon DEF Init
  <2> QED BY <2>1, <2>2, <2>3, <2>4, <2>5, <2>6, <2>7, Zenon DEF TypeOK
<1>3. SidecarsWellFormed
  BY <1>1, NoPlanFacts DEF SidecarsWellFormed
<1>4. MineKnown
  <2>1. \A p \in Programs : ~Halfway(p)
    BY <1>1, Zenon DEF Halfway
  <2>2. \A k \in Settings : Empty[k] = None /\ Absent.doc[k] = None
    BY Zenon DEF Empty, Absent
  <2>3. \A h : Matches(h, Absent, NoState, Empty)
    BY <2>2, Zenon DEF Matches, OwnValue, NoState
  <2> QED BY <1>1, <2>1, <2>2, <2>3, ZenonT(60) DEF MineKnown
<1>5. AsPlanned /\ ClearedInPlan
  BY <1>1, Zenon DEF AsPlanned, ClearedInPlan
<1>6. ClearedInReport
  BY Zenon DEF Init, ClearedInReport, Unmanaged
<1> QED BY <1>2, <1>3, <1>4, <1>5, <1>6, Zenon DEF IInv

(* Where an apply may stop without recording a program as torn, its files  *)
(* still tell what is the user's.                                          *)
LEMMA StopKeeps ==
  ASSUME IInv, NEW p \in Programs \ (raced \cup torn \cup Tearing)
  PROVE  /\ \A k \in Settings : mine[p][k] \notin ManagedValues
         /\ Matches(mode[p], file[p], sidecar[p], mine[p])
<1>1. p \in Programs \ (raced \cup torn) /\ p \in Programs \ raced /\ mine[p] \in Docs
  BY Zenon DEF IInv, TypeOK
<1>2. \A k \in Settings : mine[p][k] \notin ManagedValues
  BY <1>1, Zenon DEF IInv, MineKnown
<1>3. CASE ~Halfway(p)
  BY <1>1, <1>2, <1>3, Zenon DEF IInv, MineKnown
<1>4. CASE Halfway(p)
  <2>1. pc = "sidecar" /\ p = at /\ FileOp(p)
    BY <1>4, Zenon DEF Halfway
  <2>2. Matches(mode[p], plan.file[p], plan.sidecar[p], mine[p])
    BY <1>1, <1>4, Zenon DEF IInv, MineKnown
  <2>3. p >= p
    BY DEF Programs
  <2>4. /\ Part(p).verdict = "ok" /\ sidecar[p] = plan.sidecar[p] /\ file[p] = Part(p).file
    BY <1>1, <1>4, <2>1, <2>3, Zenon DEF IInv, AsPlanned, Changes, FileOp
  <2>5. Keeps(mode[p], plan.file[p], plan.sidecar[p], Part(p), mine[p])
    BY <1>1, <1>2, PartFacts, Zenon DEF IInv
  <2>6. ~Part(p).sidecar.present \/ (mode[p] = "keyed" /\ ~plan.sidecar[p].present)
    BY <2>1, Zenon DEF Tearing
  <2> QED BY <1>2, <2>2, <2>4, <2>5, <2>6, Zenon DEF Keeps
<1> QED BY <1>3, <1>4, Zenon

(* The apply ends with the files as they are.                              *)
LEMMA EndKeeps ==
  ASSUME IInv, UNCHANGED <<mode, disk, config, mine, raced>>,
         pc' = "idle", at' = 1, plan' = NoPlan,
         report' \in [Programs -> Outcomes], result' \in {"none", "ok", "error"},
         touched' = touched, torn' = torn \cup Tearing, written' = written,
         changes' \in 0 .. MaxChanges, crashes' \in 0 .. MaxCrashes,
         \A p \in Programs \ raced : Unmanaged(p)' => Clean(mode[p], file[p], sidecar[p])
  PROVE  IInv'
<1>1. Tearing \subseteq Programs
  BY Zenon DEF Tearing, IInv, TypeOK
<1>2. TypeOK'
  BY <1>1, NoPlanFacts DEF IInv, TypeOK, Programs
<1>3. SidecarsWellFormed'
  <2>1. \A p \in Programs : plan'.sidecar[p] = NoState
    BY NoPlanFacts, Zenon
  <2>2. \A h : WellFormed(h, NoState)
    BY NoPlanFacts, Zenon
  <2>3. \A p \in Programs : WellFormed(mode[p], sidecar[p])
    BY Zenon DEF IInv, SidecarsWellFormed
  <2>4. mode' = mode /\ sidecar' = sidecar
    BY Zenon
  <2> QED BY <2>1, <2>2, <2>3, <2>4, ZenonT(30) DEF SidecarsWellFormed
<1>4. \A p \in Programs : ~Halfway(p)'
  BY Zenon DEF Halfway
<1>5. MineKnown'
  BY <1>4, StopKeeps, Zenon DEF MineKnown
<1>6. AsPlanned' /\ ClearedInPlan'
  BY Zenon DEF AsPlanned, ClearedInPlan
<1>7. ClearedInReport'
  BY Zenon DEF ClearedInReport
<1> QED BY <1>2, <1>3, <1>5, <1>6, <1>7, Zenon DEF IInv

(* Refusals, failed writes and a crash keep the invariant; a program       *)
(* between its two writes becomes torn.                                    *)
LEMMA EndStepsKeep ==
  ASSUME IInv, Refuse \/ (\E p \in Programs : RefuseStale(p) \/ DirFails(p)) \/ WriteFails \/ Crash
  PROVE  IInv'
<1>1. TypeOK /\ SidecarsWellFormed
  BY Zenon DEF IInv
<1>2. changes \in 0 .. MaxChanges /\ crashes \in 0 .. MaxCrashes
  BY Zenon DEF IInv, TypeOK
<1>3. pc = "planned" => Tearing = {}
  BY Zenon DEF Tearing
<1>4. ASSUME NEW p \in Programs \ raced, pc # "idle",
             plan.config[p].status \in {"absent", "optedOut"}, Part(p).verdict = "ok",
             ~Changes(p) \/ (pc \in {"file", "sidecar"} /\ p < at)
      PROVE  Clean(mode[p], file[p], sidecar[p])
  BY <1>4, Zenon DEF IInv, ClearedInPlan
<1>5. CASE Refuse
  <2> DEFINE F == {p \in Programs : Part(p).verdict = "failed"}
             C == {p \in Programs : Part(p).verdict = "conflict"}
  <2>1. pc = "planned" /\ Report(F, C, {}) /\ UNCHANGED <<disk, torn, written>>
    BY <1>5, Zenon DEF Refuse
  <2>2. /\ report' \in [Programs -> Outcomes] /\ result' \in {"ok", "error"}
        /\ \A p \in Programs : Unmanaged(p)' =>
             p \notin F \cup C /\ plan.config[p].status \in {"absent", "optedOut"} /\ ~Changes(p)
    BY <1>1, <2>1, ReportFacts
  <2>3. \A p \in Programs : p \notin F \cup C => Part(p).verdict = "ok"
    BY <1>1, PartFacts, Zenon
  <2>4. \A p \in Programs \ raced : Unmanaged(p)' => Clean(mode[p], file[p], sidecar[p])
    BY <1>4, <2>1, <2>2, <2>3, Zenon
  <2> QED BY <1>2, <1>3, <2>1, <2>2, <2>4, EndKeeps, Zenon DEF Report
<1>6. CASE \E p \in Programs : RefuseStale(p) \/ DirFails(p)
  <2> PICK q \in Programs : RefuseStale(q) \/ DirFails(q)
    BY <1>6, Zenon
  <2>1. pc = "planned" /\ Report({q}, {}, {}) /\ UNCHANGED <<disk, torn, written>>
    BY Zenon DEF RefuseStale, DirFails
  <2>2. /\ report' \in [Programs -> Outcomes] /\ result' \in {"ok", "error"}
        /\ \A p \in Programs : Unmanaged(p)' =>
             plan.config[p].status \in {"absent", "optedOut"} /\ ~Changes(p)
    BY <1>1, <2>1, ReportFacts
  <2>3. \A p \in Programs : Part(p).verdict = "ok"
    BY Zenon DEF RefuseStale, DirFails
  <2>4. \A p \in Programs \ raced : Unmanaged(p)' => Clean(mode[p], file[p], sidecar[p])
    BY <1>4, <2>1, <2>2, <2>3, Zenon
  <2> QED BY <1>2, <1>3, <2>1, <2>2, <2>4, EndKeeps, Zenon DEF Report
<1>7. CASE WriteFails
  <2> DEFINE R == 1 .. at - 1
  <2>1. /\ pc \in {"file", "sidecar"} /\ Report({at}, {}, R)
        /\ UNCHANGED <<disk, written>> /\ torn' = torn \cup Tearing
    BY <1>7, Zenon DEF WriteFails
  <2>2. \A p \in R : p < at
    BY <1>1 DEF TypeOK, Programs
  <2> HIDE DEF R
  <2>3. /\ report' \in [Programs -> Outcomes] /\ result' \in {"ok", "error"}
        /\ \A p \in Programs : Unmanaged(p)' =>
             /\ plan.config[p].status \in {"absent", "optedOut"}
             /\ ~Changes(p) \/ p \in R
    BY <1>1, <2>1, ReportFacts
  <2>4. \A p \in Programs : Part(p).verdict = "ok"
    BY <2>1, Zenon DEF IInv, AsPlanned
  <2>5. \A p \in Programs \ raced : Unmanaged(p)' => Clean(mode[p], file[p], sidecar[p])
    BY <1>4, <2>1, <2>2, <2>3, <2>4, Zenon
  <2> QED BY <1>2, <2>1, <2>3, <2>5, EndKeeps, Zenon DEF Report
<1>8. CASE Crash
  <2>1. report' \in [Programs -> Outcomes] /\ \A p \in Programs : ~Unmanaged(p)'
    BY <1>8, Zenon DEF Crash, Outcomes, Unmanaged
  <2>2. crashes' \in 0 .. MaxCrashes /\ changes' = changes
    BY <1>2, <1>8 DEF Crash
  <2> QED BY <1>2, <1>8, <2>1, <2>2, EndKeeps, Zenon DEF Crash
<1> QED BY <1>5, <1>6, <1>7, <1>8, Zenon

(* Reading and planning, and the validation of what was read, keep the     *)
(* invariant.                                                              *)
LEMMA PlanStepsKeep ==
  ASSUME IInv, PlanAll \/ Validate
  PROVE  IInv'
<1>1. CASE PlanAll
  <2>1. /\ plan'.config = config /\ plan'.file = file /\ plan'.sidecar = sidecar
        /\ plan' = [config |-> config, file |-> file, sidecar |-> sidecar]
        /\ pc = "idle" /\ pc' = "planned" /\ UNCHANGED <<mode, file, sidecar, at, mine, raced, torn>>
    BY <1>1, Zenon DEF PlanAll
  <2>2. TypeOK'
    BY <1>1, <2>1, Zenon DEF PlanAll, IInv, TypeOK
  <2>3. SidecarsWellFormed'
    BY <2>1, Zenon DEF IInv, SidecarsWellFormed
  <2>4. \A p \in Programs : ~Halfway(p) /\ ~Halfway(p)'
    BY <2>1, Zenon DEF Halfway
  <2>5. MineKnown'
    BY <2>1, <2>4, Zenon DEF IInv, MineKnown
  <2>6. AsPlanned' /\ ClearedInReport'
    BY <2>1, Zenon DEF IInv, AsPlanned, ClearedInReport, Unmanaged
  <2>7. ASSUME NEW p \in Programs, plan'.config[p].status \in {"absent", "optedOut"},
               Part(p)'.verdict = "ok", ~Changes(p)'
        PROVE  Clean(mode[p], file[p], sidecar[p])
    <3> DEFINE r == PlanProgram(mode[p], config[p], file[p], sidecar[p])
    <3>1. r = Part(p)' /\ r.file = file[p] /\ r.sidecar = sidecar[p]
      BY <2>1, <2>7, Zenon DEF Part, Changes
    <3>2. Planning(mode[p], config[p], file[p], sidecar[p]) /\ WellFormed(mode[p], sidecar[p])
      BY DEF IInv, TypeOK, SidecarsWellFormed, Planning
    <3>3. config[p].status \in {"absent", "optedOut"} /\ r.verdict = "ok"
      BY <2>1, <2>7, <3>1, Zenon
    <3>4. Clean(mode[p], r.file, r.sidecar)
      BY <3>2, <3>3, PlanCleans, Zenon
    <3> QED BY <3>1, <3>4, Zenon
  <2>8. ClearedInPlan'
    BY <2>1, <2>7, Zenon DEF ClearedInPlan
  <2> QED BY <2>2, <2>3, <2>5, <2>6, <2>8, Zenon DEF IInv
<1>2. CASE Validate
  <2>1. /\ pc = "planned" /\ pc' = "file"
        /\ UNCHANGED <<mode, disk, config, at, plan, report, result, bounds, history>>
    BY <1>2, Zenon DEF Validate
  <2>2. TypeOK' /\ SidecarsWellFormed'
    BY <2>1, Zenon DEF IInv, TypeOK, SidecarsWellFormed
  <2>3. \A p \in Programs : ~Halfway(p) /\ ~Halfway(p)'
    BY <2>1, Zenon DEF Halfway
  <2>4. MineKnown' /\ ClearedInReport'
    BY <2>1, <2>3, Zenon DEF IInv, MineKnown, ClearedInReport, Unmanaged
  <2>5. \A p \in Programs : Part(p)' = Part(p) /\ (Changes(p)' <=> Changes(p))
    BY <2>1, Zenon DEF Part, Changes
  <2>6. ASSUME NEW p \in Programs, plan.config[p].status = "configured" \/ Changes(p)
        PROVE  sidecar[p] = plan.sidecar[p] /\ file[p] = plan.file[p]
    <3>1. Observed(p) /\ plan.config[p].status # "failClosed"
      BY <2>6, PartFacts, Zenon DEF IInv, Observed
    <3> QED BY <1>2, <3>1, Zenon DEF Validate, Changed
  <2>7. AsPlanned'
    BY <1>2, <2>1, <2>3, <2>5, <2>6, Zenon DEF AsPlanned, Validate
  <2>8. ClearedInPlan'
    <3>1. \A p \in Programs : ~(p < at')
      BY <2>1 DEF IInv, AsPlanned, Programs
    <3> QED BY <2>1, <2>5, <3>1, Zenon DEF IInv, ClearedInPlan
  <2> QED BY <2>2, <2>4, <2>7, <2>8, Zenon DEF IInv
<1> QED BY <1>1, <1>2, Zenon

(* The write of a program's settings file keeps the invariant.             *)
LEMMA WriteFileKeeps ==
  ASSUME IInv, WriteFile
  PROVE  IInv'
<1>1. /\ pc = "file" /\ pc' = "sidecar" /\ at \in Programs
      /\ UNCHANGED <<mode, sidecar, config, at, plan, report, result, bounds>>
      /\ UNCHANGED <<mine, touched, raced, torn>>
  BY Zenon DEF WriteFile, IInv, TypeOK
<1>2. /\ file \in [Programs -> Files] /\ Part(at).file \in Files
      /\ file' = IF FileOp(at) THEN [file EXCEPT ![at] = Part(at).file] ELSE file
  BY <1>1, PartFacts, Zenon DEF IInv, TypeOK, WriteFile
<1>3. /\ FileOp(at) => file'[at] = Part(at).file
      /\ ~FileOp(at) => file'[at] = file[at]
      /\ \A p \in Programs : p # at => file'[p] = file[p]
  BY <1>1, <1>2, Zenon
<1>4. /\ \A p \in Programs : /\ Part(p)' = Part(p) /\ (Changes(p)' <=> Changes(p))
                             /\ FileOp(p)' <=> FileOp(p)
      /\ \A p \in Programs : FileOp(p) => Changes(p)
  BY <1>1, Zenon DEF Part, Changes, FileOp
<1>5. \A p \in Programs : ~Halfway(p) /\ (Halfway(p)' <=> p = at /\ FileOp(at))
  BY <1>1, <1>4, Zenon DEF Halfway
<1>6. TypeOK'
  <2>1. file' \in [Programs -> Files]
    BY <1>2, Zenon
  <2>2. written' \subseteq Programs
    BY <1>1, Zenon DEF WriteFile, IInv, TypeOK
  <2> QED BY <1>1, <2>1, <2>2, Zenon DEF IInv, TypeOK
<1>7. SidecarsWellFormed' /\ ClearedInReport'
  BY <1>1, Zenon DEF IInv, SidecarsWellFormed, ClearedInReport, Unmanaged
<1>8. ASSUME at \in Programs \ raced, Changes(at)
      PROVE  file[at] = plan.file[at] /\ sidecar[at] = plan.sidecar[at]
  <2>1. at >= at
    BY <1>1 DEF Programs
  <2> QED BY <1>1, <1>5, <1>8, <2>1, Zenon DEF IInv, AsPlanned
<1>9. MineKnown'
  <2> SUFFICES ASSUME NEW p \in Programs \ (raced \cup torn)
               PROVE  /\ \A k \in Settings : mine[p][k] \notin ManagedValues
                      /\ IF p = at /\ FileOp(at)
                           THEN Matches(mode[p], plan.file[p], plan.sidecar[p], mine[p])
                           ELSE Matches(mode[p], file'[p], sidecar[p], mine[p])
    BY <1>1, <1>5, Zenon DEF MineKnown
  <2>1. /\ \A k \in Settings : mine[p][k] \notin ManagedValues
        /\ Matches(mode[p], file[p], sidecar[p], mine[p])
    BY <1>5, Zenon DEF IInv, MineKnown
  <2> QED BY <1>3, <1>4, <1>8, <2>1, Zenon
<1>10. AsPlanned'
  BY <1>1, <1>3, <1>4, <1>5, SMTT(30) DEF IInv, AsPlanned
<1>11. ClearedInPlan'
  BY <1>1, <1>3, <1>4 DEF IInv, ClearedInPlan, TypeOK, Programs
<1> QED BY <1>6, <1>7, <1>9, <1>10, <1>11, Zenon DEF IInv

(* With its sidecar written, a program is as it was planned.               *)
LEMMA WriteSidecarFacts ==
  ASSUME IInv, WriteSidecar
  PROVE  /\ at \in Programs /\ sidecar' \in [Programs -> States]
         /\ \A p \in Programs : p # at => sidecar'[p] = sidecar[p]
         /\ WellFormed(mode[at], sidecar'[at]) /\ (mode[at] = "headed" => sidecar'[at] = NoState)
         /\ at \notin raced => \/ sidecar'[at] = Part(at).sidecar /\ file[at] = Part(at).file
                               \/ sidecar'[at] = sidecar[at] /\ ~Changes(at)
         /\ at \notin raced \cup torn =>
              /\ \A k \in Settings : mine[at][k] \notin ManagedValues
              /\ Matches(mode[at], file[at], sidecar'[at], mine[at])
<1>1. at \in Programs /\ pc = "sidecar" /\ sidecar \in [Programs -> States] /\ mine[at] \in Docs
  BY Zenon DEF WriteSidecar, IInv, TypeOK
<1>2. TypeOK /\ SidecarsWellFormed /\ at >= at /\ Part(at).verdict = "ok"
  BY <1>1 DEF IInv, AsPlanned, Programs
<1>3. sidecar' = IF SidecarOp(at) THEN [sidecar EXCEPT ![at] = Part(at).sidecar] ELSE sidecar
  BY Zenon DEF WriteSidecar
<1>4. sidecar'[at] = IF SidecarOp(at) THEN Part(at).sidecar ELSE sidecar[at]
  BY <1>1, <1>3, Zenon
<1>5. Part(at).sidecar \in States /\ WellFormed(mode[at], Part(at).sidecar)
      /\ (mode[at] = "headed" => Part(at).sidecar = NoState)
  BY <1>1, <1>2, PartFacts, Zenon
<1>6. WellFormed(mode[at], sidecar'[at]) /\ (mode[at] = "headed" => sidecar'[at] = NoState)
  BY <1>1, <1>4, <1>5, Zenon DEF IInv, TypeOK, SidecarsWellFormed
<1>7. ASSUME at \notin raced, plan.config[at].status = "configured" \/ Changes(at)
      PROVE  sidecar[at] = plan.sidecar[at] /\ file[at] = Part(at).file
  BY <1>1, <1>2, <1>7, Zenon DEF IInv, AsPlanned, Halfway, FileOp
<1>8. ASSUME at \notin raced, plan.config[at].status = "configured" \/ Changes(at)
      PROVE  sidecar'[at] = Part(at).sidecar /\ file[at] = Part(at).file
  BY <1>4, <1>7, <1>8, Zenon DEF SidecarOp
<1>9. ASSUME ~(plan.config[at].status = "configured" \/ Changes(at))
      PROVE  sidecar'[at] = sidecar[at]
  BY <1>4, <1>9, Zenon DEF SidecarOp, Changes
<1>10. ASSUME at \notin raced \cup torn
       PROVE  /\ \A k \in Settings : mine[at][k] \notin ManagedValues
              /\ Matches(mode[at], file[at], sidecar'[at], mine[at])
  <2>1. /\ \A k \in Settings : mine[at][k] \notin ManagedValues
        /\ IF FileOp(at) THEN Matches(mode[at], plan.file[at], plan.sidecar[at], mine[at])
                         ELSE Matches(mode[at], file[at], sidecar[at], mine[at])
    BY <1>1, <1>10, Zenon DEF IInv, MineKnown, Halfway
  <2>2. CASE plan.config[at].status = "configured" \/ Changes(at)
    <3>1. Keeps(mode[at], plan.file[at], plan.sidecar[at], Part(at), mine[at])
      BY <1>1, <1>2, <2>1, PartFacts, Zenon
    <3>2. Matches(mode[at], plan.file[at], plan.sidecar[at], mine[at])
      BY <1>7, <1>10, <2>1, <2>2, Zenon DEF FileOp
    <3> QED BY <1>2, <1>8, <1>10, <2>1, <2>2, <3>1, <3>2, Zenon DEF Keeps
  <2>3. CASE ~(plan.config[at].status = "configured" \/ Changes(at))
    BY <1>9, <2>1, <2>3, Zenon DEF Changes, FileOp
  <2> QED BY <2>2, <2>3, Zenon
<1> QED BY <1>1, <1>3, <1>5, <1>6, <1>8, <1>9, <1>10, Zenon

(* The write or the removal of a program's sidecar, which ends the         *)
(* program's part of the apply, keeps the invariant.                       *)
LEMMA WriteSidecarKeeps ==
  ASSUME IInv, WriteSidecar
  PROVE  IInv'
<1>1. /\ at \in Programs /\ pc = "sidecar" /\ TypeOK /\ SidecarsWellFormed
      /\ UNCHANGED <<mode, file, config, bounds, mine, touched, raced>>
      /\ torn \subseteq torn' /\ torn' \subseteq Programs /\ written' \subseteq Programs
  BY Zenon DEF WriteSidecar, Report, IInv, TypeOK
<1>2. /\ sidecar' \in [Programs -> States]
      /\ \A p \in Programs : p # at => sidecar'[p] = sidecar[p]
      /\ WellFormed(mode[at], sidecar'[at]) /\ (mode[at] = "headed" => sidecar'[at] = NoState)
  BY WriteSidecarFacts, Zenon
<1>3. \A p \in Programs : /\ WellFormed(mode[p], sidecar'[p])
                          /\ mode[p] = "headed" => sidecar'[p] = NoState
  BY <1>1, <1>2, Zenon DEF TypeOK, SidecarsWellFormed
<1>4. ASSUME NEW p \in Programs \ (raced \cup torn)
      PROVE  /\ \A k \in Settings : mine[p][k] \notin ManagedValues
             /\ Matches(mode[p], file[p], sidecar'[p], mine[p])
  <2>1. CASE p = at
    BY <2>1, WriteSidecarFacts, Zenon
  <2>2. CASE p # at
    BY <1>2, <2>2, Zenon DEF IInv, MineKnown, Halfway
  <2> QED BY <2>1, <2>2, Zenon
<1>5. ASSUME NEW p \in Programs \ raced, plan.config[p].status \in {"absent", "optedOut"},
             ~Changes(p) \/ p < at + 1
      PROVE  Clean(mode[p], file[p], sidecar'[p])
  <2>1. Part(p).verdict = "ok"
    BY <1>1, Zenon DEF IInv, AsPlanned
  <2>2. ~Changes(p) \/ p < at => Clean(mode[p], file[p], sidecar[p])
    BY <1>1, <1>5, <2>1, Zenon DEF IInv, ClearedInPlan
  <2>3. CASE p # at
    BY <1>1, <1>2, <1>5, <2>2, <2>3 DEF Programs
  <2>4. CASE p = at
    <3>1. Clean(mode[p], Part(p).file, Part(p).sidecar)
      BY <1>1, <1>5, <2>1, PartFacts, Zenon
    <3> QED BY <1>5, <2>2, <2>4, <3>1, WriteSidecarFacts, Zenon
  <2> QED BY <2>3, <2>4, Zenon
<1>6. \A p \in Programs : ~Halfway(p)'
  BY Zenon DEF WriteSidecar, Report, Halfway
<1>7. MineKnown'
  BY <1>1, <1>4, <1>6, Zenon DEF MineKnown
<1>8. CASE at = NPrograms
  <2>1. Report({}, {}, Programs)
    BY <1>8, Zenon DEF WriteSidecar
  <2>2. /\ report' \in [Programs -> Outcomes] /\ result' \in {"ok", "error"}
        /\ \A p \in Programs : Unmanaged(p)' => plan.config[p].status \in {"absent", "optedOut"}
    BY <1>1, <2>1, ReportFacts, Zenon
  <2>3. pc' = "idle" /\ at' = 1 /\ plan' = NoPlan
    BY <2>1, Zenon DEF Report
  <2>4. TypeOK'
    <3>1. at' \in Programs
      BY <2>3 DEF Programs
    <3> QED BY <1>1, <1>2, <1>3, <2>2, <2>3, <3>1, NoPlanFacts, Zenon DEF TypeOK
  <2>5. SidecarsWellFormed'
    BY <1>1, <1>3, <2>3, NoPlanFacts DEF SidecarsWellFormed
  <2>6. AsPlanned' /\ ClearedInPlan'
    BY <2>3, Zenon DEF AsPlanned, ClearedInPlan
  <2>7. \A p \in Programs : p < at + 1
    BY <1>8 DEF Programs
  <2>8. ClearedInReport'
    BY <1>1, <1>5, <2>2, <2>7, Zenon DEF ClearedInReport
  <2> QED BY <1>7, <2>4, <2>5, <2>6, <2>8, Zenon DEF IInv
<1>9. CASE at # NPrograms
  <2>1. pc' = "file" /\ at' = at + 1 /\ UNCHANGED <<plan, report, result>>
    BY <1>9, Zenon DEF WriteSidecar
  <2>2. TypeOK'
    <3>1. at' \in Programs
      BY <1>1, <1>9, <2>1 DEF Programs
    <3> QED BY <1>1, <1>2, <1>3, <2>1, <3>1, Zenon DEF TypeOK
  <2>3. SidecarsWellFormed' /\ ClearedInReport'
    BY <1>1, <1>3, <2>1, Zenon DEF SidecarsWellFormed, ClearedInReport, Unmanaged
  <2>4. \A p \in Programs : Part(p)' = Part(p) /\ (Changes(p)' <=> Changes(p))
    BY <1>1, <2>1, Zenon DEF Part, Changes
  <2>5. \A p \in Programs : p >= at + 1 => p >= at /\ p # at
    BY <1>1 DEF Programs
  <2>6. AsPlanned'
    BY <1>1, <1>2, <1>6, <2>1, <2>4, <2>5 DEF IInv, AsPlanned, Halfway
  <2>7. ClearedInPlan'
    BY <1>1, <1>5, <2>1, <2>4, Zenon DEF ClearedInPlan
  <2> QED BY <1>7, <2>2, <2>3, <2>6, <2>7, Zenon DEF IInv
<1> QED BY <1>8, <1>9, Zenon

(* A user step of one program leaves the others and the plan alone, and a  *)
(* program that was validated and not yet written counts as raced.         *)
LEMMA TouchKeeps ==
  ASSUME IInv, NEW p \in Programs, Touch(p),
         file' \in [Programs -> Files], sidecar' \in [Programs -> States], mine' \in [Programs -> Docs],
         \A q \in Programs : q # p => /\ file'[q] = file[q] /\ sidecar'[q] = sidecar[q]
                                      /\ mine'[q] = mine[q],
         WellFormed(mode[p], sidecar'[p]), mode[p] = "headed" => sidecar'[p] = NoState,
         (\A k \in Settings : mine[p][k] \notin ManagedValues)
             /\ Matches(mode[p], file[p], sidecar[p], mine[p])
           => /\ \A k \in Settings : mine'[p][k] \notin ManagedValues
              /\ Matches(mode[p], file'[p], sidecar'[p], mine'[p]),
         Clean(mode[p], file[p], sidecar[p]) => Clean(mode[p], file'[p], sidecar'[p])
  PROVE  IInv'
<1>1. /\ UNCHANGED <<mode, config, apply, crashes, torn, written>>
      /\ raced' = IF pc \in {"file", "sidecar"} /\ p >= at THEN raced \cup {p} ELSE raced
      /\ changes < MaxChanges /\ changes' = changes + 1 /\ touched' = touched \cup {p}
  BY Zenon DEF Touch
<1>2. raced \subseteq raced' /\ raced' \subseteq Programs /\ at \in Programs
  BY <1>1, ZenonT(30) DEF IInv, TypeOK
<1>3. TypeOK'
  <2> changes \in 0 .. MaxChanges /\ touched \subseteq Programs
    BY Zenon DEF IInv, TypeOK
  <2>1. changes' \in 0 .. MaxChanges /\ touched' \subseteq Programs
    BY <1>1
  <2>2. \A q \in Programs : mode[q] = "headed" => sidecar'[q] = NoState
    BY Zenon DEF IInv, TypeOK
  <2> QED BY <1>1, <1>2, <2>1, <2>2, Zenon DEF IInv, TypeOK
<1>4. SidecarsWellFormed'
  BY <1>1, Zenon DEF IInv, SidecarsWellFormed
<1>5. \A q \in Programs : /\ Part(q)' = Part(q) /\ (Changes(q)' <=> Changes(q))
                          /\ Halfway(q)' <=> Halfway(q)
  BY <1>1, Zenon DEF Part, Changes, FileOp, Halfway
<1>6. p \notin raced' => ~(pc \in {"file", "sidecar"} /\ p >= at)
  BY <1>1, Zenon
<1>7. p \notin raced' => ~Halfway(p)
  <2>1. p >= p
    BY DEF Programs
  <2> QED BY <1>6, <2>1, Zenon DEF Halfway
<1>8. MineKnown'
  <2> SUFFICES ASSUME NEW q \in Programs \ (raced' \cup torn)
               PROVE  /\ \A k \in Settings : mine'[q][k] \notin ManagedValues
                      /\ IF Halfway(q) THEN Matches(mode[q], plan.file[q], plan.sidecar[q], mine'[q])
                                       ELSE Matches(mode[q], file'[q], sidecar'[q], mine'[q])
    BY <1>1, <1>5, Zenon DEF MineKnown
  <2>1. /\ \A k \in Settings : mine[q][k] \notin ManagedValues
        /\ IF Halfway(q) THEN Matches(mode[q], plan.file[q], plan.sidecar[q], mine[q])
                         ELSE Matches(mode[q], file[q], sidecar[q], mine[q])
    BY <1>2, Zenon DEF IInv, MineKnown
  <2>2. CASE q = p
    BY <1>7, <2>1, <2>2, Zenon
  <2>3. CASE q # p
    BY <2>1, <2>3, ZenonT(30)
  <2> QED BY <2>2, <2>3, Zenon
<1>9. AsPlanned'
  <2>1. pc \in {"file", "sidecar"} =>
          /\ \A q \in Programs : Part(q).verdict = "ok"
          /\ \A q \in Programs \ raced' :
               q >= at /\ (plan.config[q].status = "configured" \/ Changes(q)) =>
                 /\ sidecar'[q] = plan.sidecar[q]
                 /\ file'[q] = IF Halfway(q) THEN Part(q).file ELSE plan.file[q]
    BY <1>2, <1>6, Zenon DEF IInv, AsPlanned
  <2>2. pc \in {"idle", "planned"} => at = 1
    BY Zenon DEF IInv, AsPlanned
  <2>3. pc' = pc /\ at' = at /\ plan' = plan
    BY <1>1, Zenon
  <2> QED BY <1>5, <2>1, <2>2, <2>3 DEF AsPlanned
<1>10. \A q \in Programs : Clean(mode[q], file[q], sidecar[q]) => Clean(mode[q], file'[q], sidecar'[q])
  BY Zenon
<1>11. ClearedInPlan'
  BY <1>1, <1>2, <1>5, <1>10, Zenon DEF IInv, ClearedInPlan
<1>12. ClearedInReport'
  BY <1>1, <1>2, <1>10, Zenon DEF IInv, ClearedInReport, Unmanaged
<1> QED BY <1>3, <1>4, <1>8, <1>9, <1>11, <1>12, Zenon DEF IInv

(* The user writes values of their own, and what they make of the document *)
(* stays what a removal would leave.                                       *)
LEMMA EditKeeps ==
  ASSUME IInv, NEW p \in Programs, NEW f \in Files, Edit(p, f),
         \A k \in Settings : f.doc[k] = file[p].doc[k] \/ f.doc[k] \notin ManagedValues
  PROVE  IInv'
<1>1. /\ file' = [file EXCEPT ![p] = f] /\ mine' = [mine EXCEPT ![p] = MineAfter(p, f.doc)]
      /\ Touch(p) /\ sidecar' = sidecar
  BY Zenon DEF Edit
<1>2. /\ file \in [Programs -> Files] /\ sidecar \in [Programs -> States] /\ mine \in [Programs -> Docs]
      /\ mode[p] \in ManagedAs /\ file[p].doc \in Docs /\ f.doc \in Docs
      /\ mode[p] = "headed" => sidecar[p] = NoState
  BY DEF IInv, TypeOK, Files
<1>3. WellFormed(mode[p], sidecar[p])
  BY Zenon DEF IInv, SidecarsWellFormed
<1>4. /\ mode[p] = "owned" => MineAfter(p, f.doc) = IF sidecar[p].present THEN mine[p] ELSE f.doc
      /\ mode[p] = "headed" => MineAfter(p, f.doc) = IF \E k \in Settings : f.doc[k] \in ManagedValues
                                                       THEN mine[p] ELSE f.doc
      /\ mode[p] \in {"merge", "keyed"} =>
           MineAfter(p, f.doc) = [k \in Settings |-> IF f.doc[k] = file[p].doc[k] THEN mine[p][k]
                                                                                  ELSE f.doc[k]]
  BY Zenon DEF MineAfter
<1>5. MineAfter(p, f.doc) \in Docs
  <2>1. mine[p] \in Docs
    BY <1>2, Zenon
  <2>2. CASE mode[p] \in {"merge", "keyed"}
    BY <1>2, <1>4, <2>1, <2>2, Zenon DEF Docs
  <2>3. CASE mode[p] = "owned"
    BY <1>2, <1>4, <2>1, <2>3, Zenon
  <2>4. CASE mode[p] = "headed"
    BY <1>2, <1>4, <2>1, <2>4, Zenon
  <2> QED BY <1>2, <2>2, <2>3, <2>4, Zenon DEF ManagedAs
<1>6. ASSUME \A k \in Settings : mine[p][k] \notin ManagedValues,
             Matches(mode[p], file[p], sidecar[p], mine[p])
      PROVE  /\ \A k \in Settings : MineAfter(p, f.doc)[k] \notin ManagedValues
             /\ Matches(mode[p], f, sidecar[p], MineAfter(p, f.doc))
  <2>1. CASE mode[p] \in {"merge", "keyed"}
    <3>1. \A k \in Settings :
            MineAfter(p, f.doc)[k] = IF f.doc[k] = file[p].doc[k] THEN mine[p][k] ELSE f.doc[k]
      BY <1>4, <2>1, Zenon
    <3>2. \A k \in Settings : f.doc[k] # file[p].doc[k] => OwnValue(mode[p], f, sidecar[p], k) = f.doc[k]
      BY <1>3, <2>1, Zenon DEF OwnValue, WellFormed
    <3>3. \A k \in Settings : f.doc[k] = file[p].doc[k] =>
            OwnValue(mode[p], f, sidecar[p], k) = OwnValue(mode[p], file[p], sidecar[p], k)
      BY <2>1, Zenon DEF OwnValue
    <3> QED BY <1>6, <3>1, <3>2, <3>3, Zenon DEF Matches
  <2>2. CASE mode[p] = "owned"
    BY <1>4, <1>6, <2>2, Zenon DEF Matches, OwnValue, IsOwned, Named
  <2>3. CASE mode[p] = "headed"
    <3>1. \A k \in Settings : mine[p][k] = IF \E j \in Settings : file[p].doc[j] \in ManagedValues
                                             THEN None ELSE file[p].doc[k]
      BY <1>6, <2>3, Zenon DEF Matches, OwnValue, IsOwned, Named
    <3>2. CASE \E j \in Settings : f.doc[j] \in ManagedValues
      <4>1. \E j \in Settings : file[p].doc[j] \in ManagedValues
        BY <3>2, Zenon
      <4> QED BY <1>4, <1>6, <2>3, <3>1, <3>2, <4>1, Zenon DEF Matches, OwnValue, IsOwned
    <3>3. CASE ~\E j \in Settings : f.doc[j] \in ManagedValues
      BY <1>4, <2>3, <3>3, Zenon DEF Matches, OwnValue, IsOwned
    <3> QED BY <3>2, <3>3, Zenon
  <2> QED BY <1>2, <2>1, <2>2, <2>3, Zenon DEF ManagedAs
<1>7. Clean(mode[p], file[p], sidecar[p]) => Clean(mode[p], f, sidecar[p])
  BY Zenon DEF Clean
<1>8. /\ file'[p] = f /\ mine'[p] = MineAfter(p, f.doc)
      /\ \A q \in Programs : q # p => file'[q] = file[q] /\ mine'[q] = mine[q]
      /\ file' \in [Programs -> Files] /\ mine' \in [Programs -> Docs]
  BY <1>1, <1>2, <1>5, Zenon
<1> QED BY <1>1, <1>2, <1>3, <1>6, <1>7, <1>8, TouchKeeps, Zenon

(* Any edit by the user keeps the invariant, also between two writes of an *)
(* apply.                                                                  *)
LEMMA UserStepsKeep ==
  ASSUME IInv, UserStep
  PROVE  IInv'
<1> PICK p \in Programs :
      \/ \E k \in Settings, v \in UserValues \cup {None} : SetValue(p, k, v)
      \/ \E k \in Carriers, v \in OtherPairing : LeaveEntry(p, k, v)
      \/ \E kind \in {"absent", "blank"} : EmptyFile(p, kind)
      \/ \E kind \in {"doc", "invalid", "unreadable"} : SpoilFile(p, kind)
      \/ DeleteSidecar(p)
      \/ \E c \in Wants(mode[p]) : Configure(p, c)
  BY Zenon DEF UserStep
<1>1. /\ file[p] \in Files /\ file[p].doc \in Docs /\ mode[p] \in ManagedAs
      /\ file \in [Programs -> Files] /\ sidecar \in [Programs -> States] /\ mine \in [Programs -> Docs]
  BY DEF IInv, TypeOK, Files
<1>a. \A k \in Carriers, v \in OtherPairing : LeaveEntry(p, k, v) => k \in Settings /\ SetValue(p, k, v)
  BY Zenon DEF Carriers, LeaveEntry
<1>2. ASSUME NEW k \in Settings, NEW v \in UserValues \cup OtherPairing \cup {None}, SetValue(p, k, v)
      PROVE  IInv'
  <2> DEFINE d == [file[p].doc EXCEPT ![k] = v]
  <2>1. d \in Docs /\ \A j \in Settings : d[j] = file[p].doc[j] \/ d[j] \notin ManagedValues
    BY <1>1, Zenon DEF Docs
  <2>2. Document(d) \in Files /\ Document(d).doc = d
    BY <2>1, DocTypes, Zenon DEF Document
  <2>3. Edit(p, Document(d))
    BY <1>2, Zenon DEF SetValue
  <2> HIDE DEF d
  <2>4. \A j \in Settings :
          Document(d).doc[j] = file[p].doc[j] \/ Document(d).doc[j] \notin ManagedValues
    BY <2>1, <2>2, Zenon
  <2> QED BY <2>2, <2>3, <2>4, EditKeeps, Zenon
<1>3. ASSUME NEW kind \in {"absent", "blank"}, EmptyFile(p, kind)
      PROVE  IInv'
  <2> DEFINE f == [kind |-> kind, doc |-> Empty]
  <2>1. f \in Files
    BY DocTypes, Zenon DEF Files, Kinds
  <2>2. \A j \in Settings : f.doc[j] \notin ManagedValues
    BY Zenon DEF Empty
  <2>3. Edit(p, f)
    BY <1>3, Zenon DEF EmptyFile
  <2> HIDE DEF f
  <2> QED BY <2>1, <2>2, <2>3, EditKeeps, Zenon
<1>4. ASSUME NEW kind \in {"doc", "invalid", "unreadable"}, SpoilFile(p, kind)
      PROVE  IInv'
  <2> DEFINE f == [file[p] EXCEPT !.kind = kind]
  <2>1. f \in Files /\ f.doc = file[p].doc
    BY <1>1, Zenon DEF Files, Kinds
  <2>2. Edit(p, f)
    BY <1>4, Zenon DEF SpoilFile
  <2> HIDE DEF f
  <2> QED BY <2>1, <2>2, EditKeeps, Zenon
<1>5. ASSUME DeleteSidecar(p)
      PROVE  IInv'
  <2>1. /\ mode[p] = "keyed" /\ sidecar' = [sidecar EXCEPT ![p] = NoState]
        /\ Touch(p) /\ file' = file /\ mine' = mine
    BY <1>5, Zenon DEF DeleteSidecar
  <2>2. /\ sidecar'[p] = NoState /\ sidecar' \in [Programs -> States]
        /\ \A q \in Programs : q # p => sidecar'[q] = sidecar[q]
    BY <1>1, <2>1, DocTypes, Zenon
  <2>3. Matches(mode[p], file[p], sidecar[p], mine[p]) => Matches(mode[p], file[p], NoState, mine[p])
    <3>1. \A k \in Settings : ~Named(mode[p], k) => sidecar[p].after[k] = sidecar[p].before[k]
      BY <2>1, Zenon DEF IInv, SidecarsWellFormed, WellFormed, Named
    <3> QED BY <2>1, <3>1, Zenon DEF Matches, OwnValue, NoState
  <2>4. Clean(mode[p], file[p], NoState)
    BY <2>1, Zenon DEF Clean, NoState
  <2> QED BY <1>1, <2>1, <2>2, <2>3, <2>4, NoPlanFacts, TouchKeeps, Zenon
<1>6. ASSUME NEW c \in Wants(mode[p]), Configure(p, c)
      PROVE  IInv'
  <2>1. /\ UNCHANGED <<mode, disk, apply, crashes, mine, raced, torn, written>>
        /\ config' = [config EXCEPT ![p] = c] /\ touched' = touched \cup {p}
        /\ changes < MaxChanges /\ changes' = changes + 1
    BY <1>6, Zenon DEF Configure
  <2>2. c \in [status : Statuses, doc : Docs, paired : BOOLEAN]
    BY WantsTypes, Zenon
  <2>3. TypeOK'
    BY <2>1, <2>2 DEF IInv, TypeOK
  <2>4. \A q \in Programs : /\ Part(q)' = Part(q) /\ (Changes(q)' <=> Changes(q))
                            /\ (Halfway(q)' <=> Halfway(q)) /\ (Unmanaged(q)' <=> Unmanaged(q))
    BY <2>1, Zenon DEF Part, Changes, FileOp, Halfway, Unmanaged
  <2>5. SidecarsWellFormed' /\ MineKnown'
    BY <2>1, <2>4, Zenon DEF IInv, SidecarsWellFormed, MineKnown
  <2>6. AsPlanned' /\ ClearedInPlan' /\ ClearedInReport'
    BY <2>1, <2>4, Zenon DEF IInv, AsPlanned, ClearedInPlan, ClearedInReport
  <2> QED BY <2>3, <2>5, <2>6, Zenon DEF IInv
<1> QED BY <1>a, <1>2, <1>3, <1>4, <1>5, <1>6, Zenon

(* The inductive invariant holds in every state of every behaviour.        *)
LEMMA IInvHolds == Spec => []IInv
<1>1. IInv /\ UNCHANGED vars => IInv'
  <2> SUFFICES ASSUME IInv, UNCHANGED vars PROVE IInv'
    BY Zenon
  <2>1. UNCHANGED <<mode, disk, config, apply, bounds, history>>
    BY Zenon DEF vars
  <2>2. TypeOK' /\ SidecarsWellFormed'
    BY <2>1, Zenon DEF IInv, TypeOK, SidecarsWellFormed
  <2>3. \A q \in Programs : /\ Part(q)' = Part(q) /\ (Changes(q)' <=> Changes(q))
                            /\ (Halfway(q)' <=> Halfway(q)) /\ (Unmanaged(q)' <=> Unmanaged(q))
    BY <2>1, Zenon DEF Part, Changes, FileOp, Halfway, Unmanaged
  <2>4. MineKnown' /\ AsPlanned'
    BY <2>1, <2>3, Zenon DEF IInv, MineKnown, AsPlanned
  <2>5. ClearedInPlan' /\ ClearedInReport'
    BY <2>1, <2>3, Zenon DEF IInv, ClearedInPlan, ClearedInReport
  <2> QED BY <2>2, <2>4, <2>5, Zenon DEF IInv
<1>2. IInv /\ [Next]_vars => IInv'
  BY <1>1, EndStepsKeep, PlanStepsKeep, WriteFileKeeps, WriteSidecarKeeps, UserStepsKeep, Zenon
     DEF Next, ApplyStep
<1> QED BY <1>2, InitHolds, PTL DEF Spec

(* Every apply, edit, failure and restart keeps the types.                 *)
THEOREM TypeCorrect == Spec => []TypeOK
<1>1. IInv => TypeOK
  BY Zenon DEF IInv
<1> QED BY <1>1, IInvHolds, PTL

(* A program that an apply has left without management (removed, unlisted  *)
(* or opted out in the report) has in its file what the user made of it,   *)
(* for any programs, settings, configurations and any order of applies,    *)
(* edits, failed writes and restarts: rollback_overlay and the whole-file  *)
(* providers remove what the daemon wrote and nothing else.                *)
THEOREM UserContentSurvives == Spec => []UserContentKept
<1>1. IInv => UserContentKept
  <2> SUFFICES ASSUME IInv, NEW p \in Programs \ (raced \cup torn), NEW k \in Settings,
                      Unmanaged(p), ~Named(mode[p], k)
               PROVE  file[p].doc[k] = mine[p][k]
    BY Zenon DEF UserContentKept
  <2>1. ~Halfway(p)
    BY Zenon DEF Unmanaged, Halfway
  <2>2. Matches(mode[p], file[p], sidecar[p], mine[p])
    BY <2>1, Zenon DEF IInv, MineKnown
  <2>3. Clean(mode[p], file[p], sidecar[p])
    BY Zenon DEF IInv, ClearedInReport
  <2>4. mode[p] \in ManagedAs
    BY DEF IInv, TypeOK
  <2>5. OwnValue(mode[p], file[p], sidecar[p], k) = file[p].doc[k]
    BY <2>3, <2>4, Zenon DEF OwnValue, Clean, IsOwned, ManagedAs
  <2> QED BY <2>2, <2>5, Zenon DEF Matches
<1> QED BY <1>1, IInvHolds, PTL

-----------------------------------------------------------------------------
(* What an apply reports holds on disk, and a second apply is empty.       *)

(* What a merge adds under a reserved name had no value before it.         *)
Paired(h, s) ==
  h = "keyed" => \A k \in Reserved : s.after[k] # s.before[k] => s.before[k] = None

(* A managed value under a reserved name is in the sidecar as added.       *)
Covered(h, f, s) ==
  h = "keyed" /\ s.present =>
    \A k \in Reserved : f.doc[k] \in ManagedValues => s.after[k] # s.before[k]

(* Only the daemon puts managed values under reserved names.               *)
NoMoreThan(f, g) == \A k \in Reserved : f.doc[k] \in ManagedValues => g.doc[k] \in ManagedValues

NamesKnown ==
  \A p \in Programs :
    /\ pc # "idle" /\ p >= at =>
         /\ sidecar[p] \in {plan.sidecar[p], NoState}
         /\ NoMoreThan(file[p], IF pc = "sidecar" /\ p = at THEN Part(p).file ELSE plan.file[p])
    /\ p \notin torn =>
         /\ Paired(mode[p], sidecar[p]) /\ Paired(mode[p], plan.sidecar[p])
         /\ Covered(mode[p], plan.file[p], plan.sidecar[p])
         /\ ~Halfway(p) => Covered(mode[p], file[p], sidecar[p])

(* A program nobody touched is on disk as planned from or as planned.      *)
Untouched ==
  pc # "idle" =>
    \A p \in Programs \ touched :
      /\ config[p] = plan.config[p]
      /\ IF pc \in {"file", "sidecar"} /\ p < at
           THEN file[p] = Part(p).file /\ sidecar[p] = Part(p).sidecar
           ELSE /\ sidecar[p] = plan.sidecar[p]
                /\ file[p] = IF Halfway(p) THEN Part(p).file ELSE plan.file[p]

(* The programs are written in turn.                                       *)
WrittenInTurn ==
  /\ pc = "planned" => written = {}
  /\ pc \in {"file", "sidecar"} => \A p \in written : p < at \/ (p = at /\ pc = "sidecar")

Reported == pc = "idle" => NamesCleared /\ AppliedInPlace /\ BlockedUnwritten /\ Idempotent

RInv == NamesKnown /\ Untouched /\ WrittenInTurn /\ Reported

(* An entry of another pairing lies under a name that every managed        *)
(* document has, and no sidecar has one as the user's.                     *)
Carried(h, f) == \A k \in Settings : f.doc[k] \in OtherPairing => h = "keyed" /\ k \in Carriers

Recorded(h, s) ==
  /\ \A k \in Settings : s.before[k] \notin OtherPairing
  /\ h = "keyed" /\ s.present => \A k \in Carriers : s.before[k] = None /\ s.after[k] # None

PInv ==
  \A p \in Programs : /\ Carried(mode[p], file[p]) /\ Carried(mode[p], plan.file[p])
                       /\ Recorded(mode[p], sidecar[p]) /\ Recorded(mode[p], plan.sidecar[p])

(* The fields of a plan and of a document.                                 *)
LEMMA PlanFields ==
  ASSUME NEW f, NEW s, NEW d, NEW v
  PROVE  /\ Planned(f, s).verdict = "ok" /\ Planned(f, s).file = f /\ Planned(f, s).sidecar = s
         /\ Refused(v, f, s).verdict = v
         /\ Document(d).kind = "doc" /\ Document(d).doc = d
  BY Zenon DEF Planned, Refused, Document

(* A plan that is carried out is not a refusal.                            *)
LEMMA Accepted ==
  ASSUME NEW r, NEW f, NEW s, r.verdict = "ok"
  PROVE  r # Refused("failed", f, s) /\ r # Refused("conflict", f, s)
  BY PlanFields

(* plan_merge_with writes the managed values, whatever the user had, and   *)
(* a provider of a whole file nothing else.                                *)
LEMMA PlanPlaces ==
  ASSUME NEW h \in ManagedAs, NEW c, NEW f, NEW s, c.status = "configured",
         PlanProgram(h, c, f, s).verdict = "ok", NEW k \in Settings
  PROVE  LET g == PlanProgram(h, c, f, s).file
         IN  /\ g.kind = "doc"
             /\ c.doc[k] # None \/ h \in {"owned", "headed"} => g.doc[k] = c.doc[k]
<1> DEFINE r == PlanProgram(h, c, f, s)
<1>1. CASE h \in {"owned", "headed"}
  <2>1. r = PlanOwned(h, c.doc, f, s)
    BY <1>1, Zenon DEF PlanProgram
  <2>2. \/ r = Refused("failed", f, s) \/ r = Refused("conflict", f, s)
        \/ \E t : r = Planned(Document(c.doc), t)
    BY <2>1, Zenon DEF PlanOwned
  <2>3. PICK t : r = Planned(Document(c.doc), t)
    BY <2>2, Accepted, Zenon
  <2>4. r.file.kind = "doc" /\ r.file.doc = c.doc
    <3> HIDE DEF r
    <3> QED BY <2>3, PlanFields
  <2> QED BY <2>4, Zenon
<1>2. CASE h \in {"merge", "keyed"}
  <2> DEFINE after == MergeOverlay(Before(h, c.doc, f, s), c.doc)
  <2>1. r = PlanMerge(h, c.doc, f, s)
    BY <1>2, Zenon DEF PlanProgram
  <2>2. \/ r = Refused("failed", f, s) \/ r = Refused("conflict", f, s)
        \/ \E t : r = Planned(Document(after), t)
    BY <2>1, Zenon DEF PlanMerge
  <2>3. PICK t : r = Planned(Document(after), t)
    BY <2>2, Accepted, Zenon
  <2>4. c.doc[k] # None => after[k] = c.doc[k]
    BY Zenon DEF MergeOverlay
  <2>5. r.file.kind = "doc" /\ r.file.doc = after
    <3> HIDE DEF r, after
    <3> QED BY <2>3, PlanFields, SMTT(30)
  <2> QED BY <1>2, <2>4, <2>5, Zenon
<1> QED BY <1>1, <1>2, Zenon DEF ManagedAs

(* The same of a plan of the apply in progress.                            *)
LEMMA PartPlaces ==
  ASSUME NEW p \in Programs, mode[p] \in ManagedAs, plan.config[p].status = "configured",
         Part(p).verdict = "ok", NEW k \in Settings
  PROVE  /\ Part(p).file.kind = "doc"
         /\ plan.config[p].doc[k] # None \/ mode[p] \in {"owned", "headed"} =>
              Part(p).file.doc[k] = plan.config[p].doc[k]
  BY PlanPlaces DEF Part

(* A rollback leaves nothing of a daemon's under a reserved name.          *)
LEMMA RollbackClears ==
  ASSUME NEW f, NEW s, s.present, Paired("keyed", s), Covered("keyed", f, s),
         Carried("keyed", f), Recorded("keyed", s), NEW k \in Reserved
  PROVE  Rollback("keyed", f.doc, s)[k] \notin ManagedValues \cup OtherPairing
<1>1. k \in Settings
  BY Zenon
<1>2. Rollback("keyed", f.doc, s)[k] =
        IF s.before[k] = None /\ s.after[k] # None THEN None
        ELSE IF f.doc[k] = s.after[k] THEN s.before[k] ELSE f.doc[k]
  BY <1>1, Zenon DEF Rollback
<1>3. CASE s.after[k] # s.before[k]
  BY <1>2, <1>3, Zenon DEF Paired
<1>4. CASE s.after[k] = s.before[k]
  <2>1. Rollback("keyed", f.doc, s)[k] = f.doc[k]
    BY <1>2, <1>4, Zenon
  <2>2. f.doc[k] \notin ManagedValues
    BY <1>4, Zenon DEF Covered
  <2>3. f.doc[k] \notin OtherPairing
    BY <1>1, <1>4, Zenon DEF Carried, Recorded
  <2> QED BY <2>1, <2>2, <2>3, Zenon
<1> QED BY <1>3, <1>4, Zenon

(* What the plan of a keyed program leaves under the reserved names.       *)
LEMMA PlanNames ==
  ASSUME NEW c, NEW f \in Files, NEW s \in States, c \in Wants("keyed"),
         Paired("keyed", s), Covered("keyed", f, s), Carried("keyed", f), Recorded("keyed", s),
         PlanProgram("keyed", c, f, s).verdict = "ok"
  PROVE  LET r == PlanProgram("keyed", c, f, s)
         IN  /\ Paired("keyed", r.sidecar)
             /\ (c.status = "configured" /\ ~s.present =>
                   \A k \in Reserved : c.doc[k] = None => f.doc[k] \notin ManagedValues)
                  => Covered("keyed", r.file, r.sidecar)
             /\ c.status \notin {"configured", "failClosed"} /\ r.file.kind \notin {"invalid", "unreadable"} =>
                  \A k \in Reserved : r.file.doc[k] \notin Own(c)
             /\ c.status \notin {"configured", "failClosed"} =>
                  ~r.sidecar.present /\ (s.present => r.file.kind \notin {"invalid", "unreadable"})
<1> DEFINE r == PlanProgram("keyed", c, f, s)
<1>1. Paired("keyed", NoState) /\ ~NoState.present
  BY Zenon DEF Paired, NoState, Empty
<1>2. CASE c.status = "failClosed"
  <2>1. r = Planned(f, s)
    BY <1>2, Zenon DEF PlanProgram
  <2> QED BY <1>2, <2>1 DEF Planned
<1>3. CASE c.status = "configured"
  <2> DEFINE m == c.doc
             before == Before("keyed", m, f, s)
             after == MergeOverlay(before, m)
             made == [present |-> TRUE, created |-> f.kind = "absent" \/ s.created,
                      before |-> before, after |-> after]
  <2>1. r = PlanMerge("keyed", m, f, s)
    BY <1>3, Zenon DEF PlanProgram
  <2>2. \/ r = Refused("failed", f, s) \/ r = Refused("conflict", f, s)
        \/ r = Planned(Document(after), made)
    BY <2>1, Zenon DEF PlanMerge
  <2>3. r = Planned(Document(after), made)
    BY <2>2, Accepted, Zenon
  <2>4. r.file.doc = after /\ r.sidecar = made
    <3> HIDE DEF r, after, made
    <3> QED BY <2>3, PlanFields
  <2>5. \A k \in Reserved : after[k] = IF m[k] # None THEN m[k] ELSE before[k]
    BY Zenon DEF MergeOverlay
  <2>6. \A k \in Reserved : before[k] =
          IF m[k] # None THEN None ELSE IF s.present THEN Rollback("keyed", f.doc, s)[k] ELSE f.doc[k]
    BY Zenon DEF Before
  <2>7. Paired("keyed", made)
    BY <2>5, <2>6, Zenon DEF Paired
  <2>8. ASSUME ~s.present => \A k \in Reserved : m[k] = None => f.doc[k] \notin ManagedValues,
               NEW k \in Reserved, after[k] \in ManagedValues
        PROVE  after[k] # before[k]
    <3>1. CASE m[k] # None
      BY <2>5, <2>6, <3>1, Zenon
    <3>2. CASE m[k] = None
      <4>1. s.present => Rollback("keyed", f.doc, s)[k] \notin ManagedValues
        BY RollbackClears, Zenon
      <4>2. before[k] \notin ManagedValues
        BY <2>6, <2>8, <3>2, <4>1, Zenon
      <4> QED BY <2>8, <4>2, Zenon
    <3> QED BY <3>1, <3>2, Zenon
  <2>9. made.before = before /\ made.after = after
    BY Zenon
  <2> HIDE DEF made, before, after
  <2> QED BY <1>3, <2>4, <2>7, <2>8, <2>9, Zenon DEF Covered
<1>4. CASE c.status \notin {"configured", "failClosed"}
  <2> DEFINE rest == Rollback("keyed", f.doc, s)
             orphaned == {k \in Reserved : f.kind = "doc" /\ f.doc[k] \in Own(c)}
             left == [kind |-> f.kind, doc |-> Without(f.doc, orphaned)]
  <2>a. None \notin Own(c) /\ Own(c) \subseteq ManagedValues \cup OtherPairing
    BY Zenon DEF Own
  <2>1. r = PlanRemove("keyed", Own(c), f, s)
    BY <1>4, Zenon DEF PlanProgram
  <2>2. f.kind \in {"absent", "blank"} => \A k \in Reserved : f.doc[k] = None
    BY Zenon DEF Files, Empty
  <2>3. f.kind \in Kinds
    BY Zenon DEF Files
  <2>4. CASE ~s.present
    <3>1. r = Planned(left, s)
      BY <2>1, <2>4, Zenon DEF PlanRemove
    <3>2. r.file.kind = f.kind /\ r.file.doc = Without(f.doc, orphaned) /\ r.sidecar = s
      <4>1. left.kind = f.kind /\ left.doc = Without(f.doc, orphaned)
        BY Zenon
      <4> HIDE DEF r, left
      <4> QED BY <3>1, <4>1, PlanFields
    <3>3. ASSUME f.kind \notin {"invalid", "unreadable"}, NEW k \in Reserved
          PROVE  Without(f.doc, orphaned)[k] \notin Own(c)
      <4>1. Without(f.doc, orphaned)[k] = IF k \in orphaned THEN None ELSE f.doc[k]
        BY Zenon DEF Without
      <4> QED BY <2>a, <2>2, <2>3, <3>3, <4>1, Zenon DEF Kinds
    <3> QED BY <1>4, <2>4, <3>2, <3>3, Zenon DEF Covered
  <2>5. CASE s.present
    <3>1. \/ r = Refused("failed", f, s) \/ r = Refused("conflict", f, s)
          \/ f.kind \in {"absent", "blank"} /\ r = Planned(f, NoState)
          \/ r = Planned(Absent, NoState)
          \/ r = Planned(Document(rest), NoState)
      BY <2>1, <2>5, Zenon DEF PlanRemove
    <3>2. r # Refused("failed", f, s) /\ r # Refused("conflict", f, s)
      BY Accepted, Zenon
    <3>3. r.sidecar = NoState
      <4> HIDE DEF r, rest
      <4> QED BY <3>1, <3>2, PlanFields, SMTT(30)
    <3>4. \A k \in Reserved : Absent.doc[k] = None
      BY Zenon DEF Absent, Empty
    <3>5. \A k \in Reserved : rest[k] \notin Own(c)
      BY <2>a, <2>5, RollbackClears, Zenon
    <3>6. /\ \A k \in Reserved : r.file.doc[k] \notin Own(c)
          /\ r.file.kind \notin {"invalid", "unreadable"}
      BY <2>a, <2>2, <3>1, <3>2, <3>4, <3>5 DEF Planned, Document, Absent
    <3> QED BY <1>1, <1>4, <3>3, <3>6, Zenon DEF Covered
  <2> QED BY <2>4, <2>5, Zenon DEF States
<1> QED BY <1>2, <1>3, <1>4, Zenon

(* A removal of what is not managed changes nothing.                       *)
LEMMA RemoveAgain ==
  ASSUME NEW h, NEW own, NEW g \in Files, NEW s, ~s.present,
         h = "keyed" /\ g.kind = "doc" => \A k \in Reserved : g.doc[k] \notin own
  PROVE  PlanRemove(h, own, g, s) = Planned(g, s)
<1> DEFINE orphaned == {k \in Reserved : h = "keyed" /\ g.kind = "doc" /\ g.doc[k] \in own}
<1>1. orphaned = {}
  BY Zenon
<1>2. g.doc \in Docs /\ g = [kind |-> g.kind, doc |-> g.doc]
  BY Zenon DEF Files
<1>3. Without(g.doc, {}) = g.doc
  BY <1>2, Zenon DEF Without, Docs
<1>4. PlanRemove(h, own, g, s) = Planned([kind |-> g.kind, doc |-> Without(g.doc, orphaned)], s)
  BY Zenon DEF PlanRemove
<1> HIDE DEF orphaned
<1> QED BY <1>1, <1>2, <1>3, <1>4, Zenon

(* Planning again from what a plan made of the files changes nothing.      *)
LEMMA PlanAgain ==
  ASSUME NEW h, NEW c, NEW f, NEW s, Planning(h, c, f, s), WellFormed(h, s),
         Paired(h, s), Covered(h, f, s), Carried(h, f), Recorded(h, s),
         PlanProgram(h, c, f, s).verdict = "ok"
  PROVE  LET r == PlanProgram(h, c, f, s)
         IN  PlanProgram(h, c, r.file, r.sidecar) = Planned(r.file, r.sidecar)
<1> DEFINE r == PlanProgram(h, c, f, s)
           again == PlanProgram(h, c, r.file, r.sidecar)
<1>1. /\ h \in ManagedAs /\ c \in Wants(h) /\ f \in Files /\ s \in States
      /\ h = "headed" => s = NoState
  BY Zenon DEF Planning
<1>2. CASE c.status = "failClosed"
  BY <1>2, Zenon DEF PlanProgram
<1>3. CASE c.status = "configured" /\ h \in {"merge", "keyed"}
  <2> DEFINE m == c.doc
             before == Before(h, m, f, s)
             after == MergeOverlay(before, m)
             created == f.kind = "absent" \/ s.created
             made == [present |-> TRUE, created |-> created, before |-> before, after |-> after]
  <2>1. r = PlanMerge(h, m, f, s) /\ again = PlanMerge(h, m, r.file, r.sidecar)
    BY <1>3, Zenon DEF PlanProgram
  <2>2. \/ r = Refused("failed", f, s) \/ r = Refused("conflict", f, s)
        \/ r = Planned(Document(after), made)
    BY <2>1, Zenon DEF PlanMerge
  <2>3. r = Planned(Document(after), made)
    BY <2>2, Accepted, Zenon
  <2>4. r.file = Document(after) /\ r.sidecar = made
    <3> HIDE DEF r, after, made
    <3> QED BY <2>3, PlanFields
  <2>5. made.present /\ made.before = before /\ made.after = after /\ made.created = created
    BY Zenon
  <2>7. \A k \in Settings : h = "keyed" /\ k \in Reserved /\ m[k] # None => before[k] = None
    BY Zenon DEF Before
  <2>8. Rollback(h, after, made) = before
    <3>1. \A k \in Settings : Rollback(h, after, made)[k] = before[k]
      BY <2>5, Zenon DEF Rollback
    <3>2. Rollback(h, after, made) = [k \in Settings |-> Rollback(h, after, made)[k]]
      BY Zenon DEF Rollback
    <3>3. before = [k \in Settings |-> before[k]]
      BY Zenon DEF Before
    <3> HIDE DEF before, after, made
    <3> QED BY <3>1, <3>2, <3>3, Zenon
  <2>9. Before(h, m, Document(after), made) = before
    <3>1. Document(after).doc = after
      BY PlanFields, Zenon
    <3>2. Before(h, m, Document(after), made) =
            [k \in Settings |-> IF h = "keyed" /\ k \in Reserved /\ m[k] # None THEN None ELSE before[k]]
      <4> HIDE DEF before, after, made
      <4> QED BY <2>5, <2>8, <3>1, Zenon DEF Before
    <3>3. before = [k \in Settings |-> before[k]]
      BY Zenon DEF Before
    <3> HIDE DEF before, after, made
    <3> QED BY <2>7, <3>2, <3>3, Zenon
  <2>10. Document(after).kind = "doc"
    BY PlanFields, Zenon
  <2>11. again = Planned(Document(after), [present |-> TRUE, created |-> made.created,
                                           before |-> before, after |-> after])
    <3>1. again = PlanMerge(h, m, Document(after), made)
      BY <2>1, <2>4, Zenon
    <3>2. ~foreign_managed_entry(h, m, Document(after), made)
      BY <2>5, Zenon DEF foreign_managed_entry
    <3>3. (Document(after).kind = "absent" \/ made.created) = made.created
      BY <2>10, <2>5, <1>1, Zenon DEF States
    <3> HIDE DEF again, before, made
    <3> QED BY <2>9, <2>10, <3>1, <3>2, <3>3, Zenon DEF PlanMerge
  <2>12. again = Planned(r.file, r.sidecar)
    <3> HIDE DEF again, r, before, after, created
    <3> QED BY <2>4, <2>5, <2>11, Zenon
  <2> QED BY <2>12, Zenon
<1>4. CASE c.status = "configured" /\ h \in {"owned", "headed"}
  <2> DEFINE t == IF h = "owned" THEN Marker ELSE s
  <2>1. r = PlanOwned(h, c.doc, f, s) /\ again = PlanOwned(h, c.doc, r.file, r.sidecar)
    BY <1>4, Zenon DEF PlanProgram
  <2>2. \/ r = Refused("failed", f, s) \/ r = Refused("conflict", f, s)
        \/ r = Planned(Document(c.doc), t)
    BY <2>1, Zenon DEF PlanOwned
  <2>3. r = Planned(Document(c.doc), t)
    BY <2>2, Accepted, ZenonT(30)
  <2>4. r.file = Document(c.doc) /\ r.sidecar = t /\ Document(c.doc).kind = "doc"
    <3> HIDE DEF r, t
    <3> QED BY <2>3, PlanFields
  <2>5. again = Planned(Document(c.doc), IF h = "owned" THEN Marker ELSE t)
    <3>1. again = PlanOwned(h, c.doc, Document(c.doc), t)
      BY <2>1, <2>4, Zenon
    <3> HIDE DEF again, t
    <3> QED BY <2>4, <3>1, Zenon DEF PlanOwned
  <2> QED BY <2>4, <2>5, Zenon
<1>5. CASE c.status \notin {"configured", "failClosed"} /\ h \in {"owned", "headed"}
  <2>1. r = PlanRemoveOwned(h, f, s) /\ again = PlanRemoveOwned(h, r.file, r.sidecar)
    BY <1>5, Zenon DEF PlanProgram
  <2>2. \/ r = Refused("failed", f, s)
        \/ r = Planned(f, s)
        \/ r = Planned(Absent, NoState)
    BY <2>1, Zenon DEF PlanRemoveOwned, RemoveMarked, RemoveHeaded
  <2>3. r # Refused("failed", f, s)
    BY Accepted, Zenon
  <2>4. CASE r = Planned(f, s)
    <3>1. r.file = f /\ r.sidecar = s
      <4> HIDE DEF r
      <4> QED BY <2>4, PlanFields
    <3> QED BY <2>4, <3>1, Zenon
  <2>5. CASE r = Planned(Absent, NoState)
    <3>1. r.file = Absent /\ r.sidecar = NoState
      <4> HIDE DEF r
      <4> QED BY <2>5, PlanFields
    <3>2. ~IsOwned(h, Absent, NoState) /\ Absent.kind # "unreadable"
      BY Zenon DEF IsOwned, Absent, NoState, Empty
    <3>3. again = PlanRemoveOwned(h, Absent, NoState)
      BY <2>1, <3>1, Zenon
    <3>4. again = Planned(Absent, NoState)
      <4> HIDE DEF again
      <4> QED BY <3>2, <3>3, Zenon DEF PlanRemoveOwned, RemoveMarked, RemoveHeaded
    <3> QED BY <3>1, <3>4, Zenon
  <2> QED BY <2>2, <2>3, <2>4, <2>5, Zenon
<1>6. CASE c.status \notin {"configured", "failClosed"} /\ h \in {"merge", "keyed"}
  <2>1. r = PlanRemove(h, Own(c), f, s) /\ again = PlanRemove(h, Own(c), r.file, r.sidecar)
    BY <1>6, ZenonT(30) DEF PlanProgram
  <2>2. r.file \in Files /\ ~r.sidecar.present
    BY <1>1, <1>6, <2>1, DocTypes, RemoveKeeps DEF Clean
  <2>3. h = "keyed" /\ r.file.kind = "doc" => \A k \in Reserved : r.file.doc[k] \notin Own(c)
    BY <1>1, <1>6, PlanNames, ZenonT(30)
  <2> HIDE DEF r
  <2>4. PlanRemove(h, Own(c), r.file, r.sidecar) = Planned(r.file, r.sidecar)
    BY <2>2, <2>3, RemoveAgain
  <2> QED BY <2>1, <2>4, Zenon DEF r
<1> QED BY <1>1, <1>2, <1>3, <1>4, <1>5, <1>6, WantsTypes, Zenon DEF ManagedAs

(* A plan with such a file and sidecar, refused or not.                    *)
LEMMA FieldsCarry ==
  ASSUME NEW h, NEW f, NEW s, Carried(h, f), Recorded(h, s), NEW v
  PROVE  /\ Carried(h, Planned(f, s).file) /\ Recorded(h, Planned(f, s).sidecar)
         /\ Carried(h, Refused(v, f, s).file) /\ Recorded(h, Refused(v, f, s).sidecar)
  BY Zenon DEF Planned, Refused

(* A plan keeps both.                                                      *)
LEMMA PlanCarries ==
  ASSUME NEW h, NEW c, NEW f, NEW s, Planning(h, c, f, s), Carried(h, f), Recorded(h, s)
  PROVE  LET r == PlanProgram(h, c, f, s)
         IN  Carried(h, r.file) /\ Recorded(h, r.sidecar)
<1> DEFINE r == PlanProgram(h, c, f, s)
           rest == Rollback(h, f.doc, s)
<1>1. /\ h \in ManagedAs /\ c \in Wants(h) /\ f \in Files /\ s \in States
      /\ c.status = "configured" => c.doc \in ManagedDocs(h)
  BY WantsTypes, Zenon DEF Planning
<1>2. h # "keyed" => Recorded(h, Marker)
  BY Zenon DEF Recorded, NoState, Marker, Empty
<1>3. Recorded(h, NoState) /\ Carried(h, Absent)
  BY Zenon DEF Recorded, Carried, NoState, Absent, Empty
<1>4. \A k \in Settings : rest[k] \in OtherPairing => f.doc[k] \in OtherPairing
  BY Zenon DEF Rollback, Recorded
<1>5. Carried(h, Document(rest))
  BY <1>4, Zenon DEF Carried, Document
<1>6. CASE c.status = "failClosed"
  <2>1. r = Planned(f, s)
    BY <1>6, Zenon DEF PlanProgram
  <2> QED BY <2>1, FieldsCarry, Zenon
<1>7. CASE c.status = "configured" /\ h \in {"merge", "keyed"}
  <2> DEFINE m == c.doc
             before == Before(h, m, f, s)
             after == MergeOverlay(before, m)
             made == [present |-> TRUE, created |-> f.kind = "absent" \/ s.created,
                      before |-> before, after |-> after]
  <2>1. r = PlanMerge(h, m, f, s)
    BY <1>7, Zenon DEF PlanProgram
  <2>2. \/ r = Refused("failed", f, s) \/ r = Refused("conflict", f, s)
        \/ r = Planned(Document(after), made)
    BY <2>1, Zenon DEF PlanMerge
  <2>3. m \in ManagedDocs(h) /\ \A k \in Settings : m[k] = None \/ m[k] \in ManagedValues
    BY <1>1, <1>7, ManagedDocFacts, Zenon
  <2>4. h = "keyed" => \A k \in Carriers : k \in Reserved /\ k \in Settings /\ m[k] # None
    BY <2>3, Zenon DEF Carriers
  <2>5. \A k \in Settings : before[k] \in OtherPairing => f.doc[k] \in OtherPairing
    BY <1>4, Zenon DEF Before
  <2>6. h = "keyed" => \A k \in Carriers : before[k] = None /\ after[k] # None
    BY <2>4, Zenon DEF Before, MergeOverlay
  <2>7. \A k \in Settings : before[k] \notin OtherPairing
    BY <2>5, <2>6, Zenon DEF Carried
  <2>8. \A k \in Settings : after[k] \notin OtherPairing
    BY <2>3, <2>7, Zenon DEF MergeOverlay
  <2>9. Carried(h, Document(after)) /\ Recorded(h, made)
    <3> HIDE DEF before, after
    <3> QED BY <2>6, <2>7, <2>8, Zenon DEF Carried, Recorded, Document
  <2>d. Carried(h, r.file) /\ Recorded(h, r.sidecar)
    <3> HIDE DEF r, after, made
    <3> QED BY <2>2, <2>9, FieldsCarry, ZenonT(30)
  <2> QED BY <2>d, Zenon
<1>8. CASE c.status = "configured" /\ h \in {"owned", "headed"}
  <2>1. r = PlanOwned(h, c.doc, f, s)
    BY <1>8, Zenon DEF PlanProgram
  <2>2. \/ r = Refused("failed", f, s) \/ r = Refused("conflict", f, s)
        \/ r = Planned(Document(c.doc), IF h = "owned" THEN Marker ELSE s)
    BY <2>1, Zenon DEF PlanOwned
  <2>3. \A k \in Settings : c.doc[k] \notin OtherPairing
    BY <1>1, <1>8, ManagedDocFacts, Zenon
  <2>4. Carried(h, Document(c.doc)) /\ Recorded(h, Marker)
    BY <1>2, <1>8, <2>3, Zenon DEF Carried, Document
  <2>d. Carried(h, r.file) /\ Recorded(h, r.sidecar)
    <3> HIDE DEF r
    <3> QED BY <2>2, <2>4, FieldsCarry, ZenonT(30)
  <2> QED BY <2>d, Zenon
<1>9. CASE c.status \notin {"configured", "failClosed"} /\ h \in {"owned", "headed"}
  <2>1. r = PlanRemoveOwned(h, f, s)
    BY <1>9, Zenon DEF PlanProgram
  <2>2. r = Refused("failed", f, s) \/ r = Planned(f, s) \/ r = Planned(Absent, NoState)
    BY <2>1, Zenon DEF PlanRemoveOwned, RemoveMarked, RemoveHeaded
  <2>d. Carried(h, r.file) /\ Recorded(h, r.sidecar)
    <3> HIDE DEF r
    <3> QED BY <1>3, <2>2, FieldsCarry, ZenonT(30)
  <2> QED BY <2>d, Zenon
<1>10. CASE c.status \notin {"configured", "failClosed"} /\ h \in {"merge", "keyed"}
  <2> DEFINE orphaned == {k \in Reserved : h = "keyed" /\ f.kind = "doc" /\ f.doc[k] \in Own(c)}
             left == [kind |-> f.kind, doc |-> Without(f.doc, orphaned)]
  <2>1. r = PlanRemove(h, Own(c), f, s)
    BY <1>10, Zenon DEF PlanProgram
  <2>2. \/ r = Refused("failed", f, s) \/ r = Refused("conflict", f, s)
        \/ r = Planned(left, s) \/ r = Planned(f, NoState) \/ r = Planned(Absent, NoState)
        \/ r = Planned(Document(rest), NoState)
    BY <2>1, Zenon DEF PlanRemove
  <2>3. Carried(h, left)
    BY Zenon DEF Carried, Without
  <2>d. Carried(h, r.file) /\ Recorded(h, r.sidecar)
    <3> HIDE DEF r, left, rest
    <3> QED BY <1>3, <1>5, <2>2, <2>3, FieldsCarry, ZenonT(30)
  <2> QED BY <2>d, Zenon
<1> QED BY <1>1, <1>6, <1>7, <1>8, <1>9, <1>10, Zenon DEF ManagedAs

(* So what the apply writes has it, and what the user does changes no      *)
(* sidecar and adds such entries under those names only.                   *)
LEMMA PInvHolds == Spec => []PInv
<1>1. Init => PInv
  <2> SUFFICES ASSUME Init, NEW p \in Programs
               PROVE  /\ Carried(mode[p], file[p]) /\ Carried(mode[p], plan.file[p])
                      /\ Recorded(mode[p], sidecar[p]) /\ Recorded(mode[p], plan.sidecar[p])
    BY Zenon DEF PInv
  <2>1. file[p] = Absent /\ plan.file[p] = Absent /\ sidecar[p] = NoState /\ plan.sidecar[p] = NoState
    BY Zenon DEF Init, NoPlan
  <2>2. Carried(mode[p], Absent) /\ Recorded(mode[p], NoState)
    BY Zenon DEF Recorded, Carried, NoState, Absent, Empty
  <2> QED BY <2>1, <2>2, Zenon
<1>2. IInv /\ PInv /\ [Next]_vars => PInv'
  <2> SUFFICES ASSUME IInv, PInv, [Next]_vars PROVE PInv'
    BY Zenon
  <2>1. \A p \in Programs : Carried(mode[p], Part(p).file) /\ Recorded(mode[p], Part(p).sidecar)
    <3> SUFFICES ASSUME NEW p \in Programs
                 PROVE  Carried(mode[p], Part(p).file) /\ Recorded(mode[p], Part(p).sidecar)
      BY Zenon
    <3>1. mode[p] \in ManagedAs
      BY DEF IInv, TypeOK
    <3>2. Planning(mode[p], plan.config[p], plan.file[p], plan.sidecar[p])
      BY <3>1, Zenon DEF IInv, TypeOK, Planning
    <3> QED BY <3>2, PlanCarries, Zenon DEF Part, PInv
  <2>2. ASSUME mode' = mode,
               \A p \in Programs : file'[p] = file[p] \/ Carried(mode[p], file'[p]),
               \A p \in Programs : \/ sidecar'[p] = sidecar[p] \/ sidecar'[p] = NoState
                                   \/ Recorded(mode[p], sidecar'[p]),
               \/ plan' = plan \/ plan' = NoPlan
               \/ plan'.file = file /\ plan'.sidecar = sidecar
        PROVE  PInv'
    <3>1. \A h : Carried(h, Absent) /\ Recorded(h, NoState)
      BY Zenon DEF Recorded, Carried, NoState, Absent, Empty
    <3>2. \A p \in Programs : NoPlan.file[p] = Absent /\ NoPlan.sidecar[p] = NoState
      BY Zenon DEF NoPlan
    <3> SUFFICES ASSUME NEW p \in Programs
                 PROVE  /\ Carried(mode[p], file'[p]) /\ Carried(mode[p], plan'.file[p])
                        /\ Recorded(mode[p], sidecar'[p]) /\ Recorded(mode[p], plan'.sidecar[p])
      BY <2>2, Zenon DEF PInv
    <3>3. /\ Carried(mode[p], file[p]) /\ Carried(mode[p], plan.file[p])
          /\ Recorded(mode[p], sidecar[p]) /\ Recorded(mode[p], plan.sidecar[p])
      BY Zenon DEF PInv
    <3>4. Carried(mode[p], file'[p])
      BY <2>2, <3>3, Zenon
    <3>5. Recorded(mode[p], sidecar'[p])
      <4>1. sidecar'[p] = sidecar[p] \/ sidecar'[p] = NoState \/ Recorded(mode[p], sidecar'[p])
        BY <2>2, Zenon
      <4> QED BY <3>1, <3>3, <4>1
    <3>6. Carried(mode[p], plan'.file[p]) /\ Recorded(mode[p], plan'.sidecar[p])
      <4>1. \/ plan'.file[p] = plan.file[p] /\ plan'.sidecar[p] = plan.sidecar[p]
            \/ plan'.file[p] = Absent /\ plan'.sidecar[p] = NoState
            \/ plan'.file[p] = file[p] /\ plan'.sidecar[p] = sidecar[p]
        BY <2>2, <3>2
      <4> QED BY <3>1, <3>3, <4>1, SMTT(30)
    <3> QED BY <3>4, <3>5, <3>6, Zenon
  <2>3. file \in [Programs -> Files] /\ sidecar \in [Programs -> States] /\ at \in Programs
    BY Zenon DEF IInv, TypeOK
  <2>4. CASE UNCHANGED vars
    BY <2>2, <2>4, Zenon DEF vars
  <2>5. CASE PlanAll \/ Validate
    <3>1. mode' = mode /\ file' = file /\ sidecar' = sidecar
      BY <2>5, Zenon DEF PlanAll, Validate
    <3>2. CASE PlanAll
      <4>1. plan'.file = file /\ plan'.sidecar = sidecar
        BY <3>2, Zenon DEF PlanAll
      <4> QED BY <2>2, <3>1, <4>1, Zenon
    <3>3. CASE Validate
      <4>1. plan' = plan
        BY <3>3, Zenon DEF Validate
      <4> QED BY <2>2, <3>1, <4>1, Zenon
    <3> QED BY <2>5, <3>2, <3>3, Zenon
  <2>6. CASE Refuse \/ (\E p \in Programs : RefuseStale(p) \/ DirFails(p)) \/ WriteFails \/ Crash
    <3>1. mode' = mode /\ file' = file /\ sidecar' = sidecar /\ plan' = NoPlan
      BY <2>6, Zenon DEF Refuse, RefuseStale, DirFails, WriteFails, Crash, Report
    <3> QED BY <2>2, <3>1, Zenon
  <2>7. CASE WriteFile
    <3>1. mode' = mode /\ sidecar' = sidecar /\ plan' = plan
      BY <2>7, Zenon DEF WriteFile
    <3>2. file' = [file EXCEPT ![at] = Part(at).file] \/ file' = file
      BY <2>7, Zenon DEF WriteFile
    <3>3. \A p \in Programs : file'[p] = file[p] \/ Carried(mode[p], file'[p])
      BY <2>1, <2>3, <3>2, Zenon
    <3> QED BY <2>2, <3>1, <3>3, Zenon
  <2>8. CASE WriteSidecar
    <3>1. mode' = mode /\ file' = file /\ (plan' = plan \/ plan' = NoPlan)
      BY <2>8, Zenon DEF WriteSidecar, Report
    <3>2. sidecar' = [sidecar EXCEPT ![at] = Part(at).sidecar] \/ sidecar' = sidecar
      BY <2>8, Zenon DEF WriteSidecar
    <3>3. \A p \in Programs : sidecar'[p] = sidecar[p] \/ Recorded(mode[p], sidecar'[p])
      BY <2>1, <2>3, <3>2, Zenon
    <3> QED BY <2>2, <3>1, <3>3, Zenon
  <2>9. ASSUME NEW p \in Programs, NEW f, Edit(p, f),
               \A k \in Settings : f.doc[k] = file[p].doc[k] \/ f.doc[k] \notin OtherPairing
                                    \/ (mode[p] = "keyed" /\ k \in Carriers)
        PROVE  PInv'
    <3>1. /\ mode' = mode /\ sidecar' = sidecar /\ plan' = plan
          /\ file' = [file EXCEPT ![p] = f]
      BY <2>9, Zenon DEF Edit, Touch
    <3>2. Carried(mode[p], f)
      BY <2>9, Zenon DEF PInv, Carried
    <3>3. \A q \in Programs : file'[q] = file[q] \/ Carried(mode[q], file'[q])
      BY <2>3, <3>1, <3>2, Zenon
    <3> QED BY <2>2, <3>1, <3>3, Zenon
  <2>10. CASE UserStep
    <3> PICK p \in Programs :
          \/ \E k \in Settings, v \in UserValues \cup {None} : SetValue(p, k, v)
          \/ \E k \in Carriers, v \in OtherPairing : LeaveEntry(p, k, v)
          \/ \E kind \in {"absent", "blank"} : EmptyFile(p, kind)
          \/ \E kind \in {"doc", "invalid", "unreadable"} : SpoilFile(p, kind)
          \/ DeleteSidecar(p)
          \/ \E c \in Wants(mode[p]) : Configure(p, c)
      BY <2>10, Zenon DEF UserStep
    <3>1. file[p].doc \in Docs /\ file[p] = [kind |-> file[p].kind, doc |-> file[p].doc]
      BY <2>3, Zenon DEF Files
    <3>2. ASSUME NEW k \in Settings, NEW v, SetValue(p, k, v),
                 v \notin OtherPairing \/ (mode[p] = "keyed" /\ k \in Carriers)
          PROVE  PInv'
      <4> DEFINE d == [file[p].doc EXCEPT ![k] = v]
      <4>1. \A j \in Settings : d[j] = IF j = k THEN v ELSE file[p].doc[j]
        BY <3>1, Zenon DEF Docs
      <4>2. Edit(p, Document(d)) /\ Document(d).doc = d
        BY <3>2, Zenon DEF SetValue, Document
      <4> HIDE DEF d
      <4>3. \A j \in Settings :
              Document(d).doc[j] = file[p].doc[j] \/ Document(d).doc[j] \notin OtherPairing
                \/ (mode[p] = "keyed" /\ j \in Carriers)
        BY <3>2, <4>1, <4>2, Zenon
      <4> QED BY <2>9, <4>2, <4>3, Zenon
    <3>3. CASE \E k \in Settings, v \in UserValues \cup {None} : SetValue(p, k, v)
      BY <3>2, <3>3, Zenon
    <3>4. CASE \E k \in Carriers, v \in OtherPairing : LeaveEntry(p, k, v)
      BY <3>2, <3>4, Zenon DEF LeaveEntry, Carriers
    <3>5. ASSUME NEW kind \in {"absent", "blank"}, EmptyFile(p, kind) PROVE PInv'
      <4> DEFINE f == [kind |-> kind, doc |-> Empty]
      <4>1. Edit(p, f) /\ \A k \in Settings : f.doc[k] \notin OtherPairing
        BY <3>5, Zenon DEF EmptyFile, Empty
      <4> HIDE DEF f
      <4> QED BY <2>9, <4>1, Zenon
    <3>6. ASSUME NEW kind \in {"doc", "invalid", "unreadable"}, SpoilFile(p, kind) PROVE PInv'
      <4> DEFINE f == [file[p] EXCEPT !.kind = kind]
      <4>1. Edit(p, f) /\ f.doc = file[p].doc
        BY <3>1, <3>6, Zenon DEF SpoilFile
      <4> HIDE DEF f
      <4> QED BY <2>9, <4>1, Zenon
    <3>7. CASE DeleteSidecar(p)
      <4>1. mode' = mode /\ file' = file /\ plan' = plan /\ sidecar' = [sidecar EXCEPT ![p] = NoState]
        BY <3>7, Zenon DEF DeleteSidecar, Touch
      <4>2. \A q \in Programs : sidecar'[q] = sidecar[q] \/ sidecar'[q] = NoState
        BY <2>3, <4>1, Zenon
      <4> QED BY <2>2, <4>1, <4>2, Zenon
    <3>8. CASE \E c \in Wants(mode[p]) : Configure(p, c)
      <4>1. mode' = mode /\ file' = file /\ plan' = plan /\ sidecar' = sidecar
        BY <3>8, Zenon DEF Configure
      <4> QED BY <2>2, <4>1, Zenon
    <3> QED BY <3>3, <3>4, <3>5, <3>6, <3>7, <3>8, Zenon
  <2> QED BY <2>4, <2>5, <2>6, <2>7, <2>8, <2>10, Zenon DEF Next, ApplyStep
<1> QED BY <1>1, <1>2, IInvHolds, PTL DEF Spec

(* A plan of the apply in progress, by the facts above.                    *)
LEMMA PartNames ==
  ASSUME IInv, PInv, NamesKnown, NEW p \in Programs \ torn, Part(p).verdict = "ok"
  PROVE  /\ Paired(mode[p], Part(p).sidecar)
         /\ ~Adopts(p) => Covered(mode[p], Part(p).file, Part(p).sidecar)
         /\ mode[p] = "keyed" /\ plan.config[p].status \notin {"configured", "failClosed"} =>
              /\ ~Part(p).sidecar.present
              /\ Part(p).file.kind \notin {"invalid", "unreadable"} \/ plan.sidecar[p].present =>
                   \A k \in Reserved : Part(p).file.doc[k] \notin ManagedValues
         /\ PlanProgram(mode[p], plan.config[p], Part(p).file, Part(p).sidecar)
              = Planned(Part(p).file, Part(p).sidecar)
<1>1. mode[p] \in ManagedAs
  BY DEF IInv, TypeOK
<1>2. Planning(mode[p], plan.config[p], plan.file[p], plan.sidecar[p])
  BY <1>1, Zenon DEF IInv, TypeOK, Planning
<1>3. WellFormed(mode[p], plan.sidecar[p])
  BY Zenon DEF IInv, SidecarsWellFormed
<1>4. Paired(mode[p], plan.sidecar[p]) /\ Covered(mode[p], plan.file[p], plan.sidecar[p])
  BY ZenonT(30) DEF NamesKnown
<1>a. Carried(mode[p], plan.file[p]) /\ Recorded(mode[p], plan.sidecar[p])
  BY ZenonT(30) DEF PInv
<1>5. PlanProgram(mode[p], plan.config[p], Part(p).file, Part(p).sidecar)
        = Planned(Part(p).file, Part(p).sidecar)
  BY <1>a, <1>2, <1>3, <1>4, PlanAgain DEF Part
<1>6. CASE mode[p] # "keyed"
  BY <1>5, <1>6, Zenon DEF Paired, Covered
<1>7. CASE mode[p] = "keyed"
  <2>1. /\ plan.config[p] \in Wants("keyed") /\ plan.file[p] \in Files /\ plan.sidecar[p] \in States
        /\ Paired("keyed", plan.sidecar[p]) /\ Covered("keyed", plan.file[p], plan.sidecar[p])
        /\ Carried("keyed", plan.file[p]) /\ Recorded("keyed", plan.sidecar[p])
        /\ Part(p) = PlanProgram("keyed", plan.config[p], plan.file[p], plan.sidecar[p])
    BY <1>a, <1>2, <1>4, <1>7, ZenonT(30) DEF Planning, Part
  <2>2. /\ Paired("keyed", Part(p).sidecar)
        /\ (plan.config[p].status = "configured" /\ ~plan.sidecar[p].present =>
              \A k \in Reserved : plan.config[p].doc[k] = None =>
                                    plan.file[p].doc[k] \notin ManagedValues)
             => Covered("keyed", Part(p).file, Part(p).sidecar)
        /\ plan.config[p].status \notin {"configured", "failClosed"}
             /\ Part(p).file.kind \notin {"invalid", "unreadable"} =>
             \A k \in Reserved : Part(p).file.doc[k] \notin Own(plan.config[p])
        /\ plan.config[p].status \notin {"configured", "failClosed"} =>
             /\ ~Part(p).sidecar.present
             /\ plan.sidecar[p].present => Part(p).file.kind \notin {"invalid", "unreadable"}
    BY <2>1, PlanNames, Zenon
  <2>3. ManagedValues \subseteq Own(plan.config[p])
    BY Zenon DEF Own
  <2> QED BY <1>5, <1>7, <2>2, <2>3, Zenon DEF Adopts
<1> QED BY <1>6, <1>7, Zenon

(* Where an apply may stop without recording a program as torn, its        *)
(* sidecar still tells which of the names are managed.                     *)
LEMMA StopCovers ==
  ASSUME IInv, PInv, NamesKnown, NEW p \in Programs \ (torn \cup Tearing)
  PROVE  Covered(mode[p], file[p], sidecar[p])
<1>1. CASE ~Halfway(p)
  BY <1>1, Zenon DEF NamesKnown
<1>2. CASE Halfway(p) /\ mode[p] # "keyed"
  BY <1>2, Zenon DEF Covered
<1>3. CASE Halfway(p) /\ mode[p] = "keyed"
  <2>1. pc = "sidecar" /\ p = at /\ FileOp(p) /\ pc # "idle"
    BY <1>3, Zenon DEF Halfway
  <2>2. p >= at
    BY <2>1 DEF Programs
  <2>3. sidecar[p] \in {plan.sidecar[p], NoState} /\ NoMoreThan(file[p], Part(p).file)
    BY <2>1, <2>2, Zenon DEF NamesKnown
  <2>4. ~Part(p).sidecar.present \/ ~plan.sidecar[p].present
    BY <1>3, <2>1, Zenon DEF Tearing
  <2>5. ~NoState.present
    BY Zenon DEF NoState
  <2>6. CASE ~plan.sidecar[p].present
    BY <2>3, <2>5, <2>6, Zenon DEF Covered
  <2>7. CASE plan.sidecar[p].present
    <3>1. Part(p).verdict = "ok"
      BY <2>1, Zenon DEF IInv, AsPlanned
    <3>2. plan.config[p].status # "configured"
      <4>1. ASSUME plan.config[p].status = "configured" PROVE Part(p).sidecar.present
        <5> DEFINE r == PlanMerge("keyed", plan.config[p].doc, plan.file[p], plan.sidecar[p])
        <5>1. Part(p) = r
          BY <1>3, <4>1, Zenon DEF Part, PlanProgram
        <5>2. r.verdict = "ok" => r.sidecar.present
          BY Zenon DEF PlanMerge, Planned, Refused
        <5> QED BY <3>1, <5>1, <5>2, Zenon
      <4> QED BY <2>4, <2>7, <4>1, Zenon
    <3>3. plan.config[p].status # "failClosed"
      BY <2>1, PartFacts, Zenon DEF IInv, FileOp, Changes
    <3>4. \A k \in Reserved : Part(p).file.doc[k] \notin ManagedValues
      BY <1>3, <2>7, <3>1, <3>2, <3>3, PartNames, Zenon
    <3> QED BY <2>3, <3>4, Zenon DEF NoMoreThan, Covered
  <2> QED BY <2>6, <2>7, Zenon
<1> QED BY <1>1, <1>2, <1>3, Zenon

(* ProgramEntry::settled: what each outcome of an apply goes back to.      *)
LEMMA SettledFacts ==
  ASSUME TypeOK, SidecarsWellFormed, NEW F, NEW C, NEW R, Report(F, C, R), NEW p \in Programs
  PROVE  /\ report'[p] \in {"applied", "unchanged"} =>
              /\ p \notin F \cup C /\ plan.config[p].status = "configured"
              /\ ~Changes(p) \/ p \in R
         /\ report'[p] = "blocked" => p \notin F \cup C /\ Changes(p) /\ p \notin R
         /\ report'[p] = "conflict" => p \in C
         /\ result' = "ok" => F \cup C = {}
<1>1. report'[p] = IF p \in F THEN "failed" ELSE IF p \in C THEN "conflict" ELSE Settled(p, p \in R)
  BY Zenon DEF Report
<1>2. result' = IF F \cup C = {} THEN "ok" ELSE "error"
  BY Zenon DEF Report
<1>3. plan.config[p].status \in Statuses
  BY PartFacts, Zenon
<1>4. /\ Settled(p, p \in R) \in {"applied", "unchanged"} =>
           plan.config[p].status = "configured" /\ (~Changes(p) \/ p \in R)
      /\ Settled(p, p \in R) = "blocked" => Changes(p) /\ p \notin R
      /\ Settled(p, p \in R) \notin {"conflict", "failed"}
  <2>1. CASE Changes(p) /\ p \notin R
    <3>1. Settled(p, p \in R) = "blocked"
      BY <2>1, Zenon DEF Settled
    <3> QED BY <2>1, <3>1, Zenon
  <2>2. CASE ~(Changes(p) /\ p \notin R)
    <3>1. /\ plan.config[p].status \in {"failClosed", "failOpen"} => Settled(p, p \in R) = "inactive"
          /\ plan.config[p].status = "optedOut" => Settled(p, p \in R) = "optedOut"
          /\ plan.config[p].status = "configured" => Settled(p, p \in R) \in {"applied", "unchanged"}
          /\ plan.config[p].status = "absent" => Settled(p, p \in R) \in {"removed", "unlisted"}
      BY <2>2, Zenon DEF Settled
    <3> QED BY <1>3, <2>2, <3>1, Zenon DEF Statuses
  <2> QED BY <2>1, <2>2, Zenon
<1> QED BY <1>1, <1>2, <1>4, Zenon

(* An apply that ends reports what is on disk: what it reached and what    *)
(* had no changes is as planned, and what it reports blocked is unwritten. *)
LEMMA ReportedHolds ==
  ASSUME IInv, PInv, RInv, pc # "idle", NEW F, NEW C, NEW R, Report(F, C, R), torn \subseteq torn',
         \A p \in Programs \ touched :
           p \notin F \cup C /\ (~Changes(p) \/ p \in R) =>
             Part(p).verdict = "ok" /\ file'[p] = Part(p).file /\ sidecar'[p] = Part(p).sidecar,
         \A p \in Programs : Changes(p) /\ p \notin F \cup C /\ p \notin R => p \notin written',
         C # {} => written' = {},
         F \cup C = {} => Programs \subseteq R
  PROVE  Reported'
<1>1. TypeOK /\ SidecarsWellFormed /\ NamesKnown
  BY Zenon DEF IInv, RInv
<1>2. pc' = "idle" /\ mode' = mode /\ config' = config /\ touched' = touched
  BY Zenon DEF Report
<1>3. \A p \in Programs \ touched : config[p] = plan.config[p]
  BY ZenonT(30) DEF RInv, Untouched
<1>a. \A p \in Programs : Unmanaged(p)' =>
        /\ p \notin F \cup C
        /\ plan.config[p].status \in {"absent", "optedOut"}
        /\ ~Changes(p) \/ p \in R
  BY <1>1, ReportFacts, SMTT(30)
<1>b. \A p \in Programs :
        /\ report'[p] \in {"applied", "unchanged"} =>
             /\ p \notin F \cup C /\ plan.config[p].status = "configured"
             /\ ~Changes(p) \/ p \in R
        /\ report'[p] = "blocked" => p \notin F \cup C /\ Changes(p) /\ p \notin R
        /\ report'[p] = "conflict" => p \in C
  BY <1>1, SettledFacts, SMTT(30)
<1>4. NamesCleared'
  <2> SUFFICES ASSUME NEW p \in Programs \ (torn' \cup touched), NEW k \in Settings,
                      Unmanaged(p)', Named(mode[p], k), file'[p].kind \notin {"invalid", "unreadable"}
               PROVE  file'[p].doc[k] \notin ManagedValues
    BY <1>2, ZenonT(30) DEF NamesCleared
  <2>1. /\ p \notin F \cup C /\ plan.config[p].status \in {"absent", "optedOut"}
        /\ ~Changes(p) \/ p \in R
    BY <1>a, ZenonT(30)
  <2>2. Part(p).verdict = "ok" /\ file'[p] = Part(p).file
    BY <2>1, Zenon
  <2>3. p \in Programs \ torn /\ mode[p] = "keyed" /\ k \in Reserved
    BY Zenon DEF Named
  <2>4. \A j \in Reserved : Part(p).file.doc[j] \notin ManagedValues
    BY <1>1, <2>1, <2>2, <2>3, PartNames, ZenonT(30)
  <2> QED BY <2>2, <2>3, <2>4, Zenon
<1>5. AppliedInPlace'
  <2> SUFFICES ASSUME NEW p \in Programs \ touched, NEW k \in Settings,
                      report'[p] \in {"applied", "unchanged"}
               PROVE  /\ file'[p].kind = "doc"
                      /\ config[p].doc[k] # None \/ mode[p] \in {"owned", "headed"} =>
                           file'[p].doc[k] = config[p].doc[k]
    BY <1>2, ZenonT(30) DEF AppliedInPlace
  <2>1. /\ p \notin F \cup C /\ plan.config[p].status = "configured"
        /\ ~Changes(p) \/ p \in R
    BY <1>b, ZenonT(30)
  <2>2. Part(p).verdict = "ok" /\ file'[p] = Part(p).file
    BY <2>1, ZenonT(30)
  <2>3. mode[p] \in ManagedAs /\ config[p] = plan.config[p]
    BY <1>3 DEF IInv, TypeOK
  <2>4. /\ Part(p).file.kind = "doc"
        /\ plan.config[p].doc[k] # None \/ mode[p] \in {"owned", "headed"} =>
             Part(p).file.doc[k] = plan.config[p].doc[k]
    BY <2>1, <2>2, <2>3, PartPlaces, Zenon
  <2> QED BY <2>2, <2>3, <2>4, Zenon
<1>6. BlockedUnwritten'
  <2>1. ASSUME NEW p \in Programs
        PROVE  /\ report'[p] = "blocked" => p \notin written'
               /\ report'[p] = "conflict" => written' = {}
    <3>1. /\ report'[p] = "blocked" => p \notin F \cup C /\ Changes(p) /\ p \notin R
          /\ report'[p] = "conflict" => p \in C
      BY <1>b, ZenonT(30)
    <3> QED BY <3>1, ZenonT(30)
  <2> QED BY <2>1, Zenon DEF BlockedUnwritten
<1>7. Idempotent'
  <2> SUFFICES ASSUME result' = "ok", NEW p \in Programs \ (touched \cup torn')
               PROVE  PlanProgram(mode[p], config[p], file'[p], sidecar'[p])
                        = Planned(file'[p], sidecar'[p])
    BY <1>2, ZenonT(30) DEF Idempotent
  <2>1. F \cup C = {} /\ p \in R
    BY <1>1, SettledFacts, SMTT(30)
  <2>2. Part(p).verdict = "ok" /\ file'[p] = Part(p).file /\ sidecar'[p] = Part(p).sidecar
    BY <2>1, Zenon
  <2>3. PlanProgram(mode[p], plan.config[p], Part(p).file, Part(p).sidecar)
          = Planned(Part(p).file, Part(p).sidecar)
    BY <1>1, <2>2, PartNames, Zenon
  <2> QED BY <1>3, <2>2, <2>3, Zenon
<1> QED BY <1>4, <1>5, <1>6, <1>7, Zenon DEF Reported

(* Without a plan and a sidecar nothing is managed.                        *)
LEMMA NoPlanNames ==
  /\ \A h : Paired(h, NoState)
  /\ \A h, f : Covered(h, f, NoState)
  /\ \A p \in Programs : NoPlan.sidecar[p] = NoState
<1>1. ~NoState.present /\ NoState.after = NoState.before
  BY Zenon DEF NoState
<1>2. \A p \in Programs : NoPlan.sidecar[p] = NoState
  BY NoPlanFacts, Zenon
<1> QED BY <1>1, <1>2, Zenon DEF Paired, Covered

(* Nothing is reported before the first apply.                             *)
LEMMA InitReported == Init => RInv
<1> SUFFICES ASSUME Init PROVE RInv
  BY Zenon
<1>1. /\ \A p \in Programs : sidecar[p] = NoState /\ report[p] = "none"
      /\ plan = NoPlan /\ pc = "idle" /\ result = "none"
  BY Zenon DEF Init
<1>2. NamesKnown
  <2>1. ASSUME NEW p \in Programs
        PROVE  /\ Paired(mode[p], sidecar[p]) /\ Paired(mode[p], plan.sidecar[p])
               /\ Covered(mode[p], plan.file[p], plan.sidecar[p])
               /\ Covered(mode[p], file[p], sidecar[p])
    <3>1. sidecar[p] = NoState /\ plan.sidecar[p] = NoState
      BY <1>1, NoPlanNames, Zenon
    <3> QED BY <3>1, NoPlanNames
  <2> QED BY <1>1, <2>1, Zenon DEF NamesKnown
<1>3. Untouched /\ WrittenInTurn
  BY <1>1, Zenon DEF Untouched, WrittenInTurn
<1>4. Reported
  BY <1>1, Zenon DEF Reported, NamesCleared, Unmanaged, AppliedInPlace, BlockedUnwritten, Idempotent
<1> QED BY <1>2, <1>3, <1>4, Zenon DEF RInv

(* The apply ends with the files as they are.                              *)
LEMMA EndNames ==
  ASSUME IInv, PInv, RInv, UNCHANGED <<mode, disk>>, pc' = "idle", plan' = NoPlan,
         torn' = torn \cup Tearing
  PROVE  NamesKnown' /\ Untouched' /\ WrittenInTurn'
<1>1. \A p \in Programs \ torn' : Covered(mode[p], file[p], sidecar[p])
  BY StopCovers, Zenon DEF RInv
<1>2. \A p \in Programs \ torn' : Paired(mode[p], sidecar[p])
  BY Zenon DEF RInv, NamesKnown
<1>3. \A p \in Programs : plan'.sidecar[p] = NoState
  BY NoPlanNames, Zenon
<1>4. \A p \in Programs : /\ Paired(mode[p], plan'.sidecar[p])
                          /\ Covered(mode[p], plan'.file[p], plan'.sidecar[p])
  BY <1>3, NoPlanNames
<1>5. mode' = mode /\ file' = file /\ sidecar' = sidecar /\ pc' = "idle"
  BY Zenon
<1>6. NamesKnown'
  BY <1>1, <1>2, <1>4, <1>5, Zenon DEF NamesKnown
<1> QED BY <1>6, Zenon DEF Untouched, WrittenInTurn

(* A refused, failed or interrupted apply reports a failure, or nothing,   *)
(* and leaves what earlier reports said true of the programs it did not    *)
(* write.                                                                  *)
LEMMA EndStepsReport ==
  ASSUME IInv, PInv, RInv, Refuse \/ (\E p \in Programs : RefuseStale(p) \/ DirFails(p)) \/ WriteFails \/ Crash
  PROVE  RInv'
<1>1. TypeOK /\ SidecarsWellFormed
  BY Zenon DEF IInv
<1>2. pc = "planned" => Tearing = {}
  BY Zenon DEF Tearing
<1>3. ASSUME NEW p \in Programs \ touched, pc = "planned", ~Changes(p)
      PROVE  file[p] = Part(p).file /\ sidecar[p] = Part(p).sidecar
  BY <1>3, Zenon DEF RInv, Untouched, Halfway, Changes
<1>4. CASE Refuse
  <2> DEFINE F == {p \in Programs : Part(p).verdict = "failed"}
             C == {p \in Programs : Part(p).verdict = "conflict"}
  <2>1. /\ pc = "planned" /\ Report(F, C, {}) /\ UNCHANGED <<disk, torn, written>>
        /\ F \cup C # {}
    BY <1>4, Zenon DEF Refuse
  <2>2. \A p \in Programs : p \notin F \cup C => Part(p).verdict = "ok"
    BY <1>1, PartFacts, Zenon
  <2>3. written' = {}
    BY <2>1, Zenon DEF RInv, WrittenInTurn
  <2>4. NamesKnown' /\ Untouched' /\ WrittenInTurn'
    BY <1>2, <2>1, EndNames, Zenon DEF Report
  <2> HIDE DEF F, C
  <2>5. \A p \in Programs \ touched :
          p \notin F \cup C /\ (~Changes(p) \/ p \in {}) =>
            Part(p).verdict = "ok" /\ file'[p] = Part(p).file /\ sidecar'[p] = Part(p).sidecar
    BY <1>3, <2>1, <2>2, Zenon
  <2>6. Reported'
    BY <2>1, <2>3, <2>5, ReportedHolds, Zenon
  <2> QED BY <2>4, <2>6, Zenon DEF RInv
<1>5. CASE \E p \in Programs : RefuseStale(p) \/ DirFails(p)
  <2> PICK q \in Programs : RefuseStale(q) \/ DirFails(q)
    BY <1>5, Zenon
  <2>1. pc = "planned" /\ Report({q}, {}, {}) /\ UNCHANGED <<disk, torn, written>>
    BY Zenon DEF RefuseStale, DirFails
  <2>2. \A p \in Programs : Part(p).verdict = "ok"
    BY Zenon DEF RefuseStale, DirFails
  <2>3. written' = {}
    BY <2>1, Zenon DEF RInv, WrittenInTurn
  <2>4. NamesKnown' /\ Untouched' /\ WrittenInTurn'
    BY <1>2, <2>1, EndNames, Zenon DEF Report
  <2>5. \A p \in Programs \ touched :
          p \notin {q} \cup {} /\ (~Changes(p) \/ p \in {}) =>
            Part(p).verdict = "ok" /\ file'[p] = Part(p).file /\ sidecar'[p] = Part(p).sidecar
    BY <1>3, <2>1, <2>2, Zenon
  <2>6. Reported'
    BY <2>1, <2>3, <2>5, ReportedHolds, ZenonT(30)
  <2> QED BY <2>4, <2>6, Zenon DEF RInv
<1>6. CASE WriteFails
  <2> DEFINE R == 1 .. at - 1
  <2>1. /\ pc \in {"file", "sidecar"} /\ Report({at}, {}, R)
        /\ UNCHANGED <<disk, written>> /\ torn' = torn \cup Tearing
    BY <1>6, Zenon DEF WriteFails
  <2>2. /\ at \in Programs
        /\ \A p \in Programs : p \in R <=> p < at
        /\ \A p \in Programs : p # at /\ p \notin R => ~(p < at)
    BY <1>1 DEF TypeOK, Programs
  <2> HIDE DEF R
  <2>3. \A p \in Programs : Part(p).verdict = "ok"
    BY <2>1, Zenon DEF IInv, AsPlanned
  <2>4. NamesKnown' /\ Untouched' /\ WrittenInTurn'
    BY <2>1, EndNames, Zenon DEF Report
  <2>5. ASSUME NEW p \in Programs \ touched, p # at, ~Changes(p) \/ p \in R
        PROVE  file[p] = Part(p).file /\ sidecar[p] = Part(p).sidecar
    BY <2>1, <2>2, <2>5, Zenon DEF RInv, Untouched, Halfway, Changes
  <2>6. \A p \in Programs \ touched :
          p \notin {at} \cup {} /\ (~Changes(p) \/ p \in R) =>
            Part(p).verdict = "ok" /\ file'[p] = Part(p).file /\ sidecar'[p] = Part(p).sidecar
    BY <2>1, <2>3, <2>5, Zenon
  <2>7. \A p \in Programs : Changes(p) /\ p \notin {at} \cup {} /\ p \notin R => p \notin written'
    BY <2>1, <2>2, Zenon DEF RInv, WrittenInTurn
  <2>8. Reported'
    <3>1. torn \subseteq torn' /\ pc # "idle"
      BY <2>1, Zenon
    <3> DEFINE F == {at}
               C == {}
    <3>2. Report(F, C, R) /\ C = {} /\ F \cup C # {}
      BY <2>1, Zenon
    <3>3. \A p \in Programs \ touched :
            p \notin F \cup C /\ (~Changes(p) \/ p \in R) =>
              Part(p).verdict = "ok" /\ file'[p] = Part(p).file /\ sidecar'[p] = Part(p).sidecar
      BY <2>6, Zenon
    <3>4. \A p \in Programs : Changes(p) /\ p \notin F \cup C /\ p \notin R => p \notin written'
      BY <2>7, Zenon
    <3> HIDE DEF F, C
    <3> QED BY <3>1, <3>2, <3>3, <3>4, ReportedHolds
  <2> QED BY <2>4, <2>8, Zenon DEF RInv
<1>7. CASE Crash
  <2>1. /\ pc' = "idle" /\ plan' = NoPlan /\ UNCHANGED <<mode, disk>> /\ torn' = torn \cup Tearing
        /\ result' = "none" /\ \A p \in Programs : report'[p] = "none"
    BY <1>7, Zenon DEF Crash
  <2>2. NamesKnown' /\ Untouched' /\ WrittenInTurn'
    BY <2>1, EndNames, Zenon
  <2>3. Reported'
    BY <2>1, Zenon DEF Reported, NamesCleared, Unmanaged, AppliedInPlace, BlockedUnwritten, Idempotent
  <2> QED BY <2>2, <2>3, Zenon DEF RInv
<1> QED BY <1>4, <1>5, <1>6, <1>7, Zenon

(* Planning and validation write nothing.                                  *)
LEMMA PlanStepsReport ==
  ASSUME IInv, PInv, RInv, PlanAll \/ Validate
  PROVE  RInv'
<1>1. CASE PlanAll
  <2>1. /\ plan'.config = config /\ plan'.file = file /\ plan'.sidecar = sidecar
        /\ pc = "idle" /\ pc' = "planned" /\ UNCHANGED <<mode, file, sidecar, config, at, torn>>
        /\ written' = {} /\ touched' = {}
    BY <1>1, Zenon DEF PlanAll
  <2>2. \A p \in Programs : ~Halfway(p) /\ ~Halfway(p)'
    BY <2>1, Zenon DEF Halfway
  <2>3. NamesKnown'
    BY <2>1, <2>2, Zenon DEF RInv, NamesKnown, NoMoreThan
  <2>4. Untouched' /\ WrittenInTurn' /\ Reported'
    BY <2>1, <2>2, Zenon DEF Untouched, WrittenInTurn, Reported
  <2> QED BY <2>3, <2>4, Zenon DEF RInv
<1>2. CASE Validate
  <2>1. /\ pc = "planned" /\ pc' = "file"
        /\ UNCHANGED <<mode, disk, config, at, plan, report, result, bounds, history>>
    BY <1>2, ZenonT(30) DEF Validate
  <2>2. \A p \in Programs : ~Halfway(p) /\ ~Halfway(p)' /\ ~(p < at)
    BY <2>1 DEF Halfway, IInv, AsPlanned, Programs
  <2>3. NamesKnown'
    BY <2>1, <2>2, Zenon DEF RInv, NamesKnown
  <2>4. Untouched' /\ WrittenInTurn' /\ Reported'
    BY <2>1, <2>2, Zenon DEF RInv, Untouched, WrittenInTurn, Reported
  <2> QED BY <2>3, <2>4, Zenon DEF RInv
<1> QED BY <1>1, <1>2, Zenon

(* The write of a settings file makes no report and disturbs none.         *)
LEMMA WriteFileReport ==
  ASSUME IInv, PInv, RInv, WriteFile
  PROVE  RInv'
<1>1. /\ pc = "file" /\ pc' = "sidecar" /\ at \in Programs
      /\ UNCHANGED <<mode, sidecar, config, at, plan, report, result, touched, torn>>
      /\ file \in [Programs -> Files]
  BY Zenon DEF WriteFile, IInv, TypeOK
<1>2. /\ FileOp(at) => file'[at] = Part(at).file
      /\ ~FileOp(at) => file'[at] = file[at]
      /\ \A p \in Programs : p # at => file'[p] = file[p]
  BY <1>1, Zenon DEF WriteFile
<1>3. \A p \in Programs : /\ Part(p)' = Part(p)
                          /\ ~Halfway(p) /\ (Halfway(p)' <=> p = at /\ FileOp(at))
  BY <1>1, Zenon DEF Part, FileOp, Halfway
<1>4. at >= at /\ ~(at < at)
  BY <1>1 DEF Programs
<1>5. NamesKnown'
  <2> SUFFICES ASSUME NEW p \in Programs
               PROVE  /\ p >= at =>
                           /\ sidecar[p] \in {plan.sidecar[p], NoState}
                           /\ NoMoreThan(file'[p], IF p = at THEN Part(p).file ELSE plan.file[p])
                      /\ p \notin torn =>
                           /\ Paired(mode[p], sidecar[p]) /\ Paired(mode[p], plan.sidecar[p])
                           /\ Covered(mode[p], plan.file[p], plan.sidecar[p])
                           /\ ~(p = at /\ FileOp(at)) => Covered(mode[p], file'[p], sidecar[p])
    BY <1>1, <1>3, Zenon DEF NamesKnown
  <2>1. /\ p >= at => sidecar[p] \in {plan.sidecar[p], NoState} /\ NoMoreThan(file[p], plan.file[p])
        /\ p \notin torn =>
             /\ Paired(mode[p], sidecar[p]) /\ Paired(mode[p], plan.sidecar[p])
             /\ Covered(mode[p], plan.file[p], plan.sidecar[p])
             /\ Covered(mode[p], file[p], sidecar[p])
    BY <1>1, <1>3, Zenon DEF RInv, NamesKnown
  <2>2. CASE p = at /\ FileOp(at)
    BY <1>2, <1>4, <2>1, <2>2, Zenon DEF NoMoreThan
  <2>3. CASE p = at /\ ~FileOp(at)
    BY <1>2, <1>4, <2>1, <2>3, Zenon DEF FileOp
  <2>4. CASE p # at
    BY <1>2, <2>1, <2>4, Zenon
  <2> QED BY <2>2, <2>3, <2>4, Zenon
<1>6. Untouched'
  <2> SUFFICES ASSUME NEW p \in Programs \ touched
               PROVE  /\ config[p] = plan.config[p]
                      /\ IF p < at
                           THEN file'[p] = Part(p).file /\ sidecar[p] = Part(p).sidecar
                           ELSE /\ sidecar[p] = plan.sidecar[p]
                                /\ file'[p] = IF p = at /\ FileOp(at) THEN Part(p).file
                                                                      ELSE plan.file[p]
    BY <1>1, <1>3, Zenon DEF Untouched
  <2>1. /\ config[p] = plan.config[p]
        /\ IF p < at THEN file[p] = Part(p).file /\ sidecar[p] = Part(p).sidecar
                     ELSE sidecar[p] = plan.sidecar[p] /\ file[p] = plan.file[p]
    BY <1>1, <1>3, Zenon DEF RInv, Untouched
  <2>2. CASE p = at
    BY <1>2, <1>4, <2>1, <2>2, Zenon
  <2>3. CASE p # at
    BY <1>2, <2>1, <2>3, Zenon
  <2> QED BY <2>2, <2>3, Zenon
<1>7. WrittenInTurn' /\ Reported'
  <2>1. written' \subseteq written \cup {at}
    BY Zenon DEF WriteFile
  <2>2. \A p \in written : p < at
    BY <1>1, Zenon DEF RInv, WrittenInTurn
  <2> QED BY <1>1, <2>1, <2>2, Zenon DEF WrittenInTurn, Reported
<1> QED BY <1>5, <1>6, <1>7, Zenon DEF RInv

(* The write of a sidecar: the program is then in place, and after the     *)
(* last one the apply reports every program as it is on disk.              *)
LEMMA WriteSidecarReport ==
  ASSUME IInv, PInv, RInv, WriteSidecar
  PROVE  RInv'
<1>1. /\ pc = "sidecar" /\ at \in Programs /\ Part(at).verdict = "ok"
      /\ UNCHANGED <<mode, file, config, touched>>
      /\ torn' = IF Adopts(at) THEN torn \cup {at} ELSE torn
      /\ sidecar \in [Programs -> States]
  BY Zenon DEF WriteSidecar, Report, IInv, TypeOK, AsPlanned
<1>2. sidecar'[at] = IF SidecarOp(at) THEN Part(at).sidecar ELSE sidecar[at]
  BY <1>1, Zenon DEF WriteSidecar
<1>3. \A p \in Programs : p # at => sidecar'[p] = sidecar[p]
  BY WriteSidecarFacts, Zenon
<1>4. at >= at /\ ~(at < at)
  BY <1>1 DEF Programs
<1>5. sidecar[at] \in {plan.sidecar[at], NoState} /\ NoMoreThan(file[at], Part(at).file)
  BY <1>1, <1>4, Zenon DEF RInv, NamesKnown
<1>6. sidecar'[at] = Part(at).sidecar \/ sidecar'[at] = NoState
  BY <1>2, <1>5, Zenon DEF SidecarOp
<1>7. torn \subseteq torn' /\ (at \notin torn' => ~Adopts(at))
  BY <1>1, Zenon
<1>8. ASSUME NEW p \in Programs \ torn'
      PROVE  Paired(mode[p], sidecar'[p]) /\ Covered(mode[p], file[p], sidecar'[p])
  <2>1. p \in Programs \ torn
    BY <1>7, Zenon
  <2>2. CASE p # at
    <3>1. ~Halfway(p)
      BY <2>2, Zenon DEF Halfway
    <3> QED BY <1>3, <2>1, <2>2, <3>1, Zenon DEF RInv, NamesKnown
  <2>3. CASE p = at
    <3>1. Paired(mode[p], Part(p).sidecar) /\ Covered(mode[p], Part(p).file, Part(p).sidecar)
      BY <1>1, <1>7, <2>1, <2>3, PartNames, Zenon DEF RInv
    <3>2. Covered(mode[p], file[p], Part(p).sidecar)
      BY <1>5, <2>3, <3>1, Zenon DEF Covered, NoMoreThan
    <3>3. CASE sidecar'[at] = Part(at).sidecar
      BY <2>3, <3>1, <3>2, <3>3, Zenon
    <3>4. CASE sidecar'[at] = NoState
      <4>1. sidecar'[p] = NoState
        BY <2>3, <3>4, Zenon
      <4> QED BY <4>1, NoPlanNames, Zenon
    <3> QED BY <1>6, <3>3, <3>4, Zenon
  <2> QED BY <2>2, <2>3, Zenon
<1>9. ASSUME NEW p \in Programs \ touched, p = at \/ p < at
      PROVE  file[p] = Part(p).file /\ sidecar'[p] = Part(p).sidecar
  <2>1. CASE p # at
    BY <1>1, <1>3, <1>9, <2>1, Zenon DEF RInv, Untouched
  <2>2. CASE p = at
    <3>1. sidecar[p] = plan.sidecar[p] /\ file[p] = IF FileOp(p) THEN Part(p).file ELSE plan.file[p]
      BY <1>1, <1>4, <2>2, Zenon DEF RInv, Untouched, Halfway
    <3> QED BY <1>2, <2>2, <3>1, Zenon DEF SidecarOp, FileOp
  <2> QED BY <2>1, <2>2, Zenon
<1>10. written' \subseteq written \cup {at} /\ \A p \in written : p < at \/ p = at
  BY <1>1, Zenon DEF WriteSidecar, RInv, WrittenInTurn
<1>11. CASE at = NPrograms
  <2>1. Report({}, {}, Programs) /\ pc' = "idle" /\ plan' = NoPlan
    BY <1>11, Zenon DEF WriteSidecar, Report
  <2>2. \A p \in Programs : p = at \/ p < at
    BY <1>11 DEF Programs
  <2>3. \A p \in Programs : Part(p).verdict = "ok"
    BY <1>1, Zenon DEF IInv, AsPlanned
  <2>4. \A p \in Programs \ touched :
          Part(p).verdict = "ok" /\ file'[p] = Part(p).file /\ sidecar'[p] = Part(p).sidecar
    BY <1>1, <1>9, <2>2, <2>3, Zenon
  <2>5. Reported'
    BY <1>1, <1>7, <2>1, <2>4, ReportedHolds, Zenon
  <2>6. \A p \in Programs : /\ Paired(mode[p], plan'.sidecar[p])
                            /\ Covered(mode[p], plan'.file[p], plan'.sidecar[p])
    BY <2>1, NoPlanNames
  <2>7. NamesKnown'
    BY <1>1, <1>8, <2>1, <2>6, Zenon DEF NamesKnown
  <2> QED BY <2>1, <2>5, <2>7, Zenon DEF RInv, Untouched, WrittenInTurn
<1>12. CASE at # NPrograms
  <2>1. pc' = "file" /\ at' = at + 1 /\ UNCHANGED <<plan, report, result>>
    BY <1>12, Zenon DEF WriteSidecar
  <2>2. \A p \in Programs : /\ p >= at' => p >= at /\ p # at /\ ~(p < at)
                            /\ p < at' <=> p = at \/ p < at
    BY <1>1, <2>1 DEF Programs
  <2>3. \A p \in Programs : Part(p)' = Part(p) /\ ~Halfway(p)'
    BY <1>1, <2>1, Zenon DEF Part, Halfway
  <2>4. NamesKnown'
    <3>1. \A p \in Programs : p >= at' =>
            sidecar'[p] \in {plan.sidecar[p], NoState} /\ NoMoreThan(file[p], plan.file[p])
      BY <1>1, <1>3, <2>2, Zenon DEF RInv, NamesKnown
    <3>2. \A p \in Programs \ torn' : /\ Paired(mode[p], plan.sidecar[p])
                                      /\ Covered(mode[p], plan.file[p], plan.sidecar[p])
      BY <1>7, Zenon DEF RInv, NamesKnown
    <3> QED BY <1>1, <1>8, <2>1, <2>3, <3>1, <3>2, Zenon DEF NamesKnown
  <2>5. Untouched'
    <3> SUFFICES ASSUME NEW p \in Programs \ touched
                 PROVE  /\ config[p] = plan.config[p]
                        /\ IF p < at'
                             THEN file[p] = Part(p).file /\ sidecar'[p] = Part(p).sidecar
                             ELSE sidecar'[p] = plan.sidecar[p] /\ file[p] = plan.file[p]
      BY <1>1, <2>1, <2>3, Zenon DEF Untouched
    <3>1. config[p] = plan.config[p]
      BY <1>1, Zenon DEF RInv, Untouched
    <3>2. CASE p < at'
      BY <1>9, <2>2, <3>1, <3>2, Zenon
    <3>3. CASE ~(p < at')
      BY <1>1, <1>3, <2>2, <3>1, <3>3, Zenon DEF RInv, Untouched, Halfway
    <3> QED BY <3>2, <3>3, Zenon
  <2>6. WrittenInTurn'
    <3>1. written' \subseteq Programs
      BY <1>1, Zenon DEF WriteSidecar, IInv, TypeOK
    <3> QED BY <1>10, <2>1, <2>2, <3>1, Zenon DEF WrittenInTurn
  <2>7. Reported'
    BY <2>1, Zenon DEF Reported
  <2> QED BY <2>4, <2>5, <2>6, <2>7, Zenon DEF RInv
<1> QED BY <1>11, <1>12, Zenon

(* A step outside the apply changes one program, adds no managed value     *)
(* under a reserved name and removes its sidecar at most.                  *)
LEMMA OutsideStep ==
  ASSUME IInv, PInv, RInv, NEW p \in Programs,
         UNCHANGED <<mode, pc, at, plan, report, result, torn, written>>,
         touched' = touched \cup {p},
         \A q \in Programs : q # p => /\ file'[q] = file[q] /\ sidecar'[q] = sidecar[q]
                                      /\ config'[q] = config[q],
         sidecar'[p] \in {sidecar[p], NoState}, NoMoreThan(file'[p], file[p])
  PROVE  RInv'
<1>1. \A q \in Programs : Part(q)' = Part(q) /\ (Halfway(q)' <=> Halfway(q))
  BY Zenon DEF Part, FileOp, Halfway
<1>2. NamesKnown'
  <2> SUFFICES ASSUME NEW q \in Programs
               PROVE  /\ pc # "idle" /\ q >= at =>
                           /\ sidecar'[q] \in {plan.sidecar[q], NoState}
                           /\ NoMoreThan(file'[q], IF pc = "sidecar" /\ q = at THEN Part(q).file
                                                                               ELSE plan.file[q])
                      /\ q \notin torn =>
                           /\ Paired(mode[q], sidecar'[q]) /\ Paired(mode[q], plan.sidecar[q])
                           /\ Covered(mode[q], plan.file[q], plan.sidecar[q])
                           /\ ~Halfway(q) => Covered(mode[q], file'[q], sidecar'[q])
    BY <1>1, Zenon DEF NamesKnown
  <2> DEFINE g == IF pc = "sidecar" /\ q = at THEN Part(q).file ELSE plan.file[q]
  <2>1. /\ pc # "idle" /\ q >= at =>
             sidecar[q] \in {plan.sidecar[q], NoState} /\ NoMoreThan(file[q], g)
        /\ q \notin torn =>
             /\ Paired(mode[q], sidecar[q]) /\ Paired(mode[q], plan.sidecar[q])
             /\ Covered(mode[q], plan.file[q], plan.sidecar[q])
             /\ ~Halfway(q) => Covered(mode[q], file[q], sidecar[q])
    BY Zenon DEF RInv, NamesKnown
  <2> HIDE DEF g
  <2>2. sidecar'[q] \in {sidecar[q], NoState} /\ NoMoreThan(file'[q], file[q])
    BY Zenon DEF NoMoreThan
  <2>3. NoMoreThan(file[q], g) => NoMoreThan(file'[q], g)
    BY <2>2, Zenon DEF NoMoreThan
  <2>4. Covered(mode[q], file[q], sidecar[q]) => Covered(mode[q], file'[q], sidecar[q])
    BY <2>2, Zenon DEF Covered, NoMoreThan
  <2>5. /\ pc # "idle" /\ q >= at => sidecar'[q] \in {plan.sidecar[q], NoState} /\ NoMoreThan(file'[q], g)
        /\ q \notin torn =>
             /\ Paired(mode[q], sidecar'[q]) /\ Paired(mode[q], plan.sidecar[q])
             /\ Covered(mode[q], plan.file[q], plan.sidecar[q])
             /\ ~Halfway(q) => Covered(mode[q], file'[q], sidecar'[q])
    <3>1. CASE sidecar'[q] = sidecar[q]
      BY <2>1, <2>3, <2>4, <3>1, Zenon
    <3>2. CASE sidecar'[q] = NoState
      <4>1. Paired(mode[q], sidecar'[q]) /\ Covered(mode[q], file'[q], sidecar'[q])
        BY <3>2, NoPlanNames, Zenon
      <4> QED BY <2>1, <2>3, <3>2, <4>1, Zenon
    <3> QED BY <2>2, <3>1, <3>2, Zenon
  <2> QED BY <2>5, Zenon DEF g
<1>3. \A q \in Programs \ touched' : /\ q \in Programs \ touched
                                     /\ file'[q] = file[q] /\ sidecar'[q] = sidecar[q]
                                     /\ config'[q] = config[q]
  BY Zenon
<1>4. Untouched'
  BY <1>1, <1>3, ZenonT(30) DEF RInv, Untouched
<1>5. WrittenInTurn'
  BY Zenon DEF RInv, WrittenInTurn
<1>6. Reported'
  <2> SUFFICES ASSUME pc = "idle" PROVE Reported'
    BY Zenon DEF Reported
  <2>1. NamesCleared /\ AppliedInPlace /\ BlockedUnwritten /\ Idempotent
    BY Zenon DEF RInv, Reported
  <2>2. NamesCleared'
    BY <1>3, <2>1, Zenon DEF NamesCleared, Unmanaged
  <2>3. AppliedInPlace'
    <3> SUFFICES ASSUME NEW q \in Programs \ touched', NEW k \in Settings,
                        report[q] \in {"applied", "unchanged"}
                 PROVE  /\ file'[q].kind = "doc"
                        /\ config'[q].doc[k] # None \/ mode[q] \in {"owned", "headed"}
                             => file'[q].doc[k] = config'[q].doc[k]
      BY ZenonT(30) DEF AppliedInPlace
    <3>1. /\ file[q].kind = "doc"
          /\ config[q].doc[k] # None \/ mode[q] \in {"owned", "headed"}
               => file[q].doc[k] = config[q].doc[k]
      BY <1>3, <2>1, Zenon DEF AppliedInPlace
    <3> QED BY <1>3, <3>1, Zenon
  <2>4. BlockedUnwritten'
    BY <2>1, Zenon DEF BlockedUnwritten
  <2>5. Idempotent'
    BY <1>3, <2>1, Zenon DEF Idempotent
  <2> QED BY <2>2, <2>3, <2>4, <2>5, Zenon DEF Reported
<1> QED BY <1>2, <1>4, <1>5, <1>6, Zenon DEF RInv

(* An edit of a file marks the program as touched, and touched programs    *)
(* are excepted.                                                           *)
LEMMA EditReport ==
  ASSUME IInv, PInv, RInv, NEW p \in Programs, NEW f, Edit(p, f),
         \A k \in Settings : f.doc[k] = file[p].doc[k] \/ f.doc[k] \notin ManagedValues
  PROVE  RInv'
<1>1. /\ file' = [file EXCEPT ![p] = f] /\ sidecar' = sidecar /\ touched' = touched \cup {p}
      /\ UNCHANGED <<mode, config, pc, at, plan, report, result, torn, written>>
  BY Zenon DEF Edit, Touch
<1>2. file \in [Programs -> Files]
  BY Zenon DEF IInv, TypeOK
<1>3. file'[p] = f /\ \A q \in Programs : q # p => file'[q] = file[q]
  BY <1>1, <1>2, Zenon
<1>4. NoMoreThan(file'[p], file[p])
  BY <1>3, ReconcilerAssumption, Zenon DEF NoMoreThan
<1> QED BY <1>1, <1>3, <1>4, OutsideStep, Zenon

(* What the user does keeps the reports true of all programs not touched.  *)
LEMMA UserStepsReport ==
  ASSUME IInv, PInv, RInv, UserStep
  PROVE  RInv'
<1> PICK p \in Programs :
      \/ \E k \in Settings, v \in UserValues \cup {None} : SetValue(p, k, v)
      \/ \E k \in Carriers, v \in OtherPairing : LeaveEntry(p, k, v)
      \/ \E kind \in {"absent", "blank"} : EmptyFile(p, kind)
      \/ \E kind \in {"doc", "invalid", "unreadable"} : SpoilFile(p, kind)
      \/ DeleteSidecar(p)
      \/ \E c \in Wants(mode[p]) : Configure(p, c)
  BY Zenon DEF UserStep
<1>1. /\ file[p] \in Files /\ file[p].doc \in Docs /\ sidecar \in [Programs -> States]
      /\ config \in [Programs -> [status : Statuses, doc : Docs, paired : BOOLEAN]]
  BY Zenon DEF IInv, TypeOK, Files
<1>a. \A k \in Carriers, v \in OtherPairing : LeaveEntry(p, k, v) => k \in Settings /\ SetValue(p, k, v)
  BY Zenon DEF Carriers, LeaveEntry
<1>2. ASSUME NEW k \in Settings, NEW v \in UserValues \cup OtherPairing \cup {None}, SetValue(p, k, v)
      PROVE  RInv'
  <2> DEFINE d == [file[p].doc EXCEPT ![k] = v]
  <2>1. \A j \in Settings : d[j] = file[p].doc[j] \/ d[j] \notin ManagedValues
    BY <1>1, ReconcilerAssumption, Zenon DEF Docs
  <2>2. Document(d).doc = d
    BY Zenon DEF Document
  <2>3. Edit(p, Document(d))
    BY <1>2, Zenon DEF SetValue
  <2> HIDE DEF d
  <2>4. \A j \in Settings :
          Document(d).doc[j] = file[p].doc[j] \/ Document(d).doc[j] \notin ManagedValues
    BY <2>1, <2>2, Zenon
  <2> QED BY <2>3, <2>4, EditReport, Zenon
<1>3. ASSUME NEW kind \in {"absent", "blank"}, EmptyFile(p, kind)
      PROVE  RInv'
  <2> DEFINE f == [kind |-> kind, doc |-> Empty]
  <2>1. \A j \in Settings : f.doc[j] \notin ManagedValues
    BY ReconcilerAssumption, Zenon DEF Empty
  <2>2. Edit(p, f)
    BY <1>3, Zenon DEF EmptyFile
  <2> HIDE DEF f
  <2> QED BY <2>1, <2>2, EditReport, Zenon
<1>4. ASSUME NEW kind \in {"doc", "invalid", "unreadable"}, SpoilFile(p, kind)
      PROVE  RInv'
  <2> DEFINE f == [file[p] EXCEPT !.kind = kind]
  <2>1. f.doc = file[p].doc
    BY <1>1, Zenon DEF Files
  <2>2. Edit(p, f)
    BY <1>4, Zenon DEF SpoilFile
  <2> HIDE DEF f
  <2> QED BY <2>1, <2>2, EditReport, Zenon
<1>5. ASSUME DeleteSidecar(p)
      PROVE  RInv'
  <2>1. /\ sidecar' = [sidecar EXCEPT ![p] = NoState] /\ touched' = touched \cup {p}
        /\ UNCHANGED <<mode, file, config, pc, at, plan, report, result, torn, written>>
    BY <1>5, Zenon DEF DeleteSidecar, Touch, apply
  <2>2. sidecar'[p] = NoState /\ \A q \in Programs : q # p => sidecar'[q] = sidecar[q]
    BY <1>1, <2>1, Zenon
  <2>3. NoMoreThan(file'[p], file[p])
    BY <2>1, Zenon DEF NoMoreThan
  <2> QED BY <2>1, <2>2, <2>3, OutsideStep, Zenon
<1>6. ASSUME NEW c \in Wants(mode[p]), Configure(p, c)
      PROVE  RInv'
  <2>1. /\ config' = [config EXCEPT ![p] = c] /\ touched' = touched \cup {p}
        /\ UNCHANGED <<mode, file, sidecar, pc, at, plan, report, result, torn, written>>
    BY <1>6, Zenon DEF Configure, apply, disk
  <2>2. \A q \in Programs : q # p => config'[q] = config[q]
    BY <1>1, <2>1, Zenon
  <2>3. NoMoreThan(file'[p], file[p])
    BY <2>1, Zenon DEF NoMoreThan
  <2> QED BY <2>1, <2>2, <2>3, OutsideStep, Zenon
<1> QED BY <1>a, <1>2, <1>3, <1>4, <1>5, <1>6, Zenon

(* RInv holds from the start and is kept by every step.                    *)
LEMMA RInvHolds == Spec => []RInv
<1>1. IInv /\ PInv /\ RInv /\ UNCHANGED vars => RInv'
  <2> SUFFICES ASSUME RInv, UNCHANGED vars PROVE RInv'
    BY Zenon
  <2>1. UNCHANGED <<mode, file, sidecar, config, pc, at, plan, report, result, touched, torn, written>>
    BY Zenon DEF vars, disk, apply, history
  <2>2. \A q \in Programs : /\ Part(q)' = Part(q) /\ (Halfway(q)' <=> Halfway(q))
                            /\ (Unmanaged(q)' <=> Unmanaged(q))
    BY <2>1, Zenon DEF Part, FileOp, Halfway, Unmanaged
  <2>3. NamesKnown' /\ Untouched'
    BY <2>1, <2>2, Zenon DEF RInv, NamesKnown, Untouched
  <2>4. WrittenInTurn'
    BY <2>1, Zenon DEF RInv, WrittenInTurn
  <2>5. Reported'
    BY <2>1, <2>2, ZenonT(30) DEF RInv, Reported, NamesCleared, AppliedInPlace, BlockedUnwritten, Idempotent
  <2> QED BY <2>3, <2>4, <2>5, Zenon DEF RInv
<1>2. IInv /\ PInv /\ RInv /\ [Next]_vars => RInv'
  BY <1>1, EndStepsReport, PlanStepsReport, WriteFileReport, WriteSidecarReport, UserStepsReport, Zenon
     DEF Next, ApplyStep
<1> QED BY <1>2, InitReported, IInvHolds, PInvHolds, PTL DEF Spec

(* What an apply reports of a program nobody touched since it planned is   *)
(* what it left on disk: a removed, unlisted or opted-out program has no   *)
(* managed entry under the reserved names, an applied or unchanged one has *)
(* the managed values, and a blocked one was not written.                  *)
THEOREM ReportsHold == Spec => []ReportHolds
<1>1. RInv => ReportHolds
  <2> SUFFICES ASSUME RInv PROVE ReportHolds
    BY Zenon
  <2>1. CASE pc = "idle"
    BY <2>1, Zenon DEF RInv, Reported, ReportHolds
  <2>2. CASE pc # "idle"
    BY <2>2, Zenon DEF ReportHolds, NamesCleared, Unmanaged
  <2> QED BY <2>1, <2>2, Zenon
<1> QED BY <1>1, RInvHolds, PTL

(* After a successful apply the plan of every program that neither the     *)
(* user nor a crash has touched is what is on disk, so that a second apply *)
(* has nothing to write (already_in_place).                                *)
THEOREM ApplyIsIdempotent == Spec => []Idempotent
<1>1. RInv => Idempotent
  <2> SUFFICES ASSUME RInv, pc = "idle" PROVE Idempotent
    BY Zenon DEF Idempotent
  <2> QED BY Zenon DEF RInv, Reported
<1> QED BY <1>1, RInvHolds, PTL
=============================================================================
