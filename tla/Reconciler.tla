----------------------------- MODULE Reconciler -----------------------------
(***************************************************************************)
(* Managed files: how Reconciler (crates/agent/src/reconcile/mod.rs,       *)
(* plan.rs) plans and applies the settings files of the programs and       *)
(* reports on each, and how the providers decide what is theirs: through   *)
(* the sidecar of provider/json_merge.rs, by reserved names, or by an      *)
(* owner marker.                                                           *)
(*                                                                         *)
(* A program has one settings file.  A document gives each setting a value *)
(* or None; the elements of an array that is merged additively are         *)
(* settings with one value.  Users and configurations use different        *)
(* values, so a value tells who wrote it.                                  *)
(***************************************************************************)
EXTENDS JsonMerge

CONSTANTS
  NPrograms,                 \* programs, in the order of registration
  Modes,                     \* how the programs may be managed: functions to ManagedAs
  Offered,                   \* the managed documents of the configurations
  IOFaults,                  \* TRUE: writes may fail
  MaxChanges, MaxCrashes    \* changes of files and configuration; restarts

Programs == 1 .. NPrograms

(* merge: claude_code in user mode, pi.  keyed: copilot, vscode, whose     *)
(* entries go by name.  owned: claude_code in system mode, claude_desktop, *)
(* a whole file with a marker beside it.  headed: codex, grok, opencode, a *)
(* whole file that begins with MANAGED_HEADER.  The operators below take   *)
(* one of these as h.                                                      *)
ManagedAs == {"merge", "keyed", "owned", "headed"}


ASSUME ReconcilerAssumption ==
  /\ NPrograms \in Nat \ {0} /\ Modes \subseteq [Programs -> ManagedAs]
  /\ Reserved \subseteq Settings /\ IOFaults \in BOOLEAN
  /\ UserValues \cap ManagedValues = {} /\ None \notin UserValues \cup ManagedValues \cup OtherPairing
  /\ OtherPairing \cap (UserValues \cup ManagedValues) = {}
  /\ Offered \subseteq [Settings -> ManagedValues \cup {None}] \ {Empty}
  /\ MaxChanges \in Nat /\ MaxCrashes \in Nat

VARIABLES
  mode,      \* how each program is managed
  file,      \* the settings file of each program
  sidecar,   \* its merge state; of an owned file only whether the marker is there
  config,    \* what the configuration and the user's choice want of each program
  pc, at,    \* the apply: its phase, and the program whose files are written
  plan,      \* config, files and sidecars as planned from
  report,    \* the outcome of each program in the last apply
  result,    \* what the last apply returned
  changes, crashes,
  mine,      \* what the user made of each document
  touched,   \* programs whose file or configuration changed since planning began
  raced,     \* programs edited between the validation and their last write
  torn,      \* programs whose managed values nothing tells from the user's any more
  written    \* programs with something written by the last apply

disk == <<file, sidecar>>
apply == <<pc, at, plan, report, result>>
bounds == <<changes, crashes>>
history == <<mine, touched, raced, torn, written>>
vars == <<mode, disk, config, apply, bounds, history>>

Marker == [present |-> TRUE, created |-> FALSE, before |-> Empty, after |-> Empty]

ManagedDocs(h) == {d \in Offered : h = "keyed" => \A k \in Settings \ Reserved : d[k] = None}

(* configured_programs and apply_program_choice.  While the local proxy is *)
(* not available the daemon has no pairing, and a keyed program is left as *)
(* it is or removed.                                                       *)
Statuses == {"absent", "configured", "optedOut", "failClosed", "failOpen"}
Wants(h) ==
  [status : {"configured"}, doc : ManagedDocs(h), paired : {TRUE}]
    \cup [status : {"absent", "optedOut"}, doc : {Empty},
          paired : IF h = "keyed" THEN BOOLEAN ELSE {TRUE}]
    \cup [status : IF h = "keyed" THEN {"failClosed", "failOpen"} ELSE {}, doc : {Empty},
          paired : {FALSE}]

-----------------------------------------------------------------------------
(* A whole file: the daemon's by its marker, or by its header, which any   *)
(* managed value stands for.                                               *)
IsOwned(h, f, s) ==
  IF h = "owned" THEN s.present ELSE \E k \in Settings : f.doc[k] \in ManagedValues

PlanOwned(h, m, f, s) ==
  IF f.kind = "unreadable" THEN Refused("failed", f, s)
  ELSE IF f.kind # "absent" /\ f # Document(m) /\ ~IsOwned(h, f, s) THEN Refused("conflict", f, s)
  ELSE Planned(Document(m), IF h = "owned" THEN Marker ELSE s)

RemoveMarked(f, s) ==
  IF ~IsOwned("owned", f, s) THEN Planned(f, s)
  ELSE IF f.kind = "unreadable" THEN Refused("failed", f, s)
  ELSE Planned(Absent, NoState)

RemoveHeaded(f, s) ==
  IF f.kind = "unreadable" THEN Refused("failed", f, s)
  ELSE IF IsOwned("headed", f, s) THEN Planned(Absent, NoState)
  ELSE Planned(f, s)

PlanRemoveOwned(h, f, s) == IF h = "owned" THEN RemoveMarked(f, s) ELSE RemoveHeaded(f, s)

(* paired and carries_pairing: the entries with the pairing of this daemon *)
(* are its own; while it has none, all that carry any pairing.             *)
Own(c) == ManagedValues \cup IF c.paired THEN {} ELSE OtherPairing

(* Provider::plan *)
PlanProgram(h, c, f, s) ==
  LET whole == h \in {"owned", "headed"}
  IN  CASE c.status = "failClosed" -> Planned(f, s)
        [] c.status = "configured" -> IF whole THEN PlanOwned(h, c.doc, f, s)
                                               ELSE PlanMerge(h, c.doc, f, s)
        [] OTHER -> IF whole THEN PlanRemoveOwned(h, f, s) ELSE PlanRemove(h, Own(c), f, s)

-----------------------------------------------------------------------------
(* plan_with_report and AttributedPlan::apply                              *)

Part(p) == PlanProgram(mode[p], plan.config[p], plan.file[p], plan.sidecar[p])

(* summary(): something of the program differs from what was observed.     *)
Changes(p) == Part(p).file # plan.file[p] \/ Part(p).sidecar # plan.sidecar[p]

(* The files a provider reads are those validated before the first write.  *)
Observed(p) ==
  LET status   == plan.config[p].status
      readable == mode[p] = "keyed" /\ plan.file[p].kind # "unreadable"
  IN  CASE status = "configured" -> TRUE
        [] status = "failClosed" -> readable
        [] OTHER -> readable \/ plan.sidecar[p].present \/ mode[p] = "headed"

Changed(p) == \/ Observed(p) /\ file[p] # plan.file[p]
              \/ plan.config[p].status # "failClosed" /\ sidecar[p] # plan.sidecar[p]

(* ProgramEntry::settled *)
Settled(p, reached) ==
  LET status == plan.config[p].status
  IN  IF Changes(p) /\ ~reached THEN "blocked"
      ELSE CASE status \in {"failClosed", "failOpen"} -> "inactive"
             [] status = "optedOut" -> "optedOut"
             [] status = "configured" -> IF Changes(p) THEN "applied" ELSE "unchanged"
             [] status = "absent" -> IF Changes(p) THEN "removed" ELSE "unlisted"

Outcomes == {"none", "unlisted", "applied", "unchanged", "removed", "conflict", "failed",
             "blocked", "inactive", "optedOut"}

NoPlan == [config  |-> [p \in Programs |-> [status |-> "absent", doc |-> Empty, paired |-> TRUE]],
           file    |-> [p \in Programs |-> Absent],
           sidecar |-> [p \in Programs |-> NoState]]

(* The end of an apply: failed, conflicting, and the programs whose        *)
(* operations were all performed.                                          *)
Report(failed, conflicts, reached) ==
  /\ report' = [p \in Programs |-> IF p \in failed THEN "failed"
                                   ELSE IF p \in conflicts THEN "conflict"
                                   ELSE Settled(p, p \in reached)]
  /\ result' = IF failed \cup conflicts = {} THEN "ok" ELSE "error"
  /\ pc' = "idle" /\ at' = 1 /\ plan' = NoPlan
  /\ UNCHANGED <<mode, config, bounds, mine, touched, raced>>

-----------------------------------------------------------------------------
Init ==
  /\ mode \in Modes
  /\ file = [p \in Programs |-> Absent]
  /\ sidecar = [p \in Programs |-> NoState]
  /\ config = NoPlan.config
  /\ pc = "idle" /\ at = 1 /\ plan = NoPlan
  /\ report = [p \in Programs |-> "none"] /\ result = "none"
  /\ changes = 0 /\ crashes = 0
  /\ mine = [p \in Programs |-> Empty]
  /\ touched = {} /\ raced = {} /\ torn = {} /\ written = {}

(* apply_read_under_lock: the configuration is read under the lock and     *)
(* every provider plans from what it reads.  A program's files are read by *)
(* its provider only, so planning is one step.                             *)
PlanAll ==
  /\ pc = "idle"
  /\ plan' = [config |-> config, file |-> file, sidecar |-> sidecar]
  /\ pc' = "planned"
  /\ touched' = {} /\ written' = {}
  /\ UNCHANGED <<mode, disk, config, at, report, result, bounds, mine, raced, torn>>

(* A failed plan or a conflict refuses the apply.                          *)
Refuse ==
  LET refused(verdict) == {p \in Programs : Part(p).verdict = verdict}
  IN  /\ pc = "planned"
      /\ refused("failed") \cup refused("conflict") # {}
      /\ Report(refused("failed"), refused("conflict"), {})
      /\ UNCHANGED <<disk, torn, written>>

(* "changed since reconciliation was planned"                              *)
RefuseStale(p) ==
  /\ pc = "planned"
  /\ \A q \in Programs : Part(q).verdict = "ok"
  /\ Changed(p)
  /\ Report({p}, {}, {})
  /\ UNCHANGED <<disk, torn, written>>

(* ApplyStop::PrivateDir: the directory of a keyed file that is not there  *)
(* cannot be made, before the first write.                                 *)
DirFails(p) ==
  /\ pc = "planned" /\ IOFaults
  /\ \A q \in Programs : Part(q).verdict = "ok" /\ ~Changed(q)
  /\ mode[p] = "keyed" /\ plan.config[p].status = "configured"
  /\ plan.file[p].kind = "absent" /\ ~plan.sidecar[p].present
  /\ Report({p}, {}, {})
  /\ UNCHANGED <<disk, torn, written>>

Validate ==
  /\ pc = "planned"
  /\ \A p \in Programs : Part(p).verdict = "ok" /\ ~Changed(p)
  /\ pc' = "file"
  /\ UNCHANGED <<mode, disk, config, at, plan, report, result, bounds, history>>

Removes(p) == Part(p).file.kind = "absent" /\ plan.file[p].kind # "absent"
FileOp(p) == Part(p).file # plan.file[p]

(* plan_merge_with always plans a write of the sidecar, which              *)
(* already_in_place skips while an identical one is there.                 *)
SidecarOp(p) ==
  \/ Part(p).sidecar # plan.sidecar[p]
  \/ Part(p).sidecar.present /\ plan.config[p].status = "configured" /\ ~sidecar[p].present

(* apply_tracked performs the operations of each program in turn, the      *)
(* settings file before its sidecar.                                       *)
WriteFile ==
  /\ pc = "file"
  /\ FileOp(at) /\ Removes(at) => file[at].kind # "absent"
  /\ file' = IF FileOp(at) THEN [file EXCEPT ![at] = Part(at).file] ELSE file
  /\ written' = IF FileOp(at) THEN written \cup {at} ELSE written
  /\ pc' = "sidecar"
  /\ UNCHANGED <<mode, sidecar, config, at, plan, report, result, bounds, mine, touched, raced, torn>>

(* Without a sidecar an entry of the daemon's under a name that is no      *)
(* longer managed is taken for the user's.                                 *)
Adopts(p) ==
  /\ mode[p] = "keyed" /\ plan.config[p].status = "configured" /\ ~plan.sidecar[p].present
  /\ \E k \in Reserved : plan.config[p].doc[k] = None /\ plan.file[p].doc[k] \in ManagedValues

WriteSidecar ==
  /\ pc = "sidecar"
  /\ SidecarOp(at) /\ ~Part(at).sidecar.present => sidecar[at].present
  /\ sidecar' = IF SidecarOp(at) THEN [sidecar EXCEPT ![at] = Part(at).sidecar] ELSE sidecar
  /\ written' = IF sidecar' # sidecar THEN written \cup {at} ELSE written
  /\ torn' = IF Adopts(at) THEN torn \cup {at} ELSE torn
  /\ UNCHANGED file
  /\ IF at = NPrograms
       THEN Report({}, {}, Programs)
       ELSE /\ pc' = "file" /\ at' = at + 1
            /\ UNCHANGED <<mode, config, plan, report, result, bounds, mine, touched, raced>>

(* The settings were written and what records them as managed was not.  A  *)
(* keyed program without a sidecar still knows its entries by their names. *)
Tearing ==
  IF /\ pc = "sidecar" /\ FileOp(at) /\ Part(at).sidecar.present
     /\ mode[at] = "keyed" => plan.sidecar[at].present
    THEN {at} ELSE {}

(* ApplyStop::Operation: a write fails, or the file to remove is gone.     *)
WriteFails ==
  /\ \/ /\ pc = "file" /\ FileOp(at)
        /\ IOFaults \/ (Removes(at) /\ file[at].kind = "absent")
     \/ /\ pc = "sidecar" /\ SidecarOp(at)
        /\ IOFaults \/ ~(Part(at).sidecar.present \/ sidecar[at].present)
  /\ torn' = torn \cup Tearing
  /\ Report({at}, {}, 1 .. at - 1)
  /\ UNCHANGED <<disk, written>>

(* The daemon stops during an apply and starts again.                      *)
Crash ==
  /\ pc # "idle" /\ crashes < MaxCrashes
  /\ crashes' = crashes + 1
  /\ torn' = torn \cup Tearing
  /\ pc' = "idle" /\ at' = 1 /\ plan' = NoPlan
  /\ report' = [p \in Programs |-> "none"] /\ result' = "none"
  /\ UNCHANGED <<mode, disk, config, changes, mine, touched, raced, written>>

-----------------------------------------------------------------------------
(* The user and the configuration, at any time.                            *)

(* What the user has made of a document once it reads d.  A whole file the *)
(* daemon owns is not the user's, whatever they change in it.              *)
MineAfter(p, d) ==
  CASE mode[p] = "owned"  -> IF sidecar[p].present THEN mine[p] ELSE d
    [] mode[p] = "headed" -> IF \E k \in Settings : d[k] \in ManagedValues THEN mine[p] ELSE d
    [] OTHER -> [k \in Settings |-> IF d[k] = file[p].doc[k] THEN mine[p][k] ELSE d[k]]

Touch(p) ==
  /\ changes < MaxChanges
  /\ changes' = changes + 1
  /\ touched' = touched \cup {p}
  /\ raced' = IF pc \in {"file", "sidecar"} /\ p >= at THEN raced \cup {p} ELSE raced
  /\ UNCHANGED <<mode, config, apply, crashes, torn, written>>

Edit(p, f) ==
  /\ f # file[p]
  /\ file' = [file EXCEPT ![p] = f]
  /\ mine' = [mine EXCEPT ![p] = MineAfter(p, f.doc)]
  /\ Touch(p)
  /\ UNCHANGED sidecar

SetValue(p, k, v) ==
  /\ file[p].kind \in {"absent", "blank", "doc"}
  /\ v # file[p].doc[k]
  /\ Edit(p, Document([file[p].doc EXCEPT ![k] = v]))

(* What carries the pairing, copilot's two providers and vscode's vendor,  *)
(* is in every managed document; only the models under them differ.        *)
Carriers == {k \in Reserved : \A d \in ManagedDocs("keyed") : d[k] # None}

(* A daemon of another pairing has left an entry.                          *)
LeaveEntry(p, k, v) == mode[p] = "keyed" /\ SetValue(p, k, v)

EmptyFile(p, kind) == Edit(p, [kind |-> kind, doc |-> Empty])

(* The file stops or starts to parse, or to be readable.                   *)
SpoilFile(p, kind) ==
  /\ file[p].kind \in {"doc", "invalid", "unreadable"}
  /\ Edit(p, [file[p] EXCEPT !.kind = kind])

(* Only the keyed providers find their entries without the sidecar.        *)
DeleteSidecar(p) ==
  /\ mode[p] = "keyed" /\ sidecar[p].present
  /\ sidecar' = [sidecar EXCEPT ![p] = NoState]
  /\ Touch(p)
  /\ UNCHANGED <<file, mine>>

Configure(p, c) ==
  /\ changes < MaxChanges /\ c # config[p]
  /\ changes' = changes + 1
  /\ config' = [config EXCEPT ![p] = c]
  /\ touched' = touched \cup {p}
  /\ UNCHANGED <<mode, disk, apply, crashes, mine, raced, torn, written>>

-----------------------------------------------------------------------------
ApplyStep == PlanAll \/ Refuse \/ Validate \/ WriteFile \/ WriteSidecar \/ WriteFails \/ Crash
               \/ \E p \in Programs : RefuseStale(p) \/ DirFails(p)

UserStep ==
  \E p \in Programs :
    \/ \E k \in Settings, v \in UserValues \cup {None} : SetValue(p, k, v)
    \/ \E k \in Carriers, v \in OtherPairing : LeaveEntry(p, k, v)
    \/ \E kind \in {"absent", "blank"} : EmptyFile(p, kind)
    \/ \E kind \in {"doc", "invalid", "unreadable"} : SpoilFile(p, kind)
    \/ DeleteSidecar(p)
    \/ \E c \in Wants(mode[p]) : Configure(p, c)

Next == ApplyStep \/ UserStep

Spec == Init /\ [][Next]_vars

-----------------------------------------------------------------------------
TypeOK ==
  /\ mode \in Modes
  /\ file \in [Programs -> Files] /\ sidecar \in [Programs -> States]
  /\ \A p \in Programs : mode[p] = "headed" => sidecar[p] = NoState /\ plan.sidecar[p] = NoState
  /\ config \in [Programs -> [status : Statuses, doc : Docs, paired : BOOLEAN]]
  /\ plan \in [config : [Programs -> [status : Statuses, doc : Docs, paired : BOOLEAN]],
               file : [Programs -> Files], sidecar : [Programs -> States]]
  /\ \A p \in Programs : config[p] \in Wants(mode[p]) /\ plan.config[p] \in Wants(mode[p])
  /\ pc \in {"idle", "planned", "file", "sidecar"} /\ at \in Programs
  /\ report \in [Programs -> Outcomes] /\ result \in {"none", "ok", "error"}
  /\ changes \in 0 .. MaxChanges /\ crashes \in 0 .. MaxCrashes
  /\ mine \in [Programs -> Docs]
  /\ touched \subseteq Programs /\ raced \subseteq Programs /\ torn \subseteq Programs
  /\ written \subseteq Programs

(* Whatever order of applies, edits, failed writes and restarts came       *)
(* before, a program that an apply has left without management has in its  *)
(* file what the user made of it: the values from before the first merge   *)
(* and every edit since (the sidecar's before and after in json_merge.rs), *)
(* the names of a keyed provider apart.                                    *)
Unmanaged(p) == pc = "idle" /\ report[p] \in {"removed", "unlisted", "optedOut"}
Named(h, k) == h = "keyed" /\ k \in Reserved
UserContentKept ==
  \A p \in Programs \ (raced \cup torn), k \in Settings :
    Unmanaged(p) /\ ~Named(mode[p], k) => file[p].doc[k] = mine[p][k]

(* Under those names nothing of this daemon's is left, even if the sidecar *)
(* was deleted or never written (plan_remove_orphaned), unless the         *)
(* provider could not read the file.  What carries another pairing stays   *)
(* (copilot/tests.rs:1087).                                                *)
NamesCleared ==
  \A p \in Programs \ (torn \cup touched), k \in Settings :
    Unmanaged(p) /\ Named(mode[p], k) /\ file[p].kind \notin {"invalid", "unreadable"}
      => file[p].doc[k] \notin ManagedValues

(* A program reported applied or unchanged has the managed values in its   *)
(* file, also those the user had changed, and a whole file nothing else.   *)
AppliedInPlace ==
  \A p \in Programs \ touched, k \in Settings :
    report[p] \in {"applied", "unchanged"} =>
      LET m == config[p].doc
      IN  /\ file[p].kind = "doc"
          /\ m[k] # None \/ mode[p] \in {"owned", "headed"} => file[p].doc[k] = m[k]

(* "The program had changes, but none of them was written because the      *)
(* apply was refused or stopped" (ProgramState::Blocked), and a conflict   *)
(* anywhere means that nothing is written (AttributedPlan::apply).         *)
BlockedUnwritten ==
  \A p \in Programs : /\ report[p] = "blocked" => p \notin written
                      /\ report[p] = "conflict" => written = {}

(* What an apply reports of a program is what it left on disk.             *)
ReportHolds == NamesCleared /\ (pc = "idle" => AppliedInPlace /\ BlockedUnwritten)

(* Applying again changes nothing: after a successful apply every plan is  *)
(* empty until a file or the configuration changes (already_in_place).     *)
Idempotent ==
  pc = "idle" /\ result = "ok" =>
    \A p \in Programs \ (touched \cup torn) :
      PlanProgram(mode[p], config[p], file[p], sidecar[p]) = Planned(file[p], sidecar[p])
=============================================================================
