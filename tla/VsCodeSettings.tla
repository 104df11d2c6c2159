--------------------------- MODULE VsCodeSettings ---------------------------
(***************************************************************************)
(* VS Code's settings.json for GitHub's own models                         *)
(* (provider/vscode/settings.rs): the override of Copilot Chat's address   *)
(* and the two entries that keep it out of settings sync are edited in     *)
(* place, and a sidecar records what removal must restore.                 *)
(*                                                                         *)
(* A file has the override, the ignore list and other content.  The text   *)
(* around them, which the syntax tree preserves, is left out.              *)
(***************************************************************************)
(* The user's override, an explicit null, and the addresses daemons write. *)
NoOverride == "none"
CapiUrls == {"capi1", "capi2"}
Overrides == {NoOverride, "user", "null"} \cup CapiUrls

(* OVERRIDE_KEY and CAPI_ALIAS_KEY as entries of the ignore list.          *)
Ours == {"override", "alias"}
Lists == {l \in [present : BOOLEAN, entries : SUBSET (Ours \cup {"user"})] :
            l.present \/ l.entries = {}}
NoList == [present |-> FALSE, entries |-> {}]

(* invalid: not VS Code's JSONC, not an object, a managed key twice, or an *)
(* ignore list that is not an array (SettingsConflict).                    *)
SettingsFiles ==
  [kind : {"absent", "blank", "object", "invalid", "unreadable"},
   override : Overrides, ignored : Lists, other : BOOLEAN]
Bare(kind) == [kind |-> kind, override |-> NoOverride, ignored |-> NoList, other |-> FALSE]
NoFile == Bare("absent")

(* SettingsState; a legacy sidecar holds the whole document from before.   *)
SettingsStates ==
  [form : {"v2"}, created : BOOLEAN, override_before : Overrides,
   added_ignored : SUBSET Ours, ignored_created : BOOLEAN]
LegacyStates == [form : {"legacy"}, created : BOOLEAN, before : [override : Overrides, ignored : Lists]]
NoSidecar == [form |-> "none"]
BadSidecar == [form |-> "bad"]

(* read_state: the earlier form is upgraded.                               *)
read_state(s) ==
  IF s.form # "legacy" THEN s
  ELSE [form            |-> "v2",
        created         |-> s.created,
        override_before |-> s.before.override,
        added_ignored   |-> Ours \ s.before.ignored.entries,
        ignored_created |-> ~s.before.ignored.present]

is_daemon_capi_url(v) == v \in CapiUrls

(* The file and the sidecar after an edit.  The record of the first apply  *)
(* stays; without one, an override that a daemon wrote is not the user's.  *)
edit_settings(f, url, s) ==
  LET missing == Ours \ f.ignored.entries
      fresh   == ~f.ignored.present
      ours    == is_daemon_capi_url(f.override)
      alone   == f.ignored.entries \subseteq Ours
      state   == IF s.form = "v2"
        THEN [form            |-> "v2",
              created         |-> s.created \/ f.kind = "absent",
              override_before |-> s.override_before,
              added_ignored   |-> s.added_ignored \cup missing,
              ignored_created |-> s.ignored_created \/ fresh]
        ELSE [form            |-> "v2",
              created         |-> f.kind = "absent",
              override_before |-> IF ours THEN NoOverride ELSE f.override,
              added_ignored   |-> IF ours THEN Ours ELSE missing,
              ignored_created |-> fresh \/ (ours /\ alone)]
  IN  [file  |-> [kind |-> "object", override |-> url, other |-> f.other,
                  ignored |-> [present |-> TRUE, entries |-> f.ignored.entries \cup Ours]],
       state |-> state]

(* The file after a removal; NoFile deletes it.  Without a sidecar only an *)
(* override that a daemon wrote goes, with the entries beside it.          *)
remove_settings(f, s) ==
  LET known   == s.form = "v2"
      entries == f.ignored.entries \ (IF known THEN s.added_ignored ELSE Ours)
      dropped == f.ignored.present /\ entries = {} /\ (known => s.ignored_created)
      rest    == [kind     |-> "object",
                  override |-> IF known THEN s.override_before ELSE NoOverride,
                  ignored  |-> IF dropped THEN NoList ELSE [f.ignored EXCEPT !.entries = entries],
                  other    |-> f.other]
  IN  IF f.kind = "absent" THEN f
      ELSE IF f.kind = "blank" THEN IF known /\ s.created THEN NoFile ELSE f
      ELSE IF ~known /\ (f.kind # "object" \/ ~is_daemon_capi_url(f.override)) THEN f
      ELSE IF known /\ s.created /\ rest = Bare("object") THEN NoFile
      ELSE rest
=============================================================================
