--------------------------- MODULE ManagedPrograms ---------------------------
(***************************************************************************)
(* The plans of the providers that manage more than a merged file, and     *)
(* their application: codex, grok and opencode (whole files that begin     *)
(* with a header), claude_desktop (a file or the registry key, and a       *)
(* credential helper with an owner marker), pi (two merged files), copilot *)
(* (merged entries under reserved names) and vscode (such entries as chat  *)
(* models, or settings, which exclude each other).                         *)
(*                                                                         *)
(* One program at a time: reconcile/plan.rs applies the operations of a    *)
(* plan in order, and a program's files are its own (module Reconciler has *)
(* several programs and their reports).                                    *)
(***************************************************************************)
EXTENDS GatewayDocuments, Integers

V == INSTANCE VsCodeSettings
P == INSTANCE ProxyRoutes
R == INSTANCE PolicyRegistry WITH Data <- UserValues \cup ManagedValues, NoData <- None

CONSTANTS
  Hosts,                     \* the programs, with the daemon's scope and platform
  Configs(_),                \* the configurations a program may be sent
  MaxEdits, MaxConfigs, MaxRestarts

Programs == {"codex", "grok", "opencode", "pi", "claude-desktop", "copilot", "vscode"}

VARIABLES
  host,      \* the program, whether a user daemon manages it, and on Windows
  disk,      \* its files and sidecars, and the registry key
  loose,     \* files whose mode grants more than the daemon gives them
  config,    \* the configuration, or NotConfigured
  proxy,     \* the local proxy: None, or the pairing in its addresses
  pc, plan, done,  \* the apply: its phase, its plan, operations performed
  result,    \* what the last apply returned
  edits, configs, restarts,
  mine,      \* what the user or an administrator set while it was theirs
  torn,      \* files an apply wrote and was stopped before recording
  fresh      \* nothing but applies has happened since the last one began

vars == <<host, disk, loose, config, proxy, pc, plan, done, result, edits, configs, restarts,
          mine, torn, fresh>>

program == host.program

NoGateway == [present |-> FALSE, sound |-> TRUE, authentication |-> "none", proxy_url |-> FALSE,
              github |-> "none", when_unavailable |-> "failClosed"]
NotConfigured ==
  [configured |-> FALSE, gateway |-> NoGateway, use_llm_gateway |-> FALSE, subscription |-> FALSE,
   sandbox |-> FALSE, model |-> None, models |-> {}, extra |-> {}, nulls |-> {},
   copilot_chat |-> "ownModels"]

(* The programs of this module; a configuration that leaves a program out  *)
(* has no gateway or settings for it.                                      *)
ASSUME HostsAssumption ==
  /\ Hosts \subseteq [program : Programs, user : BOOLEAN, windows : BOOLEAN]
  /\ \A h \in Hosts : \A c \in Configs(h.program) :
       /\ c.configured \/ c = NotConfigured
       /\ c.copilot_chat \in {"ownModels", "githubModels"}
       /\ c.model # Null

-----------------------------------------------------------------------------
(* A plan: its verdict, its operations in order, the files it was made     *)
(* from.  Later calls append to it; a failure wins.                        *)
Piece(verdict, ops, reads) == [verdict |-> verdict, ops |-> ops, reads |-> reads]
Nothing == Piece("ok", << >>, {})
Then(a, b) ==
  [verdict |-> CASE "failed" \in {a.verdict, b.verdict} -> "failed"
                 [] "conflict" \in {a.verdict, b.verdict} -> "conflict"
                 [] OTHER -> "ok",
   ops |-> a.ops \o b.ops, reads |-> a.reads \cup b.reads]

(* write_file and remove_file; keep: with the mode the file has.           *)
Put(path, x) == [op |-> "write", path |-> path, to |-> x, keep |-> FALSE]
PutKeeping(path, x) == [op |-> "write", path |-> path, to |-> x, keep |-> TRUE]
Unlink(path, x) == [op |-> "unlink", path |-> path, to |-> x, keep |-> FALSE]

Headed(d) == Document([d EXCEPT !["header"] = "ours"])
HasHeader(f) == f.doc["header"] = "ours"

\* Mutant of HeadedFile: a file without the header is replaced.
HeadedFileAlways(path, d, f, l) ==
  IF f.kind = "unreadable" THEN Piece("failed", << >>, {path})
  ELSE IF f = Headed(d) /\ path \notin l THEN Piece("ok", << >>, {path})
  ELSE Piece("ok", <<Put(path, Headed(d))>>, {path})

(* codex and grok plan, opencode reconcile_file.                           *)
HeadedFile(path, d, f, l) ==
  IF f.kind = "unreadable" THEN Piece("failed", << >>, {path})
  ELSE IF f = Headed(d) /\ path \notin l THEN Piece("ok", << >>, {path})
  ELSE IF f.kind # "absent" /\ ~HasHeader(f) THEN Piece("conflict", << >>, {path})
  ELSE Piece("ok", <<Put(path, Headed(d))>>, {path})

(* codex and grok remove, opencode remove_owned.                           *)
RemoveHeaded(path, f) ==
  IF f.kind = "unreadable" THEN Piece("failed", << >>, {path})
  ELSE Piece("ok", IF HasHeader(f) THEN <<Unlink(path, Absent)>> ELSE << >>, {path})

(* The owner marker of claude_desktop's files.                             *)
Marker == Document(Of("header", "ours"))
Owner(path) == IF path = "settings" THEN "settings.owner" ELSE "helper.owner"
is_owned(path, fs) == fs[Owner(path)] = Marker

write_owned(path, d, fs, l) ==
  LET reads == {path, Owner(path)}
      same  == fs[path] = Document(d)
  IN  IF fs[path].kind = "unreadable" THEN Piece("failed", << >>, reads)
      ELSE IF same /\ path \notin l
        THEN Piece("ok", IF is_owned(path, fs) THEN << >> ELSE <<Put(Owner(path), Marker)>>, reads)
      ELSE IF fs[path].kind # "absent" /\ ~is_owned(path, fs) /\ ~same
        THEN Piece("conflict", << >>, reads)
      ELSE Piece("ok", <<Put(path, Document(d)), Put(Owner(path), Marker)>>, reads)

remove_owned(path, fs) ==
  LET reads == {path, Owner(path)}
  IN  IF ~is_owned(path, fs) THEN Piece("ok", << >>, {Owner(path)})
      ELSE IF fs[path].kind = "unreadable" THEN Piece("failed", << >>, reads)
      ELSE Piece("ok", (IF fs[path].kind = "absent" THEN << >> ELSE <<Unlink(path, Absent)>>)
                         \o <<Unlink(Owner(path), Absent)>>, reads)

(* A merged file and its sidecar, as JsonMerge plans them: the file first. *)
State(path) == CASE path = "models" -> "models.state"
                 [] path = "chat" -> "chat.state"
                 [] path = "providers" -> "providers.state"
                 [] path = "settings" -> "settings.state"
Merged(path, p, fs, l, removing) ==
  LET reads == {path, State(path)}
      same  == p.file = fs[path] /\ (removing \/ path \notin l)
      file  == IF same THEN << >>
               ELSE IF p.file = Absent THEN <<Unlink(path, Absent)>>
               ELSE IF removing THEN <<PutKeeping(path, p.file)>> ELSE <<Put(path, p.file)>>
      state == IF removing
        THEN IF fs[State(path)].present /\ ~p.sidecar.present THEN <<Unlink(State(path), NoState)>> ELSE << >>
        ELSE <<Put(State(path), p.sidecar)>>
  IN  Piece(p.verdict, IF p.verdict = "ok" THEN file \o state ELSE << >>, reads)

MergeInto(h, path, d, fs, l) == Merged(path, PlanMerge(h, d, fs[path], fs[State(path)]), fs, l, FALSE)
TakeOut(h, path, fs) == Merged(path, PlanRemove(h, ManagedValues, fs[path], fs[State(path)]), fs, {}, TRUE)

-----------------------------------------------------------------------------
(* Provider::plan of each program, from configuration c and files fs with  *)
(* modes l, while the proxy is x.                                          *)

Unless(m, p) == IF m.ok THEN p ELSE Piece("failed", << >>, {})

PlanCodex(c, fs, l) ==
  IF ~c.configured THEN RemoveHeaded("config", fs["config"])
  ELSE Unless(CodexConfig(c), HeadedFile("config", CodexConfig(c).doc, fs["config"], l))

PlanGrok(c, fs, l) ==
  IF ~c.configured THEN RemoveHeaded("config", fs["config"])
  ELSE Unless(GrokConfig(c), HeadedFile("config", GrokConfig(c).doc, fs["config"], l))

(* The plugin is written before the configuration that names it and        *)
(* removed before the one that no longer does.                             *)
PlanOpenCode(c, fs, l) ==
  LET plugin == IF uses_credential_helper(c)
                  THEN HeadedFile("plugin", credential_plugin, fs["plugin"], l)
                  ELSE RemoveHeaded("plugin", fs["plugin"])
  IN  IF ~c.configured
        THEN Then(RemoveHeaded("config", fs["config"]), RemoveHeaded("plugin", fs["plugin"]))
      ELSE Then(plugin, Unless(OpenCodeConfig(c),
                               HeadedFile("config", OpenCodeConfig(c).doc, fs["config"], l)))

PlanPi(c, fs, l) ==
  IF ~c.configured THEN Then(TakeOut("merge", "models", fs), TakeOut("merge", "settings", fs))
  ELSE Then(Unless(PiModels(c), MergeInto("merge", "models", PiModels(c).doc, fs, l)),
            Unless(PiSettings(c), MergeInto("merge", "settings", PiSettings(c).doc, fs, l)))

(* plan_managed_settings: the registry key on Windows, where registry_values *)
(* refuses some names, and a file elsewhere.                               *)
Policy(d, fs) ==
  LET key     == fs["policy"]
      desired == [n \in R!Names |-> d[n]]
      changes == R!plan_registry_settings(key, desired)
      ops     == [i \in 1 .. Len(changes) |-> [op |-> "registry", path |-> "policy", to |-> changes[i]]]
  IN  IF d["odd"] # None THEN Piece("failed", << >>, {})
      ELSE IF R!Foreign(key, desired) # {} THEN Piece("conflict", << >>, {})
      ELSE Piece("ok", ops, IF ops = << >> THEN {} ELSE {"policy"})

(* remove_legacy_settings_file is remove_owned of what an agentdesktop     *)
(* without the registry target wrote.                                      *)
PlanDesktop(c, fs, l, windows) ==
  LET managed == DesktopSettings(c).doc
      helper  == IF uses_credential_helper(c) THEN write_owned("helper", credential_helper_contents, fs, l)
                                              ELSE remove_owned("helper", fs)
      removed == remove_owned("settings", fs)
  IN  CASE ~c.configured /\ windows ->
             Then(Then(removed, remove_owned("helper", fs)), Policy(Empty, fs))
        [] ~c.configured /\ ~windows -> Then(removed, remove_owned("helper", fs))
        [] c.configured /\ windows -> Then(Then(helper, removed), Policy(managed, fs))
        [] c.configured /\ ~windows -> Then(helper, write_owned("settings", managed, fs, l))

(* Without the proxy the managed entries stay as they are.                 *)
fail_closed_without_proxy(c) == c.gateway.when_unavailable = "failClosed"

(* The entries are those of pairing x, or without x of some daemon's.      *)
paired(f, x) == f.doc["vendor"] \in IF x = None THEN Pairings ELSE {x}

(* remove of copilot and of vscode: by pairing without a sidecar, when the *)
(* entries of another pairing stay.                                        *)
RemoveEntries(path, fs, x) ==
  LET f       == fs[path]
      known   == fs[State(path)].present
      foreign == ~known /\ paired(f, None) /\ ~paired(f, x)
      skipped == ~known /\ f.kind = "unreadable"
  IN  IF foreign \/ skipped
        THEN Piece("ok", << >>, {State(path)} \cup (IF skipped THEN {} ELSE {path}))
      ELSE TakeOut("keyed", path, fs)

\* Mutant of PlanEntries: without the proxy the entries of this daemon are removed.
PlanEntriesOpen(path, c, fs, l, x) ==
  IF gateway(c) /\ x # None THEN MergeInto("keyed", path, ManagedEntries(x), fs, l)
  ELSE RemoveEntries(path, fs, x)

(* reconcile::plan of copilot and of vscode.                               *)
PlanEntries(path, c, fs, l, x) ==
  IF ~gateway(c) THEN RemoveEntries(path, fs, x)
  ELSE IF x # None THEN MergeInto("keyed", path, ManagedEntries(x), fs, l)
  ELSE IF fail_closed_without_proxy(c) THEN Piece("ok", << >>, {path})
  ELSE RemoveEntries(path, fs, None)

PlanCopilot(c, fs, l, x) == PlanEntries("providers", c, fs, l, x)

\* Mutant of PlanChat: with GitHub's models the chat models are left alone.
PlanChatOnly(c, fs, l, x) ==
  IF c.configured /\ c.copilot_chat = "githubModels" THEN Nothing
  ELSE PlanEntries("chat", c, fs, l, x)

PlanChat(c, fs, l, x) ==
  IF c.copilot_chat = "ownModels" THEN PlanEntries("chat", c, fs, l, x)
  ELSE RemoveEntries("chat", fs, x)

(* The address VS Code is given for a pairing.                             *)
override_url(x) == IF x = "pairing1" THEN "capi1" ELSE "capi2"

(* settings::plan with the proxy: the sidecar is written first.            *)
EditSettings(fs, l, x) ==
  LET f     == fs["settings"]
      s     == V!read_state(fs["settings.state"])
      reads == {"settings", "settings.state"}
      next  == V!edit_settings(f, override_url(x), s)
      state == IF next.state = fs["settings.state"] THEN << >>
               ELSE <<Put("settings.state", next.state)>>
      file  == IF next.file = f /\ "settings" \notin l THEN << >> ELSE <<Put("settings", next.file)>>
  IN  IF f.kind = "unreadable" \/ s = V!BadSidecar THEN Piece("failed", << >>, reads)
      ELSE IF f.kind = "invalid" THEN Piece("conflict", << >>, reads)
      ELSE Piece("ok", state \o file, reads)

(* settings::remove: the sidecar goes last.                                *)
RemoveSettings(fs) ==
  LET f     == fs["settings"]
      s     == V!read_state(fs["settings.state"])
      reads == {"settings", "settings.state"}
      known == s # V!NoSidecar
      rest  == V!remove_settings(f, s)
      file  == IF rest = f THEN << >>
               ELSE IF rest = V!NoFile THEN <<Unlink("settings", V!NoFile)>>
               ELSE <<PutKeeping("settings", rest)>>
  IN  IF s = V!BadSidecar THEN Piece("failed", << >>, reads)
      ELSE IF ~known /\ f.kind = "unreadable" THEN Piece("ok", << >>, {"settings.state"})
      ELSE IF f.kind = "unreadable" THEN Piece("failed", << >>, reads)
      ELSE IF known /\ f.kind = "invalid" THEN Piece("conflict", << >>, reads)
      ELSE Piece("ok", file \o (IF known THEN <<Unlink("settings.state", V!NoSidecar)>> ELSE << >>), reads)

PlanSettings(c, fs, l, x) ==
  IF ~(gateway(c) /\ c.copilot_chat = "githubModels" /\ c.gateway.proxy_url) THEN RemoveSettings(fs)
  ELSE IF x # None THEN EditSettings(fs, l, x)
  ELSE IF fail_closed_without_proxy(c) THEN Piece("ok", << >>, {"settings"})
  ELSE RemoveSettings(fs)

PlanVsCode(c, fs, l, x) == Then(PlanChat(c, fs, l, x), PlanSettings(c, fs, l, x))

(* skip_unless: the scope in which a provider reads and writes at all.     *)
InScope(h) == CASE h.program \in {"grok", "claude-desktop"} -> ~h.user
                [] h.program \in {"pi", "copilot", "vscode"} -> h.user
                [] OTHER -> TRUE

PlanFor(h, c, fs, l, x) ==
  IF ~InScope(h) THEN Nothing
  ELSE CASE h.program = "codex" -> PlanCodex(c, fs, l)
         [] h.program = "grok" -> PlanGrok(c, fs, l)
         [] h.program = "opencode" -> PlanOpenCode(c, fs, l)
         [] h.program = "pi" -> PlanPi(c, fs, l)
         [] h.program = "claude-desktop" -> PlanDesktop(c, fs, l, h.windows)
         [] h.program = "copilot" -> PlanCopilot(c, fs, l, x)
         [] h.program = "vscode" -> PlanVsCode(c, fs, l, x)

-----------------------------------------------------------------------------
(* Applying a plan: reconcile/plan.rs apply_tracked.                       *)

InPlace(fs, l, o) == o.op = "write" /\ fs[o.path] = o.to /\ (o.keep \/ o.path \notin l)

Performed(fs, o) ==
  [fs EXCEPT ![o.path] = IF o.op = "registry" THEN R!Changed(@, o.to) ELSE o.to]

Missing(fs, o) == o.op = "unlink" /\ fs[o.path] = o.to

NoPlan == [verdict |-> "ok", ops |-> << >>, observed |-> << >>]

See(path, fs) == IF path = "policy" THEN R!read_values(fs[path]) ELSE fs[path]

End(r) == pc' = "idle" /\ plan' = NoPlan /\ done' = 0 /\ result' = r

(* The program's plan, made under the lock from what the provider reads.   *)
PlanAll ==
  LET p == PlanFor(host, config, disk, loose, proxy)
  IN  /\ pc = "idle"
      /\ pc' = "planned" /\ done' = 0 /\ result' = "none" /\ fresh' = TRUE
      /\ plan' = [verdict |-> p.verdict, ops |-> p.ops, observed |-> [q \in p.reads |-> See(q, disk)]]
      /\ UNCHANGED <<host, disk, loose, config, proxy, edits, configs, restarts, mine, torn>>

Stale == \E q \in DOMAIN plan.observed : See(q, disk) # plan.observed[q]

(* A failed plan, a conflict, or a file or key that changed since.         *)
Refuse ==
  /\ pc = "planned" /\ (plan.verdict # "ok" \/ Stale)
  /\ End(IF plan.verdict = "ok" THEN "failed" ELSE plan.verdict)
  /\ UNCHANGED <<host, disk, loose, config, proxy, edits, configs, restarts, mine, torn, fresh>>

Validate ==
  /\ pc = "planned" /\ plan.verdict = "ok" /\ ~Stale
  /\ IF plan.ops = << >> THEN End("ok") ELSE pc' = "applying" /\ UNCHANGED <<plan, done, result>>
  /\ UNCHANGED <<host, disk, loose, config, proxy, edits, configs, restarts, mine, torn, fresh>>

(* The next operation, unless its file is as planned already.              *)
Perform ==
  LET o == plan.ops[done + 1]
  IN  /\ pc = "applying" /\ ~Missing(disk, o)
      /\ disk' = IF InPlace(disk, loose, o) THEN disk ELSE Performed(disk, o)
      /\ loose' = IF o.op = "unlink" \/ (o.op = "write" /\ ~o.keep) THEN loose \ {o.path} ELSE loose
      /\ IF done + 1 = Len(plan.ops) THEN End("ok")
         ELSE done' = done + 1 /\ UNCHANGED <<pc, plan, result>>
      /\ torn' = torn \ {path \in {"settings", "helper"} : program = "claude-desktop" /\ o.path = Owner(path)}
      /\ UNCHANGED <<host, config, proxy, edits, configs, restarts, mine, fresh>>

(* The files whose marker or sidecar is what the next operation writes.    *)
Unrecorded ==
  LET record(path) == IF program = "claude-desktop" THEN Owner(path) ELSE State(path)
      files == CASE program = "claude-desktop" -> {"settings", "helper"}
                 [] program = "pi" -> {"models", "settings"}
                 [] OTHER -> {}
  IN  {path \in files : /\ done > 0
                        /\ plan.ops[done].op = "write" /\ plan.ops[done].path = path
                        /\ plan.ops[done + 1].path = record(path)}

(* An operation fails or the daemon is stopped; what was performed stays.  *)
OperationFails ==
  /\ pc = "applying" /\ End("failed")
  /\ torn' = torn \cup Unrecorded
  /\ UNCHANGED <<host, disk, loose, config, proxy, edits, configs, restarts, mine, fresh>>

(* The daemon starts again, with another listener and pairing or without   *)
(* the proxy.                                                              *)
Restart(x) ==
  /\ pc = "idle" /\ x # proxy /\ restarts < MaxRestarts /\ restarts' = restarts + 1
  /\ proxy' = x /\ End("none") /\ fresh' = FALSE
  /\ UNCHANGED <<host, disk, loose, config, edits, configs, mine, torn>>

(* A configuration that parse_daemon accepts becomes the current one.      *)
Configure ==
  /\ pc = "idle" /\ configs < MaxConfigs /\ configs' = configs + 1
  /\ \E c \in Configs(program) :
       /\ c # config /\ (c.configured => validate_daemon(program, c))
       /\ config' = c
  /\ fresh' = FALSE
  /\ UNCHANGED <<host, disk, loose, proxy, pc, plan, done, result, edits, restarts, mine, torn>>

-----------------------------------------------------------------------------
(* The user, and on the registry key an administrator, before or after the *)
(* plan is made.  (Edits during the writes are in module Reconciler.)      *)

Whole == CASE program \in {"codex", "grok"} -> {"config"}
           [] program = "opencode" -> {"config", "plugin"}
           [] program = "claude-desktop" -> {"settings", "helper"}
           [] OTHER -> {}
(* Files with entries under reserved names.                                *)
Entries == CASE program = "copilot" -> {"providers"} [] program = "vscode" -> {"chat"} [] OTHER -> {}
Documents == Whole \cup Entries \cup (IF program = "pi" THEN {"models", "settings"} ELSE {})

(* Whether the daemon takes the file for its own.                          *)
TakenForManaged(path) ==
  IF program = "claude-desktop" THEN is_owned(path, disk) ELSE HasHeader(disk[path])

Edit(path, x) ==
  /\ x # disk[path] /\ edits' = edits + 1
  /\ disk' = [disk EXCEPT ![path] = x]
  /\ fresh' = FALSE
  /\ UNCHANGED <<host, config, proxy, pc, plan, done, result, configs, restarts>>

EditDocument(path) ==
  LET f == disk[path]
  IN  \E x \in {Absent, Document([f.doc EXCEPT !["other"] = "user"]),
                [f EXCEPT !.kind = IF f.kind = "doc" THEN "unreadable" ELSE "doc"]}
               \cup (IF path \in Entries THEN {Document([f.doc EXCEPT !["vendor"] = "user"])} ELSE {}) :
        /\ f.kind = "unreadable" => x.kind = "doc"
        /\ f.kind = "absent" => x.doc # Empty
        /\ Edit(path, x)
        /\ torn' = IF x = Absent THEN torn \ {path} ELSE torn
        /\ mine' = IF path \in Whole /\ ~TakenForManaged(path) /\ x.doc # f.doc
                     THEN [mine EXCEPT ![path] = x.doc] ELSE mine
        /\ loose' = loose \ {path}

Loosen(path) ==
  /\ path \notin loose /\ edits' = edits + 1
  /\ disk[path].kind \notin {"absent", "unreadable"}
  /\ loose' = loose \cup {path} /\ fresh' = FALSE
  /\ UNCHANGED <<host, disk, config, proxy, pc, plan, done, result, configs, restarts, mine, torn>>

(* settings.json: the override is the user's while there is no sidecar.    *)
EditVsCode ==
  LET f == disk["settings"]
      entries(es) == [f EXCEPT !.kind = "object", !.ignored = [present |-> TRUE, entries |-> es]]
  IN  /\ program = "vscode"
      /\ \E x \in {V!NoFile, [f EXCEPT !.kind = "object", !.other = TRUE],
                   entries(f.ignored.entries \cup {"user"}), entries(f.ignored.entries \ V!Ours),
                   [f EXCEPT !.kind = IF f.kind = "object" THEN "invalid" ELSE "object"]}
                  \cup {[f EXCEPT !.kind = "object", !.override = v] : v \in {"user", "null", "none"}} :
           /\ f.kind = "invalid" => x.kind \in {"object", "absent"}
           /\ Edit("settings", x)
           /\ loose' = loose \ {"settings"} /\ UNCHANGED torn
           /\ mine' = [mine EXCEPT !["settings"] =
                        [override |-> CASE disk["settings.state"] = V!NoSidecar ->
                                             IF x.override # f.override THEN x.override ELSE @.override
                                        [] disk["settings.state"] # V!NoSidecar ->
                                             IF x = V!NoFile THEN "deleted" ELSE @.override,
                         list |-> "user" \in x.ignored.entries, other |-> x.other]]

(* The sidecar of settings.json is damaged, or deleted as the daemon's     *)
(* error message says, which gives up the earlier override.                *)
EditSidecar ==
  LET now == disk["settings"].override
  IN  /\ program = "vscode" /\ disk["settings.state"] # V!NoSidecar
      /\ \E x \in {V!NoSidecar, V!BadSidecar} :
           /\ Edit("settings.state", x)
           /\ mine' = IF x = V!NoSidecar
                        THEN [mine EXCEPT !["settings"].override = IF now \in V!CapiUrls THEN "none" ELSE now]
                        ELSE mine
      /\ UNCHANGED <<loose, torn>>

DeleteState(path) ==
  /\ disk[State(path)] # NoState
  /\ Edit(State(path), NoState)
  /\ UNCHANGED <<mine, loose, torn>>

EditPolicy ==
  LET key == disk["policy"]
  IN  /\ program = "claude-desktop" /\ host.windows
      /\ \E n \in {"url", "other"}, d \in {"user", None} :
           /\ Edit("policy", [key EXCEPT !.exists = TRUE, !.values[n] = d])
           /\ mine' = [mine EXCEPT !["policy"] =
                        IF d = "user" /\ n \notin key.marker.names THEN @ \cup {n} ELSE @ \ {n}]
      /\ UNCHANGED <<loose, torn>>

-----------------------------------------------------------------------------
Start(h) ==
  CASE h.program \in {"codex", "grok"} -> [q \in {"config"} |-> Absent]
    [] h.program = "opencode" -> [q \in {"config", "plugin"} |-> Absent]
    [] h.program = "pi" -> [q \in {"models", "settings", "models.state", "settings.state"} |->
                              IF q \in {"models", "settings"} THEN Absent ELSE NoState]
    [] h.program = "copilot" -> [q \in {"providers", "providers.state"} |->
                                   IF q = "providers" THEN Absent ELSE NoState]
    [] h.program = "claude-desktop" ->
         [q \in {"settings", "settings.owner", "helper", "helper.owner", "policy"} |->
            IF q = "policy" THEN R!NoKey ELSE Absent]
    [] h.program = "vscode" ->
         [q \in {"chat", "chat.state", "settings", "settings.state"} |->
            CASE q = "chat" -> Absent [] q = "chat.state" -> NoState
              [] q = "settings" -> V!NoFile [] q = "settings.state" -> V!NoSidecar]

(* What an earlier daemon left in settings.json, with the whole document   *)
(* as it was in the sidecar.                                               *)
Inherited ==
  [override |-> "user", ignored |-> [present |-> TRUE, entries |-> {"alias"}]]
StartInherited(h) ==
  [Start(h) EXCEPT
     !["settings"] = [kind |-> "object", override |-> "capi1", other |-> TRUE,
                      ignored |-> [present |-> TRUE, entries |-> V!Ours]],
     !["settings.state"] = [form |-> "legacy", created |-> FALSE, before |-> Inherited]]

Init ==
  /\ host \in Hosts
  /\ disk \in {Start(host)} \cup (IF program = "vscode" THEN {StartInherited(host)} ELSE {})
  /\ loose = {} /\ config = NotConfigured /\ proxy \in {None, "pairing1"}
  /\ program \notin {"copilot", "vscode"} => proxy = None
  /\ pc = "idle" /\ plan = NoPlan /\ done = 0 /\ result = "none"
  /\ edits = 0 /\ configs = 0 /\ restarts = 0
  /\ mine = [q \in DOMAIN disk |->
               CASE q = "policy" -> {}
                 [] program = "vscode" /\ q = "settings" ->
                      IF disk[q] = V!NoFile THEN [override |-> "none", list |-> FALSE, other |-> FALSE]
                      ELSE [override |-> Inherited.override, list |-> FALSE, other |-> TRUE]
                 [] OTHER -> Empty]
  /\ torn = {} /\ fresh = FALSE

Daemon == PlanAll \/ Refuse \/ Validate \/ Perform \/ OperationFails
            \/ \E x \in {None} \cup Pairings : Restart(x)
User ==
  /\ pc # "applying" /\ edits < MaxEdits
  /\ \/ \E path \in Documents : EditDocument(path) \/ Loosen(path)
     \/ \E path \in Entries : DeleteState(path)
     \/ EditVsCode \/ EditSidecar \/ EditPolicy

Next == Daemon \/ User \/ Configure

Spec == Init /\ [][Next]_vars

-----------------------------------------------------------------------------
(* What a user or an administrator set while it was theirs is never        *)
(* changed: a whole file without the header or the marker (the conflicts   *)
(* of HeadedFile and write_owned), a registry value that nobody claimed,   *)
(* other settings and ignore-list entries of settings.json, and once the   *)
(* sidecar is gone the override from before the first apply, whatever      *)
(* applies, edits, failures and restarts came between.                     *)
UserKept ==
  /\ \A path \in Whole : mine[path] # Empty => disk[path].doc = mine[path]
  /\ program = "claude-desktop" =>
       \A n \in mine["policy"] : disk["policy"].values[n] = "user"
  /\ program = "vscode" =>
       LET f == disk["settings"]
       IN  /\ f.other = mine["settings"].other
           /\ ("user" \in f.ignored.entries) = mine["settings"].list
           /\ disk["settings.state"] = V!NoSidecar /\ f.override \notin V!CapiUrls =>
                mine["settings"].override \in {f.override, "deleted"}

AllPerformed(fs, ops) ==
  LET after[i \in 0 .. Len(ops)] == IF i = 0 THEN fs ELSE Performed(after[i - 1], ops[i])
  IN  after[Len(ops)]

(* What the daemon wrote and is still there.                               *)
ManagedLeft(fs) ==
  \/ \E path \in Whole \cup (IF program = "pi" THEN {"models", "settings"} ELSE {}) :
        path \notin torn \cup Unrecorded /\ \E k \in Settings : fs[path].doc[k] \in ManagedValues
  \/ \E path \in Entries : fs[path].kind # "unreadable" /\ paired(fs[path], proxy)
  \/ program = "vscode" /\ fs["settings"].override \in V!CapiUrls
  \/ program = "claude-desktop" /\ \E n \in R!Names :
       fs["policy"].values[n] \in ManagedValues

(* A partial apply stays recoverable: in every state, also between two     *)
(* operations, after a failed one or after a crash, a removal planned from *)
(* what is on disk takes out all that the daemon wrote.  (The sidecar of   *)
(* settings.json and the claim in the registry are written before what     *)
(* they record and removed after it; entries that lost their sidecar are   *)
(* known by their pairing.)  The exception are the files of pi and of      *)
(* Claude Desktop, which are written before their sidecar or marker: one   *)
(* whose apply stopped between the two is not recognised until its marker  *)
(* is written after all or the user deletes it.  A plan leaves the disk    *)
(* alone, and so does the step that follows it.                            *)
Recoverable ==
  LET p == PlanFor(host, NotConfigured, disk, loose, proxy)
  IN  (/\ pc # "planned" /\ p.verdict = "ok" /\ InScope(host)
       /\ program = "vscode" => disk["settings"].kind # "invalid")
        => ~ManagedLeft(AllPerformed(disk, p.ops))

(* With a subscription or a helper no fixed credential reaches Codex or    *)
(* Grok past it, whatever the pass-through settings hold.                  *)
HelperNotShadowed ==
  uses_credential_helper(config) =>
    /\ program = "grok" => disk["config"].doc["static"] = None
    /\ program = "codex" /\ config.subscription =>
         disk["config"].doc["static"] = None /\ disk["config"].doc["login"] = None

(* The program is set up as its configuration says: the documents, a       *)
(* helper or plugin wherever they name it, and of VS Code's two routes     *)
(* only the chosen one.                                                    *)
SetUp ==
  LET c == config
      helper == uses_credential_helper(c)
      chat   == gateway(c) /\ c.copilot_chat = "ownModels" /\ proxy # None
      capi   == gateway(c) /\ c.copilot_chat = "githubModels" /\ proxy # None
  IN  CASE program = "codex" -> disk["config"] = Headed(CodexConfig(c).doc)
        [] program = "grok" -> disk["config"] = Headed(GrokConfig(c).doc)
        [] program = "opencode" -> /\ disk["config"] = Headed(OpenCodeConfig(c).doc)
                                   /\ helper = HasHeader(disk["plugin"])
        [] program = "pi" -> \A k \in Settings :
             PiModels(c).doc[k] # None => disk["models"].doc[k] = PiModels(c).doc[k]
        [] program = "claude-desktop" ->
             /\ helper => disk["helper"] = Document(credential_helper_contents)
             /\ LET d == DesktopSettings(c).doc
                IN  IF ~host.windows THEN disk["settings"] = Document(d)
                    ELSE /\ \A n \in R!Names :
                              d[n] # None => disk["policy"].values[n] = d[n]
                         /\ disk["policy"].marker.names = {n \in R!Names : d[n] # None}
        [] program = "copilot" ->
             gateway(c) /\ proxy # None => disk["providers"].doc["vendor"] = proxy
        [] program = "vscode" -> /\ chat => disk["chat"].doc["vendor"] = proxy
                                 /\ capi => disk["settings"].override = override_url(proxy)
                                 /\ chat /\ disk["settings"].kind # "invalid" =>
                                      disk["settings"].override \notin V!CapiUrls
                                 /\ capi /\ disk["chat"].kind # "unreadable" =>
                                      disk["chat"].doc["vendor"] # proxy

(* The requests of a program that was pointed at the local proxy, with the *)
(* pairing that its file holds.  With GitHub's models VS Code sends its    *)
(* own token, opens WebSockets and pings without a token.                  *)
ClientRequests ==
  LET capi == P!Offer(P!CAPI_ROUTE, IF disk["settings"].override = "capi1" THEN "pairing1" ELSE "pairing2")
  IN  CASE program = "copilot" -> {P!Offer("/copilot-cli", disk["providers"].doc["vendor"])}
        [] program = "vscode" /\ config.copilot_chat = "ownModels" ->
             {P!Offer("/vscode-copilot", disk["chat"].doc["vendor"])}
        [] program = "vscode" /\ config.copilot_chat = "githubModels" ->
             {[capi EXCEPT !.token = "client"],
              [capi EXCEPT !.token = "client", !.method = "GET", !.websocket = TRUE],
              [capi EXCEPT !.method = "GET", !.ping = TRUE]}
        [] OTHER -> {}

(* The proxy serves them: they are admitted, and a client's own token only *)
(* goes to proxyUrl, the gateway route that restores it.                   *)
Served ==
  gateway(config) /\ proxy # None =>
    \A q \in ClientRequests :
      LET f == P!forward(q, config.gateway, proxy)
      IN  f.code = "forwarded" /\ (f.token # None => f.upstream = "proxyUrl")

(* An apply that succeeds leaves the program set up, modes included, its   *)
(* helper in force and its requests accepted by the local proxy, whatever  *)
(* pairing, route or configuration was there before, and the next plan has *)
(* nothing to do.                                                          *)
Settled ==
  pc = "idle" /\ result = "ok" /\ fresh /\ InScope(host) =>
    LET p == PlanFor(host, config, disk, loose, proxy)
    IN  /\ p.verdict = "ok" /\ \A i \in 1 .. Len(p.ops) : InPlace(disk, loose, p.ops[i])
        /\ config.configured => SetUp /\ HelperNotShadowed /\ Served

(* A configuration that validate_daemon accepts fails to plan only because *)
(* of what is on disk, of a setting the registry cannot hold, or of a null *)
(* that TOML cannot ("null values cannot be reconciled", config.rs:831).   *)
Plannable ==
  pc = "planned" /\ plan.verdict = "failed" /\ ~Stale =>
    \/ \E path \in Documents : disk[path].kind = "unreadable"
    \/ program = "vscode" /\ disk["settings.state"] = V!BadSidecar
    \/ program = "claude-desktop" /\ host.windows /\ "odd" \in config.extra \cup config.nulls
    \/ program \in {"codex", "grok"} /\ config.nulls # {}

(* whenProxyUnavailable: failClosed.  While the proxy is missing, no apply *)
(* takes away the route that is configured: the entries of the Copilot CLI *)
(* and of VS Code's own models, or the override of settings.json.          *)
FailClosed ==
  [][(/\ program \in {"copilot", "vscode"} /\ gateway(config) /\ proxy = None
      /\ config.gateway.when_unavailable = "failClosed" /\ fresh /\ pc = "applying") =>
       IF program = "vscode" /\ config.copilot_chat = "githubModels"
         THEN disk'["settings"] = disk["settings"]
         ELSE \A path \in Entries : disk'[path] = disk[path]]_vars
=============================================================================
