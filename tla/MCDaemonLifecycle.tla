-------------------------- MODULE MCDaemonLifecycle --------------------------
(***************************************************************************)
(* Instances of DaemonLifecycle for TLC: launches with and without a       *)
(* controller and the proxy, and one-shot ones.                            *)
(***************************************************************************)
EXTENDS DaemonLifecycle

Plain == NoLaunch.local
Gateway(ps, auth) ==
  [Plain EXCEPT !.empty = FALSE, !.gateway = TRUE, !.authentication = auth, !.programs = ps,
                !.through = ps, !.choosable = TRUE]

MCLaunches == {
  \* the proxy and programs that call the daemon
  [NoLaunch EXCEPT !.listen = TRUE, !.local = Gateway({"vscode", "codex", "claude-desktop"}, "oidc")],
  \* a controller, with a local configuration but no proxy, and the other way round
  [NoLaunch EXCEPT
     !.local = [Gateway({"claude-code", "grok", "claude-desktop"}, "oidc") EXCEPT !.controller = TRUE]],
  [NoLaunch EXCEPT !.listen = TRUE, !.paths = TRUE, !.local = [Plain EXCEPT !.controller = TRUE]],
  \* one-shot
  [NoLaunch EXCEPT !.once = TRUE, !.local = Gateway({"pi", "grok"}, "oidc")],
  [NoLaunch EXCEPT !.once = TRUE, !.local = Gateway({"codex", "opencode"}, "none")],
  [NoLaunch EXCEPT !.dry_run = TRUE, !.local = [Plain EXCEPT !.controller = TRUE]] }

MCMachines == {<<"unix", "user">>, <<"unix", "system">>, <<"windows", "system">>}
MCRemote == [Gateway({"copilot", "codex"}, "device") EXCEPT !.when_unavailable = "failOpen"]
=============================================================================
