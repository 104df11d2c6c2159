--------------------------- MODULE DaemonLifecycle ---------------------------
(***************************************************************************)
(* A daemon from launch to exit (daemon.rs, agentdesktop-service.rs): the  *)
(* startup sequence, --once and --dry-run, the local API socket or pipe,   *)
(* the proxy's listener and pairing value, and the stop request.           *)
(*                                                                         *)
(* Daemons of one scope share what they leave on the machine: the socket   *)
(* path, the proxy's port, the state directory with the pairing value and  *)
(* the restored configuration, and the programs' files (DaemonArgs         *)
(* resolves all of these by scope).  A second one may be launched while    *)
(* one runs.  An apply goes program by program and may stop in between;    *)
(* those of two daemons do not overlap here.  What it does to one          *)
(* program's files is in module ManagedPrograms, and how a pushed          *)
(* configuration is parsed and reported in ConfigPipeline.                 *)
(***************************************************************************)
EXTENDS Integers

CONSTANTS
  Daemons,       \* daemon processes
  Launches,      \* command line and local configuration a launch may have
  Remote,        \* the configuration the controller pushes
  Machines,      \* pairs of "unix" or "windows" (the service) and "user" or "system"
  MaxLaunches, MaxFaults, MaxMeddling

(* Programs by the scope in which they are managed (skip_unless).          *)
UserPrograms == {"copilot", "vscode", "pi"}
SystemPrograms == {"claude-desktop", "grok"}
Programs == {"claude-code", "codex", "opencode"} \cup UserPrograms \cup SystemPrograms

(* In the order in which they are applied.                                 *)
MANAGED_PROGRAMS ==
  <<"claude-code", "claude-desktop", "codex", "opencode", "grok", "copilot", "vscode", "pi">>

(* The programs that reach the gateway through the proxy.                  *)
ProxyPrograms == {"copilot", "vscode"}

NoPairing == 0
Nobody == "nobody"
Other == "other"       \* a process that is not a daemon

ASSUME DaemonsAssumption == Daemons \cap {Nobody, Other, "file"} = {}

VARIABLES
  platform, scope,
  socket,    \* at the socket path: Nobody, "file", or the daemon that bound it
  port,      \* who holds the proxy's port
  pairing,   \* the pairing file: is "stored", "absent", "unusable" or "unreadable", and its value
  values,    \* pairing values made so far
  cached,    \* remote-config.yaml: "absent", "stored", "invalid", "unreadable"
  choice,    \* program-choice.json: the programs left to the daemon
  pointer,   \* the pairing value in each proxy program's file, or NoPairing
  dependent, \* programs whose files call the daemon
  proc,      \* the daemons
  launches, faults, meddling

daemon == <<platform, scope, socket, port, pairing, values, cached, choice, pointer, dependent, proc,
          launches, faults, meddling>>
machine == <<platform, scope>>
files == <<cached, choice, pointer, dependent>>
counts == <<launches, faults, meddling>>

NoLaunch == [once |-> FALSE, dry_run |-> FALSE, listen |-> FALSE, paths |-> FALSE,
             local |-> [controller |-> FALSE, telemetry |-> FALSE, empty |-> TRUE, gateway |-> FALSE,
               authentication |-> "none", choosable |-> FALSE, programs |-> {}, through |-> {},
               when_unavailable |-> "failClosed"]]

(* proxy: LlmProxyInfo, with stopped for a proxy that ended later.         *)
(* unsaved: pending_persist.  stop: the daemon has a request to stop;      *)
(* service: what its supervisor knows.  Two notes for the properties, of   *)
(* what happened beside this daemon: touched, another one ran, a file was  *)
(* changed or a stop asked for; rival, another one had another pairing     *)
(* value.                                                                  *)
Off(exit) ==
  [pc |-> "off", launch |-> NoLaunch, proxy |-> "off", pairing |-> NoPairing, current |-> "none",
   unsaved |-> FALSE, stop |-> FALSE, service |-> "Stopped", touched |-> FALSE, rival |-> FALSE,
   exit |-> exit]

Running(d) == proc[d].pc # "off"
Serving(d) == proc[d].pc = "serving"
Fault == faults < MaxFaults /\ faults' = faults + 1

(* The process ends: its listeners close, a Unix socket's file stays.      *)
Exit(d, code, path) ==
  /\ proc' = [proc EXCEPT ![d] = Off(code)]
  /\ port' = IF port = d THEN Nobody ELSE port
  /\ socket' = path

Closed(d) == IF platform = "windows" /\ socket = d THEN Nobody ELSE socket
Refuses(d) == Exit(d, "error", Closed(d))
Fails(d) == Exit(d, "failed", Closed(d))

At(d, pc) == proc[d].pc = pc
GoTo(d, pc) == proc' = [proc EXCEPT ![d].pc = pc]

-----------------------------------------------------------------------------
(* The configuration an apply uses *)

(* apply_program_choice *)
Chosen(c) == IF c.choosable THEN c.programs \cap choice ELSE c.programs

InScope == Programs \ (IF scope = "user" THEN SystemPrograms ELSE UserPrograms)
Managed(c) == Chosen(c) \cap InScope
Through(c, ps) == IF c.gateway THEN ps \cap c.through ELSE {}

(* The programs whose files call the daemon after an apply, for a          *)
(* credential or from a hook.                                              *)
Calls(c) ==
  LET ps == Managed(c)
  IN  (IF c.authentication # "none" THEN Through(c, ps) \ ProxyPrograms ELSE {})
        \cup (IF c.telemetry THEN ps \cap {"claude-code"} ELSE {})

\* Mutant of Pointed: a file that already has a pairing value is left alone.
PointedOnce(d, c) ==
  [p \in ProxyPrograms |->
     IF p \notin Through(c, Managed(c)) THEN NoPairing
     ELSE IF proc[d].pairing # NoPairing /\ pointer[p] = NoPairing THEN proc[d].pairing
     ELSE pointer[p]]

(* LlmProxyContext and whenProxyUnavailable.                               *)
Pointed(d, c) ==
  [p \in ProxyPrograms |->
     IF p \notin Through(c, Managed(c)) THEN NoPairing
     ELSE IF proc[d].pairing # NoPairing THEN proc[d].pairing
     ELSE IF c.when_unavailable = "failClosed" THEN pointer[p]
     ELSE NoPairing]

(* An apply to some programs; one out of scope is not looked at.           *)
ApplyTo(d, c, ps) ==
  /\ dependent' = (dependent \ ps) \cup (Calls(c) \cap ps)
  /\ pointer' = [p \in ProxyPrograms |-> IF p \in ps THEN Pointed(d, c)[p] ELSE pointer[p]]

Apply(d, c) == ApplyTo(d, c, InScope)

(* An apply that fails or is killed has come to some program; the registry *)
(* values of Claude Desktop are written last.                              *)
ApplyPart(d, c) ==
  \E n \in 0 .. 8 :
    LET written == {MANAGED_PROGRAMS[i] : i \in 1 .. n}
        registry == IF platform = "windows" /\ n < 8 THEN {"claude-desktop"} ELSE {}
    IN  ApplyTo(d, c, InScope \cap (written \ registry))

------------------------------------------------------------------------------
(* The startup sequence of run_until_shutdown *)

(* run_service reports Running, and accepts a stop, before it starts.      *)
(* Which of the idle processes is launched makes no difference.            *)
Launch(d, a) ==
  /\ ~Running(d) /\ d = CHOOSE e \in Daemons : ~Running(e)
  /\ launches < MaxLaunches /\ launches' = launches + 1
  /\ proc' = [e \in Daemons |->
       IF e = d THEN [Off("none") EXCEPT !.pc = "resolve", !.launch = a, !.service = "Running",
                                         !.touched = \E f \in Daemons : Running(f)]
       ELSE IF Running(e) THEN [proc[e] EXCEPT !.touched = TRUE] ELSE proc[e]]
  /\ UNCHANGED <<machine, socket, port, pairing, values, files, faults, meddling>>

(* DaemonArgs::resolve *)
Refused(a) ==
  \/ a.listen /\ (scope = "system" \/ a.once \/ a.dry_run)
  \/ a.paths /\ scope = "system"

Resolve(d) ==
  /\ At(d, "resolve")
  /\ IF Refused(proc[d].launch) THEN Refuses(d)
     ELSE GoTo(d, "proxy") /\ UNCHANGED <<port, socket>>
  /\ UNCHANGED <<machine, pairing, values, files, counts>>

bind_llm_proxy(d) ==
  /\ At(d, "proxy")
  /\ LET listen == proc[d].launch.listen
         free   == port = Nobody
     IN  /\ proc' = [proc EXCEPT ![d].pc = "pairing",
                       ![d].proxy = IF ~listen THEN "off" ELSE IF free THEN "bound" ELSE "failed"]
         /\ port' = IF listen /\ free THEN d ELSE port
  /\ UNCHANGED <<machine, socket, pairing, values, files, counts>>

(* d has its pairing value; a daemon whose proxy has ended may be running  *)
(* with another one.                                                       *)
Paired(d, value) ==
  LET rivals == {e \in Daemons : proc[e].pairing \notin {NoPairing, value}}
  IN  proc' = [e \in Daemons |->
        IF e = d THEN [proc[d] EXCEPT !.pc = "once", !.pairing = value, !.rival = rivals # {}]
        ELSE [proc[e] EXCEPT !.rival = @ \/ e \in rivals]]

(* load_or_create_pairing: only a missing or unusable file is replaced.    *)
load_or_create_pairing(d) ==
  /\ At(d, "pairing") /\ proc[d].proxy = "bound"
  /\ \/ /\ pairing.is = "stored"
        /\ Paired(d, pairing.value)
        /\ UNCHANGED <<pairing, values>>
     \/ /\ pairing.is \in {"absent", "unusable"}
        /\ values' = values + 1 /\ pairing' = [is |-> "stored", value |-> values + 1]
        /\ Paired(d, values + 1)
  /\ UNCHANGED <<machine, socket, port, files, counts>>

(* attach_llm_proxy_pairing: without a value the proxy is switched off.    *)
attach_llm_proxy_pairing(d) ==
  /\ At(d, "pairing")
  /\ \/ proc[d].proxy # "bound" /\ GoTo(d, "once") /\ UNCHANGED <<port, faults>>
     \/ /\ proc[d].proxy = "bound"
        /\ IF pairing.is = "unreadable" THEN UNCHANGED faults ELSE pairing.is # "stored" /\ Fault
        /\ proc' = [proc EXCEPT ![d].pc = "once", ![d].proxy = "failed"]
        /\ port' = Nobody
  /\ UNCHANGED <<machine, socket, pairing, values, files, launches, meddling>>

\* Mutant of validate_one_shot: pi is not among the programs looked at.
ValidateOneShotShort(c) ==
  LET used == Through(c, Chosen(c)) \cap (InScope \ UserPrograms)
  IN  /\ ~c.controller /\ ~c.telemetry
      /\ ~(scope = "user" /\ Chosen(c) \cap ProxyPrograms # {})
      /\ c.authentication # "none" => used = {}

validate_one_shot(c) ==
  LET used == Through(c, Chosen(c)) \cap (InScope \ ProxyPrograms)
  IN  /\ ~c.controller /\ ~c.telemetry
      /\ ~(scope = "user" /\ Chosen(c) \cap ProxyPrograms # {})
      /\ c.authentication # "none" => used = {}

(* --once and --dry-run end here; an apply or a preview may fail.          *)
OneShot(d) ==
  LET a == proc[d].launch
  IN  /\ At(d, "once") /\ (a.once \/ a.dry_run)
      /\ \/ /\ a.dry_run /\ UNCHANGED <<files, faults>>
            /\ Exit(d, IF a.local.controller THEN "error" ELSE "ok", Closed(d))
         \/ a.dry_run /\ Fault /\ Fails(d) /\ UNCHANGED files
         \/ /\ ~a.dry_run /\ ~validate_one_shot(a.local)
            /\ Refuses(d) /\ UNCHANGED <<files, faults>>
         \/ /\ ~a.dry_run /\ validate_one_shot(a.local) /\ UNCHANGED <<cached, choice>>
            /\ \/ Apply(d, a.local) /\ Exit(d, "ok", Closed(d)) /\ UNCHANGED faults
               \/ Fault /\ ApplyPart(d, a.local) /\ Fails(d)
      /\ UNCHANGED <<machine, pairing, values, launches, meddling>>

(* The state directory is made, or the daemon ends; the usage receiver and *)
(* the sign-ins that start here touch nothing of this module's.            *)
StartServices(d) ==
  /\ At(d, "once") /\ ~proc[d].launch.once /\ ~proc[d].launch.dry_run
  /\ \/ GoTo(d, "restore") /\ UNCHANGED <<port, socket, faults>>
     \/ Fault /\ Fails(d)
  /\ UNCHANGED <<machine, pairing, values, files, launches, meddling>>

(* The restored configuration goes before the local one; with neither the  *)
(* files are left as they are.                                             *)
RestoreAndApply(d) ==
  LET a    == proc[d].launch
      c    == IF a.local.controller /\ cached = "stored" THEN Remote ELSE a.local
      none == a.local.controller /\ cached = "absent" /\ a.local.empty
  IN  /\ At(d, "restore")
      /\ \/ /\ a.local.controller /\ cached \in {"invalid", "unreadable"}
            /\ Refuses(d) /\ UNCHANGED <<files, faults>>
         \/ /\ a.local.controller => cached \in {"absent", "stored"}
            /\ IF none THEN GoTo(d, "bind") /\ UNCHANGED files
               ELSE /\ Apply(d, c) /\ UNCHANGED <<cached, choice>>
                    /\ proc' = [proc EXCEPT ![d].pc = "bind",
                         ![d].current = IF a.local.controller /\ cached = "stored" THEN "remote" ELSE "local"]
            /\ UNCHANGED <<port, socket, faults>>
         \/ /\ a.local.controller => cached \in {"absent", "stored"}
            /\ ~none /\ Fault /\ ApplyPart(d, c) /\ Fails(d) /\ UNCHANGED <<cached, choice>>
      /\ UNCHANGED <<machine, pairing, values, launches, meddling>>

\* Mutant of Bind: a socket that is already there is not replaced.
BindAbsent(d) ==
  /\ At(d, "bind")
  /\ IF socket # Nobody THEN Refuses(d)
     ELSE /\ socket' = d /\ GoTo(d, "serving") /\ UNCHANGED port
  /\ UNCHANGED <<machine, pairing, values, files, counts>>

(* bind_unix replaces a socket without asking whether it is served;        *)
(* bind_named_pipe makes the first instance.                               *)
Bind(d) ==
  /\ At(d, "bind")
  /\ IF socket = "file" \/ (platform = "windows" /\ socket # Nobody) THEN Refuses(d)
     ELSE /\ socket' = d /\ UNCHANGED port
          /\ proc' = [e \in Daemons |-> CASE e = d -> [proc[e] EXCEPT !.pc = "serving"]
                                         [] e # d -> [proc[e] EXCEPT !.touched = @ \/ Running(e)]]
  /\ UNCHANGED <<machine, pairing, values, files, counts>>

(* local_api_access or configure_socket_access fails.                      *)
AccessFails(d) ==
  /\ At(d, "bind") /\ platform = "unix" /\ socket # "file" /\ Fault
  /\ \E path \in {socket, Nobody} : Exit(d, "failed", path)
  /\ UNCHANGED <<machine, pairing, values, files, launches, meddling>>

-----------------------------------------------------------------------------
(* Serving *)

(* What the tick and a choice of programs apply.                           *)
Current(d) == IF proc[d].current = "remote" THEN Remote ELSE proc[d].launch.local

(* The tick or a choice applies again, and saves a push not yet saved.     *)
Reapply(d) ==
  /\ Serving(d) /\ proc[d].current # "none"
  /\ \/ /\ Apply(d, Current(d)) /\ UNCHANGED faults
        /\ cached' = IF proc[d].unsaved THEN "stored" ELSE cached
        /\ proc' = [proc EXCEPT ![d].unsaved = FALSE]
     \/ Fault /\ ApplyPart(d, Current(d)) /\ UNCHANGED <<cached, proc>>
  /\ UNCHANGED <<machine, socket, port, pairing, values, choice, launches, meddling>>

(* A push from the controller is the current configuration, is applied,    *)
(* and is saved if that succeeds.                                          *)
Push(d) ==
  /\ Serving(d) /\ proc[d].launch.local.controller
  /\ \E saved \in BOOLEAN :
       /\ IF saved THEN Apply(d, Remote) /\ cached' = "stored" /\ UNCHANGED faults
          ELSE ApplyPart(d, Remote) /\ Fault /\ UNCHANGED cached
       /\ proc' = [proc EXCEPT ![d].current = "remote", ![d].unsaved = ~saved]
  /\ UNCHANGED <<machine, socket, port, pairing, values, choice, launches, meddling>>

(* llm_proxy::serve fails, the daemon goes on.                             *)
ProxyStops(d) ==
  /\ Serving(d) /\ proc[d].proxy = "bound" /\ Fault
  /\ proc' = [proc EXCEPT ![d].proxy = "stopped"]
  /\ port' = Nobody
  /\ UNCHANGED <<machine, socket, pairing, values, files, launches, meddling>>

(* accept, or the next pipe instance, fails and ends the daemon.           *)
AcceptFails(d) ==
  /\ Serving(d) /\ Fault /\ Fails(d)
  /\ UNCHANGED <<machine, pairing, values, files, launches, meddling>>

\* Mutant of RequestStop: a request that comes during startup is not kept.
StopWhileServing(d) ==
  /\ Running(d) /\ proc[d].service = "Running"
  /\ IF platform = "unix" /\ ~Serving(d) THEN Fails(d)
     ELSE /\ proc' = [proc EXCEPT ![d].stop = Serving(d), ![d].service = "StopAsked", ![d].touched = TRUE]
          /\ UNCHANGED <<port, socket>>
  /\ UNCHANGED <<machine, pairing, values, files, counts>>

(* An interrupt: the handler is installed when serving starts, before that *)
(* the process ends.  A service stop is kept in a watch channel.           *)
RequestStop(d) ==
  /\ Running(d) /\ proc[d].service = "Running"
  /\ IF platform = "unix" /\ ~Serving(d) THEN Fails(d)
     ELSE /\ proc' = [proc EXCEPT ![d].stop = TRUE, ![d].service = "StopAsked", ![d].touched = TRUE]
          /\ UNCHANGED <<port, socket>>
  /\ UNCHANGED <<machine, pairing, values, files, counts>>

(* serve_unix removes whatever is at its path.                             *)
ShutDown(d) ==
  /\ Serving(d) /\ proc[d].stop
  /\ Exit(d, "ok", IF platform = "unix" THEN Nobody ELSE Closed(d))
  /\ UNCHANGED <<machine, pairing, values, files, counts>>

(* While it serves, an apply may be on its way.                            *)
Kill(d) ==
  /\ Running(d) /\ Fault /\ Fails(d)
  /\ \/ UNCHANGED <<pointer, dependent>>
     \/ Serving(d) /\ proc[d].current # "none" /\ ApplyPart(d, Current(d))
  /\ UNCHANGED <<machine, pairing, values, cached, choice, launches, meddling>>

-----------------------------------------------------------------------------
(* Files are damaged, lost or edited and the port is taken, under running  *)
(* daemons too.  Those have read the choice of programs already.           *)
Meddle ==
  /\ meddling < MaxMeddling /\ meddling' = meddling + 1
  /\ proc' = [d \in Daemons |-> [proc[d] EXCEPT !.touched = Running(d)]]
  /\ \/ /\ \E is \in {"absent", "unusable", "unreadable"} \ {pairing.is} :
             pairing' = [pairing EXCEPT !.is = is]
        /\ UNCHANGED <<port, socket, cached, choice>>
     \/ /\ port \in {Nobody, Other} /\ port' \in {Nobody, Other} \ {port}
        /\ UNCHANGED <<pairing, socket, cached, choice>>
     \/ /\ socket # "file" /\ platform = "unix" /\ socket' = "file"
        /\ UNCHANGED <<pairing, port, cached, choice>>
     \/ /\ cached' \in {"absent", "invalid", "unreadable"} \ {cached}
        /\ UNCHANGED <<pairing, port, socket, choice>>
     \/ /\ \A d \in Daemons : ~Running(d)
        /\ choice' \in {Programs, {}, {"codex"}} \ {choice}
        /\ UNCHANGED <<pairing, port, socket, cached>>
  /\ UNCHANGED <<machine, values, pointer, dependent, launches, faults>>

DaemonInit ==
  /\ \E m \in Machines : platform = m[1] /\ scope = m[2]
  /\ socket = Nobody /\ port = Nobody /\ pairing = [is |-> "absent", value |-> NoPairing] /\ values = 0
  /\ cached = "absent" /\ choice = Programs /\ dependent = {}
  /\ pointer = [p \in ProxyPrograms |-> NoPairing]
  /\ proc = [d \in Daemons |-> Off("none")]
  /\ launches = 0 /\ faults = 0 /\ meddling = 0

(* A step the daemon takes by itself.                                      *)
Step(d) ==
  \/ Resolve(d) \/ bind_llm_proxy(d) \/ load_or_create_pairing(d) \/ attach_llm_proxy_pairing(d)
  \/ OneShot(d) \/ StartServices(d) \/ RestoreAndApply(d) \/ Bind(d) \/ ShutDown(d)

DaemonNext ==
  \/ \E d \in Daemons :
       \/ \E a \in Launches : Launch(d, a)
       \/ Step(d) \/ AccessFails(d) \/ Reapply(d) \/ Push(d)
       \/ ProxyStops(d) \/ AcceptFails(d) \/ RequestStop(d) \/ Kill(d)
  \/ Meddle

(* A process that can go on does: no step of startup waits for anyone.     *)
DaemonSpec == DaemonInit /\ [][DaemonNext]_daemon /\ \A d \in Daemons : WF_daemon(Step(d))

-----------------------------------------------------------------------------
(* d has applied its configuration; a push whose apply failed has not been *)
(* until a tick applies and saves it.                                      *)
Applied(d) == proc[d].current # "none" /\ ~proc[d].unsaved

(* Client files stay valid: while a daemon serves the proxy, the value in  *)
(* the files it has applied is the one its proxy accepts, whatever became  *)
(* of the pairing file, earlier daemons or a second one in between ("kept  *)
(* across restarts so client files stay valid").  Unless it has met a      *)
(* rival: a daemon that goes on applying after its proxy ended, whose      *)
(* pairing file was lost before this one started.                          *)
PairingCurrent ==
  \A d \in Daemons : Serving(d) /\ Applied(d) /\ port = d /\ ~proc[d].rival =>
    \A p \in ProxyPrograms : pointer[p] \in {NoPairing, proc[d].pairing}

(* A successful --once leaves no program that it manages calling a daemon: *)
(* validate_one_shot refuses all that the providers would set up so.       *)
OnceSelfContained ==
  [][\A d \in Daemons :
       LET a == proc[d].launch
       IN  At(d, "once") /\ a.once /\ ~a.dry_run /\ proc'[d].exit = "ok" =>
             dependent' = {} /\ \A p \in ProxyPrograms : pointer'[p] = NoPairing]_daemon

(* A daemon that is asked to stop ends, also when the request comes before *)
(* it serves.                                                              *)
StopEnds == \A d \in Daemons : proc[d].service = "StopAsked" ~> ~Running(d)

Acceptable(d) ==
  LET a == proc[d].launch
  IN  /\ At(d, "resolve") /\ ~proc[d].touched /\ ~Refused(a) /\ ~a.once /\ ~a.dry_run
      /\ socket # "file"
      /\ a.local.controller => cached \in {"absent", "stored"}

(* However the earlier daemons ended, nothing they left behind keeps the   *)
(* next one from serving, as long as it is left alone.                     *)
StartsAgain ==
  \A d \in Daemons :
    Acceptable(d) ~> (Serving(d) \/ proc[d].exit = "failed" \/ proc[d].touched)
=============================================================================
