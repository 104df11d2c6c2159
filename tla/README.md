# Formal models of agentdesktop

This directory holds TLA+ models of agentdesktop, the TLC configurations that
model-check them on small instances, and TLAPS proofs. `PROJECT.json` lists the
components, the runs, the source lines every definition stands for, the hazards
the properties are about, and the differences between code and documentation
that the runs show.

## The system

| Part | Source | Role |
|------|--------|------|
| Daemon | `crates/agent` | Runs on a device. Enrolls with the controller, keeps the device identity, receives and applies configurations, serves a local API and a local LLM proxy. |
| Controller | `crates/controller` | Enrolls devices through OIDC, pushes one daemon configuration to every connected device, stores what devices report, issues gateway credentials. |
| Desktop app, client | `crates/agentdesktop`, `crates/client` | Tray, window and command line over the daemon's local API. |
| Usage | `crates/usage` | Receives OTLP telemetry and stores usage. |
| Core, proto | `crates/core`, `crates/proto` | Configuration model and wire protocol. |
| Frontends | `frontend/` | Controller console and desktop UI. |

Inside the daemon the tasks that share state are: the session loop
(`remote::run`), the reconcile tick (`tick::run_tick`), the handlers of the
local API, the LLM proxy with its detached credential fetches, the inventory
refresher and the gateway sign-in tasks. They meet in the identity files, the
refresh mutex, the apply lock of `Reconciler`, the watch channels of the current
configuration and of tick outcomes, and `remote-config.yaml`.

## Modules

| Module | Models |
|--------|--------|
| `DeviceIdentity` | `remote.rs` (supervisor, session loop, refresh, renewal, logout), `identity.rs`, enrollment and refresh of `oidc.rs`, the requests that refresh concurrently |
| `ConfigPipeline` | `daemon_config.rs` and `service.rs` (publication, push, stored status), the connection loop of `remote.rs`, `tick.rs`, `ProgramControl::change`, the apply lock, startup |
| `LlmProxy` | `llm_proxy.rs` and `llm_proxy/cache.rs` for gateways with controller-issued credentials: lookup, single flight, detached fetch, 401 retry, tunnels |
| `ProxyRoutes` | `llm_proxy/routes.rs` and the admission part of `forward`: which request is refused, and with which credential it is forwarded |
| `ControllerEnrollment` | the controller's `oidc.rs` (pending enrollments, device authorization, the cache of signing keys) and the enrollment calls of `service.rs` |
| `FleetReports` | `inventory_watch.rs`, the inventory refresher, the telemetry endpoint, both sides of the device stream, the device tables of `database.rs`, the deletion of a device |
| `SignIns` | `gateway_oidc.rs`, `github_oauth.rs`, `subscription_oauth/`, the callback pages of `oidc.rs`, the login and credential handlers of `api.rs` |
| `SecretStore` | `secret_store.rs` on both kinds of platform |
| `AtomicStore` | the abstract register that `SecretStore` implements |
| `Reconciler` | `reconcile/mod.rs` and `reconcile/plan.rs` for several programs: plan, validation, writes, report |
| `JsonMerge` | `provider/json_merge.rs`: merge, removal, sidecar; used by `Reconciler` and `ManagedPrograms` |
| `ManagedPrograms` | the `plan` of each provider (Codex, Grok, OpenCode, Pi, Claude Desktop, Copilot CLI, VS Code) with all its files, and one apply operation by operation |
| `GatewayDocuments` | the managed documents those providers write, and the checks of `validate_daemon` |
| `VsCodeSettings` | `provider/vscode/settings.rs`: the edit of `settings.json` and its sidecar |
| `PolicyRegistry` | `reconcile/registry.rs` and the registry half of Claude Desktop |
| `DaemonLifecycle` | `daemon.rs` and the Windows service: launch to exit |
| `Usage` | `crates/usage`: parsing, receipts, rollups, maintenance, reports |
| `ControllerProofs` | theorems about `ControllerEnrollment` and `FleetReports` |
| `DaemonProofs` | theorems about `LlmProxy` and `DaemonLifecycle` |
| `DeviceIdentityProofs`, `ConfigPipelineProofs`, `SignInsProofs`, `ReconcilerProofs`, `ManagedProgramsProofs`, `SecretStoreProofs` | theorems about the module of that name |
| `MC*` | the instances TLC checks |

The components meet as follows. `ManagedPrograms` instantiates `ProxyRoutes`,
`VsCodeSettings` and `PolicyRegistry` and extends the documents and the merge: it
composes the configuration that was accepted, the files that the reconciler
writes from it and the proxy that serves the programs which read these files.
`SecretStore` is the store that `SignIns` and `DeviceIdentity` write in single
steps; that they may is what `Implements` shows. `DaemonLifecycle` keeps of an
apply only which files call the daemon, which `ManagedPrograms` has in detail.

### DeviceIdentity

One actor is the session task, the others are requests that call
`refresh_oauth_if_needed`. An action is the code between two `await` points or
two durable writes, so that a crash, a logout (`select!` drops the other branch)
or a disconnecting client can fall between them. `pc[a]` names the next step of
an actor; `check`, `lock`, `reload`, `idp`, `reply`, `replySaved` are the lines
of `refresh_oauth_if_needed` in order.

* Tokens are numbered in the order the identity provider issues them. A rotation
  (`IdpRotates`) makes the old one `spent`; `IdpExtends` is a provider that does
  not rotate. `fresh` are the tokens more than 120 s from expiry.
* `secrets` and `meta` are written and deleted in separate steps, secrets first,
  as `identity::save` and `identity::delete` do. A save writes a stored item in
  place, unless it cannot be read: then the item is removed in a step of its own
  (`ClearUnreadable`) and written by the next, and `cleared` keeps the devices
  whose save was stopped in between. `LoadUnreadable` is what `identity::load`
  answers as unreadable: a missing secret, or with failing storage one that is
  there and cannot be decoded.
* The TLS key and the OAuth record of a device are one cell. The key never
  changes, and `identity::load` treats a device with one of them missing as
  unreadable, so states with only one behave as the state before or after both.
* `Droppable` requests are those of the local API, whose future is dropped when
  the client disconnects; the LLM proxy detaches its fetch, which is the case
  `Droppable = {}`.
* `lost` records a rotation whose answer could not reach the store for a reason
  outside the daemon (a crash, a lost response, a failing disk).

### ConfigPipeline

A configuration is a body and a revision. Hot reloads change the body and keep
the revision, since `daemon_config::watch` is given the revision the controller
was started with; `Redeploy` is a restart of the controller with the next one.
A pushed configuration is handled in three steps (receive, apply, persist) so
that the tick and a choice change can fall between them; the three are
uninterrupted by other branches of the connection loop, as in `connect`.
`fault` says what is wrong on the device: an apply fails exactly while it is
`"apply"`, `remote-config.yaml` cannot be written exactly while it is `"save"`.
Faults arise a bounded number of times and are fixed at any time (`FaultArises`,
`FaultFixed`); a fault, a broken stream or a logout each count.
Sequence numbers of applies are renumbered, since only their order is read.

### LlmProxy

A request notes the device of `identity.json`, looks the cache up and on a miss
spawns a fetch that takes the flight lock, reads the cache again, and otherwise
reads the identity (`LoadIdentity`), asks the controller (`Issue`) and caches the
answer (`Insert`). A credential has the number of the call it answers and a token:
the controller signs with RS256 over claims without a `jti` and with times in
whole seconds, so two calls of one second may give the same token (`Repeated`),
and an invalidation compares tokens. The request may give up at any time
(`Abandon`), which leaves the fetch running. One cache key is modelled: entries and locks of different
keys are independent. Time is counted in units of 30 s (the expiry margin), so
the cache window of 60 s is 2. `mono` is `Instant`, which stands still in a
suspend; `wall` is `now_unix()`, which `SetClock` may move. Whether the request
forwards a client token and whether it is a WebSocket is only read when the
gateway answers, so both are chosen there. The proxy and the local API each
build a `CredentialCache` of their own (`llm_proxy.rs:214`, `api.rs:217`); the
module is the proxy's.

### ControllerEnrollment

`begin_device` is split where it waits for the identity provider: `BeginDevice`
reserves the place, then the grant is answered, fails (the place is released) or
its client goes away, which drops the handler and leaves the reservation until
it is pruned. `complete` is split at the look at the key cache, at the refresh
gate, at the fetch, at UserInfo and at the insertion of the device row; a call
can be dropped at each, which releases the gate. Time is counted in units of the
fetch timeout (10 s), so a fetch ends before the second tick. Keys are numbered
in the order the identity provider introduces them, and it publishes the newest
two; key 0 is one it never had. `since` and `fetched` are history: when an
enrollment was answered, and when the keys were last asked for.

### Reconciler

A program has one settings file and a sidecar. A document gives each setting a
value or `None`; values of users and of configurations are different, so a value
tells who wrote it. The four ways of management are those the providers use:
`merge` (Claude Code in user mode, Pi) and `keyed` (Copilot, VS Code) merge into
the user's file and keep `before` and `after` in the sidecar, `keyed` ones also
know their entries by reserved names; `owned` (Claude Code in system mode, Claude
Desktop) and `headed` (Codex, Grok, OpenCode) are whole files, recognised by a
marker file or a header. The entries of a keyed program carry the pairing of the
daemon that wrote them. `OtherPairing` are entries that a daemon of another
pairing left (`LeaveEntry`); a removal without a sidecar takes out only the
entries of its own pairing, or, while the proxy is missing and the daemon has
none, all that carry one (`Own`).

`PlanMerge`, `PlanRemove`, `PlanOwned` and `PlanRemoveOwned` are the planning
functions, with their refusals in the order of the code. An apply reads and plans
(`PlanAll`), is refused by a failed plan or a conflict (`Refuse`) or by a file
that is no longer what was read (`RefuseStale`), stops before its first write when
the private directory of a new keyed file cannot be made (`DirFails`), or is
validated (`Validate`) and
then writes each program's file and sidecar in turn. A write may fail
(`WriteFails`) and the daemon may stop between any two writes (`Crash`). The user
and the configuration may change anything at any time, also between two writes.
`mine` is history: the document the user would have without the daemon. `raced`
are programs the user edited between the validation and the write, an interval
the code does not guard. `torn` are programs whose settings were written and
whose sidecar was not, or whose sidecar was deleted and whose reserved names
changed before the next apply.

### SecretStore and AtomicStore

A call takes the file lock, exclusive for a write and shared for a read, and then
one step per access to the file or to the operating system's key store: `get`
reads the sealed file and then its key; `set` makes sure of the store's id and of
a key (a new key only after the old file is removed), writes the sealed file, and
removes the entry of an earlier version last; `delete` removes that entry first.
Elsewhere than on Windows a call is one step. Every step may fail, a process may
be killed between any two, and the key store may lose or damage its entry
(`Damage`), though not between two steps of one write. One entry is modelled.

`AtomicStore` is a register with a leftover: an older copy that a write has not
yet removed. The refinement mapping reads `value` off the file, the key and the
leftover (`Value`), and calls a write `taken` once its effect is visible
(`Stage`). Two details of the abstract specification are the code's: a failed
call may have taken effect, and `Uncover`: when the value was lost already, a
`set` that is replacing it can let an older copy show, if an earlier cleanup of
it had failed. The comment of `envelope::set` that a secret reads as absent if a
later step fails does not count that case.

### SignIns

A task is one request: a proxy or credential request of a client that needs the
gateway identity, GitHub or a subscription, a `/login` request, or the sign-in
started at launch. Its labels are the waits of the code: a lock, a provider call,
a page, a save. `store` holds per service whether the access token is usable and
whether the refresh token is the provider's current one; a refresh rotates it or
keeps it (`Rotated`, `Kept`), and the provider may answer that the grant is gone
or its answer may be lost (`Forgotten`, `ReplyLost`). All pages listen on one
loopback port (another for OpenAI). `polls` are background polls of device
grants, which survive the request that started them.

### FleetReports

Files have versions. The watch may miss a change, the debouncer and the change
channel hold one signal each, and the refresher takes the signal before it scans.
A stream at the controller is its reading task, its response and the messages in
flight. The reading task may end while the response stays open, because the
configuration task holds a sender: what the device then sends is lost until it
leaves the stream by itself. Tables keep per device whether it is known, which
version of the inventory is stored and whether any report is; these rows go with
the device (`ON DELETE CASCADE`), while usage totals stay on purpose
(`0004_usage.sql:12-14`). A stream is refused when its certificate names a device
that has no row, and also when the database cannot be read
(`ConnectDatabaseFails`): in both cases the agent drops its identity and enrolls
again. Heartbeats and the
contents of a status are abstracted; a message at the limits and one beyond each
limit stand for telemetry.

### Usage

A record of the gateway's log is what decides how it is counted: whether it is an
LLM request, its tokens (0 to `MAX_TOKENS_PER_REQUEST`, or it is rejected), its
decimal cost, its device, billing and clock. The
table of rollups is a bag of row keys and records, so a record counted twice is an
element with two copies. A maintenance job is its four statements in order; with
`Serial` (SQLite) an ingest does not fall between the first two. `report`
computes what `report.rs` computes from the same rows: summary, change to the
previous window, buckets, ranked breakdown.

### ManagedPrograms and its parts

One program of one host is managed at a time; several programs in one apply are
`Reconciler`'s. `PlanFor` is the `plan` of the provider and yields a verdict, the
operations in order and what was read. An apply plans, validates that what was
read is unchanged, and performs one operation per step, each of which may fail;
a crash leaves the same disk as a failed operation. The user edits documents,
sidecars and modes, an administrator the policy key, the configuration changes
and the daemon restarts, with or without the proxy and with another pairing.
Documents map settings to `None`, a user's value or a managed one; of the managed
settings only those that decide whether the program reaches the gateway are kept
apart (`url`, `auth`, `model`, ...). Pass-through settings may be null, which the
TOML of Codex and Grok cannot hold (`Toml`). `Configure` takes only what
`validate_daemon` accepts from a set with valid and invalid configurations.
`torn` are the files of Pi and Claude Desktop that an apply wrote before it was
stopped and whose sidecar or marker it had not written yet.

`ClientRequests` are the requests that the written files make a program send;
`Served` says that `ProxyRoutes` admits them.

### DaemonLifecycle

Each daemon goes through the startup sequence of `run_until_shutdown`: resolve,
bind the proxy, load or make the pairing value, refuse what `--once` cannot do,
apply once, make the state directory (`StartServices`), restore and apply, bind,
serve. The socket path, the port, the pairing file, the cached configuration, the
choice and the programs' files are shared by the daemons of one scope and survive
them. An apply writes the programs in the order of `MANAGED_PROGRAMS`, and on
Windows the registry values of Claude Desktop last; one that fails or whose daemon
is killed has written a prefix (`ApplyPart`). A push whose apply or save failed is
kept as `unsaved` until a tick applies and saves it. `Meddle` removes or damages
one file, also under running daemons; a killed daemon leaves its socket. The
applies of two daemons do not overlap here. The daemons share no lock, so in
reality they can; a write of the other between validation and write is then as
unguarded as the user's edit there, which `Reconciler` has (`raced`). The usage
receiver and the sign-ins that a launch starts change nothing the properties
speak of and are left out (the sign-ins are in `SignIns`). `rival` is history: two
daemons with different pairing values ran at once. The specification is called
`DaemonSpec`, and that of `FleetReports` `FleetSpec`, so that a proof module can
extend two components.

## Runs

| Run | Instance | Checks |
|-----|----------|--------|
| `identity` | session and one droppable request, 1 device, 2 tokens, 1 logout, 1 restart, failing storage | `UnreadableOnlyAfterDelete`, `RefreshSerialized`, `LogoutAnswered` |
| `identity_spent` | session and one request, 3 tokens | `NoSpentTokenPresented`, violated |
| `config` | 3 bodies (one does not parse, one choosable), 3 events of: a hot reload or redeploy, two faults, a choice, a restart | `LastApplyIsCurrent`, `ChannelHoldsLatest`, `RestartRestoresApplied`, `Converges` |
| `proxy` | 2 requests, 2 devices, 2 credentials, 3 units of time, one suspended, the clock set once | `NoOldDevice`, `RetryTakesLater`, `ServedInWindow`, `NoNeedlessFetch` |
| `enrollment` | 2 enrollments against a limit of 1, 2 completing calls, 3 keys, 5 units of time | `PlacesKept`, `OneDevice`, `AcceptedInTime`, `KeysRefreshed` |
| `reconcile` | 2 programs of each pair of kinds, 2 settings, another pairing, 3 changes, failing writes, 1 restart | `UserContentKept`, `ReportHolds`, `Idempotent` |
| `secret_store` | 2 processes, 2 secrets, 3 keys, both platforms | `FileMatchesKey`, `Implements` |
| `sign_ins` | 2 requests of any kind, each authentication, 1 expiry, 1 fault | `OneGrant`, `RotatedTokenSaved`, `NoNeedlessSignIn`, `RequestsEnd` |
| `fleet_reports` | 2 streams, 2 devices, 1 change, 1 report, 1 fault | `NoLostWakeup`, `ReportsNeverBreak`, `InventoryArrives`, `DeletedStaysGone` |
| `usage` | 2 records of 4 logs, at most 1 token, days of 2 hours, retention of 1 and 3 days, 2 offsets, 1 failed job | `ExactlyOnce`, `BucketsAddUp`, `MaintenanceInvisible` |
| `managed_programs` | 10 hosts, valid and invalid configurations of each program, 2 edits, 2 configurations, 1 restart | `UserKept`, `Recoverable`, `Settled`, `Plannable`, `FailClosed` |
| `lifecycle` | 2 daemons, 6 launches, 3 machines, 2 launches in a run, 1 fault, 1 damaged file | `PairingCurrent`, `OnceSelfContained`, `StopEnds`, `StartsAgain` |

The comment before each property says what it means and which code it is about.

The bounds are the smallest at which every action fires and the races the
properties are about can happen.

* `identity`: one concurrent request for every two-actor race on the mutex.
* `config`: `MaxEvents` of 3 for a change of configuration and two things that
  happen to it while a tick, a choice change and a push are all under way: two
  faults (a failing apply, and a failing save or a broken stream after it), a fault
  and a choice, or a fault and a restart. Ends of faults are not counted. A device whose only configuration does not parse waits for
  the next, so deadlock is not checked.
* `proxy`: two requests for every race on the cache and the flight lock, two
  devices to tell an old credential from a new one, two credentials for a
  rejection and a retry, and 3 units of 30 s to pass the end of the 60 s window.
  Time and credentials run out, so deadlock is not checked; the same holds for
  `enrollment`, and for `sign_ins` and `lifecycle`, where the requests and
  launches run out.
* `enrollment`: one enrollment more than the limit, a second call for every race
  on the gate and on one enrollment, time for a reservation to expire and the
  cooldown to pass twice.
* `reconcile`: two programs for a failure after another program was written, two
  settings so that one stays the user's, two configurations so that a setting
  stops being managed, three changes: a configuration, an edit of what it wrote,
  and its withdrawal. Applies are not bounded.
* `secret_store`: a writer and a reader, or two writers; three keys, so that both
  can replace a lost one. Calls are not bounded.
* `sign_ins`: a second request for every lock, port and pending grant; a request
  that starts after a crash meets what the one before it left in the store.
* `fleet_reports`: two streams for a late message of the one the device left,
  two devices for a new enrollment after a deletion, one change and one fault.
* `usage`: two records, since nothing relates three; time runs past the retention
  of both, two offsets of which one is not a whole number of hours.
* `managed_programs`: a configuration and its successor, and two edits (one of
  the file and one of what tells its owner) around an interrupted apply.
* `lifecycle`: a daemon that was killed or refused, and the one that comes after
  or runs beside it, with one failing step and one lost or damaged file. A failing
  initial apply counts as a fault.

### What the violation shows

`identity_spent`: the session ignores a stored identity that is newer than its
own but not fresh, presents a refresh token that was already exchanged, and
deletes the identity when the provider rejects it.

### Differences without a run

The first three were shown by runs of earlier versions of this directory, which
checked only the stated difference.

* A request that is refreshing during a logout saves the deleted identity again
  (`remote.rs:1341`); `docs/device-identity.md:364-366` says "The daemon deletes
  `identity.json`, the device private key, and the OIDC tokens, stops enforcing
  the controller's configuration, and returns to enrollment."
* With hot reloads the outcome of a tick on the old content has the revision of
  the new one and makes the daemon save a configuration that never applied
  (`remote.rs:823`); the repository's `README.md:751-752` says "A controller
  configuration whose apply failed is saved as the one to restore once a tick
  applies it". `RestartRestoresApplied` therefore speaks of revisions that
  identify a content.
* A 401 to a request that forwards a client token drops the gateway credential
  that this request fetched (`llm_proxy.rs:838`); `README.md:357-359` says the
  "cached gateway credential is kept".
* The save after a certificate renewal (`remote.rs:421`) is outside the refresh
  mutex and puts back a token that a request rotated and saved during the
  renewal, although `docs/device-identity.md:290` says a rotated refresh token is
  saved immediately.
* A logout taken during enrollment (`remote.rs:557`, `TakeUnenrolledLogout`) is
  answered with success and leaves the restored configuration current.
  `README.md:749-751` says "After a logout from the controller the tick stops
  re-applying".
* `README.md:829-831` says an apply is all or nothing across programs. A failing
  operation leaves the programs before it written, as the comment at
  `reconcile/plan.rs:13` admits; `ReportHolds` states what does hold.
* When the settings file is written and the sidecar is not (`torn`), a merged
  program keeps the managed values after an opt-out, although `README.md:783-785`
  says the daemon removes the settings it wrote. `UserContentKept` leaves these
  programs out. With a lost sidecar and an entry under a reserved name that is no
  longer managed, the next merge takes the entry for the user's (`Adopts`).
* The comment of `device_login_status` (`gateway_oidc.rs:368`) says the lock is
  taken for a local read only; a stale token is refreshed under it.

### Observations

What modelling showed that no document of the repository denies.

* Usage: under PostgreSQL's read committed isolation, a record older than the
  hourly retention that is ingested between the INSERT and the DELETE of
  `compact` is deleted uncounted (`Serial = FALSE` in the model). A late record
  splits its day into an hourly and a daily row until the next compaction, and a
  record sent again after the receipts' seven days counts twice. A report uses
  several queries without a transaction.
* Sign-ins: discovery and the code exchange have no timeout while the login lock
  is held (`Untimed`). GitHub's page lingers for 60 s on the port that the other
  pages need. The `/login` handler is not spawned, so a disconnect can lose a
  rotated token (`RotatedTokenSaved` excepts it).
* Reports: a database error while a stream opens is answered as an unknown device
  (`service.rs:393`), so the agent drops a valid identity and enrolls again.
  Messages sent after the reading task ended are lost. The order of a
  device's messages across streams is not kept, but the newer stream's snapshot
  arrives in the end.
* Providers: `validate_daemon` accepts nulls in the pass-through settings of Codex
  and Grok, and every plan then fails (`config.rs:831`). A `write_owned` that
  stopped after the file (`claude_desktop/reconcile.rs:572`), or a merge of Pi
  before its sidecar, leaves a file that is not recognised as managed; one
  interrupted in `remove_owned` leaves the marker.
  Entries of another pairing without a sidecar stay. A switch from
  `githubModels` to `ownModels` while the proxy is down removes the override also
  under `failClosed`; a `settings.json` that does not parse keeps it.
* Lifecycle: `bind_unix` replaces the socket of a live daemon, and `serve_unix`
  removes whatever is at its path when it ends. A cached configuration that does
  not parse keeps a daemon with a controller from starting. When the proxy stops
  later, the programs' files point to a port nobody owns. Such a daemon goes on
  applying at each tick: when the pairing file is lost and a second daemon takes
  the port with a new value, the first puts its old value back into the programs'
  files, and the second puts its own back at its next tick (`rival`).

## Fairness

Fairness is assumed of code that runs by itself and never of users, providers or
faults.

* `DeviceIdentity`: the session task keeps running. What it waits for has a
  timeout or is watched together with a logout, except the certificate renewal
  (`remote.rs:410`), whose call has none and is awaited outside `select!`: it is not
  fair, and `LogoutAnswered` excepts a session that waits there for ever. A logout
  branch that is ready again and again is taken, because
  `select!` polls its ready branches in random order.
* `ConfigPipeline`: the same of the connection loop; the tick fires every
  `reconcileInterval`, and the controller's update task runs. `Converges` speaks
  of runs in which the faults end and the published configuration parses.
* `ControllerEnrollment`: a key fetch ends by its timeout, and a tokio mutex
  serves its waiters in order (strong fairness of the gate).
* `SignIns`: each wait that has a timer or a lock's queue ends. Provider calls
  without a timeout (`Untimed`) may hang for ever, and `RequestsEnd` says so.
* `FleetReports`: the refresher's interval, the session's retries, the expiry of
  tokens (which makes the device leave its stream) and the controller's tasks.
* `DaemonLifecycle`: a process that can go on does.

The other modules have no liveness property and no fairness.

## Proofs

`DeviceIdentityProofs` proves for any set of requests and any bounds:
`TypeCorrect`, `RefreshesSerialized` and `UnreadableAfterDelete`, from the
assumptions that the session is not a request and that the bounds are natural
numbers. The inductive invariant `IInv` adds to the type invariant that

* an actor inside a refresh is the only holder of the mutex (`LockHeld`), which
  survives a logout that abandons the refresh and a dropped request because both
  release the mutex in the same step;
* a token response on its way to the store carries a token (`ReplyCarried`), and
  the session holds credentials wherever it may store them (`SessionHolds`),
  without which a save could write an empty secret;
* whoever is about to write `identity.json` has written the secrets of that
  device, or since then a deletion of that device has begun or another save has
  removed an item it could not read (`SecretsFirst`).

The proof has one lemma per group of actions, one case per action and one step
per conjunct.

`ControllerProofs` proves about `ControllerEnrollment`, for any enrollments, calls
and limits, `TypeCorrect`, `DeviceGrantsBounded`, `EnrollmentPlacesKept` and
`EnrollmentUsedOnce`. The bound on outstanding grants is not inductive. `IInv`
adds that a grant still waiting within the lifetime of its reservation has that
reservation in the map with its full expiry (`GrantReserved`), so pruning cannot
free its place, and that the map never holds more than the limit
(`PendingBounded`). For `OneDevice` it adds that an enrollment is in one place
only: in the map, with one completing call, or enrolled once (`UsedOnce`).
Counting rests on two lemmas on finite sets, for adding one occupied place and for
a map with fewer.

`EnrollmentAcceptedInTime` and `KeysRefreshedSafely` are action properties and
are proved from invariants of their own. `Deadlines`: a pending enrollment
expires within its lifetime of the answer that began it, also when a device grant
replaces the reservation's expiry. `Gated`: only the holder of the refresh gate
fetches, and its fetch ends within a unit of time. The cooldown of 30 s is longer
than the fetch timeout of 10 s, which `EnrollmentAssumption` states
(`JWKS_REFRESH_COOLDOWN` is neither 0 nor 1 units); with a shorter one two
fetches could follow each other at once. `KeysRefreshedSafely` has the two safety
conjuncts of `KeysRefreshed`; the third, that a call at the gate passes it, is
liveness.

`ReconcilerProofs` proves for any programs, settings, values and configurations
`TypeCorrect`, `UserContentSurvives`, `ReportsHold` and `ApplyIsIdempotent`, from
`ReconcilerAssumption`: users, configurations and other pairings use different
values, and every managed document manages something. `UserContentKept` speaks of a finished removal and is not inductive.
`IInv` adds

* what a sidecar says (`SidecarsWellFormed`): `after` differs from `before` only
  where it holds a managed value;
* what the user's document is while a program is managed (`MineKnown`): it can be
  computed from the file and the sidecar, as the rollback does;
* what an apply under way works on (`AsPlanned`): unless the user raced it, a
  program is on disk as it was planned from until its own file is written;
* that a program which a plan or a report leaves unmanaged has no sidecar, or no
  header (`ClearedInPlan`, `ClearedInReport`), so the user's document is what the
  file reads.

The lemmas `MergeKeeps`, `RemoveKeeps`, `OwnedKeeps` and `RemoveOwnedKeeps` show
for each planning function, apart from any behaviour, that its result keeps the
user's document computable; the actions are then a matter of which program's
files a step changes.

What an apply reports is a matter of a second invariant `RInv`, kept under `IInv`:

* a managed value under a reserved name is in the sidecar as one the daemon added,
  or in a program that is torn, being written, or planned to lose it
  (`NamesKnown`);
* a program nobody touched is on disk as it was planned from before its turn, and
  as planned after it (`Untouched`, `WrittenInTurn`);
* outside an apply the report holds of the disk and planning again changes nothing
  (`Reported`).

A third invariant `PInv` is about other pairings: an entry of one lies under a name
that every managed document has, and no sidecar records one as the user's, so a
removal that restores the user's document does not bring one back.

The lemmas behind both are again about the planning functions alone: what a merge
or a removal leaves under the reserved names, that a plan has the managed values,
and that planning from the planned files changes nothing.

`SecretStoreProofs` proves for any processes, secrets and keys `KeyOpensFile` and
`StoreIsAtomic`, the refinement. Its assumptions are that secrets and keys are not
the marks for a missing one. `IInv` adds to the type invariant and
`FileMatchesKey` the lock (`Exclusion`: a writer is alone), which call can be at
which label (`Kinds`), what a call has already established at each label
(`Progress`, for instance that a `set` about to write holds the key that is
stored), and the forms the entry has on each platform (`Form`). The refinement is
then shown action by action: a step that changes what a read returns or the stage
of a call is the abstract step of that name, the others are stutters. `StageMoves`
and `StageStays` say how a step of one call shows in `Stage`.

`DaemonProofs` proves about `LlmProxy`, for any requests and any bounds,
`OldDeviceNeverServed`, `RetryPresentsLater`, `CacheWindow` and `FetchIsNeeded`.
None is inductive.
`Devices` adds that the cached
credential was issued to the device it is filed under or a later one, that a
request looks up the device it noted, and that this device is not later than the
one enrolled (or about to be); `Credited` that credentials enter the cache
in the order of their calls, since the fetches of a key hold its flight lock, so
that what the cache holds is later than what was rejected and not earlier than
what it served. `MoveIInv`
reduces every action to what one request's new state has to satisfy. `Window`
says what `insert` wrote down with an entry: both deadlines lie within the TTL of
the fetch, seen with the sleep and the clock error of that time, and the one on
the wall clock before the margin of the expiry. `Locked` says that a fetch holds
the flight lock alone and that nothing its request could be served appears in the
cache meanwhile, unless the wall clock was set.

About `DaemonLifecycle` it proves, for any number of daemons, launches and faults,
`PairingIsCurrent` and `OnceLeavesNothing`. `DaemonInv` says of each daemon
(`Held`) that it holds the port exactly when it bound the proxy, that with the
port it has a value by the time it applies, and that nothing is applied before the
startup's apply. The conjunct on `pointer` is the property. It survives the steps
of another daemon because an apply, whole or stopped in between, writes to each
file that daemon's value or none, and two daemons that run at once hold the same
value or have met (`Met`), which the property excepts. For the `--once` mode the lemmas `AcceptedCallsNobody` and
`AcceptedPointsNowhere` say of `validate_one_shot` that what it accepts writes no
file which needs a daemon, and `EndsByOneShot` that a daemon at that point ends
well only by `OneShot`. The assumption is that no daemon is named like the marks
of a free or foreign port.

`ConfigPipelineProofs` proves for any bodies and bounds `TypeCorrect`,
`LastApplyCurrent`, `ChannelLatest` and `RestartRestores`. `IInv` has one conjunct
for each thing the connection loop, the tick and a choice change rely on across
their awaits:

* from its receipt to its save a pushed configuration is the current one
  (`Handling`), and a stopped daemon holds nothing in memory (`Stopped`);
* unless an apply is due, the last one was of the current configuration and choice
  (`AppliesCurrent`), whichever of the three performed it;
* of the outcomes in the watch channel and on their way to it, the one with the
  highest number is that of the last re-apply (`Channel`). Renumbering (`Rank`)
  keeps the order, which is a lemma on the cardinality of finite sets;
* while revisions identify contents (no hot reload): a revision has one body
  (`Identified`), the configuration received last is saved or held back
  (`Received`), what is saved was applied (`SavedWasApplied`), and a report of
  success is about a saved configuration (`AppliedReportHolds`).

`ControllerProofs` proves about `FleetReports`, for any streams, devices, changes,
events and faults, `WakeupKept`, `ReportsAccepted` and `DeletedGone`. `InOrder` adds that what was
noticed, scanned and published is no newer than the files and that a scan is no
older than the snapshot it replaces; `StreamsOK` that the messages in flight on a
stream are of its device and of events that the local API let through. With the
lemma `ValidStored` (what `validate_telemetry` accepts, `insert_telemetry`
accepts, for all lengths) no report makes the controller's task end.
`DeletedGone` is the safety half of `DeletedStaysGone`. The assumptions say that
sizes of events are natural numbers and that the bounds are.

`SignInsProofs` proves for any requests, expiries and faults `OneGrantAtATime`,
`RotatedTokensSaved` and `SignInIsNeeded`. `Local(t)` says per label of a request
which locks it holds (`LocksHeld`), that tokens in hand are current (`InHand`),
that on the way to a sign-in the stored token is not usable (`Unusable`) and that
a request about to start a device login sees none pending; `Published` that a
pending login has the only live poll; `SpentSaved` that a spent refresh token in
the store is about to be replaced by the holder of the service's lock, unless a
fault took the answer. `OthersKeep` is the frame of all the flows: a step of one
task that changes a stored token only under its lock disturbs no other. The
assumption is that no task is named like the marks of a free lock.

`ManagedProgramsProofs` proves for any hosts and configurations, and any number of
edits, configurations and restarts, `UserIsKept`, `FailsOverFiles` (`Plannable`)
and `RouteLeftAlone` (`FailClosed`). `HostsAssumption` says what a host and a
configuration are. `UserKept` compares the disk with history, and is kept by an
operation only because of what the plan it belongs to was made from. `IInv` has

* the form of the files (`Typed`), with the configuration in force one that
  `validate_daemon` accepted;
* why the daemon does not take what is the user's for its own (`Mine`): a whole
  file of the user's has no header or owner marker, a registry value of theirs is
  not claimed, and the override they had is what the sidecar records, or is in
  `settings.json` when there is no sidecar;
* that a plan that waits was made from files which were there (`Made`). The user
  may have edited them since; the validation (`~Stale`) then refuses it, and
  otherwise everything that was read is on disk;
* that the operations left of an apply are safe (`Applying`): none is on a file of
  the user's, none on the configured route without the proxy (`RouteSafe`, which
  gives `FailClosed`), and in `settings.json` the order holds: the sidecar before
  the override it records, and its removal after the override is restored
  (`SettingsSafe`). The order is what a failed operation or a crash between two
  of them needs.

The proof has one lemma per planning function (`PlanSafe` joins them): what it
plans from files that agree with the disk is safe. Those that the user's edits
need (`EditWholeIInv`, `EditVsCodeIInv`, `EditPolicyIInv`, ...) say that an edit
keeps the two sides of `Mine` together. `FailsOverFiles` needs no order: a plan
that failed was excused by something among what it read (`Excused`), composed with
the same operators as the plans, and `ValidGenerates` says that the providers can
make every document of a configuration that `validate_daemon` accepts.

The inductive invariants of these modules were checked by TLC on the instances of
the runs before they were proved, except for `Made` and for the bare statements
that something is a list, which quantify over all values: TLC cannot evaluate
them, and `PlanAll` establishes them by its assignment to `plan`.

Only model-checked, and why:

* the liveness properties `LogoutAnswered`, `Converges`, `RequestsEnd`,
  `InventoryArrives`, `StopEnds`, `StartsAgain` and the liveness parts of
  `KeysRefreshed` and `DeletedStaysGone`: fairness and `ENABLED` are outside the
  prover;
* `Usage` (`ExactlyOnce`, `BucketsAddUp`, `MaintenanceInvisible`): reports fold over
  the rows of a bag, and what a fold computes for every input needs an induction
  over data that the installed provers cannot apply;
* `Recoverable` and `Settled` of `ManagedPrograms`: both speak of what a whole list
  of operations leaves on disk (`AllPerformed`, a recursive function on the list),
  which again needs an induction over it.

## Not modelled

Data that no property tells apart is abstracted: messages, file formats, times of
day, the contents of catalogs, tool lists, hooks and MCP servers in the managed
documents.

* The web frontends, the desktop shell and the command line present the local API
  and keep no state of the system.
* Discovery of installed programs and models reads files and keeps no state; a
  scan is one step of `FleetReports`.
* Parsing of YAML, JSON and TOML, URL and host checks, headers and bodies of
  proxied requests: string processing whose outcome is a boolean of the models.
* Cryptography: certificates, signatures, PKCE and JWTs are valid or not.
* `secure_fs.rs` and `windows_security.rs`: one atomic write with its access
  rights. Peer checks of the local API are not modelled.
* `rollback_value` on nested documents and arrays: `JsonMerge` has documents of
  one level, which is where the properties live.
* `legacy_owned` (`json_merge.rs:185-187`), the migration of a settings file that an
  earlier version wrote whole: the models start without files of earlier versions,
  other than the legacy forms of secrets and of the VS Code sidecar.
* The size limit of a message on the device stream: a snapshot of the inventory
  always fits.
* Edits by the user during the writes of an apply are in `Reconciler` only, not
  in `ManagedPrograms`.
* Generated code, schema generation, SQL text.
