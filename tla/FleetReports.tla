---------------------------- MODULE FleetReports ----------------------------
(***************************************************************************)
(* What a device reports to the fleet controller, from the files on its    *)
(* disk to the controller's database: the inventory refresher and its file *)
(* watch (daemon.rs, inventory_watch.rs), the telemetry endpoint of the    *)
(* local API (api.rs), the agent's side of the device stream (remote.rs),  *)
(* the controller's stream handlers (service.rs), its                      *)
(* tables (database.rs) and the administrator who deletes a device         *)
(* (admin.rs).  How the device signs in is DeviceIdentity's; what a pushed *)
(* configuration does is ConfigPipeline's.                                 *)
(***************************************************************************)
EXTENDS Naturals, Sequences, FiniteSets

CONSTANTS
    Streams,        \* device streams the controller can hold at a time
    Devices,        \* device ids the controller can hand out
    Events,         \* telemetry events a tool may post: records of lengths
    QueueCap,       \* messages in flight on a stream
    PipeCap,        \* telemetry events waiting in the daemon (256)
    MaxChanges,     \* changes of the files the inventory comes from
    MaxSent,        \* telemetry events posted and configuration statuses sent
    MaxFaults,      \* lost streams, database errors, rejected tokens, deletions
    NoStream, NoDevice      \* no stream, no device

ASSUME EventsAssumption ==
    Events \subseteq [kind : {"session", "tool"}, client : Nat, name : Nat, use : Nat, input : Nat]
ASSUME BoundsAssumption ==
    /\ NoStream \notin Streams /\ NoDevice \notin Devices
    /\ MaxChanges \in Nat /\ MaxSent \in Nat /\ MaxFaults \in Nat

Versions == 0 .. MaxChanges
Reading  == MaxChanges + 1      \* the scan runs and has not read the files
Idle     == MaxChanges + 2      \* no scan runs

VARIABLES
    disk,       \* version of the files the inventory is built from
    noticed,    \* last version whose change the file watch saw
    event,      \* a change waits in the debouncer
    signal,     \* the refresher's change channel (capacity one)
    scan,       \* Idle, Reading, or the version a scan has read
    published,  \* the snapshot in the inventory channel
    seen,       \* the snapshot the device stream has taken last
    pipe,       \* telemetry events accepted by the local API
    device,     \* the device id of the agent's identity
    token,      \* the identity provider's view of the agent's access token
    current,    \* the stream the agent is attached to
    streams,    \* the controller's streams
    rows,       \* the rows that go with a device, by device
    deleted,    \* the devices the administrator has deleted
    sent,       \* telemetry events and configuration statuses so far
    faults      \* faults so far

inventory == <<disk, noticed, event, signal, scan, published>>
agent     == <<seen, pipe, device, token, current>>
service   == <<streams, rows, deleted>>
counters  == <<sent, faults>>
fleet     == <<inventory, agent, service, counters>>

(***************************************************************************)
(* A stream: whose it is, the token it was opened with, the task that      *)
(* reads it, the response the agent reads, and the messages in flight.     *)
(* The response is held open by the configuration task's sender as long as *)
(* the agent reads it, whatever becomes of the reading task.               *)
(***************************************************************************)
Ended(why, response) ==
    [device |-> NoDevice, token |-> "ok", task |-> "ended",
     why |-> why, response |-> response, net |-> <<>>]

(***************************************************************************)
(* What the controller's tables hold of a device: its row in devices and   *)
(* the rows that reference it and go with it (ON DELETE CASCADE).  Usage   *)
(* totals name a device and reference none: they outlive it on purpose     *)
(* (0004_usage.sql:12-14) and are the module Usage's.                      *)
(***************************************************************************)
NoRow     == [known |-> FALSE, inventory |-> Idle, reports |-> FALSE]
FreshRow  == [NoRow EXCEPT !.known = TRUE]

Attached  == current # NoStream
Fault     == faults < MaxFaults /\ faults' = faults + 1

----------------------------------------------------------------------------
(***************************************************************************)
(* The inventory on the device.                                            *)
(***************************************************************************)

(* A tool is installed, removed or reconfigured; the watch covers the      *)
(* directory or does not (it could not be watched, it is an executable's,  *)
(* or it is known only since a scan the watch has not followed).           *)
Change ==
    /\ disk < MaxChanges
    /\ disk' = disk + 1
    /\ \/ event' = TRUE /\ noticed' = disk'
       \/ UNCHANGED <<event, noticed>>
    /\ UNCHANGED <<signal, scan, published, agent, service, counters>>

(* The debouncer's callback: a signal already waiting absorbs this one.    *)
Debounced ==
    /\ event
    /\ event' = FALSE
    /\ signal' = TRUE
    /\ UNCHANGED <<disk, noticed, scan, published, agent, service, counters>>

(* The refresher wakes on its interval, or takes the signal; the signal is *)
(* consumed before the scan starts.                                        *)
Wake ==
    /\ scan = Idle
    /\ scan' = Reading
    /\ signal' \in {signal, FALSE}
    /\ UNCHANGED <<disk, noticed, event, published, agent, service, counters>>

Scan ==
    /\ scan = Reading
    /\ scan' = disk
    /\ UNCHANGED <<disk, noticed, event, signal, published, agent, service, counters>>

(* Mutant of Publish: signals that came during the scan are dropped.       *)
PublishAndDrain ==
    /\ scan \in Versions
    /\ published' = scan
    /\ scan' = Idle
    /\ signal' = FALSE
    /\ UNCHANGED <<disk, noticed, event, agent, service, counters>>

(* A snapshot that equals the published one is not published again.        *)
Publish ==
    /\ scan \in Versions
    /\ published' = scan
    /\ scan' = Idle
    /\ UNCHANGED <<disk, noticed, event, signal, agent, service, counters>>

----------------------------------------------------------------------------
(***************************************************************************)
(* Telemetry: the local API refuses what the controller would refuse, and  *)
(* what finds the daemon's queue full.                                     *)
(***************************************************************************)

(* Mutant of validate_telemetry: one set of limits for both kinds.         *)
ValidateAlike(e) ==
    e.client \in 1 .. 64 /\ e.name \in 1 .. 256 /\ e.use <= 256 /\ e.input <= 256 * 1024

validate_telemetry(e) ==
    /\ e.client \in 1 .. 64
    /\ e.kind = "session" => e.name \in 1 .. 256
    /\ e.kind = "tool" => e.name \in 1 .. 128 /\ e.use <= 256 /\ e.input <= 256 * 1024

(* The same limits, read from the controller's insert: an absent tool use  *)
(* id or input arrives as an empty one.                                    *)
insert_telemetry(e) ==
    /\ e.client # 0 /\ e.client <= 64
    /\ \/ e.kind = "session" /\ e.name # 0 /\ e.name <= 256
       \/ e.kind = "tool" /\ e.name # 0 /\ e.name <= 128
                          /\ e.use <= 256 /\ e.input <= 256 * 1024

PostTelemetry(e) ==
    /\ sent < MaxSent
    /\ sent' = sent + 1
    /\ pipe' = IF validate_telemetry(e) /\ Len(pipe) < PipeCap
                  THEN Append(pipe, e) ELSE pipe
    /\ UNCHANGED <<inventory, seen, device, token, current, service, faults>>

----------------------------------------------------------------------------
(***************************************************************************)
(* The agent's side of the stream.                                         *)
(***************************************************************************)

hello(d)     == [type |-> "hello", device |-> d]
snapshot(v)  == [type |-> "inventory", version |-> v]
use(e)       == [type |-> "telemetry", event |-> e]
status       == [type |-> "status"]

(* A message the controller no longer reads for is taken by the transport  *)
(* and lost: nothing tells the agent.                                      *)
send(m) ==
    LET s == streams[current]
    IN  /\ Len(s.net) < QueueCap
        /\ streams' = [streams EXCEPT ![current].net =
                           IF s.task = "ended" THEN s.net ELSE Append(s.net, m)]

(* Mutant of authenticate_device: the device row is not looked up.         *)
TrustCertificate ==
    IF token = "rejected" THEN "unauthenticated"
    ELSE IF token = "other" THEN "denied"
    ELSE "ok"

(* The controller answers a new stream once the device certificate names a *)
(* device it knows and the access token is its enrolled user's.            *)
authenticate_device ==
    IF token = "rejected" \/ ~rows[device].known THEN "unauthenticated"
    ELSE IF token = "other" THEN "denied"
    ELSE "ok"

(* What makes the agent give up a stream it opens and its identity with    *)
(* it.                                                                     *)
Rejected(answer) ==
    /\ device # NoDevice /\ ~Attached
    /\ answer = "unauthenticated"
    /\ device' = NoDevice
    /\ UNCHANGED <<inventory, seen, pipe, token, current, service, sent>>

FreeStreams == {s \in Streams : streams[s].task = "ended" /\ streams[s].response = "closed"}

(* Mutant of Connect: only later changes of the inventory are sent.        *)
ConnectWithoutSnapshot(s) ==
    /\ device # NoDevice /\ ~Attached
    /\ FreeStreams # {} /\ s = CHOOSE x \in FreeStreams : TRUE
    /\ authenticate_device = "ok"
    /\ streams' = [streams EXCEPT ![s] =
           [device |-> device, token |-> token, task |-> "starting", why |-> "none",
            response |-> "open", net |-> <<hello(device)>>]]
    /\ seen' = published
    /\ current' = s
    /\ UNCHANGED <<inventory, pipe, device, token, rows, deleted, counters>>

Connect(s) ==
    /\ device # NoDevice /\ ~Attached
    /\ FreeStreams # {} /\ s = CHOOSE x \in FreeStreams : TRUE
    /\ authenticate_device = "ok"
    /\ streams' = [streams EXCEPT ![s] =
           [device |-> device, token |-> token, task |-> "starting", why |-> "none",
            response |-> "open", net |-> <<hello(device), snapshot(published)>>]]
    /\ seen' = published
    /\ current' = s
    /\ UNCHANGED <<inventory, pipe, device, token, rows, deleted, counters>>

(* An unauthenticated answer makes the agent delete its identity and       *)
(* enroll again; any other failure is retried with the same identity.      *)
ConnectRejected ==
    /\ Rejected(authenticate_device)
    /\ UNCHANGED faults

(* A database that cannot be read answers like one without the device, so  *)
(* the agent drops an identity whose row is still there.                   *)
ConnectDatabaseFails ==
    /\ Fault
    /\ Rejected("unauthenticated")

Refresh ==
    /\ ~Attached /\ token # "ok"
    /\ token' = "ok"
    /\ UNCHANGED <<inventory, seen, pipe, device, current, service, counters>>

(* A device id is drawn at random, so it is one never used before.         *)
FreshIds == {d \in Devices : ~rows[d].known /\ d \notin deleted}

enroll_device ==
    /\ device = NoDevice
    /\ FreshIds # {}
    /\ device' = CHOOSE d \in FreshIds : TRUE
    /\ rows' = [rows EXCEPT ![device'] = FreshRow]
    /\ token' = "ok"
    /\ UNCHANGED <<inventory, seen, pipe, current, streams, deleted, counters>>

SendInventory ==
    /\ Attached /\ seen # published
    /\ seen' = published
    /\ send(snapshot(published))
    /\ UNCHANGED <<inventory, pipe, device, token, current, rows, deleted, counters>>

SendTelemetry ==
    /\ Attached /\ pipe # <<>>
    /\ pipe' = Tail(pipe)
    /\ send(use(Head(pipe)))
    /\ UNCHANGED <<inventory, seen, device, token, current, rows, deleted, counters>>

SendStatus ==
    /\ Attached /\ sent < MaxSent
    /\ sent' = sent + 1
    /\ send(status)
    /\ UNCHANGED <<inventory, agent, rows, deleted, faults>>

Leave(kept) ==
    /\ current' = NoStream
    /\ streams' = [streams EXCEPT ![current].response = "closed", ![current].net = kept]

(* A minute before the access token expires the agent leaves the stream,   *)
(* refreshes the token and connects again.                                 *)
OauthReconnect ==
    /\ Attached
    /\ Leave(streams[current].net)
    /\ token' = "ok"
    /\ UNCHANGED <<inventory, seen, pipe, device, rows, deleted, counters>>

(* The connection fails and what was still on its way is lost.             *)
StreamLost ==
    /\ Attached /\ Fault
    /\ \E n \in 0 .. Len(streams[current].net) : Leave(SubSeq(streams[current].net, 1, n))
    /\ UNCHANGED <<inventory, seen, pipe, device, token, rows, deleted, sent>>

(* The agent reads the status the controller closed the stream with.       *)
ReadStatus ==
    /\ Attached
    /\ streams[current].response \notin {"open", "closed"}
    /\ device' = IF streams[current].response = "unauthenticated" THEN NoDevice ELSE device
    /\ Leave(<<>>)
    /\ UNCHANGED <<inventory, seen, pipe, token, rows, deleted, counters>>

(* The identity provider rejects the token, or finds it another user's.    *)
TokenChanges ==
    /\ Fault /\ token = "ok"
    /\ \E t \in {"rejected", "other"} :
          /\ token' = t
          /\ streams' = [s \in Streams |-> IF s = current THEN [streams[s] EXCEPT !.token = t]
                                                          ELSE streams[s]]
    /\ UNCHANGED <<inventory, seen, pipe, device, current, rows, deleted, sent>>

----------------------------------------------------------------------------
(***************************************************************************)
(* The controller's side.                                                  *)
(***************************************************************************)

(* The reading task ends, dropping what it has not read.  Its own sender   *)
(* goes with it, the configuration task's does not, so the response stays  *)
(* as it is unless the task has closed it with a status.                   *)
End(s, why, response) ==
    streams' = [streams EXCEPT ![s] =
                    Ended(why, IF streams[s].response = "open" THEN response ELSE "closed")]

device_principal(s) ==
    /\ streams[s].task = "starting"
    /\ IF rows[streams[s].device].known
          THEN streams' = [streams EXCEPT ![s].task = "running"]
          ELSE End(s, "unknown", "open")
    /\ UNCHANGED <<inventory, agent, rows, deleted, counters>>

(* Every five minutes.  An identity provider that cannot be reached leaves *)
(* the stream as it is.                                                    *)
Revalidate(s) ==
    /\ streams[s].task = "running" /\ streams[s].token # "ok"
    /\ End(s, "token", IF streams[s].token = "other" THEN "denied" ELSE "unauthenticated")
    /\ UNCHANGED <<inventory, agent, rows, deleted, counters>>

(* Why the database takes or refuses a message.  A hello or a heartbeat of *)
(* a device that is gone updates no row and is no error; an insert for it  *)
(* fails on the foreign key.  A configuration status whose program rows    *)
(* are refused is stored without them, not refused.                        *)
Outcome(s, m) ==
    CASE m.type = "hello" /\ m.device # streams[s].device    -> "mismatch"
      [] m.type = "hello" /\ m.device = streams[s].device    -> "stored"
      [] m.type = "telemetry" /\ ~insert_telemetry(m.event)  -> "refused"
      [] OTHER -> IF rows[streams[s].device].known THEN "stored" ELSE "unknown"

(* Rows inserted for a device; the inventory replaces the one before it.   *)
Stored(r, m) ==
    CASE m.type = "hello"     -> r
      [] m.type = "inventory" -> [r EXCEPT !.inventory = m.version]
      [] OTHER                -> [r EXCEPT !.reports = TRUE]

handle_agent_message(s) ==
    /\ streams[s].task = "running" /\ streams[s].net # <<>>
    /\ LET m == Head(streams[s].net)
           d == streams[s].device
       IN  IF Outcome(s, m) # "stored"
              THEN End(s, Outcome(s, m), "open") /\ UNCHANGED rows
              ELSE /\ streams' = [streams EXCEPT ![s].net = Tail(@)]
                   /\ rows' = [rows EXCEPT ![d] = Stored(@, m)]
    /\ UNCHANGED <<inventory, agent, deleted, counters>>

DatabaseFails(s) ==
    /\ Fault
    /\ \/ streams[s].task = "starting"
       \/ streams[s].task = "running" /\ streams[s].net # <<>>
    /\ End(s, "database", "open")
    /\ UNCHANGED <<inventory, agent, rows, deleted, sent>>

(* The reading task reaches the end of a stream its agent has left.        *)
EndOfStream(s) ==
    /\ streams[s].task = "running" /\ streams[s].net = <<>>
    /\ streams[s].response = "closed"
    /\ End(s, "left", "open")
    /\ UNCHANGED <<inventory, agent, rows, deleted, counters>>

delete_device(d) ==
    /\ Fault /\ rows[d].known
    /\ rows' = [rows EXCEPT ![d] = NoRow]
    /\ deleted' = deleted \cup {d}
    /\ UNCHANGED <<inventory, agent, streams, sent>>

----------------------------------------------------------------------------
FleetInit ==
    /\ disk = 0 /\ noticed = 0 /\ published = 0 /\ seen = 0
    /\ event = FALSE /\ signal = FALSE /\ scan = Idle
    /\ pipe = <<>> /\ device = NoDevice /\ token = "ok" /\ current = NoStream
    /\ streams = [s \in Streams |-> Ended("left", "closed")]
    /\ rows = [d \in Devices |-> NoRow]
    /\ deleted = {}
    /\ sent = 0 /\ faults = 0

Refresher == Debounced \/ Wake \/ Scan \/ Publish
Session   == ConnectRejected \/ Refresh \/ enroll_device \/ ReadStatus
Reader(s) == device_principal(s) \/ Revalidate(s) \/ handle_agent_message(s) \/ EndOfStream(s)

FleetNext ==
    \/ Change \/ Refresher
    \/ \E e \in Events : PostTelemetry(e)
    \/ Session \/ OauthReconnect
    \/ SendInventory \/ SendTelemetry \/ SendStatus
    \/ StreamLost \/ TokenChanges \/ ConnectDatabaseFails
    \/ \E s \in Streams : Connect(s) \/ Reader(s) \/ DatabaseFails(s)
    \/ \E d \in Devices : delete_device(d)

(* The refresher's interval fires again and again, the agent's session     *)
(* loop retries, tokens expire, and the controller's tasks run.  Nothing   *)
(* is assumed of changes, posts, faults or deletions.                      *)
FleetFairness ==
    /\ WF_fleet(Wake) /\ WF_fleet(Scan) /\ WF_fleet(Publish)
    /\ WF_fleet(Session)
    /\ WF_fleet(\E s \in Streams : Connect(s))
    /\ WF_fleet(OauthReconnect)
    /\ WF_fleet(SendInventory)
    /\ \A s \in Streams : WF_fleet(Reader(s))

FleetSpec == FleetInit /\ [][FleetNext]_fleet /\ FleetFairness

----------------------------------------------------------------------------
(* A change the file watch has seen is never forgotten: until a snapshot   *)
(* at least as new is published, the change is still in the debouncer, the *)
(* signal waits for the refresher, or a scan that will read it is running. *)
(* (refresh_inventory_with takes the signal before it scans, and the       *)
(* channel holds one.)                                                     *)
NoLostWakeup ==
    noticed > published =>
        event \/ signal \/ scan = Reading \/ (scan \in Versions /\ scan >= noticed)

(* No report makes the controller stop reading: a reading task ends only   *)
(* with its agent, its token, its device or the database, never because of *)
(* what the agent accepted and sent.  (The stream stays open after such an *)
(* end and everything sent on it is lost, so a report that did it would    *)
(* silence the device on every stream.)                                    *)
ReportsNeverBreak ==
    \A s \in Streams : streams[s].why \notin {"refused", "mismatch"}

(* The inventory the administrator is shown (get_device) becomes and stays *)
(* that of the files on the device, once they stop changing: through a     *)
(* missed watch, a lost stream, a reading task that ended while its stream *)
(* stayed open, a late message of an old stream and a new enrollment.      *)
get_device(d) == IF rows[d].known THEN rows[d].inventory ELSE Idle

InventoryArrives ==
    <>[](device # NoDevice /\ get_device(device) = disk)

(* A device the administrator deleted has no row in devices and none in    *)
(* the tables that reference it, whatever its open streams still deliver.  *)
(* (Its usage totals stay, as README.md:913 says.)                         *)
DeletedHasNoRows == \A d \in deleted : rows[d] = NoRow

(* It stays deleted, and it finds out: its agent drops that identity.      *)
DeletedStaysGone ==
    /\ []DeletedHasNoRows
    /\ (device \in deleted) ~> (device \notin deleted)
=============================================================================
