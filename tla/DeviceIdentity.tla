--------------------------- MODULE DeviceIdentity ---------------------------
(***************************************************************************)
(* The device identity of one daemon: the session loop of remote.rs that   *)
(* enrolls, refreshes, renews, connects and logs out, and the credential   *)
(* and usage requests of the local API and of the LLM proxy that refresh   *)
(* the same identity concurrently.                                         *)
(*                                                                         *)
(* A device is a positive number, in the order of enrollment; 0 is "none". *)
(* A token is a positive number, in the order of issue, and stands for one *)
(* OAuthCredentials record: its access token is "fresh" while it expires   *)
(* more than 120 s from now, and its refresh token is "live" while the     *)
(* identity provider accepts it.                                           *)
(*                                                                         *)
(* The two secrets of a device (TLS key and OAuth credentials) are one     *)
(* cell, secrets[d].  The key of a device never changes, and load reads a  *)
(* device with either item missing as unreadable, so a state with only one *)
(* of them behaves like the state before or after both.                    *)
(***************************************************************************)
EXTENDS Integers

CONSTANTS Session,     \* the task that runs remote::run
          Requests,    \* credential and usage requests being served
          Droppable,   \* the requests whose future the local API server drops
                       \* when the client disconnects (the others are detached)
          MaxDevices,  \* bound on enrollments
          MaxTokens,   \* bound on tokens issued by the identity provider
          MaxLogouts,  \* bound on logout requests
          MaxCrashes,  \* bound on daemon restarts
          IOFaults     \* TRUE: the secret store and identity.json can fail

ASSUME ActorsAssumption == Session \notin Requests /\ Droppable \subseteq Requests
ASSUME BoundsAssumption == MaxDevices \in Nat /\ MaxTokens \in Nat
                           /\ MaxLogouts \in Nat /\ MaxCrashes \in Nat
                           /\ IOFaults \in BOOLEAN

VARIABLES
  meta,       \* identity.json: the device it names, or 0
  secrets,    \* the secret store: secrets[d] is the stored token of d, or 0
  pc,         \* where each actor is
  mem,        \* the Identity each actor holds in memory
  reply,      \* the token a refresh response carries to an actor, or 0
  lock,       \* OAUTH_REFRESH_MUTEX: the actors holding it
  cause,      \* why the session is deleting the identity
  fresh,      \* tokens whose access token is not about to expire
  live,       \* tokens whose refresh token the identity provider accepts
  spent,      \* refresh tokens replaced by a rotation
  devices,    \* devices enrolled so far
  tokens,     \* tokens issued so far
  logout,     \* TRUE: a LogoutRequest is in the channel or being served
  current,    \* TRUE: the reconcile tick has a configuration to re-apply
  saved,      \* TRUE: remote-config.yaml exists
  enrollment, \* EnrollmentState
  connected,  \* ControllerConnectionState.connected
  logouts, crashes,
  \* History, read by no action:
  deleting,   \* devices whose deletion has begun
  cleared,    \* devices whose item a save could not read, removed and has not
              \* written again
  lost        \* a rotation's response did not reach the store for a reason
              \* outside the daemon's control

disk    == <<meta, secrets>>
idp     == <<fresh, live, spent, devices, tokens>>
config  == <<current, saved>>
status  == <<enrollment, connected>>
bounds  == <<logouts, crashes>>
history == <<deleting, cleared, lost>>
vars == <<disk, pc, mem, reply, lock, cause, idp, logout, config, status, bounds, history>>

Actors  == {Session} \cup Requests
Devices == 1 .. MaxDevices
Tokens  == 1 .. MaxTokens
Causes  == {"none", "discard", "logout", "rejected", "supervisorLogout", "supervisorDiscard"}
RefreshLabels == {"check", "lock", "reload", "idp", "reply", "replyCleared", "replySaved"}
InRefresh == {"reload", "idp", "reply", "replyCleared", "replySaved"}
Labels  == RefreshLabels \cup
           {"idle", "call", "load", "enroll", "saveNew", "newCleared", "savedNew", "renew",
            "save", "saveCleared", "saved", "connect", "stream", "retry", "failed", "delete",
            "deleteMeta"}

Identities == [dev : 0 .. MaxDevices, tok : 0 .. MaxTokens]
NoIdentity == [dev |-> 0, tok |-> 0]

TypeOK ==
  /\ meta \in 0 .. MaxDevices
  /\ secrets \in [Devices -> 0 .. MaxTokens]
  /\ pc \in [Actors -> Labels]
  /\ mem \in [Actors -> Identities]
  /\ reply \in [Actors -> 0 .. MaxTokens]
  /\ lock \subseteq Actors
  /\ cause \in Causes
  /\ fresh \subseteq Tokens /\ live \subseteq Tokens /\ spent \subseteq Tokens
  /\ devices \in 0 .. MaxDevices /\ tokens \in 0 .. MaxTokens
  /\ logout \in BOOLEAN /\ current \in BOOLEAN /\ saved \in BOOLEAN
  /\ enrollment \in {"starting", "awaitingAuthentication", "enrolled", "failed"}
  /\ connected \in BOOLEAN
  /\ logouts \in 0 .. MaxLogouts /\ crashes \in 0 .. MaxCrashes
  /\ deleting \subseteq Devices /\ cleared \subseteq 0 .. MaxDevices
  /\ lost \in BOOLEAN

Init ==
  /\ meta = 0 /\ secrets = [d \in Devices |-> 0]
  /\ pc = [a \in Actors |-> IF a = Session THEN "load" ELSE "idle"]
  /\ mem = [a \in Actors |-> NoIdentity] /\ reply = [a \in Actors |-> 0]
  /\ lock = {} /\ cause = "none"
  /\ fresh = {} /\ live = {} /\ spent = {} /\ devices = 0 /\ tokens = 0
  /\ logout = FALSE /\ current = FALSE /\ saved = FALSE
  /\ enrollment = "starting" /\ connected = FALSE
  /\ logouts = 0 /\ crashes = 0
  /\ deleting = {} /\ cleared = {} /\ lost = FALSE

-----------------------------------------------------------------------------
(* identity::load *)
Unreadable == meta # 0 /\ secrets[meta] = 0
Readable   == meta # 0 /\ secrets[meta] # 0
Stored     == [dev |-> meta, tok |-> secrets[meta]]

(* load answers IdentityUnreadable: a secret is missing or, with faults,   *)
(* cannot be read or decoded although it is there.                         *)
LoadUnreadable == meta # 0 /\ (Unreadable \/ IOFaults)

Goto(a, label) == pc' = [pc EXCEPT ![a] = label]

(* The error return of an actor: the supervisor in remote::run marks the   *)
(* session failed, a request answers its caller with the error.            *)
Fails(a) ==
  /\ Goto(a, IF a = Session THEN "failed" ELSE "idle")
  /\ enrollment' = IF a = Session THEN "failed" ELSE enrollment
  /\ connected'  = (connected /\ a # Session)

(* identity::save writes the secrets first, then the metadata.  A stored   *)
(* item is written in place, unless reading it fails: then it is removed,  *)
(* and written by the next step.                                           *)
StoreSecrets(a, t) ==
  /\ secrets' = [secrets EXCEPT ![mem[a].dev] = t]
  /\ cleared' = cleared \ {mem[a].dev}

StoreMeta(a) == meta' = mem[a].dev

ClearUnreadable(a) ==
  /\ IOFaults /\ pc[a] \in {"reply", "saveNew", "save"}
  /\ secrets' = [secrets EXCEPT ![mem[a].dev] = 0]
  /\ cleared' = cleared \cup {mem[a].dev}
  /\ Goto(a, CASE pc[a] = "reply"   -> "replyCleared"
              [] pc[a] = "saveNew" -> "newCleared"
              [] pc[a] = "save"    -> "saveCleared")
  /\ UNCHANGED <<meta, mem, reply, lock, cause, idp, logout, config, status, bounds, deleting,
                 lost>>

-----------------------------------------------------------------------------
(* refresh_oauth_if_needed, run by the session and by every request *)

(* The session goes on to renew the device certificate when it is due.     *)
RefreshDone(a) == \E l \in IF a = Session THEN {"renew", "save"} ELSE {"call"} : Goto(a, l)

CheckExpiry(a) ==
  /\ pc[a] = "check"
  /\ IF mem[a].tok \in fresh THEN RefreshDone(a) ELSE Goto(a, "lock")
  /\ UNCHANGED <<disk, mem, reply, lock, cause, idp, logout, config, status, bounds, history>>

\* Mutant of AcquireRefreshLock: the mutex is not awaited.
AcquireWithoutWaiting(a) ==
  /\ pc[a] = "lock"
  /\ lock' = lock \cup {a} /\ Goto(a, "reload")
  /\ UNCHANGED <<disk, mem, reply, cause, idp, logout, config, status, bounds, history>>

AcquireRefreshLock(a) ==
  /\ pc[a] = "lock" /\ lock = {}
  /\ lock' = {a} /\ Goto(a, "reload")
  /\ UNCHANGED <<disk, mem, reply, cause, idp, logout, config, status, bounds, history>>

(* A fresh stored identity is adopted; a stale, missing or unreadable one  *)
(* leaves the identity in memory to be refreshed.                          *)
ReloadStored(a) ==
  /\ pc[a] = "reload"
  /\ \/ /\ Readable /\ secrets[meta] \in fresh
        /\ mem' = [mem EXCEPT ![a] = Stored]
        /\ lock' = lock \ {a} /\ RefreshDone(a)
     \/ /\ ~(Readable /\ secrets[meta] \in fresh) \/ LoadUnreadable
        /\ Goto(a, "idp") /\ UNCHANGED <<mem, lock>>
  /\ UNCHANGED <<disk, reply, cause, idp, logout, config, status, bounds, history>>

(* load fails before it reaches the secrets: identity.json or the store    *)
(* cannot be opened.                                                       *)
ReloadFails(a) ==
  /\ IOFaults /\ pc[a] = "reload"
  /\ lock' = lock \ {a} /\ Fails(a)
  /\ UNCHANGED <<disk, mem, reply, cause, idp, logout, config, bounds, history>>

(* The identity provider answers oidc::refresh; it may rotate the token.   *)
IdpRotates(a) ==
  /\ pc[a] = "idp" /\ mem[a].tok \in live /\ tokens < MaxTokens
  /\ tokens' = tokens + 1
  /\ live' = (live \ {mem[a].tok}) \cup {tokens + 1}
  /\ spent' = spent \cup {mem[a].tok}
  /\ fresh' = fresh \cup {tokens + 1}
  /\ reply' = [reply EXCEPT ![a] = tokens + 1] /\ Goto(a, "reply")
  /\ UNCHANGED <<disk, mem, lock, cause, devices, logout, config, status, bounds, history>>

IdpExtends(a) ==
  /\ pc[a] = "idp" /\ mem[a].tok \in live
  /\ fresh' = fresh \cup {mem[a].tok}
  /\ reply' = [reply EXCEPT ![a] = mem[a].tok] /\ Goto(a, "reply")
  /\ UNCHANGED <<disk, mem, lock, cause, live, spent, devices, tokens, logout, config, status,
                 bounds, history>>

(* A rejected refresh token (400, 401, 403) makes the session delete its   *)
(* identity; a request only fails.                                         *)
IdpRejects(a) ==
  /\ pc[a] = "idp" /\ mem[a].tok \notin live
  /\ lock' = lock \ {a}
  /\ Goto(a, IF a = Session THEN "delete" ELSE "idle")
  /\ cause' = IF a = Session THEN "rejected" ELSE cause
  /\ UNCHANGED <<disk, mem, reply, idp, logout, config, status, bounds, history>>

(* The token endpoint does not answer, or its answer does not arrive.      *)
IdpUnreachable(a) ==
  /\ pc[a] \in {"idp", "reply"}
  /\ lock' = lock \ {a}
  /\ Goto(a, IF a = Session THEN "retry" ELSE "idle")
  /\ reply' = [reply EXCEPT ![a] = 0]
  /\ lost' = (lost \/ pc[a] = "reply")
  /\ UNCHANGED <<disk, mem, cause, idp, logout, config, status, bounds, deleting, cleared>>

SaveRefreshed(a) ==
  /\ pc[a] \in {"reply", "replyCleared"}
  /\ mem' = [mem EXCEPT ![a].tok = reply[a]] /\ reply' = [reply EXCEPT ![a] = 0]
  /\ StoreSecrets(a, reply[a]) /\ Goto(a, "replySaved")
  /\ UNCHANGED <<meta, lock, cause, idp, logout, config, status, bounds, deleting, lost>>

SaveRefreshedMeta(a) ==
  /\ pc[a] = "replySaved"
  /\ StoreMeta(a) /\ lock' = lock \ {a} /\ RefreshDone(a)
  /\ UNCHANGED <<secrets, mem, reply, cause, idp, logout, config, status, bounds, history>>

(* The answer names a token type the daemon does not support.              *)
RefreshUnsupported(a) ==
  /\ pc[a] = "reply"
  /\ lock' = lock \ {a} /\ reply' = [reply EXCEPT ![a] = 0] /\ lost' = TRUE
  /\ Fails(a)
  /\ UNCHANGED <<disk, mem, cause, idp, logout, config, bounds, deleting, cleared>>

SaveRefreshedFails(a) ==
  /\ IOFaults /\ pc[a] \in {"reply", "replyCleared", "replySaved"}
  /\ lock' = lock \ {a} /\ reply' = [reply EXCEPT ![a] = 0] /\ lost' = TRUE
  /\ Fails(a)
  /\ UNCHANGED <<disk, mem, cause, idp, logout, config, bounds, deleting, cleared>>

Refresh(a) ==
  \/ CheckExpiry(a) \/ AcquireRefreshLock(a) \/ ReloadStored(a) \/ ReloadFails(a)
  \/ IdpRotates(a) \/ IdpExtends(a) \/ IdpRejects(a) \/ IdpUnreachable(a)
  \/ SaveRefreshed(a) \/ SaveRefreshedMeta(a) \/ SaveRefreshedFails(a) \/ RefreshUnsupported(a)

-----------------------------------------------------------------------------
(* llm_gateway_credential and device_usage *)

StartRequest(r) ==
  /\ pc[r] = "idle" /\ Readable
  /\ mem' = [mem EXCEPT ![r] = Stored] /\ Goto(r, "check")
  /\ UNCHANGED <<disk, reply, lock, cause, idp, logout, config, status, bounds, history>>

FinishRequest(r) ==
  /\ pc[r] = "call"
  /\ Goto(r, "idle")
  /\ UNCHANGED <<disk, mem, reply, lock, cause, idp, logout, config, status, bounds, history>>

(* The client of a request served by the local API goes away: the handler  *)
(* is dropped where it awaits, and the refresh lock with it.               *)
DropRequest(r) ==
  /\ r \in Droppable /\ pc[r] \in {"lock", "idp", "reply", "call"}
  /\ lock' = lock \ {r} /\ reply' = [reply EXCEPT ![r] = 0] /\ Goto(r, "idle")
  /\ UNCHANGED <<disk, mem, cause, idp, logout, config, status, bounds, history>>

-----------------------------------------------------------------------------
(* run_session: load or enroll *)

LoadIdentity ==
  /\ pc[Session] = "load"
  /\ \/ /\ Readable
        /\ mem' = [mem EXCEPT ![Session] = Stored] /\ enrollment' = "enrolled"
        /\ Goto(Session, "check") /\ UNCHANGED cause
     \/ /\ LoadUnreadable
        /\ cause' = "discard" /\ Goto(Session, "delete") /\ UNCHANGED <<mem, enrollment>>
     \/ /\ meta = 0
        /\ Goto(Session, "enroll") /\ UNCHANGED <<mem, enrollment, cause>>
  /\ UNCHANGED <<disk, reply, lock, idp, logout, config, connected, bounds, history>>

(* Any other error of load ends the session; the identity is kept.         *)
LoadFails ==
  /\ IOFaults /\ pc[Session] = "load"
  /\ Fails(Session)
  /\ UNCHANGED <<disk, mem, reply, lock, cause, idp, logout, config, bounds, history>>

EnrollPrompts ==
  /\ pc[Session] = "enroll"
  /\ enrollment' = "awaitingAuthentication"
  /\ UNCHANGED <<disk, pc, mem, reply, lock, cause, idp, logout, config, connected, bounds,
                 history>>

EnrollSucceeds ==
  /\ pc[Session] = "enroll" /\ devices < MaxDevices /\ tokens < MaxTokens
  /\ devices' = devices + 1 /\ tokens' = tokens + 1
  /\ live' = live \cup {tokens + 1} /\ fresh' = fresh \cup {tokens + 1}
  /\ mem' = [mem EXCEPT ![Session] = [dev |-> devices + 1, tok |-> tokens + 1]]
  /\ Goto(Session, "saveNew")
  /\ UNCHANGED <<disk, reply, lock, cause, spent, logout, config, status, bounds, history>>

EnrollFails ==
  /\ pc[Session] = "enroll"
  /\ enrollment' = "starting"
  /\ UNCHANGED <<disk, pc, mem, reply, lock, cause, idp, logout, config, connected, bounds,
                 history>>

\* Mutant of SaveEnrolled: identity.json is written before the secrets.
SaveEnrolledMetaFirst ==
  /\ pc[Session] = "saveNew"
  /\ StoreMeta(Session) /\ Goto(Session, "savedNew")
  /\ UNCHANGED <<secrets, mem, reply, lock, cause, idp, logout, config, status, bounds, history>>

SaveEnrolled ==
  /\ pc[Session] \in {"saveNew", "newCleared"}
  /\ StoreSecrets(Session, mem[Session].tok) /\ Goto(Session, "savedNew")
  /\ UNCHANGED <<meta, mem, reply, lock, cause, idp, logout, config, status, bounds, deleting,
                 lost>>

SaveEnrolledMeta ==
  /\ pc[Session] = "savedNew"
  /\ StoreMeta(Session) /\ enrollment' = "enrolled" /\ Goto(Session, "check")
  /\ UNCHANGED <<secrets, mem, reply, lock, cause, idp, logout, config, connected, bounds,
                 history>>

(* The certificate renewal call returns; its failure keeps the             *)
(* certificate.  The call has no timeout and is awaited outside select!,   *)
(* so it may also never return.  A renewed identity is saved twice with    *)
(* the same content, modelled as one save.                                 *)
RenewCertificate ==
  /\ pc[Session] = "renew"
  /\ Goto(Session, "save")
  /\ UNCHANGED <<disk, mem, reply, lock, cause, idp, logout, config, status, bounds, history>>

SaveIdentity ==
  /\ pc[Session] \in {"save", "saveCleared"}
  /\ StoreSecrets(Session, mem[Session].tok) /\ Goto(Session, "saved")
  /\ UNCHANGED <<meta, mem, reply, lock, cause, idp, logout, config, status, bounds, deleting,
                 lost>>

SaveIdentityMeta ==
  /\ pc[Session] = "saved"
  /\ StoreMeta(Session) /\ Goto(Session, "connect")
  /\ UNCHANGED <<secrets, mem, reply, lock, cause, idp, logout, config, status, bounds, history>>

SaveFails ==
  /\ IOFaults
  /\ pc[Session] \in {"saveNew", "newCleared", "savedNew", "save", "saveCleared", "saved"}
  /\ Fails(Session)
  /\ UNCHANGED <<disk, mem, reply, lock, cause, idp, logout, config, bounds, history>>

-----------------------------------------------------------------------------
(* run_session and connect: the controller stream *)

StreamOpens ==
  /\ pc[Session] = "connect"
  /\ connected' = TRUE /\ Goto(Session, "stream")
  /\ UNCHANGED <<disk, mem, reply, lock, cause, idp, logout, config, enrollment, bounds, history>>

(* A pushed configuration that parses becomes the current one; it is saved *)
(* when it could be applied.                                               *)
ConfigPushed ==
  /\ pc[Session] = "stream"
  /\ current' = TRUE /\ saved' \in {saved, TRUE}
  /\ UNCHANGED <<disk, pc, mem, reply, lock, cause, idp, logout, status, bounds, history>>

(* The stream cannot be opened, closes, or is ended to refresh the token.  *)
StreamEnds ==
  /\ pc[Session] \in {"connect", "stream"}
  /\ connected' = FALSE /\ Goto(Session, "retry")
  /\ UNCHANGED <<disk, mem, reply, lock, cause, idp, logout, config, enrollment, bounds, history>>

ControllerRejects ==
  /\ pc[Session] \in {"connect", "stream"}
  /\ cause' = "rejected" /\ Goto(Session, "delete")
  /\ UNCHANGED <<disk, mem, reply, lock, idp, logout, config, status, bounds, history>>

RetryElapses ==
  /\ \/ pc[Session] = "retry" /\ Goto(Session, "check")
     \/ pc[Session] = "failed" /\ Goto(Session, "load")
  /\ UNCHANGED <<disk, mem, reply, lock, cause, idp, logout, config, status, bounds, history>>

-----------------------------------------------------------------------------
(* Logout *)

RequestLogout ==
  /\ logouts < MaxLogouts /\ ~logout
  /\ logouts' = logouts + 1 /\ logout' = TRUE
  /\ UNCHANGED <<disk, pc, mem, reply, lock, cause, idp, config, status, crashes, history>>

\* Mutant of LogoutSelectable: the token refresh is awaited without watching for a logout.
LogoutNotDuringRefresh == {"connect", "stream", "retry"}

(* The select! of the inner session loop and of wait_before_retry: taking  *)
(* the request drops the refresh or the stream it was selected against.    *)
LogoutSelectable == {"check", "lock", "idp", "reply", "connect", "stream", "retry"}

TakeLogout ==
  /\ logout /\ pc[Session] \in LogoutSelectable
  /\ cause' = "logout" /\ Goto(Session, "delete")
  /\ lock' = lock \ {Session} /\ reply' = [reply EXCEPT ![Session] = 0]
  /\ lost' = (lost \/ pc[Session] = "reply")
  /\ UNCHANGED <<disk, mem, idp, logout, config, status, bounds, deleting, cleared>>

(* complete_unenrolled_logout from enroll_with_retry *)
TakeUnenrolledLogout ==
  /\ logout /\ pc[Session] = "enroll"
  /\ enrollment' = "starting" /\ logout' = FALSE
  /\ UNCHANGED <<disk, pc, mem, reply, lock, cause, idp, config, connected, bounds, history>>

(* logout_between_sessions *)
TakeSupervisorLogout ==
  /\ logout /\ pc[Session] = "failed"
  /\ \/ /\ Readable
        /\ mem' = [mem EXCEPT ![Session] = Stored]
        /\ cause' = "supervisorLogout" /\ Goto(Session, "delete")
        /\ UNCHANGED <<logout, status>>
     \/ /\ LoadUnreadable
        /\ cause' = "supervisorDiscard" /\ Goto(Session, "delete")
        /\ UNCHANGED <<mem, logout, status>>
     \/ /\ meta = 0
        /\ connected' = FALSE /\ enrollment' = "starting"
        /\ logout' = FALSE /\ Goto(Session, "load")
        /\ UNCHANGED <<mem, cause>>
     \/ /\ IOFaults
        /\ logout' = FALSE /\ Goto(Session, "load")
        /\ UNCHANGED <<mem, cause, status>>
  /\ UNCHANGED <<disk, reply, lock, idp, config, bounds, history>>

-----------------------------------------------------------------------------
(* identity::delete and identity::discard, run by the session only *)

DeleteTarget == IF cause \in {"discard", "supervisorDiscard"} THEN meta ELSE mem[Session].dev

(* A secret that cannot be removed is only logged.                         *)
DeleteSecrets ==
  /\ pc[Session] = "delete"
  /\ \/ secrets' = [d \in Devices |-> IF d = DeleteTarget THEN 0 ELSE secrets[d]]
     \/ IOFaults /\ UNCHANGED secrets
  /\ deleting' = deleting \cup ({DeleteTarget} \ {0})
  /\ Goto(Session, "deleteMeta")
  /\ UNCHANGED <<meta, mem, reply, lock, cause, idp, logout, config, status, bounds, cleared,
                 lost>>

IsLogout == cause \in {"logout", "supervisorLogout", "supervisorDiscard"}

AfterDelete == IF cause = "discard" THEN "enroll" ELSE "load"

DeleteMeta ==
  /\ pc[Session] = "deleteMeta"
  /\ meta' = 0 /\ enrollment' = "starting" /\ cause' = "none"
  /\ connected' = (connected /\ cause = "discard")
  /\ current' = (current /\ cause \notin {"logout", "supervisorLogout"})
  /\ logout' = (logout /\ ~IsLogout)
  /\ Goto(Session, AfterDelete)
  /\ UNCHANGED <<secrets, mem, reply, lock, idp, saved, bounds, history>>

(* identity.json cannot be removed: a logout is answered with the error,   *)
(* every other deletion ends the session.                                  *)
DeleteMetaFails ==
  /\ IOFaults /\ pc[Session] = "deleteMeta"
  /\ cause' = "none" /\ logout' = (logout /\ ~IsLogout)
  /\ IF IsLogout
       THEN Goto(Session, IF cause = "logout" THEN "check" ELSE "load") /\ UNCHANGED status
       ELSE Fails(Session)
  /\ UNCHANGED <<disk, mem, reply, lock, idp, config, bounds, history>>

-----------------------------------------------------------------------------
(* Time, the identity provider's own decisions, and restarts *)

TokenAges ==
  /\ \E t \in fresh : fresh' = fresh \ {t}
  /\ UNCHANGED <<disk, pc, mem, reply, lock, cause, live, spent, devices, tokens, logout, config,
                 status, bounds, history>>

TokenRevoked ==
  /\ \E t \in live : live' = live \ {t}
  /\ UNCHANGED <<disk, pc, mem, reply, lock, cause, fresh, spent, devices, tokens, logout, config,
                 status, bounds, history>>

(* The daemon stops at any point and starts again; the configuration it    *)
(* restores is the saved one.                                              *)
Restart ==
  /\ crashes < MaxCrashes /\ crashes' = crashes + 1
  /\ pc' = [a \in Actors |-> IF a = Session THEN "load" ELSE "idle"]
  /\ mem' = [a \in Actors |-> NoIdentity] /\ reply' = [a \in Actors |-> 0]
  /\ lock' = {} /\ cause' = "none" /\ logout' = FALSE
  /\ current' = saved /\ enrollment' = "starting" /\ connected' = FALSE
  /\ lost' = (lost \/ \E a \in Actors : pc[a] \in {"reply", "replyCleared"})
  /\ UNCHANGED <<disk, idp, saved, logouts, deleting, cleared>>

-----------------------------------------------------------------------------
SessionStep ==
  \/ LoadIdentity \/ LoadFails \/ SaveEnrolled \/ SaveEnrolledMeta
  \/ ClearUnreadable(Session) \/ SaveIdentity \/ SaveIdentityMeta \/ SaveFails \/ RetryElapses
  \/ DeleteSecrets \/ DeleteMeta \/ DeleteMetaFails

LogoutTaken == TakeLogout \/ TakeUnenrolledLogout \/ TakeSupervisorLogout

Environment ==
  \/ EnrollPrompts \/ EnrollSucceeds \/ EnrollFails \/ RenewCertificate
  \/ StreamOpens \/ ConfigPushed \/ StreamEnds \/ ControllerRejects
  \/ RequestLogout \/ TokenAges \/ TokenRevoked \/ Restart

RequestStep(r) == StartRequest(r) \/ FinishRequest(r) \/ DropRequest(r) \/ Refresh(r)
                  \/ ClearUnreadable(r)

Next == SessionStep \/ Refresh(Session) \/ LogoutTaken \/ Environment
        \/ \E r \in Requests : RequestStep(r)

(* The session task keeps running, and select! picks among its ready       *)
(* branches at random, so a logout that is ready again and again is taken. *)
(* The renewal of the certificate is not fair: its call need not return.   *)
Fairness == WF_vars(SessionStep \/ Refresh(Session)) /\ SF_vars(LogoutTaken)

Spec == Init /\ [][Next]_vars /\ Fairness

-----------------------------------------------------------------------------
(* A healthy identity is never deleted by a save (identity::save): an      *)
(* identity.json that names a device without secrets is the remains of a   *)
(* deletion, or of a save that found an item it could not read and was     *)
(* stopped between removing and writing it.  A restart or a failed write   *)
(* in the middle of any other enrollment, refresh or renewal leaves a      *)
(* usable identity, because the secrets are written before the metadata    *)
(* and a readable item is written in place.                                *)
UnreadableOnlyAfterDelete == Unreadable => meta \in deleting \cup cleared

(* Refreshes are serialized: at most one actor is between taking the       *)
(* refresh mutex and saving what the identity provider answered, although  *)
(* requests are dropped and a logout abandons a refresh half-way.          *)
RefreshSerialized ==
  \A a, b \in Actors : pc[a] \in InRefresh /\ pc[b] \in InRefresh => a = b

(* Refreshes are serialized: nobody presents a refresh token that an       *)
(* earlier refresh replaced, unless the replacement was lost on the way to *)
(* the store (docs/device-identity.md on OAUTH_REFRESH_MUTEX).             *)
NoSpentTokenPresented ==
  \A a \in Actors : pc[a] = "idp" /\ mem[a].tok \in spent => lost

(* Every logout request is eventually answered (or lost with the daemon),  *)
(* whatever the session is doing when it arrives, unless the session waits *)
(* for ever in the certificate renewal call, which run_session awaits      *)
(* without a timeout and without watching for a logout.                    *)
LogoutAnswered == (logout ~> ~logout) \/ <>[](pc[Session] = "renew")
=============================================================================
