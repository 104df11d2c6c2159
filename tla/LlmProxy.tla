------------------------------ MODULE LlmProxy ------------------------------
(***************************************************************************)
(* The local LLM proxy of the daemon and its cache of controller-issued    *)
(* gateway credentials (crates/agent/src/llm_proxy.rs, llm_proxy/cache.rs, *)
(* the credential path of api.rs and remote.rs).                           *)
(*                                                                         *)
(* One cache key (client, gateway and audience) is modelled; keys share    *)
(* nothing.  A request reads the enrolled device, looks the cache up, and  *)
(* on a miss starts a detached fetch that holds the key's flight lock.     *)
(* Time is counted in units of 30 s on three clocks: the true time, the    *)
(* monotonic clock, which stands still while the machine is suspended, and *)
(* the wall clock, which can be set.  The gateway, the controller and the  *)
(* rest of the daemon (DeviceIdentity) are nondeterministic here.          *)
(***************************************************************************)
EXTENDS Integers, FiniteSets

CONSTANTS
  Requests,     \* connections of local clients, each with a request at a time
  MaxTime,      \* the last instant of the true time
  MaxAsleep,    \* units the machine may spend suspended
  MaxSkew,      \* how far the wall clock may be from the true time
  MaxSets,      \* times the wall clock is set
  MaxDevices,   \* enrollments
  MaxIssued,    \* credentials the controller issues
  Lifetimes     \* lifetimes of credentials the controller may choose

ASSUME ProxyAssumption ==
  /\ MaxTime \in Nat /\ MaxAsleep \in Nat /\ MaxSkew \in Nat /\ MaxSets \in Nat
  /\ MaxDevices \in Nat /\ MaxIssued \in Nat /\ Lifetimes \subseteq Nat

CREDENTIAL_EXPIRY_MARGIN == 1
CREDENTIAL_CACHE_TTL == 2

VARIABLES
  now, asleep, wall,    \* true time, units suspended so far, now_unix()
  sets,                 \* times the wall clock was set
  device, devices,      \* device id in identity.json (0: none), enrollments so far
  issued,               \* credentials issued so far
  entry,                \* the cache entry of the key
  flight,               \* the holder of the key's flight lock
  pc, req               \* each request and the fetch it started

clocks == <<now, asleep, wall, sets>>
enrolled == <<device, devices>>
vars == <<now, asleep, wall, sets, device, devices, issued, entry, flight, pc, req>>

(* A credential: the number of the call it answers, the token itself (by   *)
(* the first call it answered), the device it was issued to and its        *)
(* expiry.  "slept" and "skew" record after how much sleep and with what   *)
(* error of the wall clock it reached the daemon, "at" in the entry when.  *)
NoCred == [id |-> 0, token |-> 0, dev |-> 0, exp |-> 0, slept |-> 0, skew |-> 0]
NoDeadline == [monotonic |-> 0, unix |-> 0]
NoEntry == [cred |-> NoCred, device |-> 0, until |-> 0, untilUnix |-> 0, deadline |-> NoDeadline,
            at |-> 0]
NoRequest == [key |-> 0, since |-> 0, rejected |-> 0, waiting |-> FALSE, fromCache |-> FALSE,
              cred |-> NoCred, deadline |-> NoDeadline]

Fetching == {"flight", "load", "issue", "insert"}
Labels == Fetching \cup {"idle", "lookup", "send", "tunnel"}

-----------------------------------------------------------------------------
(* CredentialCache *)

mono == now - asleep
Minus(a, b) == IF a > b THEN a - b ELSE 0

(* Deadline::from_unix *)
FromUnix(exp) == [monotonic |-> mono + Minus(exp, wall), unix |-> exp]

\* Mutant of Servable: the device the entry was issued to is not compared.
ServableToAny(d) ==
  entry.cred.id # 0 /\ mono < entry.until /\ wall < entry.untilUnix

(* The entry that lookup returns to a request of device d.                 *)
Servable(d) ==
  entry.cred.id # 0 /\ entry.device = d /\ mono < entry.until /\ wall < entry.untilUnix

\* Mutant of CacheLifetime: the lifetime is not capped.
CacheLifetimeUncapped(exp) == Minus(Minus(exp, wall), CREDENTIAL_EXPIRY_MARGIN)

CacheLifetime(exp) ==
  LET remaining == Minus(Minus(exp, wall), CREDENTIAL_EXPIRY_MARGIN)
  IN  IF remaining < CREDENTIAL_CACHE_TTL THEN remaining ELSE CREDENTIAL_CACHE_TTL

(* insert: what the key holds after credential c was fetched for device d. *)
Inserted(d, c) ==
  IF CacheLifetime(c.exp) > 0
    THEN [cred |-> c, device |-> d, until |-> mono + CacheLifetime(c.exp),
          untilUnix |-> wall + CacheLifetime(c.exp), deadline |-> FromUnix(c.exp), at |-> now]
    ELSE NoEntry

\* Mutant of InvalidateIf: nothing is dropped.
InvalidateNothing(c) == entry

InvalidateIf(c) == IF entry.cred.token = c.token THEN NoEntry ELSE entry

-----------------------------------------------------------------------------
(* forward: the request *)

Goto(r, label) == pc' = [pc EXCEPT ![r] = label]
Finish(r) == Goto(r, "idle") /\ req' = [req EXCEPT ![r] = NoRequest]

(* A request that is not refused; it notes the device of identity.json.    *)
(* "since" is the first device it may be served a credential of.           *)
Arrive(r) ==
  /\ pc[r] = "idle"
  /\ req' = [req EXCEPT ![r] = [@ EXCEPT !.key = device,
                        !.since = IF device = 0 THEN devices + 1 ELSE device]]
  /\ Goto(r, "lookup")
  /\ UNCHANGED <<clocks, enrolled, issued, entry, flight>>

(* The answer of the cache or of the fetch is used for this attempt.       *)
Attempt(r, c, deadline, cached) ==
  /\ req' = [req EXCEPT ![r] = [@ EXCEPT !.cred = c, !.deadline = deadline,
                                         !.fromCache = cached, !.waiting = FALSE]]
  /\ Goto(r, "send")

Lookup(r) ==
  /\ pc[r] = "lookup"
  /\ IF req[r].key # 0 /\ Servable(req[r].key)
       THEN Attempt(r, entry.cred, entry.deadline, TRUE)
       ELSE /\ req' = [req EXCEPT ![r].waiting = TRUE]
            /\ Goto(r, IF req[r].key # 0 THEN "flight" ELSE "load")
  /\ UNCHANGED <<clocks, enrolled, issued, entry, flight>>

(* CREDENTIAL_FETCH_TIMEOUT passes or the client goes away: the request is *)
(* over, the fetch goes on.                                                *)
Abandon(r) ==
  /\ pc[r] \in Fetching /\ req[r].waiting
  /\ req' = [req EXCEPT ![r].waiting = FALSE]
  /\ UNCHANGED <<clocks, enrolled, issued, entry, flight, pc>>

(* The gateway answers, does not answer in time, or the client goes away.  *)
Answered(r) ==
  /\ pc[r] = "send"
  /\ Finish(r)
  /\ UNCHANGED <<clocks, enrolled, issued, entry, flight>>

(* Only a credential of the cache, without a client token, and only once.  *)
Retries(r, client_token_sent) ==
  req[r].fromCache /\ ~client_token_sent /\ req[r].rejected = 0

(* The gateway answers 401.  Whether a client token was forwarded with the *)
(* request matters nowhere else.  A request that was sent again remembers  *)
(* the rejected credential.                                                *)
Rejected(r, client_token_sent) ==
  /\ pc[r] = "send"
  /\ IF Retries(r, client_token_sent)
       THEN /\ Goto(r, "lookup")
            /\ req' = [req EXCEPT ![r] = [NoRequest EXCEPT !.key = req[r].key,
                          !.since = req[r].since, !.rejected = req[r].cred.id]]
       ELSE Finish(r)
  /\ entry' = IF Retries(r, client_token_sent) \/ (~req[r].fromCache /\ req[r].key # 0)
                THEN InvalidateIf(req[r].cred) ELSE entry
  /\ UNCHANGED <<clocks, enrolled, issued, flight>>

(* The gateway answers 101: the tunnel gets the deadline of its credential.*)
Upgraded(r) ==
  /\ pc[r] = "send"
  /\ Goto(r, "tunnel")
  /\ UNCHANGED <<clocks, enrolled, issued, entry, flight, req>>

-----------------------------------------------------------------------------
(* get_or_fetch: the task of a fetch *)

(* What the task returns goes to the request that still waits for it.      *)
Deliver(r, c, deadline, cached) ==
  IF req[r].waiting THEN Attempt(r, c, deadline, cached) ELSE Finish(r)

\* Mutant of JoinFlight: the cache is not read again under the lock.
JoinFlightBlindly(r) ==
  /\ pc[r] = "flight" /\ flight = {}
  /\ flight' = {r} /\ Goto(r, "load") /\ UNCHANGED req
  /\ UNCHANGED <<clocks, enrolled, issued, entry>>

JoinFlight(r) ==
  /\ pc[r] = "flight" /\ flight = {}
  /\ IF Servable(req[r].key)
       THEN Deliver(r, entry.cred, entry.deadline, TRUE) /\ UNCHANGED flight
       ELSE flight' = {r} /\ Goto(r, "load") /\ UNCHANGED req
  /\ UNCHANGED <<clocks, enrolled, issued, entry>>

(* remote::llm_gateway_credential: the identity is read, then refreshed if *)
(* that is due, and used for one call of the controller.                   *)
LoadIdentity(r) ==
  /\ pc[r] = "load" /\ device # 0
  /\ req' = [req EXCEPT ![r].cred.dev = device] /\ Goto(r, "issue")
  /\ UNCHANGED <<clocks, enrolled, issued, entry, flight>>

(* The tokens the daemon holds that a call for this device and expiry may  *)
(* be answered with again: they are RS256 over claims without a jti and    *)
(* with times in whole seconds, so two calls of one second give the same.  *)
Repeated(dev, exp) ==
  {c.token : c \in {h \in {entry.cred} \cup {req[s].cred : s \in Requests} :
                      h.id # 0 /\ h.dev = dev /\ h.exp = exp}}

(* GetLlmGatewayCredential on the controller, whose clock is the true time.*)
Issue(r) ==
  /\ pc[r] = "issue" /\ issued < MaxIssued
  /\ issued' = issued + 1
  /\ \E life \in Lifetimes : \E token \in {issued + 1} \cup Repeated(req[r].cred.dev, now + life) :
       req' = [req EXCEPT ![r].cred = [@ EXCEPT !.id = issued + 1, !.token = token,
                                               !.exp = now + life]]
  /\ Goto(r, "insert")
  /\ UNCHANGED <<clocks, enrolled, entry, flight>>

Insert(r) ==
  /\ pc[r] = "insert"
  /\ LET c == [req[r].cred EXCEPT !.slept = asleep, !.skew = wall - now]
     IN  /\ entry' = IF req[r].key # 0 THEN Inserted(req[r].key, c) ELSE entry
         /\ Deliver(r, c, FromUnix(c.exp), FALSE)
  /\ flight' = flight \ {r}
  /\ UNCHANGED <<clocks, enrolled, issued>>

(* There is no readable identity, the token refresh fails, or the          *)
(* controller refuses or does not answer within CREDENTIAL_CALL_TIMEOUT.   *)
FetchFails(r) ==
  /\ pc[r] \in {"load", "issue", "insert"}
  /\ Finish(r) /\ flight' = flight \ {r}
  /\ UNCHANGED <<clocks, enrolled, issued, entry>>

-----------------------------------------------------------------------------
(* run_tunnel *)

Overdue(r) ==
  pc[r] = "tunnel" /\ (mono >= req[r].deadline.monotonic \/ wall >= req[r].deadline.unix)

(* Either side closes, or the credential expires.                          *)
TunnelCloses(r) ==
  /\ pc[r] = "tunnel"
  /\ Finish(r)
  /\ UNCHANGED <<clocks, enrolled, issued, entry, flight>>

-----------------------------------------------------------------------------
(* Time and the device *)

(* The deadlines of the tunnels are checked every 10 s while the machine   *)
(* runs: a unit passes only after the overdue ones were closed.            *)
Tick ==
  /\ now < MaxTime /\ \A r \in Requests : ~Overdue(r)
  /\ now' = now + 1 /\ wall' = wall + 1
  /\ UNCHANGED <<asleep, sets, enrolled, issued, entry, flight, pc, req>>

Suspend ==
  /\ now < MaxTime /\ asleep < MaxAsleep
  /\ now' = now + 1 /\ wall' = wall + 1 /\ asleep' = asleep + 1
  /\ UNCHANGED <<sets, enrolled, issued, entry, flight, pc, req>>

SetClock ==
  /\ sets < MaxSets /\ sets' = sets + 1
  /\ wall' \in (now - MaxSkew) .. (now + MaxSkew)
  /\ UNCHANGED <<now, asleep, enrolled, issued, entry, flight, pc, req>>

Logout ==
  /\ device # 0 /\ device' = 0
  /\ UNCHANGED <<clocks, devices, issued, entry, flight, pc, req>>

Enroll ==
  /\ device = 0 /\ devices < MaxDevices
  /\ devices' = devices + 1 /\ device' = devices + 1
  /\ UNCHANGED <<clocks, issued, entry, flight, pc, req>>

-----------------------------------------------------------------------------
Init ==
  /\ now = 0 /\ asleep = 0 /\ wall = 0 /\ sets = 0
  /\ device = 0 /\ devices = 0 /\ issued = 0
  /\ entry = NoEntry /\ flight = {}
  /\ pc = [r \in Requests |-> "idle"] /\ req = [r \in Requests |-> NoRequest]

Handle(r) == Lookup(r) \/ Answered(r) \/ (\E t \in BOOLEAN : Rejected(r, t)) \/ Upgraded(r) \/ Abandon(r)
Fetch(r) == LoadIdentity(r) \/ Issue(r) \/ Insert(r) \/ FetchFails(r)
World == Tick \/ Suspend \/ SetClock \/ Logout \/ Enroll

Next ==
  \/ \E r \in Requests : Arrive(r) \/ Handle(r) \/ JoinFlight(r) \/ Fetch(r) \/ TunnelCloses(r)
  \/ World

Spec == Init /\ [][Next]_vars

-----------------------------------------------------------------------------
(* Properties *)

Credentials == [id : 0 .. MaxIssued, token : 0 .. MaxIssued, dev : 0 .. MaxDevices, exp : Int,
                slept : Int, skew : Int]
Deadlines == [monotonic : Int, unix : Int]
Entries == [cred : Credentials, device : 0 .. MaxDevices, until : Int, untilUnix : Int,
            deadline : Deadlines, at : Int]
RequestStates == [key : 0 .. MaxDevices, since : 0 .. MaxDevices + 1, rejected : 0 .. MaxIssued,
                  waiting : BOOLEAN, fromCache : BOOLEAN, cred : Credentials, deadline : Deadlines]

(* The variables hold values of their types.                               *)
TypeOK ==
  /\ now \in 0 .. MaxTime /\ asleep \in 0 .. MaxAsleep /\ wall \in Int
  /\ sets \in 0 .. MaxSets
  /\ device \in 0 .. devices /\ devices \in 0 .. MaxDevices /\ issued \in 0 .. MaxIssued
  /\ entry \in Entries /\ flight \subseteq Requests
  /\ pc \in [Requests -> Labels] /\ req \in [Requests -> RequestStates]

(* CREDENTIAL_CACHE_TTL bounds how long a credential is served from the    *)
(* cache, counted from its fetch, however often the machine was suspended  *)
(* or its clock was set: only both together, a suspend and a clock set     *)
(* back, stretch it.  A served credential is never within the margin of    *)
(* its expiry as the wall clock tells it.                                  *)
ServedInWindow ==
  \A d \in 1 .. MaxDevices :
    Servable(d) =>
      /\ \/ now < entry.at + CREDENTIAL_CACHE_TTL
         \/ asleep > entry.cred.slept /\ wall - now < entry.cred.skew
      /\ wall + CREDENTIAL_EXPIRY_MARGIN < entry.cred.exp

(* A logout or a re-enrollment never reuses an old token: a request is     *)
(* only sent with a credential of the device that was enrolled when it     *)
(* arrived or of a later one.                                              *)
NoOldDevice ==
  \A r \in Requests : pc[r] \in {"send", "tunnel"} => req[r].cred.dev >= req[r].since

(* The one retry after a 401 presents a credential the controller issued   *)
(* in a later call than the rejected one, whatever other requests do to    *)
(* the cache in between.  (Calls of one second give the same token: that a *)
(* later call was made is all the daemon can see to.)                      *)
RetryTakesLater ==
  \A r \in Requests : pc[r] = "send" => req[r].cred.id > req[r].rejected

(* Of concurrent misses one fetches: while the wall clock has not been set *)
(* (set back, it brings an expired entry to life under a running fetch),   *)
(* the controller is never asked for a credential the cache could serve.   *)
NoNeedlessFetch ==
  [][\A r \in Requests :
       Issue(r) /\ req[r].key # 0 =>
         ~Servable(req[r].key) \/ sets > 0]_vars
=============================================================================
