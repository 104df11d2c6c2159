------------------------ MODULE ControllerEnrollment ------------------------
(***************************************************************************)
(* Enrollment on the controller: the pending enrollments and the cache of  *)
(* the identity provider's signing keys (crates/controller/src/oidc.rs),   *)
(* and the two enrollment calls of crates/controller/src/service.rs.       *)
(*                                                                         *)
(* A call is dropped at any await when its client goes away.  Time is      *)
(* counted in units of JWKS_FETCH_TIMEOUT.  The identity provider signs    *)
(* with its newest key and publishes that one and the one before it.       *)
(***************************************************************************)
EXTENDS Integers, FiniteSets

CONSTANTS
  Enrollments,               \* enrollment ids, each drawn once
  Calls,                     \* CompleteEnrollment calls in progress
  MAX_PENDING_ENROLLMENTS,
  ENROLLMENT_LIFETIME,
  JWKS_REFRESH_COOLDOWN,
  GrantLifetimes,            \* expires_in values of the identity provider
  MaxTime,                   \* the last instant
  MaxKeys                    \* keys the identity provider signs with

(* The cooldown, 30 s, is longer than the 10 s of JWKS_FETCH_TIMEOUT.       *)
ASSUME EnrollmentAssumption ==
  /\ IsFiniteSet(Enrollments)
  /\ MAX_PENDING_ENROLLMENTS \in Nat /\ ENROLLMENT_LIFETIME \in Nat \ {0}
  /\ JWKS_REFRESH_COOLDOWN \in Nat \ {0, 1}
  /\ GrantLifetimes \subseteq Nat /\ MaxTime \in Nat /\ MaxKeys \in Nat \ {0}

VARIABLES
  now,
  pending,     \* expires_at of each pending enrollment, 0 for none
  begun,       \* what became of the BeginEnrollment call of each enrollment
  since,       \* when that call reserved its place, and then when it was answered
  pc, call,    \* each CompleteEnrollment call: its step, its enrollment and key id
  signing,     \* the newest key of the identity provider
  keys,        \* the newest key of the cached key set
  gate,        \* the holder of JwksCache::refresh
  refresh,     \* the last attempt it records, -1 for none
  fetched,     \* when the key set was last asked for, -1 for never
  enrolled     \* devices enrolled from each enrollment

enrollments == <<pending, begun, since>>
jwks == <<keys, gate, refresh, fetched>>
vars == <<now, pending, begun, since, pc, call, signing, keys, gate, refresh, fetched, enrolled>>

NoCall == [enrollment |-> {}, kid |-> 0]
Labels == {"idle", "key", "gate", "fetch", "verify", "enroll", "refused"}

-----------------------------------------------------------------------------
(* Pending enrollments *)

Pruned == [e \in Enrollments |-> IF pending[e] > now THEN pending[e] ELSE 0]
Occupied(p) == {e \in Enrollments : p[e] # 0}

HasRoom == Cardinality(Occupied(Pruned)) < MAX_PENDING_ENROLLMENTS

(* insert_pending *)
InsertPending(e, state) ==
  /\ begun[e] = "new"
  /\ IF HasRoom
       THEN /\ pending' = [Pruned EXCEPT ![e] = now + ENROLLMENT_LIFETIME]
            /\ begun' = [begun EXCEPT ![e] = state]
       ELSE /\ pending' = Pruned /\ begun' = [begun EXCEPT ![e] = "over"]
  /\ since' = [since EXCEPT ![e] = now]
  /\ UNCHANGED <<now, pc, call, signing, jwks, enrolled>>

(* begin: the browser flow is answered at once.                            *)
Begin(e) == InsertPending(e, "answered")

(* begin_device reserves a place before it asks the identity provider.     *)
BeginDevice(e) == InsertPending(e, "grant")

\* Mutant of GrantAnswered: the lifetime of the device code is not capped.
GrantAnsweredUncapped(e) ==
  /\ begun[e] = "grant"
  /\ \E life \in GrantLifetimes \ {0} :
       pending' = IF pending[e] # 0 THEN [pending EXCEPT ![e] = now + life] ELSE pending
  /\ begun' = [begun EXCEPT ![e] = "answered"] /\ since' = [since EXCEPT ![e] = now]
  /\ UNCHANGED <<now, pc, call, signing, jwks, enrolled>>

(* request_device_grant succeeds, then set_pending_expiry, which does      *)
(* nothing when the reservation was pruned meanwhile.                      *)
GrantAnswered(e) ==
  /\ begun[e] = "grant"
  /\ \E life \in GrantLifetimes \ {0} :
       LET lifetime == IF life < ENROLLMENT_LIFETIME THEN life ELSE ENROLLMENT_LIFETIME
       IN  pending' = IF pending[e] # 0 THEN [pending EXCEPT ![e] = now + lifetime] ELSE pending
  /\ begun' = [begun EXCEPT ![e] = "answered"] /\ since' = [since EXCEPT ![e] = now]
  /\ UNCHANGED <<now, pc, call, signing, jwks, enrolled>>

\* Mutant of GrantFails: the reservation is not released.
GrantFailsReserved(e) ==
  /\ begun[e] = "grant"
  /\ begun' = [begun EXCEPT ![e] = "failed"]
  /\ UNCHANGED <<now, pending, since, pc, call, signing, jwks, enrolled>>

(* request_device_grant fails, then release_pending.                       *)
GrantFails(e) ==
  /\ begun[e] = "grant"
  /\ pending' = [pending EXCEPT ![e] = 0]
  /\ begun' = [begun EXCEPT ![e] = "failed"]
  /\ UNCHANGED <<now, since, pc, call, signing, jwks, enrolled>>

(* The client of begin_device goes away: the reservation stays.            *)
GrantDropped(e) ==
  /\ begun[e] = "grant"
  /\ begun' = [begun EXCEPT ![e] = "over"]
  /\ UNCHANGED <<now, pending, since, pc, call, signing, jwks, enrolled>>

-----------------------------------------------------------------------------
(* complete *)

Goto(c, label) == pc' = [pc EXCEPT ![c] = label]
Finish(c) == Goto(c, "idle") /\ call' = [call EXCEPT ![c] = NoCall]

(* The call fails for its key: rate limited, or unknown after a refresh.   *)
Refuse(c) == Goto(c, "refused") /\ UNCHANGED call

\* Mutant of Complete: the enrollment is removed when the device is enrolled.
CompleteLooksUp(c, e, kid) ==
  /\ pc[c] \in {"idle", "refused"} /\ begun[e] = "answered" /\ pending[e] # 0
  /\ UNCHANGED pending
  /\ IF pending[e] <= now
       THEN UNCHANGED <<pc, call>>
       ELSE Goto(c, "key") /\ call' = [call EXCEPT ![c] = [enrollment |-> {e}, kid |-> kid]]
  /\ UNCHANGED <<now, begun, since, signing, jwks, enrolled>>

(* A call with an ID token of key kid; 0 is a key of nobody.  The          *)
(* enrollment is removed whatever becomes of the call.                     *)
Complete(c, e, kid) ==
  /\ pc[c] \in {"idle", "refused"} /\ begun[e] = "answered" /\ pending[e] # 0
  /\ pending' = [pending EXCEPT ![e] = 0]
  /\ IF pending[e] <= now
       THEN UNCHANGED <<pc, call>>
       ELSE Goto(c, "key") /\ call' = [call EXCEPT ![c] = [enrollment |-> {e}, kid |-> kid]]
  /\ UNCHANGED <<now, begun, since, signing, jwks, enrolled>>

(* The key set published while "newest" is the signing key has the key.    *)
InKeySet(kid, newest) == kid # 0 /\ kid \in {newest - 1, newest}
Cached(kid) == InKeySet(kid, keys)

(* key_for_with: the look at the cache without the gate.                   *)
FindKey(c) ==
  /\ pc[c] = "key"
  /\ Goto(c, IF Cached(call[c].kid) THEN "verify" ELSE "gate")
  /\ UNCHANGED <<now, enrollments, call, signing, jwks, enrolled>>

(* The look at the cache under the gate.                                   *)
FindKeyAgain(c) ==
  /\ pc[c] = "gate" /\ gate = {} /\ Cached(call[c].kid)
  /\ Goto(c, "verify")
  /\ UNCHANGED <<now, enrollments, call, signing, jwks, enrolled>>

CoolingDown == refresh # -1 /\ now - refresh < JWKS_REFRESH_COOLDOWN

RateLimited(c) ==
  /\ pc[c] = "gate" /\ gate = {} /\ ~Cached(call[c].kid) /\ CoolingDown
  /\ Refuse(c)
  /\ UNCHANGED <<now, enrollments, signing, jwks, enrolled>>

StartFetch(c) ==
  /\ pc[c] = "gate" /\ gate = {} /\ ~Cached(call[c].kid) /\ ~CoolingDown
  /\ Goto(c, "fetch") /\ gate' = {c} /\ refresh' = now /\ fetched' = now
  /\ UNCHANGED <<now, enrollments, call, signing, keys, enrolled>>

FetchAnswered(c) ==
  /\ pc[c] = "fetch"
  /\ keys' = signing /\ gate' = {}
  /\ IF InKeySet(call[c].kid, signing) THEN Goto(c, "verify") /\ UNCHANGED call ELSE Refuse(c)
  /\ UNCHANGED <<now, enrollments, signing, refresh, fetched, enrolled>>

\* Mutant of FetchFails: the gate stays with the call.
FetchFailsHolding(c) ==
  /\ pc[c] = "fetch"
  /\ Finish(c)
  /\ UNCHANGED <<now, enrollments, signing, jwks, enrolled>>

(* The fetch fails, does not end in time, or its call is dropped.          *)
FetchFails(c) ==
  /\ pc[c] = "fetch"
  /\ Finish(c) /\ gate' = {}
  /\ UNCHANGED <<now, enrollments, signing, keys, refresh, fetched, enrolled>>

(* The signature, the nonce and the subject of UserInfo are right.         *)
Verified(c) ==
  /\ pc[c] = "verify" /\ Goto(c, "enroll")
  /\ UNCHANGED <<now, enrollments, call, signing, jwks, enrolled>>

(* enroll_device: the certificate and the row of a new device.             *)
EnrollDevice(c) ==
  /\ pc[c] = "enroll"
  /\ enrolled' = [e \in Enrollments |-> IF e \in call[c].enrollment THEN enrolled[e] + 1 ELSE enrolled[e]]
  /\ Finish(c)
  /\ UNCHANGED <<now, enrollments, signing, jwks>>

(* A check, the certificate or the row fails, or the call is dropped.      *)
CallFails(c) ==
  /\ pc[c] \in {"key", "gate", "verify", "enroll"}
  /\ Finish(c)
  /\ UNCHANGED <<now, enrollments, signing, jwks, enrolled>>

-----------------------------------------------------------------------------
(* The world *)

RotateKey ==
  /\ signing < MaxKeys /\ signing' = signing + 1
  /\ UNCHANGED <<now, enrollments, pc, call, jwks, enrolled>>

(* A fetch ends within JWKS_FETCH_TIMEOUT.                                 *)
Tick ==
  /\ now < MaxTime /\ (gate = {} \/ fetched = now)
  /\ now' = now + 1
  /\ UNCHANGED <<enrollments, pc, call, signing, jwks, enrolled>>

Init ==
  /\ now = 0 /\ signing = 1 /\ keys = 1 /\ gate = {} /\ refresh = -1 /\ fetched = -1
  /\ pending = [e \in Enrollments |-> 0] /\ begun = [e \in Enrollments |-> "new"]
  /\ since = [e \in Enrollments |-> 0] /\ enrolled = [e \in Enrollments |-> 0]
  /\ pc = [c \in Calls |-> "idle"] /\ call = [c \in Calls |-> NoCall]

BeginStep(e) == Begin(e) \/ BeginDevice(e) \/ GrantAnswered(e) \/ GrantFails(e) \/ GrantDropped(e)
KeyStep(c) == FindKeyAgain(c) \/ RateLimited(c) \/ StartFetch(c)
CallStep(c) ==
  \/ \E e \in Enrollments, kid \in 0 .. signing : Complete(c, e, kid)
  \/ FindKey(c) \/ KeyStep(c) \/ FetchAnswered(c) \/ FetchFails(c)
  \/ Verified(c) \/ EnrollDevice(c) \/ CallFails(c)

Next ==
  \/ \E e \in Enrollments : BeginStep(e)
  \/ \E c \in Calls : CallStep(c)
  \/ RotateKey \/ Tick

(* A fetch ends by its timeout; the gate is a tokio mutex, which serves    *)
(* its waiters in order.                                                   *)
Fairness ==
  \A c \in Calls : WF_vars(FetchAnswered(c) \/ FetchFails(c)) /\ SF_vars(KeyStep(c))

Spec == Init /\ [][Next]_vars /\ Fairness

-----------------------------------------------------------------------------
(* Properties *)

(* The variables hold values of their types.                               *)
TypeOK ==
  /\ now \in Nat /\ signing \in Nat /\ keys \in Nat
  /\ pending \in [Enrollments -> Nat] /\ since \in [Enrollments -> Nat]
  /\ begun \in [Enrollments -> {"new", "grant", "answered", "failed", "over"}]
  /\ pc \in [Calls -> Labels]
  /\ call \in [Calls -> [enrollment : SUBSET Enrollments, kid : Nat]]
  /\ gate \subseteq Calls /\ refresh \in Nat \cup {-1} /\ fetched \in Nat \cup {-1}
  /\ enrolled \in [Enrollments -> Nat]

InFlight == {e \in Enrollments : begun[e] = "grant" /\ now < since[e] + ENROLLMENT_LIFETIME}

(* The limit on pending enrollments also bounds the device authorization   *)
(* requests at the identity provider: of the calls of begin_device that    *)
(* wait for it, no more than the limit are younger than the lifetime of    *)
(* their reservation.  And a failed authorization does not use up the      *)
(* limit: what occupies a place is an enrollment that can be completed,    *)
(* one that waits for the identity provider, or one whose call was dropped *)
(* meanwhile (insert_pending, release_pending).                            *)
GrantsBounded == Cardinality(InFlight) <= MAX_PENDING_ENROLLMENTS
FailuresReleased == \A e \in Occupied(pending) : begun[e] \in {"grant", "answered", "over"}
PlacesKept == GrantsBounded /\ FailuresReleased

(* However often and by however many calls an enrollment is completed, at  *)
(* most one device comes of it.                                            *)
OneDevice == \A e \in Enrollments : enrolled[e] <= 1

(* An enrollment is accepted within its lifetime of the answer to the call *)
(* that began it, although expired ones stay in the map until the next     *)
(* enrollment begins.                                                      *)
AcceptedInTime ==
  [][\A c \in Calls, e \in Enrollments :
       e \in call'[c].enrollment \ call[c].enrollment
         => now < since[e] + ENROLLMENT_LIFETIME]_vars

(* JwksCache: the identity provider is asked for its keys at most once per *)
(* cooldown, also when the fetch failed or its call was dropped; a call is *)
(* refused for its key only when the key is not in the cache at that       *)
(* moment, which another call may have filled while this one waited for    *)
(* the gate, and only within the cooldown of a fetch, so that a key the    *)
(* identity provider rotated to is picked up as soon as that has passed;   *)
(* and nobody waits for the gate forever, whatever becomes of its holder.  *)
RefreshSpaced ==
  [][fetched' # fetched => fetched = -1 \/ fetched' - fetched >= JWKS_REFRESH_COOLDOWN]_vars
RefusedOnlyUnknown ==
  [][\A c \in Calls :
       pc[c] # "refused" /\ pc'[c] = "refused" =>
         ~InKeySet(call[c].kid, keys') /\ now - fetched < JWKS_REFRESH_COOLDOWN]_vars
GatePasses == \A c \in Calls : pc[c] = "gate" ~> pc[c] # "gate"
KeysRefreshed == RefreshSpaced /\ RefusedOnlyUnknown /\ GatePasses
=============================================================================
