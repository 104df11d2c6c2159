------------------------ MODULE DeviceIdentityProofs ------------------------
(***************************************************************************)
(* Proofs about DeviceIdentity for every number of requests, devices,      *)
(* tokens, logouts and restarts: type correctness, the mutual exclusion of *)
(* token refreshes, and what leaves an identity without its secrets.       *)
(***************************************************************************)
EXTENDS DeviceIdentity, TLAPS

(* Whoever is inside a refresh is the one holding OAUTH_REFRESH_MUTEX.     *)
LockHeld == \A a \in Actors : pc[a] \in InRefresh => lock = {a}

(* A token response on its way to the store carries a token.               *)
ReplyCarried == \A a \in Actors : pc[a] \in {"reply", "replyCleared"} => reply[a] # 0

(* The session has credentials in memory wherever it may store them.       *)
HoldsIdentity ==
  RefreshLabels \cup {"renew", "save", "saveCleared", "saved", "saveNew", "newCleared", "savedNew",
                      "connect", "stream", "retry"}
SessionHolds ==
  pc[Session] \in HoldsIdentity \/ (pc[Session] \in {"delete", "deleteMeta"} /\ cause = "logout")
    => mem[Session].tok # 0

(* An actor about to write identity.json has written the secrets of that   *)
(* device; only a deletion, or a save that could not read the item, can    *)
(* have removed them since.                                                *)
SecretsFirst ==
  \A a \in Actors :
    pc[a] \in {"replySaved", "savedNew", "saved"} /\ mem[a].dev # 0
      => secrets[mem[a].dev] # 0 \/ mem[a].dev \in deleting \cup cleared

(* The inductive invariant.                                                *)
IInv == TypeOK /\ LockHeld /\ ReplyCarried /\ SessionHolds /\ SecretsFirst
        /\ UnreadableOnlyAfterDelete

USE DEF disk, idp, config, status, bounds, history

(* Zero, which stands for no device and for no token, is in both ranges.   *)
LEMMA ZeroInRange == 0 \in 0 .. MaxDevices /\ 0 \in 0 .. MaxTokens
BY BoundsAssumption

(* A device an actor holds is one of the devices.                          *)
LEMMA HeldDevice ==
  ASSUME TypeOK, NEW a \in Actors, mem[a].dev # 0
  PROVE  mem[a].dev \in Devices
<1>1. mem[a].dev \in 0 .. MaxDevices
  BY Zenon DEF TypeOK, Identities
<1> QED BY <1>1, BoundsAssumption DEF Devices

(* What identity::load returns is an identity with credentials.            *)
LEMMA StoredType ==
  ASSUME TypeOK, Readable
  PROVE  Stored \in Identities /\ Stored.tok # 0
BY BoundsAssumption DEF TypeOK, Readable, Stored, Identities, Devices

(* identity::delete removes the secrets of its target at most, and records *)
(* that it began.                                                          *)
LEMMA DeleteSecretsEffect ==
  ASSUME TypeOK, DeleteSecrets
  PROVE  /\ DeleteTarget \in 0 .. MaxDevices
         /\ secrets' \in [Devices -> 0 .. MaxTokens]
         /\ \A d \in Devices : secrets'[d] = secrets[d] \/ d \in deleting'
         /\ deleting \subseteq deleting' /\ deleting' \subseteq Devices
<1>1. DeleteTarget \in 0 .. MaxDevices
  BY Zenon DEF TypeOK, DeleteTarget, Actors, Identities
<1>2. DeleteTarget # 0 => DeleteTarget \in Devices
  BY <1>1, BoundsAssumption DEF Devices
<1>3. deleting' = deleting \cup ({DeleteTarget} \ {0})
  BY Zenon DEF DeleteSecrets
<1>4. deleting \subseteq deleting' /\ deleting' \subseteq Devices
  BY <1>2, <1>3, Zenon DEF TypeOK
<1>5. CASE secrets' = [d \in Devices |-> IF d = DeleteTarget THEN 0 ELSE secrets[d]]
  <2>1. secrets' \in [Devices -> 0 .. MaxTokens]
    BY <1>5, BoundsAssumption DEF TypeOK
  <2>2. \A d \in Devices : secrets'[d] = secrets[d] \/ d \in deleting'
    BY <1>3, <1>5, BoundsAssumption DEF Devices
  <2> QED BY <1>1, <1>4, <2>1, <2>2, Zenon
<1>6. CASE UNCHANGED secrets
  BY <1>1, <1>4, <1>6, Zenon DEF TypeOK
<1> QED BY <1>5, <1>6, Zenon DEF DeleteSecrets

(* identity::save leaves the item it wrote in the store, and no other item *)
(* changes.                                                                *)
LEMMA StoreSecretsEffect ==
  ASSUME TypeOK, NEW a \in Actors, NEW t \in 0 .. MaxTokens, t # 0, StoreSecrets(a, t)
  PROVE  /\ secrets' \in [Devices -> 0 .. MaxTokens]
         /\ cleared' \subseteq 0 .. MaxDevices
         /\ \A d \in Devices : secrets'[d] # 0 \/ (secrets'[d] = secrets[d]
                                                  /\ (d \in cleared => d \in cleared'))
         /\ mem[a].dev # 0 => secrets'[mem[a].dev] # 0
<1>1. secrets' \in [Devices -> 0 .. MaxTokens] /\ cleared' \subseteq 0 .. MaxDevices
  BY Zenon DEF TypeOK, StoreSecrets
<1>2. \A d \in Devices : d = mem[a].dev => secrets'[d] # 0
  BY Zenon DEF TypeOK, StoreSecrets
<1>3. \A d \in Devices : d # mem[a].dev => secrets'[d] = secrets[d] /\ (d \in cleared => d \in cleared')
  BY Zenon DEF TypeOK, StoreSecrets
<1> QED BY <1>1, <1>2, <1>3, HeldDevice, Zenon

(* A save that removes an item it cannot read keeps the invariant, because *)
(* the device is recorded as cleared until its item is written again.      *)
LEMMA ClearKeeps ==
  ASSUME IInv, NEW a \in Actors, ClearUnreadable(a)
  PROVE  IInv'
<1>1. /\ \A b \in Actors : b # a => pc'[b] = pc[b]
      /\ pc'[a] \in {"replyCleared", "newCleared", "saveCleared"}
      /\ pc'[a] = "replyCleared" => pc[a] = "reply"
      /\ pc[a] \in {"reply", "saveNew", "save"}
  BY Zenon DEF IInv, TypeOK, ClearUnreadable, Goto
<1>2. /\ mem' = mem /\ reply' = reply /\ lock' = lock /\ cause' = cause /\ meta' = meta
      /\ deleting' = deleting /\ cleared' = cleared \cup {mem[a].dev}
  BY Zenon DEF ClearUnreadable
<1>3. \A d \in Devices : secrets'[d] = secrets[d] \/ d \in cleared'
  BY Zenon DEF IInv, TypeOK, ClearUnreadable
<1>4. TypeOK'
  <2>1. pc' \in [Actors -> Labels]
    BY Zenon DEF IInv, TypeOK, ClearUnreadable, Goto, Labels, RefreshLabels
  <2>2. secrets' \in [Devices -> 0 .. MaxTokens]
    BY ZeroInRange, Zenon DEF IInv, TypeOK, ClearUnreadable
  <2>3. cleared' \subseteq 0 .. MaxDevices
    BY <1>2, Zenon DEF IInv, TypeOK, Identities
  <2> QED BY <2>1, <2>2, <2>3, Zenon DEF IInv, TypeOK, ClearUnreadable
<1>5. LockHeld'
  BY <1>1, <1>2, Zenon DEF IInv, LockHeld, InRefresh
<1>6. ReplyCarried'
  BY <1>1, <1>2, Zenon DEF IInv, ReplyCarried
<1>7. SessionHolds'
  BY <1>1, <1>2, Zenon DEF IInv, SessionHolds, HoldsIdentity, RefreshLabels, Actors
<1>8. SecretsFirst'
  <2>1. \A b \in Actors : mem[b].dev # 0 => mem[b].dev \in Devices
    BY HeldDevice, Zenon DEF IInv
  <2>2. SecretsFirst
    BY Zenon DEF IInv
  <2> QED BY <1>1, <1>2, <1>3, <2>1, <2>2, Zenon DEF SecretsFirst
<1>9. UnreadableOnlyAfterDelete'
  <2>1. meta # 0 => meta \in Devices
    BY BoundsAssumption DEF IInv, TypeOK, Devices
  <2>2. UnreadableOnlyAfterDelete
    BY Zenon DEF IInv
  <2> QED BY <1>2, <1>3, <2>1, <2>2, Zenon DEF UnreadableOnlyAfterDelete, Unreadable
<1> QED BY <1>4, <1>5, <1>6, <1>7, <1>8, <1>9, Zenon DEF IInv

(* refresh_oauth_if_needed, run by any actor, keeps the invariant.         *)
LEMMA RefreshKeeps ==
  ASSUME IInv, NEW a \in Actors, Refresh(a)
  PROVE  IInv'
<1>1. CASE CheckExpiry(a)
  <2>1. TypeOK'
    <3>1. pc' \in [Actors -> Labels]
      BY <1>1, Zenon DEF IInv, TypeOK, CheckExpiry, Goto, RefreshDone, Labels, RefreshLabels
    <3> QED BY <1>1, <3>1, Zenon DEF IInv, TypeOK, CheckExpiry
  <2>2. LockHeld'
    BY <1>1, Zenon DEF IInv, TypeOK, LockHeld, InRefresh, CheckExpiry, Goto, RefreshDone
  <2>3. ReplyCarried'
    BY <1>1, Zenon DEF IInv, TypeOK, ReplyCarried, CheckExpiry, Goto, RefreshDone
  <2>4. SessionHolds'
    BY <1>1, ActorsAssumption, Zenon DEF IInv, TypeOK, SessionHolds, HoldsIdentity, RefreshLabels, Actors,
       CheckExpiry, Goto, RefreshDone
  <2>5. SecretsFirst'
    BY <1>1, Zenon DEF IInv, TypeOK, SecretsFirst, CheckExpiry, Goto, RefreshDone
  <2>6. UnreadableOnlyAfterDelete'
    BY <1>1, Zenon DEF IInv, TypeOK, UnreadableOnlyAfterDelete, Unreadable, CheckExpiry, Goto, RefreshDone
  <2> QED BY <2>1, <2>2, <2>3, <2>4, <2>5, <2>6, Zenon DEF IInv
<1>2. CASE AcquireRefreshLock(a)
  <2>1. TypeOK'
    <3>1. pc' \in [Actors -> Labels]
      BY <1>2, Zenon DEF IInv, TypeOK, AcquireRefreshLock, Goto, Labels, RefreshLabels
    <3>2. lock' \subseteq Actors
      BY <1>2, Zenon DEF IInv, TypeOK, AcquireRefreshLock, Actors
    <3> QED BY <1>2, <3>1, <3>2, Zenon DEF IInv, TypeOK, AcquireRefreshLock
  <2>2. LockHeld'
    BY <1>2, Zenon DEF IInv, TypeOK, LockHeld, InRefresh, AcquireRefreshLock, Goto
  <2>3. ReplyCarried'
    BY <1>2, Zenon DEF IInv, TypeOK, ReplyCarried, AcquireRefreshLock, Goto
  <2>4. SessionHolds'
    BY <1>2, ActorsAssumption, Zenon DEF IInv, TypeOK, SessionHolds, HoldsIdentity, RefreshLabels, Actors,
       AcquireRefreshLock, Goto
  <2>5. SecretsFirst'
    BY <1>2, Zenon DEF IInv, TypeOK, SecretsFirst, AcquireRefreshLock, Goto
  <2>6. UnreadableOnlyAfterDelete'
    BY <1>2, Zenon DEF IInv, TypeOK, UnreadableOnlyAfterDelete, Unreadable, AcquireRefreshLock, Goto
  <2> QED BY <2>1, <2>2, <2>3, <2>4, <2>5, <2>6, Zenon DEF IInv
<1>3. CASE ReloadStored(a)
  <2>1. TypeOK'
    <3>1. pc' \in [Actors -> Labels]
      BY <1>3, Zenon DEF IInv, TypeOK, ReloadStored, Goto, RefreshDone, Labels, RefreshLabels
    <3>2. mem' \in [Actors -> Identities]
      BY <1>3, StoredType, Zenon DEF IInv, TypeOK, ReloadStored
    <3>3. lock' \subseteq Actors
      BY <1>3, Zenon DEF IInv, TypeOK, ReloadStored
    <3> QED BY <1>3, <3>1, <3>2, <3>3, Zenon DEF IInv, TypeOK, ReloadStored
  <2>2. LockHeld'
    BY <1>3, Zenon DEF IInv, TypeOK, LockHeld, InRefresh, ReloadStored, Goto, RefreshDone, Readable, Stored
  <2>3. ReplyCarried'
    BY <1>3, Zenon DEF IInv, TypeOK, ReplyCarried, ReloadStored, Goto, RefreshDone, Readable, Stored
  <2>4. SessionHolds'
    BY <1>3, ActorsAssumption DEF IInv, TypeOK, SessionHolds, HoldsIdentity, RefreshLabels, Actors,
       ReloadStored, Goto, RefreshDone, Readable, Stored
  <2>5. SecretsFirst'
    BY <1>3 DEF IInv, TypeOK, SecretsFirst, ReloadStored, Goto, RefreshDone, Readable, Stored
  <2>6. UnreadableOnlyAfterDelete'
    BY <1>3, Zenon DEF IInv, TypeOK, UnreadableOnlyAfterDelete, Unreadable, ReloadStored, Goto,
       RefreshDone, Readable, Stored
  <2> QED BY <2>1, <2>2, <2>3, <2>4, <2>5, <2>6, Zenon DEF IInv
<1>4. CASE ReloadFails(a)
  <2>1. TypeOK'
    <3>1. pc' \in [Actors -> Labels]
      BY <1>4, Zenon DEF IInv, TypeOK, ReloadFails, Fails, Goto, Labels, RefreshLabels
    <3>2. lock' \subseteq Actors
      BY <1>4, Zenon DEF IInv, TypeOK, ReloadFails
    <3>3. enrollment' \in {"starting", "awaitingAuthentication", "enrolled", "failed"}
      BY <1>4, Zenon DEF IInv, TypeOK, ReloadFails, Fails
    <3>4. connected' \in BOOLEAN
      BY <1>4, Zenon DEF IInv, TypeOK, ReloadFails, Fails
    <3> QED BY <1>4, <3>1, <3>2, <3>3, <3>4, Zenon DEF IInv, TypeOK, ReloadFails
  <2>2. LockHeld'
    BY <1>4, Zenon DEF IInv, TypeOK, LockHeld, InRefresh, ReloadFails, Goto, Fails
  <2>3. ReplyCarried'
    BY <1>4, Zenon DEF IInv, TypeOK, ReplyCarried, ReloadFails, Goto, Fails
  <2>4. SessionHolds'
    BY <1>4, ActorsAssumption, Zenon DEF IInv, TypeOK, SessionHolds, HoldsIdentity, RefreshLabels, Actors,
       ReloadFails, Goto, Fails
  <2>5. SecretsFirst'
    BY <1>4, Zenon DEF IInv, TypeOK, SecretsFirst, ReloadFails, Goto, Fails
  <2>6. UnreadableOnlyAfterDelete'
    BY <1>4, Zenon DEF IInv, TypeOK, UnreadableOnlyAfterDelete, Unreadable, ReloadFails, Goto, Fails
  <2> QED BY <2>1, <2>2, <2>3, <2>4, <2>5, <2>6, Zenon DEF IInv
<1>5. CASE IdpRotates(a)
  <2>1. TypeOK'
    <3>1. tokens + 1 \in Tokens /\ tokens + 1 \in 0 .. MaxTokens
      <4>1. tokens \in 0 .. MaxTokens /\ tokens < MaxTokens
        BY <1>5, Zenon DEF IInv, TypeOK, IdpRotates
      <4> QED BY <4>1, BoundsAssumption DEF Tokens
    <3>2. pc' \in [Actors -> Labels]
      BY <1>5, Zenon DEF IInv, TypeOK, IdpRotates, Goto, Labels, RefreshLabels
    <3>3. reply' \in [Actors -> 0 .. MaxTokens]
      BY <1>5, <3>1, Zenon DEF IInv, TypeOK, IdpRotates
    <3>4. fresh' \subseteq Tokens
      BY <1>5, <3>1, Zenon DEF IInv, TypeOK, IdpRotates
    <3>5. live' \subseteq Tokens
      BY <1>5, <3>1, Zenon DEF IInv, TypeOK, IdpRotates
    <3>6. spent' \subseteq Tokens
      BY <1>5, Zenon DEF IInv, TypeOK, IdpRotates
    <3>7. tokens' \in 0 .. MaxTokens
      BY <1>5, <3>1, Zenon DEF IInv, TypeOK, IdpRotates
    <3> QED BY <1>5, <3>1, <3>2, <3>3, <3>4, <3>5, <3>6, <3>7, Zenon DEF IInv, TypeOK, IdpRotates
  <2>2. LockHeld'
    BY <1>5, Zenon DEF IInv, TypeOK, LockHeld, InRefresh, IdpRotates, Goto
  <2>3. ReplyCarried'
    BY <1>5 DEF IInv, TypeOK, ReplyCarried, Tokens, IdpRotates, Goto
  <2>4. SessionHolds'
    BY <1>5, ActorsAssumption, Zenon DEF IInv, TypeOK, SessionHolds, HoldsIdentity, RefreshLabels, Actors,
       IdpRotates, Goto
  <2>5. SecretsFirst'
    BY <1>5, Zenon DEF IInv, TypeOK, SecretsFirst, IdpRotates, Goto
  <2>6. UnreadableOnlyAfterDelete'
    BY <1>5, Zenon DEF IInv, TypeOK, UnreadableOnlyAfterDelete, Unreadable, IdpRotates, Goto
  <2> QED BY <2>1, <2>2, <2>3, <2>4, <2>5, <2>6, Zenon DEF IInv
<1>6. CASE IdpExtends(a)
  <2>1. TypeOK'
    <3>1. pc' \in [Actors -> Labels]
      BY <1>6, Zenon DEF IInv, TypeOK, IdpExtends, Goto, Labels, RefreshLabels
    <3>2. mem[a].tok \in 0 .. MaxTokens
      BY <1>6, Zenon DEF IInv, TypeOK, Identities
    <3>3. reply' \in [Actors -> 0 .. MaxTokens]
      BY <1>6, <3>2, Zenon DEF IInv, TypeOK, IdpExtends
    <3>4. fresh' \subseteq Tokens
      BY <1>6, Zenon DEF IInv, TypeOK, IdpExtends
    <3> QED BY <1>6, <3>1, <3>2, <3>3, <3>4, Zenon DEF IInv, TypeOK, IdpExtends
  <2>2. LockHeld'
    BY <1>6, Zenon DEF IInv, TypeOK, LockHeld, InRefresh, IdpExtends, Goto
  <2>3. ReplyCarried'
    BY <1>6 DEF IInv, TypeOK, ReplyCarried, Tokens, IdpExtends, Goto
  <2>4. SessionHolds'
    BY <1>6, ActorsAssumption, Zenon DEF IInv, TypeOK, SessionHolds, HoldsIdentity, RefreshLabels, Actors,
       IdpExtends, Goto
  <2>5. SecretsFirst'
    BY <1>6, Zenon DEF IInv, TypeOK, SecretsFirst, IdpExtends, Goto
  <2>6. UnreadableOnlyAfterDelete'
    BY <1>6, Zenon DEF IInv, TypeOK, UnreadableOnlyAfterDelete, Unreadable, IdpExtends, Goto
  <2> QED BY <2>1, <2>2, <2>3, <2>4, <2>5, <2>6, Zenon DEF IInv
<1>7. CASE IdpRejects(a)
  <2>1. TypeOK'
    <3>1. pc' \in [Actors -> Labels]
      BY <1>7, Zenon DEF IInv, TypeOK, IdpRejects, Goto, Labels, RefreshLabels
    <3>2. lock' \subseteq Actors
      BY <1>7, Zenon DEF IInv, TypeOK, IdpRejects
    <3>3. cause' \in Causes
      BY <1>7, Zenon DEF IInv, TypeOK, IdpRejects, Causes
    <3> QED BY <1>7, <3>1, <3>2, <3>3, Zenon DEF IInv, TypeOK, IdpRejects
  <2>2. LockHeld'
    BY <1>7, Zenon DEF IInv, TypeOK, LockHeld, InRefresh, IdpRejects, Goto
  <2>3. ReplyCarried'
    BY <1>7, Zenon DEF IInv, TypeOK, ReplyCarried, IdpRejects, Goto
  <2>4. SessionHolds'
    BY <1>7, ActorsAssumption, Zenon DEF IInv, TypeOK, SessionHolds, HoldsIdentity, RefreshLabels, Actors,
       IdpRejects, Goto
  <2>5. SecretsFirst'
    BY <1>7, Zenon DEF IInv, TypeOK, SecretsFirst, IdpRejects, Goto
  <2>6. UnreadableOnlyAfterDelete'
    BY <1>7, Zenon DEF IInv, TypeOK, UnreadableOnlyAfterDelete, Unreadable, IdpRejects, Goto
  <2> QED BY <2>1, <2>2, <2>3, <2>4, <2>5, <2>6, Zenon DEF IInv
<1>8. CASE IdpUnreachable(a)
  <2>1. TypeOK'
    <3>1. pc' \in [Actors -> Labels]
      BY <1>8, Zenon DEF IInv, TypeOK, IdpUnreachable, Goto, Labels, RefreshLabels
    <3>2. reply' \in [Actors -> 0 .. MaxTokens]
      BY <1>8, ZeroInRange, Zenon DEF IInv, TypeOK, IdpUnreachable
    <3>3. lock' \subseteq Actors
      BY <1>8, Zenon DEF IInv, TypeOK, IdpUnreachable
    <3>4. lost' \in BOOLEAN
      BY <1>8, Zenon DEF IInv, TypeOK, IdpUnreachable
    <3> QED BY <1>8, <3>1, <3>2, <3>3, <3>4, Zenon DEF IInv, TypeOK, IdpUnreachable
  <2>2. LockHeld'
    BY <1>8, Zenon DEF IInv, TypeOK, LockHeld, InRefresh, IdpUnreachable, Goto
  <2>3. ReplyCarried'
    BY <1>8, Zenon DEF IInv, TypeOK, ReplyCarried, IdpUnreachable, Goto
  <2>4. SessionHolds'
    BY <1>8, ActorsAssumption, Zenon DEF IInv, TypeOK, SessionHolds, HoldsIdentity, RefreshLabels, Actors,
       IdpUnreachable, Goto
  <2>5. SecretsFirst'
    BY <1>8, Zenon DEF IInv, TypeOK, SecretsFirst, IdpUnreachable, Goto
  <2>6. UnreadableOnlyAfterDelete'
    BY <1>8, Zenon DEF IInv, TypeOK, UnreadableOnlyAfterDelete, Unreadable, IdpUnreachable, Goto
  <2> QED BY <2>1, <2>2, <2>3, <2>4, <2>5, <2>6, Zenon DEF IInv
<1>9. CASE SaveRefreshed(a)
  <2>a. /\ secrets' \in [Devices -> 0 .. MaxTokens]
        /\ cleared' \subseteq 0 .. MaxDevices
        /\ \A d \in Devices : secrets'[d] # 0 \/ (secrets'[d] = secrets[d]
                                                 /\ (d \in cleared => d \in cleared'))
        /\ mem[a].dev # 0 => secrets'[mem[a].dev] # 0
    <3>1. reply[a] \in 0 .. MaxTokens /\ reply[a] # 0 /\ StoreSecrets(a, reply[a]) /\ TypeOK
      BY <1>9, Zenon DEF IInv, TypeOK, ReplyCarried, SaveRefreshed
    <3> QED BY <3>1, StoreSecretsEffect, Zenon
  <2>b. deleting' = deleting /\ meta' = meta /\ \A b \in Actors : mem'[b].dev = mem[b].dev
    BY <1>9 DEF IInv, TypeOK, Identities, SaveRefreshed
  <2>1. TypeOK'
    <3>2. pc' \in [Actors -> Labels]
      BY <1>9, Zenon DEF IInv, TypeOK, SaveRefreshed, Goto, Labels, RefreshLabels
    <3>3. mem' \in [Actors -> Identities]
      BY <1>9, Zenon DEF IInv, TypeOK, SaveRefreshed, Identities
    <3>4. reply' \in [Actors -> 0 .. MaxTokens]
      BY <1>9, ZeroInRange, Zenon DEF IInv, TypeOK, SaveRefreshed
    <3> QED BY <1>9, <2>a, <3>2, <3>3, <3>4, Zenon DEF IInv, TypeOK, SaveRefreshed
  <2>2. LockHeld'
    BY <1>9, Zenon DEF IInv, TypeOK, LockHeld, InRefresh, SaveRefreshed, Goto, StoreSecrets
  <2>3. ReplyCarried'
    BY <1>9, Zenon DEF IInv, TypeOK, ReplyCarried, SaveRefreshed, Goto, StoreSecrets
  <2>4. SessionHolds'
    BY <1>9, ActorsAssumption DEF IInv, TypeOK, SessionHolds, HoldsIdentity, RefreshLabels, Actors,
       ReplyCarried, SaveRefreshed, Goto, StoreSecrets
  <2>5. SecretsFirst'
    <3>1. \A b \in Actors : b # a => pc'[b] = pc[b]
      BY <1>9, Zenon DEF IInv, TypeOK, SaveRefreshed, Goto
    <3>2. \A b \in Actors : mem[b].dev # 0 => mem[b].dev \in Devices
      BY HeldDevice, Zenon DEF IInv
    <3>3. SecretsFirst
      BY Zenon DEF IInv
    <3> QED BY <2>a, <2>b, <3>1, <3>2, <3>3, Zenon DEF SecretsFirst
  <2>6. UnreadableOnlyAfterDelete'
    <3>1. meta # 0 => meta \in Devices
      BY BoundsAssumption DEF IInv, TypeOK, Devices
    <3>2. UnreadableOnlyAfterDelete
      BY Zenon DEF IInv
    <3> QED BY <2>a, <2>b, <3>1, <3>2, Zenon DEF UnreadableOnlyAfterDelete, Unreadable
  <2> QED BY <2>1, <2>2, <2>3, <2>4, <2>5, <2>6, Zenon DEF IInv
<1>10. CASE SaveRefreshedMeta(a)
  <2>1. TypeOK'
    <3>1. meta' \in 0 .. MaxDevices
      BY <1>10, Zenon DEF IInv, TypeOK, SaveRefreshedMeta, StoreMeta, Identities
    <3>2. pc' \in [Actors -> Labels]
      BY <1>10, Zenon DEF IInv, TypeOK, SaveRefreshedMeta, RefreshDone, Goto, Labels, RefreshLabels
    <3>3. lock' \subseteq Actors
      BY <1>10, Zenon DEF IInv, TypeOK, SaveRefreshedMeta
    <3> QED BY <1>10, <3>1, <3>2, <3>3, Zenon DEF IInv, TypeOK, SaveRefreshedMeta
  <2>2. LockHeld'
    BY <1>10, Zenon DEF IInv, TypeOK, LockHeld, InRefresh, SaveRefreshedMeta, Goto, StoreMeta, RefreshDone
  <2>3. ReplyCarried'
    BY <1>10, Zenon DEF IInv, TypeOK, ReplyCarried, SaveRefreshedMeta, Goto, StoreMeta, RefreshDone
  <2>4. SessionHolds'
    BY <1>10, ActorsAssumption, Zenon DEF IInv, TypeOK, SessionHolds, HoldsIdentity, RefreshLabels, Actors,
       SaveRefreshedMeta, Goto, StoreMeta, RefreshDone
  <2>5. SecretsFirst'
    BY <1>10, Zenon DEF IInv, TypeOK, SecretsFirst, SaveRefreshedMeta, Goto, StoreMeta, RefreshDone
  <2>6. UnreadableOnlyAfterDelete'
    BY <1>10, Zenon DEF IInv, TypeOK, UnreadableOnlyAfterDelete, Unreadable, SecretsFirst, Actors,
       SaveRefreshedMeta, Goto, StoreMeta, RefreshDone
  <2> QED BY <2>1, <2>2, <2>3, <2>4, <2>5, <2>6, Zenon DEF IInv
<1>11. CASE SaveRefreshedFails(a)
  <2>1. TypeOK'
    <3>1. pc' \in [Actors -> Labels]
      BY <1>11, Zenon DEF IInv, TypeOK, SaveRefreshedFails, Fails, Goto, Labels, RefreshLabels
    <3>2. reply' \in [Actors -> 0 .. MaxTokens]
      BY <1>11, ZeroInRange, Zenon DEF IInv, TypeOK, SaveRefreshedFails
    <3>3. lock' \subseteq Actors
      BY <1>11, Zenon DEF IInv, TypeOK, SaveRefreshedFails
    <3>4. enrollment' \in {"starting", "awaitingAuthentication", "enrolled", "failed"}
      BY <1>11, Zenon DEF IInv, TypeOK, SaveRefreshedFails, Fails
    <3>5. connected' \in BOOLEAN
      BY <1>11, Zenon DEF IInv, TypeOK, SaveRefreshedFails, Fails
    <3>6. lost' \in BOOLEAN
      BY <1>11, Zenon DEF IInv, TypeOK, SaveRefreshedFails
    <3> QED BY <1>11, <3>1, <3>2, <3>3, <3>4, <3>5, <3>6, Zenon DEF IInv, TypeOK, SaveRefreshedFails
  <2>2. LockHeld'
    BY <1>11, Zenon DEF IInv, TypeOK, LockHeld, InRefresh, SaveRefreshedFails, Goto, Fails
  <2>3. ReplyCarried'
    BY <1>11, Zenon DEF IInv, TypeOK, ReplyCarried, SaveRefreshedFails, Goto, Fails
  <2>4. SessionHolds'
    BY <1>11, ActorsAssumption, Zenon DEF IInv, TypeOK, SessionHolds, HoldsIdentity, RefreshLabels, Actors,
       SaveRefreshedFails, Goto, Fails
  <2>5. SecretsFirst'
    BY <1>11, Zenon DEF IInv, TypeOK, SecretsFirst, SaveRefreshedFails, Goto, Fails
  <2>6. UnreadableOnlyAfterDelete'
    BY <1>11, Zenon DEF IInv, TypeOK, UnreadableOnlyAfterDelete, Unreadable, SaveRefreshedFails, Goto,
       Fails
  <2> QED BY <2>1, <2>2, <2>3, <2>4, <2>5, <2>6, Zenon DEF IInv
<1>12. CASE RefreshUnsupported(a)
  <2>1. TypeOK'
    <3>1. pc' \in [Actors -> Labels]
      BY <1>12, Zenon DEF IInv, TypeOK, RefreshUnsupported, Fails, Goto, Labels, RefreshLabels
    <3>2. reply' \in [Actors -> 0 .. MaxTokens]
      BY <1>12, ZeroInRange, Zenon DEF IInv, TypeOK, RefreshUnsupported
    <3>3. lock' \subseteq Actors
      BY <1>12, Zenon DEF IInv, TypeOK, RefreshUnsupported
    <3>4. enrollment' \in {"starting", "awaitingAuthentication", "enrolled", "failed"}
      BY <1>12, Zenon DEF IInv, TypeOK, RefreshUnsupported, Fails
    <3>5. connected' \in BOOLEAN
      BY <1>12, Zenon DEF IInv, TypeOK, RefreshUnsupported, Fails
    <3>6. lost' \in BOOLEAN
      BY <1>12, Zenon DEF IInv, TypeOK, RefreshUnsupported
    <3> QED BY <1>12, <3>1, <3>2, <3>3, <3>4, <3>5, <3>6, Zenon DEF IInv, TypeOK, RefreshUnsupported
  <2>2. LockHeld'
    BY <1>12, Zenon DEF IInv, TypeOK, LockHeld, InRefresh, RefreshUnsupported, Goto, Fails
  <2>3. ReplyCarried'
    BY <1>12, Zenon DEF IInv, TypeOK, ReplyCarried, RefreshUnsupported, Goto, Fails
  <2>4. SessionHolds'
    BY <1>12, ActorsAssumption, Zenon DEF IInv, TypeOK, SessionHolds, HoldsIdentity, RefreshLabels, Actors,
       RefreshUnsupported, Goto, Fails
  <2>5. SecretsFirst'
    BY <1>12, Zenon DEF IInv, TypeOK, SecretsFirst, RefreshUnsupported, Goto, Fails
  <2>6. UnreadableOnlyAfterDelete'
    BY <1>12, Zenon DEF IInv, TypeOK, UnreadableOnlyAfterDelete, Unreadable, RefreshUnsupported, Goto,
       Fails
  <2> QED BY <2>1, <2>2, <2>3, <2>4, <2>5, <2>6, Zenon DEF IInv
<1> QED BY <1>1, <1>2, <1>3, <1>4, <1>5, <1>6, <1>7, <1>8, <1>9, <1>10, <1>11, <1>12, Zenon DEF Refresh

(* The session loop of remote.rs keeps the invariant: enrollment, renewal, *)
(* connection, logout and the deletions they lead to.                      *)
LEMMA SessionKeeps ==
  ASSUME IInv, SessionStep
  PROVE  IInv'
<1>1. CASE LoadIdentity
  <2>1. TypeOK'
    <3>1. pc' \in [Actors -> Labels]
      BY <1>1, Zenon DEF IInv, TypeOK, LoadIdentity, Goto, Labels, RefreshLabels
    <3>2. mem' \in [Actors -> Identities]
      BY <1>1, StoredType, Zenon DEF IInv, TypeOK, LoadIdentity
    <3>3. cause' \in Causes
      BY <1>1, Zenon DEF IInv, TypeOK, LoadIdentity, Causes
    <3>4. enrollment' \in {"starting", "awaitingAuthentication", "enrolled", "failed"}
      BY <1>1, Zenon DEF IInv, TypeOK, LoadIdentity
    <3> QED BY <1>1, <3>1, <3>2, <3>3, <3>4, Zenon DEF IInv, TypeOK, LoadIdentity
  <2>2. LockHeld'
    BY <1>1, Zenon DEF IInv, TypeOK, LockHeld, InRefresh, Actors, LoadIdentity, Goto, Readable, Unreadable,
       Stored
  <2>3. ReplyCarried'
    BY <1>1, Zenon DEF IInv, TypeOK, ReplyCarried, Actors, LoadIdentity, Goto, Readable, Unreadable, Stored
  <2>4. SessionHolds'
    BY <1>1, ActorsAssumption DEF IInv, TypeOK, SessionHolds, HoldsIdentity, RefreshLabels, Actors,
       LoadIdentity, Goto, Readable, Unreadable, Stored
  <2>5. SecretsFirst'
    BY <1>1, Zenon DEF IInv, TypeOK, SecretsFirst, Actors, LoadIdentity, Goto, Readable, Unreadable,
       Stored
  <2>6. UnreadableOnlyAfterDelete'
    BY <1>1, Zenon DEF IInv, TypeOK, UnreadableOnlyAfterDelete, Unreadable, LoadIdentity, Goto, Readable,
       Stored
  <2> QED BY <2>1, <2>2, <2>3, <2>4, <2>5, <2>6, Zenon DEF IInv
<1>2. CASE LoadFails
  <2>1. TypeOK'
    <3>1. pc' \in [Actors -> Labels]
      BY <1>2, Zenon DEF IInv, TypeOK, LoadFails, Fails, Goto, Labels, RefreshLabels
    <3>2. enrollment' \in {"starting", "awaitingAuthentication", "enrolled", "failed"}
      BY <1>2, Zenon DEF IInv, TypeOK, LoadFails, Fails
    <3>3. connected' \in BOOLEAN
      BY <1>2, Zenon DEF IInv, TypeOK, LoadFails, Fails
    <3> QED BY <1>2, <3>1, <3>2, <3>3, Zenon DEF IInv, TypeOK, LoadFails
  <2>2. LockHeld'
    BY <1>2, Zenon DEF IInv, TypeOK, LockHeld, InRefresh, Actors, LoadFails, Goto, Fails
  <2>3. ReplyCarried'
    BY <1>2, Zenon DEF IInv, TypeOK, ReplyCarried, Actors, LoadFails, Goto, Fails
  <2>4. SessionHolds'
    BY <1>2, ActorsAssumption, Zenon DEF IInv, TypeOK, SessionHolds, HoldsIdentity, RefreshLabels, Actors,
       LoadFails, Goto, Fails
  <2>5. SecretsFirst'
    BY <1>2, Zenon DEF IInv, TypeOK, SecretsFirst, Actors, LoadFails, Goto, Fails
  <2>6. UnreadableOnlyAfterDelete'
    BY <1>2, Zenon DEF IInv, TypeOK, UnreadableOnlyAfterDelete, Unreadable, LoadFails, Goto, Fails
  <2> QED BY <2>1, <2>2, <2>3, <2>4, <2>5, <2>6, Zenon DEF IInv
<1>3. CASE SaveEnrolled
  <2>a. /\ secrets' \in [Devices -> 0 .. MaxTokens]
        /\ cleared' \subseteq 0 .. MaxDevices
        /\ \A d \in Devices : secrets'[d] # 0 \/ (secrets'[d] = secrets[d]
                                                 /\ (d \in cleared => d \in cleared'))
        /\ mem[Session].dev # 0 => secrets'[mem[Session].dev] # 0
    <3>1. Session \in Actors
      BY Zenon DEF Actors
    <3>2. mem[Session].tok # 0 /\ StoreSecrets(Session, mem[Session].tok) /\ TypeOK
      BY <1>3, Zenon DEF IInv, SessionHolds, HoldsIdentity, SaveEnrolled
    <3>3. mem[Session].tok \in 0 .. MaxTokens
      BY <3>1, Zenon DEF IInv, TypeOK, Identities
    <3> QED BY <3>1, <3>2, <3>3, StoreSecretsEffect, Zenon
  <2>b. deleting' = deleting /\ meta' = meta /\ mem' = mem
    BY <1>3, Zenon DEF SaveEnrolled
  <2>1. TypeOK'
    <3>2. pc' \in [Actors -> Labels]
      BY <1>3, Zenon DEF IInv, TypeOK, SaveEnrolled, Goto, Labels, RefreshLabels
    <3> QED BY <1>3, <2>a, <3>2, Zenon DEF IInv, TypeOK, SaveEnrolled
  <2>2. LockHeld'
    BY <1>3, Zenon DEF IInv, TypeOK, LockHeld, InRefresh, Actors, SaveEnrolled, Goto, StoreSecrets
  <2>3. ReplyCarried'
    BY <1>3, Zenon DEF IInv, TypeOK, ReplyCarried, Actors, SaveEnrolled, Goto, StoreSecrets
  <2>4. SessionHolds'
    BY <1>3, ActorsAssumption, Zenon DEF IInv, TypeOK, SessionHolds, HoldsIdentity, RefreshLabels, Actors,
       SaveEnrolled, Goto, StoreSecrets
  <2>5. SecretsFirst'
    <3>1. \A a \in Actors : a # Session => pc'[a] = pc[a]
      BY <1>3, Zenon DEF IInv, TypeOK, SaveEnrolled, Goto
    <3>2. \A a \in Actors : mem[a].dev # 0 => mem[a].dev \in Devices
      BY HeldDevice, Zenon DEF IInv
    <3>3. SecretsFirst
      BY Zenon DEF IInv
    <3> QED BY <2>a, <2>b, <3>1, <3>2, <3>3, Zenon DEF SecretsFirst
  <2>6. UnreadableOnlyAfterDelete'
    <3>1. meta # 0 => meta \in Devices
      BY BoundsAssumption DEF IInv, TypeOK, Devices
    <3>2. UnreadableOnlyAfterDelete
      BY Zenon DEF IInv
    <3> QED BY <2>a, <2>b, <3>1, <3>2, Zenon DEF UnreadableOnlyAfterDelete, Unreadable
  <2> QED BY <2>1, <2>2, <2>3, <2>4, <2>5, <2>6, Zenon DEF IInv
<1>4. CASE SaveEnrolledMeta
  <2>1. TypeOK'
    <3>1. meta' \in 0 .. MaxDevices
      BY <1>4, Zenon DEF IInv, TypeOK, SaveEnrolledMeta, StoreMeta, Identities, Actors
    <3>2. pc' \in [Actors -> Labels]
      BY <1>4, Zenon DEF IInv, TypeOK, SaveEnrolledMeta, Goto, Labels, RefreshLabels
    <3>3. enrollment' \in {"starting", "awaitingAuthentication", "enrolled", "failed"}
      BY <1>4, Zenon DEF IInv, TypeOK, SaveEnrolledMeta
    <3> QED BY <1>4, <3>1, <3>2, <3>3, Zenon DEF IInv, TypeOK, SaveEnrolledMeta
  <2>2. LockHeld'
    BY <1>4, Zenon DEF IInv, TypeOK, LockHeld, InRefresh, Actors, SaveEnrolledMeta, Goto, StoreMeta
  <2>3. ReplyCarried'
    BY <1>4, Zenon DEF IInv, TypeOK, ReplyCarried, Actors, SaveEnrolledMeta, Goto, StoreMeta
  <2>4. SessionHolds'
    BY <1>4, ActorsAssumption, Zenon DEF IInv, TypeOK, SessionHolds, HoldsIdentity, RefreshLabels, Actors,
       SaveEnrolledMeta, Goto, StoreMeta
  <2>5. SecretsFirst'
    BY <1>4, Zenon DEF IInv, TypeOK, SecretsFirst, Actors, SaveEnrolledMeta, Goto, StoreMeta
  <2>6. UnreadableOnlyAfterDelete'
    BY <1>4, Zenon DEF IInv, TypeOK, UnreadableOnlyAfterDelete, Unreadable, SecretsFirst, Actors,
       SaveEnrolledMeta, Goto, StoreMeta
  <2> QED BY <2>1, <2>2, <2>3, <2>4, <2>5, <2>6, Zenon DEF IInv
<1>5. CASE ClearUnreadable(Session)
  BY <1>5, ClearKeeps, Zenon DEF Actors
<1>6. CASE SaveIdentity
  <2>a. /\ secrets' \in [Devices -> 0 .. MaxTokens]
        /\ cleared' \subseteq 0 .. MaxDevices
        /\ \A d \in Devices : secrets'[d] # 0 \/ (secrets'[d] = secrets[d]
                                                 /\ (d \in cleared => d \in cleared'))
        /\ mem[Session].dev # 0 => secrets'[mem[Session].dev] # 0
    <3>1. Session \in Actors
      BY Zenon DEF Actors
    <3>2. mem[Session].tok # 0 /\ StoreSecrets(Session, mem[Session].tok) /\ TypeOK
      BY <1>6, Zenon DEF IInv, SessionHolds, HoldsIdentity, SaveIdentity
    <3>3. mem[Session].tok \in 0 .. MaxTokens
      BY <3>1, Zenon DEF IInv, TypeOK, Identities
    <3> QED BY <3>1, <3>2, <3>3, StoreSecretsEffect, Zenon
  <2>b. deleting' = deleting /\ meta' = meta /\ mem' = mem
    BY <1>6, Zenon DEF SaveIdentity
  <2>1. TypeOK'
    <3>2. pc' \in [Actors -> Labels]
      BY <1>6, Zenon DEF IInv, TypeOK, SaveIdentity, Goto, Labels, RefreshLabels
    <3> QED BY <1>6, <2>a, <3>2, Zenon DEF IInv, TypeOK, SaveIdentity
  <2>2. LockHeld'
    BY <1>6, Zenon DEF IInv, TypeOK, LockHeld, InRefresh, Actors, SaveIdentity, Goto, StoreSecrets
  <2>3. ReplyCarried'
    BY <1>6, Zenon DEF IInv, TypeOK, ReplyCarried, Actors, SaveIdentity, Goto, StoreSecrets
  <2>4. SessionHolds'
    BY <1>6, ActorsAssumption, Zenon DEF IInv, TypeOK, SessionHolds, HoldsIdentity, RefreshLabels, Actors,
       SaveIdentity, Goto, StoreSecrets
  <2>5. SecretsFirst'
    <3>1. \A a \in Actors : a # Session => pc'[a] = pc[a]
      BY <1>6, Zenon DEF IInv, TypeOK, SaveIdentity, Goto
    <3>2. \A a \in Actors : mem[a].dev # 0 => mem[a].dev \in Devices
      BY HeldDevice, Zenon DEF IInv
    <3>3. SecretsFirst
      BY Zenon DEF IInv
    <3> QED BY <2>a, <2>b, <3>1, <3>2, <3>3, Zenon DEF SecretsFirst
  <2>6. UnreadableOnlyAfterDelete'
    <3>1. meta # 0 => meta \in Devices
      BY BoundsAssumption DEF IInv, TypeOK, Devices
    <3>2. UnreadableOnlyAfterDelete
      BY Zenon DEF IInv
    <3> QED BY <2>a, <2>b, <3>1, <3>2, Zenon DEF UnreadableOnlyAfterDelete, Unreadable
  <2> QED BY <2>1, <2>2, <2>3, <2>4, <2>5, <2>6, Zenon DEF IInv
<1>7. CASE SaveIdentityMeta
  <2>1. TypeOK'
    <3>1. meta' \in 0 .. MaxDevices
      BY <1>7, Zenon DEF IInv, TypeOK, SaveIdentityMeta, StoreMeta, Identities, Actors
    <3>2. pc' \in [Actors -> Labels]
      BY <1>7, Zenon DEF IInv, TypeOK, SaveIdentityMeta, Goto, Labels, RefreshLabels
    <3> QED BY <1>7, <3>1, <3>2, Zenon DEF IInv, TypeOK, SaveIdentityMeta
  <2>2. LockHeld'
    BY <1>7, Zenon DEF IInv, TypeOK, LockHeld, InRefresh, Actors, SaveIdentityMeta, Goto, StoreMeta
  <2>3. ReplyCarried'
    BY <1>7, Zenon DEF IInv, TypeOK, ReplyCarried, Actors, SaveIdentityMeta, Goto, StoreMeta
  <2>4. SessionHolds'
    BY <1>7, ActorsAssumption, Zenon DEF IInv, TypeOK, SessionHolds, HoldsIdentity, RefreshLabels, Actors,
       SaveIdentityMeta, Goto, StoreMeta
  <2>5. SecretsFirst'
    BY <1>7, Zenon DEF IInv, TypeOK, SecretsFirst, Actors, SaveIdentityMeta, Goto, StoreMeta
  <2>6. UnreadableOnlyAfterDelete'
    BY <1>7, Zenon DEF IInv, TypeOK, UnreadableOnlyAfterDelete, Unreadable, SecretsFirst, Actors,
       SaveIdentityMeta, Goto, StoreMeta
  <2> QED BY <2>1, <2>2, <2>3, <2>4, <2>5, <2>6, Zenon DEF IInv
<1>8. CASE SaveFails
  <2>1. TypeOK'
    <3>1. pc' \in [Actors -> Labels]
      BY <1>8, Zenon DEF IInv, TypeOK, SaveFails, Fails, Goto, Labels, RefreshLabels
    <3>2. enrollment' \in {"starting", "awaitingAuthentication", "enrolled", "failed"}
      BY <1>8, Zenon DEF IInv, TypeOK, SaveFails, Fails
    <3>3. connected' \in BOOLEAN
      BY <1>8, Zenon DEF IInv, TypeOK, SaveFails, Fails
    <3> QED BY <1>8, <3>1, <3>2, <3>3, Zenon DEF IInv, TypeOK, SaveFails
  <2>2. LockHeld'
    BY <1>8, Zenon DEF IInv, TypeOK, LockHeld, InRefresh, Actors, SaveFails, Goto, Fails
  <2>3. ReplyCarried'
    BY <1>8, Zenon DEF IInv, TypeOK, ReplyCarried, Actors, SaveFails, Goto, Fails
  <2>4. SessionHolds'
    BY <1>8, ActorsAssumption, Zenon DEF IInv, TypeOK, SessionHolds, HoldsIdentity, RefreshLabels, Actors,
       SaveFails, Goto, Fails
  <2>5. SecretsFirst'
    BY <1>8, Zenon DEF IInv, TypeOK, SecretsFirst, Actors, SaveFails, Goto, Fails
  <2>6. UnreadableOnlyAfterDelete'
    BY <1>8, Zenon DEF IInv, TypeOK, UnreadableOnlyAfterDelete, Unreadable, SaveFails, Goto, Fails
  <2> QED BY <2>1, <2>2, <2>3, <2>4, <2>5, <2>6, Zenon DEF IInv
<1>9. CASE RetryElapses
  <2>1. TypeOK'
    <3>1. pc' \in [Actors -> Labels]
      BY <1>9, Zenon DEF IInv, TypeOK, RetryElapses, Goto, Labels, RefreshLabels
    <3> QED BY <1>9, <3>1, Zenon DEF IInv, TypeOK, RetryElapses
  <2>2. LockHeld'
    BY <1>9, Zenon DEF IInv, TypeOK, LockHeld, InRefresh, Actors, RetryElapses, Goto
  <2>3. ReplyCarried'
    BY <1>9, Zenon DEF IInv, TypeOK, ReplyCarried, Actors, RetryElapses, Goto
  <2>4. SessionHolds'
    BY <1>9, ActorsAssumption, Zenon DEF IInv, TypeOK, SessionHolds, HoldsIdentity, RefreshLabels, Actors,
       RetryElapses, Goto
  <2>5. SecretsFirst'
    BY <1>9, Zenon DEF IInv, TypeOK, SecretsFirst, Actors, RetryElapses, Goto
  <2>6. UnreadableOnlyAfterDelete'
    BY <1>9, Zenon DEF IInv, TypeOK, UnreadableOnlyAfterDelete, Unreadable, RetryElapses, Goto
  <2> QED BY <2>1, <2>2, <2>3, <2>4, <2>5, <2>6, Zenon DEF IInv
<1>10. CASE DeleteSecrets
  <2>1. TypeOK'
    <3>1. secrets' \in [Devices -> 0 .. MaxTokens] /\ deleting' \subseteq Devices
      BY <1>10, DeleteSecretsEffect, Zenon DEF IInv
    <3>2. pc' \in [Actors -> Labels]
      BY <1>10, Zenon DEF IInv, TypeOK, DeleteSecrets, Goto, Labels, RefreshLabels
    <3> QED BY <1>10, <3>1, <3>2, Zenon DEF IInv, TypeOK, DeleteSecrets
  <2>2. LockHeld'
    BY <1>10, Zenon DEF IInv, TypeOK, LockHeld, InRefresh, Actors, DeleteSecrets, Goto
  <2>3. ReplyCarried'
    BY <1>10, Zenon DEF IInv, TypeOK, ReplyCarried, Actors, DeleteSecrets, Goto
  <2>4. SessionHolds'
    BY <1>10, ActorsAssumption, Zenon DEF IInv, TypeOK, SessionHolds, HoldsIdentity, RefreshLabels, Actors,
       DeleteSecrets, Goto
  <2>5. SecretsFirst'
    <3>1. /\ \A d \in Devices : secrets'[d] = secrets[d] \/ d \in deleting'
          /\ deleting \subseteq deleting'
      BY <1>10, DeleteSecretsEffect, Zenon DEF IInv
    <3>2. \A a \in Actors : pc'[a] = pc[a] \/ pc'[a] = "deleteMeta"
      BY <1>10, Zenon DEF IInv, TypeOK, DeleteSecrets, Goto
    <3>3. mem' = mem /\ cleared' = cleared
      BY <1>10, Zenon DEF DeleteSecrets
    <3>4. \A a \in Actors : mem[a].dev # 0 => mem[a].dev \in Devices
      BY HeldDevice, Zenon DEF IInv
    <3>5. SecretsFirst
      BY Zenon DEF IInv
    <3> QED BY <3>1, <3>2, <3>3, <3>4, <3>5, Zenon DEF SecretsFirst
  <2>6. UnreadableOnlyAfterDelete'
    <3>1. /\ \A d \in Devices : secrets'[d] = secrets[d] \/ d \in deleting'
          /\ deleting \subseteq deleting'
      BY <1>10, DeleteSecretsEffect, Zenon DEF IInv
    <3>2. meta' = meta /\ cleared' = cleared
      BY <1>10, Zenon DEF DeleteSecrets
    <3>3. meta # 0 => meta \in Devices
      BY BoundsAssumption DEF IInv, TypeOK, Devices
    <3>4. UnreadableOnlyAfterDelete
      BY Zenon DEF IInv
    <3> QED BY <3>1, <3>2, <3>3, <3>4, Zenon DEF UnreadableOnlyAfterDelete, Unreadable
  <2> QED BY <2>1, <2>2, <2>3, <2>4, <2>5, <2>6, Zenon DEF IInv
<1>11. CASE DeleteMeta
  <2>1. TypeOK'
    <3>1. meta' \in 0 .. MaxDevices
      BY <1>11, ZeroInRange, Zenon DEF IInv, TypeOK, DeleteMeta, Actors
    <3>2. pc' \in [Actors -> Labels]
      BY <1>11, Zenon DEF IInv, TypeOK, DeleteMeta, Goto, AfterDelete, Labels, RefreshLabels
    <3>3. cause' \in Causes
      BY <1>11, Zenon DEF IInv, TypeOK, DeleteMeta, Causes
    <3>4. logout' \in BOOLEAN
      BY <1>11, Zenon DEF IInv, TypeOK, DeleteMeta
    <3>5. current' \in BOOLEAN
      BY <1>11, Zenon DEF IInv, TypeOK, DeleteMeta
    <3>6. enrollment' \in {"starting", "awaitingAuthentication", "enrolled", "failed"}
      BY <1>11, Zenon DEF IInv, TypeOK, DeleteMeta
    <3>7. connected' \in BOOLEAN
      BY <1>11, Zenon DEF IInv, TypeOK, DeleteMeta
    <3> QED BY <1>11, <3>1, <3>2, <3>3, <3>4, <3>5, <3>6, <3>7, Zenon DEF IInv, TypeOK, DeleteMeta
  <2>2. LockHeld'
    BY <1>11, Zenon DEF IInv, TypeOK, LockHeld, InRefresh, Actors, DeleteMeta, Goto, IsLogout, AfterDelete
  <2>3. ReplyCarried'
    BY <1>11, Zenon DEF IInv, TypeOK, ReplyCarried, Actors, DeleteMeta, Goto, IsLogout, AfterDelete
  <2>4. SessionHolds'
    BY <1>11, ActorsAssumption, Zenon DEF IInv, TypeOK, SessionHolds, HoldsIdentity, RefreshLabels, Actors,
       DeleteMeta, Goto, IsLogout, AfterDelete
  <2>5. SecretsFirst'
    BY <1>11, Zenon DEF IInv, TypeOK, SecretsFirst, Actors, DeleteMeta, Goto, IsLogout, AfterDelete
  <2>6. UnreadableOnlyAfterDelete'
    BY <1>11, Zenon DEF IInv, TypeOK, UnreadableOnlyAfterDelete, Unreadable, DeleteMeta, Goto, IsLogout,
       AfterDelete
  <2> QED BY <2>1, <2>2, <2>3, <2>4, <2>5, <2>6, Zenon DEF IInv
<1>12. CASE DeleteMetaFails
  <2>1. TypeOK'
    <3>1. pc' \in [Actors -> Labels]
      BY <1>12, Zenon DEF IInv, TypeOK, DeleteMetaFails, Goto, Fails, Labels, RefreshLabels
    <3>2. cause' \in Causes
      BY <1>12, Zenon DEF IInv, TypeOK, DeleteMetaFails, Causes
    <3>3. logout' \in BOOLEAN
      BY <1>12, Zenon DEF IInv, TypeOK, DeleteMetaFails
    <3>4. enrollment' \in {"starting", "awaitingAuthentication", "enrolled", "failed"}
      BY <1>12, Zenon DEF IInv, TypeOK, DeleteMetaFails, Fails
    <3>5. connected' \in BOOLEAN
      BY <1>12, Zenon DEF IInv, TypeOK, DeleteMetaFails, Fails
    <3> QED BY <1>12, <3>1, <3>2, <3>3, <3>4, <3>5, Zenon DEF IInv, TypeOK, DeleteMetaFails
  <2>2. LockHeld'
    BY <1>12, Zenon DEF IInv, TypeOK, LockHeld, InRefresh, Actors, DeleteMetaFails, Goto, IsLogout, Fails
  <2>3. ReplyCarried'
    BY <1>12, Zenon DEF IInv, TypeOK, ReplyCarried, Actors, DeleteMetaFails, Goto, IsLogout, Fails
  <2>4. SessionHolds'
    BY <1>12, ActorsAssumption DEF IInv, TypeOK, SessionHolds, HoldsIdentity, RefreshLabels, Actors,
       DeleteMetaFails, Goto, IsLogout, Fails
  <2>5. SecretsFirst'
    BY <1>12, Zenon DEF IInv, TypeOK, SecretsFirst, Actors, DeleteMetaFails, Goto, IsLogout, Fails
  <2>6. UnreadableOnlyAfterDelete'
    BY <1>12, Zenon DEF IInv, TypeOK, UnreadableOnlyAfterDelete, Unreadable, DeleteMetaFails, Goto,
       IsLogout, Fails
  <2> QED BY <2>1, <2>2, <2>3, <2>4, <2>5, <2>6, Zenon DEF IInv
<1> QED BY <1>1, <1>2, <1>3, <1>4, <1>5, <1>6, <1>7, <1>8, <1>9, <1>10, <1>11, <1>12, Zenon DEF SessionStep

(* The places where a logout is taken keep the invariant; the future it    *)
(* drops releases the refresh mutex.                                       *)
LEMMA LogoutKeeps ==
  ASSUME IInv, LogoutTaken
  PROVE  IInv'
<1>1. CASE TakeLogout
  <2>1. TypeOK'
    <3>1. pc' \in [Actors -> Labels]
      BY <1>1, Zenon DEF IInv, TypeOK, TakeLogout, Goto, Labels, RefreshLabels
    <3>2. reply' \in [Actors -> 0 .. MaxTokens]
      BY <1>1, ZeroInRange, Zenon DEF IInv, TypeOK, TakeLogout
    <3>3. lock' \subseteq Actors
      BY <1>1, Zenon DEF IInv, TypeOK, TakeLogout
    <3>4. cause' \in Causes
      BY <1>1, Zenon DEF IInv, TypeOK, TakeLogout, Causes
    <3>5. lost' \in BOOLEAN
      BY <1>1, Zenon DEF IInv, TypeOK, TakeLogout
    <3> QED BY <1>1, <3>1, <3>2, <3>3, <3>4, <3>5, Zenon DEF IInv, TypeOK, TakeLogout
  <2>2. LockHeld'
    BY <1>1, Zenon DEF IInv, TypeOK, LockHeld, InRefresh, TakeLogout, Goto, LogoutSelectable
  <2>3. ReplyCarried'
    BY <1>1, Zenon DEF IInv, TypeOK, ReplyCarried, TakeLogout, Goto, LogoutSelectable
  <2>4. SessionHolds'
    BY <1>1, ActorsAssumption, Zenon DEF IInv, TypeOK, SessionHolds, HoldsIdentity, RefreshLabels,
       Actors,
       TakeLogout, Goto, LogoutSelectable
  <2>5. SecretsFirst'
    BY <1>1, Zenon DEF IInv, TypeOK, SecretsFirst, TakeLogout, Goto, LogoutSelectable
  <2>6. UnreadableOnlyAfterDelete'
    BY <1>1, Zenon DEF IInv, TypeOK, UnreadableOnlyAfterDelete, Unreadable, TakeLogout, Goto,
       LogoutSelectable
  <2> QED BY <2>1, <2>2, <2>3, <2>4, <2>5, <2>6, Zenon DEF IInv
<1>2. CASE TakeUnenrolledLogout
  <2>1. TypeOK'
    <3>1. logout' \in BOOLEAN
      BY <1>2, Zenon DEF IInv, TypeOK, TakeUnenrolledLogout
    <3>2. enrollment' \in {"starting", "awaitingAuthentication", "enrolled", "failed"}
      BY <1>2, Zenon DEF IInv, TypeOK, TakeUnenrolledLogout
    <3> QED BY <1>2, <3>1, <3>2, Zenon DEF IInv, TypeOK, TakeUnenrolledLogout
  <2>2. LockHeld'
    BY <1>2, Zenon DEF IInv, TypeOK, LockHeld, InRefresh, TakeUnenrolledLogout, Goto
  <2>3. ReplyCarried'
    BY <1>2, Zenon DEF IInv, TypeOK, ReplyCarried, TakeUnenrolledLogout, Goto
  <2>4. SessionHolds'
    BY <1>2, ActorsAssumption, Zenon DEF IInv, TypeOK, SessionHolds, HoldsIdentity, RefreshLabels,
       Actors,
       TakeUnenrolledLogout, Goto
  <2>5. SecretsFirst'
    BY <1>2, Zenon DEF IInv, TypeOK, SecretsFirst, TakeUnenrolledLogout, Goto
  <2>6. UnreadableOnlyAfterDelete'
    BY <1>2, Zenon DEF IInv, TypeOK, UnreadableOnlyAfterDelete, Unreadable, TakeUnenrolledLogout, Goto
  <2> QED BY <2>1, <2>2, <2>3, <2>4, <2>5, <2>6, Zenon DEF IInv
<1>3. CASE TakeSupervisorLogout
  <2>1. TypeOK'
    <3>1. pc' \in [Actors -> Labels]
      BY <1>3, Zenon DEF IInv, TypeOK, TakeSupervisorLogout, Goto, Labels, RefreshLabels
    <3>2. mem' \in [Actors -> Identities]
      BY <1>3, StoredType, Zenon DEF IInv, TypeOK, TakeSupervisorLogout
    <3>3. cause' \in Causes
      BY <1>3, Zenon DEF IInv, TypeOK, TakeSupervisorLogout, Causes
    <3>4. logout' \in BOOLEAN
      BY <1>3, Zenon DEF IInv, TypeOK, TakeSupervisorLogout
    <3>5. enrollment' \in {"starting", "awaitingAuthentication", "enrolled", "failed"}
      BY <1>3, Zenon DEF IInv, TypeOK, TakeSupervisorLogout
    <3>6. connected' \in BOOLEAN
      BY <1>3, Zenon DEF IInv, TypeOK, TakeSupervisorLogout
    <3> QED BY <1>3, <3>1, <3>2, <3>3, <3>4, <3>5, <3>6, Zenon DEF IInv, TypeOK,
               TakeSupervisorLogout
  <2>2. LockHeld'
    BY <1>3, Zenon DEF IInv, TypeOK, LockHeld, InRefresh, TakeSupervisorLogout, Goto, Readable,
       Unreadable,
       Stored
  <2>3. ReplyCarried'
    BY <1>3, Zenon DEF IInv, TypeOK, ReplyCarried, TakeSupervisorLogout, Goto, Readable, Unreadable,
       Stored
  <2>4. SessionHolds'
    BY <1>3, ActorsAssumption, Zenon DEF IInv, TypeOK, SessionHolds, HoldsIdentity, RefreshLabels,
       Actors,
       TakeSupervisorLogout, Goto, Readable, Unreadable, Stored
  <2>5. SecretsFirst'
    BY <1>3, Zenon DEF IInv, TypeOK, SecretsFirst, TakeSupervisorLogout, Goto, Readable, Unreadable,
       Stored
  <2>6. UnreadableOnlyAfterDelete'
    BY <1>3, Zenon DEF IInv, TypeOK, UnreadableOnlyAfterDelete, Unreadable, TakeSupervisorLogout,
       Goto,
       Readable, Stored
  <2> QED BY <2>1, <2>2, <2>3, <2>4, <2>5, <2>6, Zenon DEF IInv
<1> QED BY <1>1, <1>2, <1>3, Zenon DEF LogoutTaken

(* The outcomes of enrollment and of the stream, logout requests, token    *)
(* expiry and revocation, and restarts keep the invariant.                 *)
LEMMA EnvironmentKeeps ==
  ASSUME IInv, Environment
  PROVE  IInv'
<1>1. CASE EnrollPrompts
  <2>1. TypeOK'
    <3>1. enrollment' \in {"starting", "awaitingAuthentication", "enrolled", "failed"}
      BY <1>1, Zenon DEF IInv, TypeOK, EnrollPrompts
    <3> QED BY <1>1, <3>1, Zenon DEF IInv, TypeOK, EnrollPrompts
  <2>2. LockHeld'
    BY <1>1, Zenon DEF IInv, TypeOK, LockHeld, InRefresh, EnrollPrompts, Goto
  <2>3. ReplyCarried'
    BY <1>1, Zenon DEF IInv, TypeOK, ReplyCarried, EnrollPrompts, Goto
  <2>4. SessionHolds'
    BY <1>1, ActorsAssumption, Zenon DEF IInv, TypeOK, SessionHolds, HoldsIdentity, RefreshLabels,
       Actors,
       EnrollPrompts, Goto
  <2>5. SecretsFirst'
    BY <1>1, Zenon DEF IInv, TypeOK, SecretsFirst, EnrollPrompts, Goto
  <2>6. UnreadableOnlyAfterDelete'
    BY <1>1, Zenon DEF IInv, TypeOK, UnreadableOnlyAfterDelete, Unreadable, EnrollPrompts, Goto
  <2> QED BY <2>1, <2>2, <2>3, <2>4, <2>5, <2>6, Zenon DEF IInv
<1>2. CASE EnrollSucceeds
  <2>1. TypeOK'
    <3>1. tokens + 1 \in Tokens /\ tokens + 1 \in 0 .. MaxTokens
      <4>1. tokens \in 0 .. MaxTokens /\ tokens < MaxTokens
        BY <1>2, Zenon DEF IInv, TypeOK, EnrollSucceeds
      <4> QED BY <4>1, BoundsAssumption DEF Tokens
    <3>2. pc' \in [Actors -> Labels]
      BY <1>2, Zenon DEF IInv, TypeOK, EnrollSucceeds, Goto, Labels, RefreshLabels
    <3>3. devices + 1 \in 0 .. MaxDevices
      <4>1. devices \in 0 .. MaxDevices /\ devices < MaxDevices
        BY <1>2, Zenon DEF IInv, TypeOK, EnrollSucceeds
      <4> QED BY <4>1, BoundsAssumption
    <3>4. mem' \in [Actors -> Identities]
      BY <1>2, <3>1, <3>3, Zenon DEF IInv, TypeOK, EnrollSucceeds, Identities
    <3>5. fresh' \subseteq Tokens
      BY <1>2, <3>1, Zenon DEF IInv, TypeOK, EnrollSucceeds
    <3>6. live' \subseteq Tokens
      BY <1>2, <3>1, Zenon DEF IInv, TypeOK, EnrollSucceeds
    <3>7. devices' \in 0 .. MaxDevices
      BY <1>2, <3>3, Zenon DEF EnrollSucceeds
    <3>8. tokens' \in 0 .. MaxTokens
      BY <1>2, <3>1, Zenon DEF IInv, TypeOK, EnrollSucceeds
    <3> QED BY <1>2, <3>1, <3>2, <3>3, <3>4, <3>5, <3>6, <3>7, <3>8, Zenon DEF IInv, TypeOK,
               EnrollSucceeds
  <2>2. LockHeld'
    BY <1>2, Zenon DEF IInv, TypeOK, LockHeld, InRefresh, EnrollSucceeds, Goto
  <2>3. ReplyCarried'
    BY <1>2, Zenon DEF IInv, TypeOK, ReplyCarried, EnrollSucceeds, Goto
  <2>4. SessionHolds'
    <3>1. mem'[Session].tok = tokens + 1
      BY <1>2, Zenon DEF IInv, TypeOK, Actors, EnrollSucceeds
    <3>2. tokens + 1 # 0
      BY BoundsAssumption DEF IInv, TypeOK
    <3> QED BY <3>1, <3>2, Zenon DEF SessionHolds
  <2>5. SecretsFirst'
    BY <1>2, Zenon DEF IInv, TypeOK, SecretsFirst, EnrollSucceeds, Goto
  <2>6. UnreadableOnlyAfterDelete'
    BY <1>2, Zenon DEF IInv, TypeOK, UnreadableOnlyAfterDelete, Unreadable, EnrollSucceeds, Goto
  <2> QED BY <2>1, <2>2, <2>3, <2>4, <2>5, <2>6, Zenon DEF IInv
<1>3. CASE EnrollFails
  <2>1. TypeOK'
    <3>1. enrollment' \in {"starting", "awaitingAuthentication", "enrolled", "failed"}
      BY <1>3, Zenon DEF IInv, TypeOK, EnrollFails
    <3> QED BY <1>3, <3>1, Zenon DEF IInv, TypeOK, EnrollFails
  <2>2. LockHeld'
    BY <1>3, Zenon DEF IInv, TypeOK, LockHeld, InRefresh, EnrollFails, Goto
  <2>3. ReplyCarried'
    BY <1>3, Zenon DEF IInv, TypeOK, ReplyCarried, EnrollFails, Goto
  <2>4. SessionHolds'
    BY <1>3, ActorsAssumption, Zenon DEF IInv, TypeOK, SessionHolds, HoldsIdentity, RefreshLabels,
       Actors,
       EnrollFails, Goto
  <2>5. SecretsFirst'
    BY <1>3, Zenon DEF IInv, TypeOK, SecretsFirst, EnrollFails, Goto
  <2>6. UnreadableOnlyAfterDelete'
    BY <1>3, Zenon DEF IInv, TypeOK, UnreadableOnlyAfterDelete, Unreadable, EnrollFails, Goto
  <2> QED BY <2>1, <2>2, <2>3, <2>4, <2>5, <2>6, Zenon DEF IInv
<1>4. CASE StreamOpens
  <2>1. TypeOK'
    <3>1. pc' \in [Actors -> Labels]
      BY <1>4, Zenon DEF IInv, TypeOK, StreamOpens, Goto, Labels, RefreshLabels
    <3>2. connected' \in BOOLEAN
      BY <1>4, Zenon DEF IInv, TypeOK, StreamOpens
    <3> QED BY <1>4, <3>1, <3>2, Zenon DEF IInv, TypeOK, StreamOpens
  <2>2. LockHeld'
    BY <1>4, Zenon DEF IInv, TypeOK, LockHeld, InRefresh, StreamOpens, Goto
  <2>3. ReplyCarried'
    BY <1>4, Zenon DEF IInv, TypeOK, ReplyCarried, StreamOpens, Goto
  <2>4. SessionHolds'
    BY <1>4, ActorsAssumption, Zenon DEF IInv, TypeOK, SessionHolds, HoldsIdentity, RefreshLabels, Actors,
       StreamOpens, Goto
  <2>5. SecretsFirst'
    BY <1>4, Zenon DEF IInv, TypeOK, SecretsFirst, StreamOpens, Goto
  <2>6. UnreadableOnlyAfterDelete'
    BY <1>4, Zenon DEF IInv, TypeOK, UnreadableOnlyAfterDelete, Unreadable, StreamOpens, Goto
  <2> QED BY <2>1, <2>2, <2>3, <2>4, <2>5, <2>6, Zenon DEF IInv
<1>5. CASE ConfigPushed
  <2>1. TypeOK'
    <3>1. current' \in BOOLEAN
      BY <1>5, Zenon DEF IInv, TypeOK, ConfigPushed
    <3>2. saved' \in BOOLEAN
      BY <1>5, Zenon DEF IInv, TypeOK, ConfigPushed
    <3> QED BY <1>5, <3>1, <3>2, Zenon DEF IInv, TypeOK, ConfigPushed
  <2>2. LockHeld'
    BY <1>5, Zenon DEF IInv, TypeOK, LockHeld, InRefresh, ConfigPushed, Goto
  <2>3. ReplyCarried'
    BY <1>5, Zenon DEF IInv, TypeOK, ReplyCarried, ConfigPushed, Goto
  <2>4. SessionHolds'
    BY <1>5, ActorsAssumption, Zenon DEF IInv, TypeOK, SessionHolds, HoldsIdentity, RefreshLabels,
       Actors,
       ConfigPushed, Goto
  <2>5. SecretsFirst'
    BY <1>5, Zenon DEF IInv, TypeOK, SecretsFirst, ConfigPushed, Goto
  <2>6. UnreadableOnlyAfterDelete'
    BY <1>5, Zenon DEF IInv, TypeOK, UnreadableOnlyAfterDelete, Unreadable, ConfigPushed, Goto
  <2> QED BY <2>1, <2>2, <2>3, <2>4, <2>5, <2>6, Zenon DEF IInv
<1>6. CASE StreamEnds
  <2>1. TypeOK'
    <3>1. pc' \in [Actors -> Labels]
      BY <1>6, Zenon DEF IInv, TypeOK, StreamEnds, Goto, Labels, RefreshLabels
    <3>2. connected' \in BOOLEAN
      BY <1>6, Zenon DEF IInv, TypeOK, StreamEnds
    <3> QED BY <1>6, <3>1, <3>2, Zenon DEF IInv, TypeOK, StreamEnds
  <2>2. LockHeld'
    BY <1>6, Zenon DEF IInv, TypeOK, LockHeld, InRefresh, StreamEnds, Goto
  <2>3. ReplyCarried'
    BY <1>6, Zenon DEF IInv, TypeOK, ReplyCarried, StreamEnds, Goto
  <2>4. SessionHolds'
    BY <1>6, ActorsAssumption, Zenon DEF IInv, TypeOK, SessionHolds, HoldsIdentity, RefreshLabels, Actors,
       StreamEnds, Goto
  <2>5. SecretsFirst'
    BY <1>6, Zenon DEF IInv, TypeOK, SecretsFirst, StreamEnds, Goto
  <2>6. UnreadableOnlyAfterDelete'
    BY <1>6, Zenon DEF IInv, TypeOK, UnreadableOnlyAfterDelete, Unreadable, StreamEnds, Goto
  <2> QED BY <2>1, <2>2, <2>3, <2>4, <2>5, <2>6, Zenon DEF IInv
<1>7. CASE ControllerRejects
  <2>1. TypeOK'
    <3>1. pc' \in [Actors -> Labels]
      BY <1>7, Zenon DEF IInv, TypeOK, ControllerRejects, Goto, Labels, RefreshLabels
    <3>2. cause' \in Causes
      BY <1>7, Zenon DEF IInv, TypeOK, ControllerRejects, Causes
    <3> QED BY <1>7, <3>1, <3>2, Zenon DEF IInv, TypeOK, ControllerRejects
  <2>2. LockHeld'
    BY <1>7, Zenon DEF IInv, TypeOK, LockHeld, InRefresh, ControllerRejects, Goto
  <2>3. ReplyCarried'
    BY <1>7, Zenon DEF IInv, TypeOK, ReplyCarried, ControllerRejects, Goto
  <2>4. SessionHolds'
    BY <1>7, ActorsAssumption, Zenon DEF IInv, TypeOK, SessionHolds, HoldsIdentity, RefreshLabels, Actors,
       ControllerRejects, Goto
  <2>5. SecretsFirst'
    BY <1>7, Zenon DEF IInv, TypeOK, SecretsFirst, ControllerRejects, Goto
  <2>6. UnreadableOnlyAfterDelete'
    BY <1>7, Zenon DEF IInv, TypeOK, UnreadableOnlyAfterDelete, Unreadable, ControllerRejects, Goto
  <2> QED BY <2>1, <2>2, <2>3, <2>4, <2>5, <2>6, Zenon DEF IInv
<1>8. CASE RequestLogout
  <2>1. TypeOK'
    <3>1. logout' \in BOOLEAN
      BY <1>8, Zenon DEF IInv, TypeOK, RequestLogout
    <3>2. logouts' \in 0 .. MaxLogouts
      BY <1>8, BoundsAssumption DEF IInv, TypeOK, RequestLogout
    <3> QED BY <1>8, <3>1, <3>2, Zenon DEF IInv, TypeOK, RequestLogout
  <2>2. LockHeld'
    BY <1>8, Zenon DEF IInv, TypeOK, LockHeld, InRefresh, RequestLogout, Goto
  <2>3. ReplyCarried'
    BY <1>8, Zenon DEF IInv, TypeOK, ReplyCarried, RequestLogout, Goto
  <2>4. SessionHolds'
    BY <1>8, ActorsAssumption, Zenon DEF IInv, TypeOK, SessionHolds, HoldsIdentity, RefreshLabels, Actors,
       RequestLogout, Goto
  <2>5. SecretsFirst'
    BY <1>8, Zenon DEF IInv, TypeOK, SecretsFirst, RequestLogout, Goto
  <2>6. UnreadableOnlyAfterDelete'
    BY <1>8, Zenon DEF IInv, TypeOK, UnreadableOnlyAfterDelete, Unreadable, RequestLogout, Goto
  <2> QED BY <2>1, <2>2, <2>3, <2>4, <2>5, <2>6, Zenon DEF IInv
<1>9. CASE TokenAges
  <2>1. TypeOK'
    <3>1. fresh' \subseteq Tokens
      BY <1>9, Zenon DEF IInv, TypeOK, TokenAges
    <3> QED BY <1>9, <3>1, Zenon DEF IInv, TypeOK, TokenAges
  <2>2. LockHeld'
    BY <1>9, Zenon DEF IInv, TypeOK, LockHeld, InRefresh, TokenAges, Goto
  <2>3. ReplyCarried'
    BY <1>9, Zenon DEF IInv, TypeOK, ReplyCarried, TokenAges, Goto
  <2>4. SessionHolds'
    BY <1>9, ActorsAssumption, Zenon DEF IInv, TypeOK, SessionHolds, HoldsIdentity, RefreshLabels, Actors,
       TokenAges, Goto
  <2>5. SecretsFirst'
    BY <1>9, Zenon DEF IInv, TypeOK, SecretsFirst, TokenAges, Goto
  <2>6. UnreadableOnlyAfterDelete'
    BY <1>9, Zenon DEF IInv, TypeOK, UnreadableOnlyAfterDelete, Unreadable, TokenAges, Goto
  <2> QED BY <2>1, <2>2, <2>3, <2>4, <2>5, <2>6, Zenon DEF IInv
<1>10. CASE TokenRevoked
  <2>1. TypeOK'
    <3>1. live' \subseteq Tokens
      BY <1>10, Zenon DEF IInv, TypeOK, TokenRevoked
    <3> QED BY <1>10, <3>1, Zenon DEF IInv, TypeOK, TokenRevoked
  <2>2. LockHeld'
    BY <1>10, Zenon DEF IInv, TypeOK, LockHeld, InRefresh, TokenRevoked, Goto
  <2>3. ReplyCarried'
    BY <1>10, Zenon DEF IInv, TypeOK, ReplyCarried, TokenRevoked, Goto
  <2>4. SessionHolds'
    BY <1>10, ActorsAssumption, Zenon DEF IInv, TypeOK, SessionHolds, HoldsIdentity, RefreshLabels, Actors,
       TokenRevoked, Goto
  <2>5. SecretsFirst'
    BY <1>10, Zenon DEF IInv, TypeOK, SecretsFirst, TokenRevoked, Goto
  <2>6. UnreadableOnlyAfterDelete'
    BY <1>10, Zenon DEF IInv, TypeOK, UnreadableOnlyAfterDelete, Unreadable, TokenRevoked, Goto
  <2> QED BY <2>1, <2>2, <2>3, <2>4, <2>5, <2>6, Zenon DEF IInv
<1>11. CASE Restart
  <2>1. TypeOK'
    <3>1. pc' \in [Actors -> Labels]
      BY <1>11, Zenon DEF IInv, TypeOK, Restart, Labels, RefreshLabels
    <3>2. mem' \in [Actors -> Identities]
      BY <1>11, ZeroInRange, Zenon DEF IInv, TypeOK, Restart, NoIdentity, Identities
    <3>3. reply' \in [Actors -> 0 .. MaxTokens]
      BY <1>11, ZeroInRange, Zenon DEF IInv, TypeOK, Restart
    <3>4. lock' \subseteq Actors
      BY <1>11, Zenon DEF IInv, TypeOK, Restart
    <3>5. cause' \in Causes
      BY <1>11, Zenon DEF IInv, TypeOK, Restart, Causes
    <3>6. logout' \in BOOLEAN
      BY <1>11, Zenon DEF IInv, TypeOK, Restart
    <3>7. current' \in BOOLEAN
      BY <1>11, Zenon DEF IInv, TypeOK, Restart
    <3>8. enrollment' \in {"starting", "awaitingAuthentication", "enrolled", "failed"}
      BY <1>11, Zenon DEF IInv, TypeOK, Restart
    <3>9. connected' \in BOOLEAN
      BY <1>11, Zenon DEF IInv, TypeOK, Restart
    <3>10. crashes' \in 0 .. MaxCrashes
      BY <1>11, BoundsAssumption DEF IInv, TypeOK, Restart
    <3>11. lost' \in BOOLEAN
      BY <1>11, Zenon DEF IInv, TypeOK, Restart
    <3> QED BY <1>11, <3>1, <3>2, <3>3, <3>4, <3>5, <3>6, <3>7, <3>8, <3>9, <3>10, <3>11, Zenon DEF
               IInv,
               TypeOK, Restart
  <2>2. LockHeld'
    BY <1>11, Zenon DEF IInv, TypeOK, LockHeld, InRefresh, NoIdentity, Actors, Restart, Goto
  <2>3. ReplyCarried'
    BY <1>11, Zenon DEF IInv, TypeOK, ReplyCarried, NoIdentity, Actors, Restart, Goto
  <2>4. SessionHolds'
    BY <1>11, ActorsAssumption, Zenon DEF IInv, TypeOK, SessionHolds, HoldsIdentity, RefreshLabels,
       Actors,
       NoIdentity, Restart, Goto
  <2>5. SecretsFirst'
    BY <1>11, Zenon DEF IInv, TypeOK, SecretsFirst, NoIdentity, Actors, Restart, Goto
  <2>6. UnreadableOnlyAfterDelete'
    BY <1>11, Zenon DEF IInv, TypeOK, UnreadableOnlyAfterDelete, Unreadable, NoIdentity, Actors,
       Restart,
       Goto
  <2> QED BY <2>1, <2>2, <2>3, <2>4, <2>5, <2>6, Zenon DEF IInv
<1>12. CASE RenewCertificate
  <2>1. TypeOK'
    <3>1. pc' \in [Actors -> Labels]
      BY <1>12, Zenon DEF IInv, TypeOK, RenewCertificate, Goto, Labels, RefreshLabels
    <3> QED BY <1>12, <3>1, Zenon DEF IInv, TypeOK, RenewCertificate
  <2>2. LockHeld'
    BY <1>12, Zenon DEF IInv, TypeOK, LockHeld, InRefresh, Actors, RenewCertificate, Goto
  <2>3. ReplyCarried'
    BY <1>12, Zenon DEF IInv, TypeOK, ReplyCarried, Actors, RenewCertificate, Goto
  <2>4. SessionHolds'
    BY <1>12, ActorsAssumption, Zenon DEF IInv, TypeOK, SessionHolds, HoldsIdentity, RefreshLabels, Actors,
       RenewCertificate, Goto
  <2>5. SecretsFirst'
    BY <1>12, Zenon DEF IInv, TypeOK, SecretsFirst, Actors, RenewCertificate, Goto
  <2>6. UnreadableOnlyAfterDelete'
    BY <1>12, Zenon DEF IInv, TypeOK, UnreadableOnlyAfterDelete, Unreadable, RenewCertificate, Goto
  <2> QED BY <2>1, <2>2, <2>3, <2>4, <2>5, <2>6, Zenon DEF IInv
<1> QED BY <1>1, <1>2, <1>3, <1>4, <1>5, <1>6, <1>7, <1>8, <1>9, <1>10, <1>11, <1>12, Zenon
        DEF Environment

(* Starting, finishing and dropping a request keep the invariant.          *)
LEMMA RequestKeeps ==
  ASSUME IInv, NEW r \in Requests, StartRequest(r) \/ FinishRequest(r) \/ DropRequest(r)
  PROVE  IInv'
<1>1. CASE StartRequest(r)
  <2>1. TypeOK'
    <3>1. pc' \in [Actors -> Labels]
      BY <1>1, Zenon DEF IInv, TypeOK, StartRequest, Goto, Labels, RefreshLabels
    <3>2. mem' \in [Actors -> Identities]
      BY <1>1, StoredType, Zenon DEF IInv, TypeOK, StartRequest
    <3> QED BY <1>1, <3>1, <3>2, Zenon DEF IInv, TypeOK, StartRequest
  <2>2. LockHeld'
    BY <1>1, Zenon DEF IInv, TypeOK, LockHeld, InRefresh, StartRequest, Goto, Readable, Stored
  <2>3. ReplyCarried'
    BY <1>1, Zenon DEF IInv, TypeOK, ReplyCarried, StartRequest, Goto, Readable, Stored
  <2>4. SessionHolds'
    BY <1>1, ActorsAssumption, Zenon DEF IInv, TypeOK, SessionHolds, HoldsIdentity, RefreshLabels,
       Actors,
       StartRequest, Goto, Readable, Stored
  <2>5. SecretsFirst'
    BY <1>1, Zenon DEF IInv, TypeOK, SecretsFirst, StartRequest, Goto, Readable, Stored
  <2>6. UnreadableOnlyAfterDelete'
    BY <1>1, Zenon DEF IInv, TypeOK, UnreadableOnlyAfterDelete, Unreadable, StartRequest, Goto,
       Readable,
       Stored
  <2> QED BY <2>1, <2>2, <2>3, <2>4, <2>5, <2>6, Zenon DEF IInv
<1>2. CASE FinishRequest(r)
  <2>1. TypeOK'
    <3>1. pc' \in [Actors -> Labels]
      BY <1>2, Zenon DEF IInv, TypeOK, FinishRequest, Goto, Labels, RefreshLabels
    <3> QED BY <1>2, <3>1, Zenon DEF IInv, TypeOK, FinishRequest
  <2>2. LockHeld'
    BY <1>2, Zenon DEF IInv, TypeOK, LockHeld, InRefresh, FinishRequest, Goto
  <2>3. ReplyCarried'
    BY <1>2, Zenon DEF IInv, TypeOK, ReplyCarried, FinishRequest, Goto
  <2>4. SessionHolds'
    BY <1>2, ActorsAssumption, Zenon DEF IInv, TypeOK, SessionHolds, HoldsIdentity, RefreshLabels,
       Actors,
       FinishRequest, Goto
  <2>5. SecretsFirst'
    BY <1>2, Zenon DEF IInv, TypeOK, SecretsFirst, FinishRequest, Goto
  <2>6. UnreadableOnlyAfterDelete'
    BY <1>2, Zenon DEF IInv, TypeOK, UnreadableOnlyAfterDelete, Unreadable, FinishRequest, Goto
  <2> QED BY <2>1, <2>2, <2>3, <2>4, <2>5, <2>6, Zenon DEF IInv
<1>3. CASE DropRequest(r)
  <2>1. TypeOK'
    <3>1. pc' \in [Actors -> Labels]
      BY <1>3, Zenon DEF IInv, TypeOK, DropRequest, Goto, Labels, RefreshLabels
    <3>2. reply' \in [Actors -> 0 .. MaxTokens]
      BY <1>3, ZeroInRange, Zenon DEF IInv, TypeOK, DropRequest
    <3>3. lock' \subseteq Actors
      BY <1>3, Zenon DEF IInv, TypeOK, DropRequest
    <3> QED BY <1>3, <3>1, <3>2, <3>3, Zenon DEF IInv, TypeOK, DropRequest
  <2>2. LockHeld'
    BY <1>3, Zenon DEF IInv, TypeOK, LockHeld, InRefresh, DropRequest, Goto
  <2>3. ReplyCarried'
    BY <1>3, Zenon DEF IInv, TypeOK, ReplyCarried, DropRequest, Goto
  <2>4. SessionHolds'
    BY <1>3, ActorsAssumption, Zenon DEF IInv, TypeOK, SessionHolds, HoldsIdentity, RefreshLabels,
       Actors,
       DropRequest, Goto
  <2>5. SecretsFirst'
    BY <1>3, Zenon DEF IInv, TypeOK, SecretsFirst, DropRequest, Goto
  <2>6. UnreadableOnlyAfterDelete'
    BY <1>3, Zenon DEF IInv, TypeOK, UnreadableOnlyAfterDelete, Unreadable, DropRequest, Goto
  <2> QED BY <2>1, <2>2, <2>3, <2>4, <2>5, <2>6, Zenon DEF IInv
<1> QED BY <1>1, <1>2, <1>3, Zenon

(* A daemon that has never enrolled satisfies the invariant.               *)
LEMMA InitEstablishes == Init => IInv
<1> SUFFICES ASSUME Init PROVE IInv
  BY Zenon
<1>1. \A a \in Actors : pc[a] \in {"load", "idle"}
  BY Zenon DEF Init
<1>2. mem \in [Actors -> Identities]
  BY BoundsAssumption DEF Init, NoIdentity, Identities
<1>3. 0 \in 0 .. MaxDevices /\ 0 \in 0 .. MaxTokens /\ 0 \in 0 .. MaxLogouts /\ 0 \in 0 .. MaxCrashes
  BY BoundsAssumption
<1>4. secrets \in [Devices -> 0 .. MaxTokens] /\ reply \in [Actors -> 0 .. MaxTokens]
  BY <1>3, Zenon DEF Init
<1>5. Session \in Actors
  BY Zenon DEF Actors
<1>6. pc[Session] = "load" /\ pc \in [Actors -> Labels]
  BY <1>5, Zenon DEF Init, Labels
<1>7. TypeOK
  BY <1>2, <1>3, <1>4, <1>6, Zenon DEF Init, TypeOK, Causes
<1> QED
  BY <1>1, <1>6, <1>7, Zenon
     DEF Init, IInv, LockHeld, ReplyCarried, SessionHolds, HoldsIdentity, SecretsFirst,
         UnreadableOnlyAfterDelete, Unreadable, RefreshLabels, InRefresh

(* Every step of the daemon and of its environment keeps the invariant.    *)
LEMMA StepKeeps == IInv /\ [Next]_vars => IInv'
<1> SUFFICES ASSUME IInv, [Next]_vars PROVE IInv'
  BY Zenon
<1>1. CASE SessionStep \/ LogoutTaken \/ Environment
  BY <1>1, SessionKeeps, LogoutKeeps, EnvironmentKeeps, Zenon
<1>2. CASE Refresh(Session)
  BY <1>2, RefreshKeeps, Zenon DEF Actors
<1>3. ASSUME NEW r \in Requests, RequestStep(r) PROVE IInv'
  BY <1>3, RefreshKeeps, RequestKeeps, ClearKeeps, Zenon DEF RequestStep, Actors
<1>4. CASE UNCHANGED vars
  <2>1. TypeOK'
    BY <1>4, Zenon DEF vars, IInv, TypeOK
  <2>2. LockHeld' /\ ReplyCarried' /\ SessionHolds'
    BY <1>4, Zenon DEF vars, IInv, LockHeld, ReplyCarried, SessionHolds
  <2>3. SecretsFirst'
    BY <1>4, Zenon DEF vars, IInv, SecretsFirst
  <2>4. UnreadableOnlyAfterDelete'
    BY <1>4, Zenon DEF vars, IInv, UnreadableOnlyAfterDelete, Unreadable
  <2> QED BY <2>1, <2>2, <2>3, <2>4, Zenon DEF IInv
<1> QED BY <1>1, <1>2, <1>3, <1>4, Zenon DEF Next

(* The inductive invariant holds in every reachable state, for any number  *)
(* of concurrent requests and any schedule of faults and restarts.         *)
THEOREM Invariance == Spec => []IInv
<1>1. Init => IInv
  BY InitEstablishes, Zenon
<1>2. IInv /\ [Next]_vars => IInv'
  BY StepKeeps, Zenon
<1> QED BY <1>1, <1>2, PTL DEF Spec

(* The variables of the identity module stay within their types: tokens,   *)
(* devices and labels never leave the ranges remote.rs works with.         *)
THEOREM TypeCorrect == Spec => []TypeOK
<1>1. IInv => TypeOK
  BY Zenon DEF IInv
<1> QED BY <1>1, Invariance, PTL

(* Refreshes are serialized by OAUTH_REFRESH_MUTEX: at most one actor is   *)
(* between taking it and saving the answer of the identity provider,       *)
(* however many requests are served, dropped or abandoned by a logout.     *)
THEOREM RefreshesSerialized == Spec => []RefreshSerialized
<1>1. IInv => RefreshSerialized
  BY Zenon DEF IInv, LockHeld, RefreshSerialized
<1> QED BY <1>1, Invariance, PTL

(* identity::save never deletes a healthy identity: wherever the daemon is *)
(* stopped, an identity.json whose secrets are missing is the remains of a *)
(* deletion, or of a save that removed an item it could not read and has   *)
(* not written it since.                                                   *)
THEOREM UnreadableAfterDelete == Spec => []UnreadableOnlyAfterDelete
<1>1. IInv => UnreadableOnlyAfterDelete
  BY Zenon DEF IInv
<1> QED BY <1>1, Invariance, PTL
=============================================================================
