--------------------------- MODULE SignInsProofs ---------------------------
(***************************************************************************)
(* Proofs about SignIns for any number of requests, expiries and faults:   *)
(* one device grant at a time, no rotated refresh token lost without a     *)
(* fault, and no needless sign-in.                                         *)
(***************************************************************************)
EXTENDS SignIns, TLAPS

(* The locks a request holds: of the gateway, of GitHub, of its            *)
(* subscription, of the account's login and of the subscription pages.     *)
LocksHeld(t) ==
  /\ pc[t] \in {"gw_refresh", "gw_save", "gw_discover", "gw_bind", "gw_page", "gw_exchange", "gw_store",
                "st_refresh", "st_save"} => lock["gw"] = t
  /\ pc[t] \in {"gh_refresh", "gh_save", "gh_shown", "gh_code", "gh_bind", "gh_poll", "gh_store"}
       => lock["gh"] = t
  /\ pc[t] \in {"sub_refresh", "sub_save", "sub_ready", "sub_declined", "sub_viewed", "sub_listen",
                "sub_page", "sub_exchange", "sub_store"} => lock[kind[t]] = t
  /\ pc[t] \in {"again_lock", "grant"} => lock["start"] = t
  /\ pc[t] \in {"sub_page", "sub_viewed"} => lock["listener"] = t

(* Where a request of a kind may be.                                       *)
InPlace(t) ==
  /\ pc[t] \in {"sub_lock", "sub_refresh", "sub_save", "sub_ready", "sub_declined", "sub_viewed",
                "sub_listen", "sub_page", "sub_exchange", "sub_store"} => kind[t] \in Subs
  /\ pc[t] = "sub_refresh" => kind[t] = "openai"
  /\ kind[t] = "login" => pc[t] \in {"new", "ended", "st_lock", "st_refresh", "st_save", "start_lock",
                                     "again_lock", "grant"}

(* Who has received tokens has not saved them, and they are current.       *)
InHand(t) ==
  /\ pc[t] \in {"gw_save", "gw_store", "gh_save", "gh_store", "sub_save", "sub_store", "st_save"}
       => hand[t].st = "fresh"
  /\ hand[t].rt # "spent"

(* On the way to a sign-in the stored token is not usable.                 *)
Unusable(t) ==
  /\ pc[t] \in {"gw_refresh", "gw_discover", "gw_bind", "gw_page", "gw_exchange", "gw_store"}
       => store["gw"].st # "fresh"
  /\ pc[t] \in {"gh_refresh", "gh_code", "gh_bind", "gh_poll", "gh_store"} => store["gh"].st # "fresh"
  /\ pc[t] \in {"sub_refresh", "sub_listen", "sub_page", "sub_exchange", "sub_store"}
       => store[kind[t]].st # "fresh"
  /\ pc[t] \in {"sub_listen", "sub_page", "sub_exchange", "sub_store"} => kind[t] \notin declined

Unpublished(t) == pc[t] = "grant" => ~pending

Local(t) == LocksHeld(t) /\ InPlace(t) /\ InHand(t) /\ Unusable(t) /\ Unpublished(t)

(* A published login has the only poll.                                    *)
Published ==
  /\ ~(Live(1) /\ Live(2))
  /\ pending <=> Live(1) \/ Live(2)

(* The holder of the service's lock that is about to save its tokens.      *)
Saving(t, s) ==
  /\ lock[s] = t
  /\ \/ s = "gw" /\ pc[t] \in {"gw_save", "st_save"}
     \/ s = "gh" /\ pc[t] = "gh_save"
     \/ s = kind[t] /\ pc[t] = "sub_save"

SpentSaved ==
  \A s \in Services : store[s].rt = "spent" => s \in orphan \/ \E t \in Tasks : Saving(t, s)

(* The types the argument needs; the pages and bounds play no part in it.  *)
Typed ==
  /\ store \in [Services -> Tokens]
  /\ lock \in [Locks -> Tasks \cup {Free}]
  /\ kind \in [Tasks -> AllKinds]
  /\ pc \in [Tasks -> Pcs]
  /\ hand \in [Tasks -> Tokens]
  /\ declined \subseteq Subs
  /\ pending \in BOOLEAN
  /\ polls \in [1..2 -> {"none", "polling", "granted", "saved"}]

(* The inductive invariant.                                                *)
IInv == Typed /\ (\A t \in Tasks : Local(t)) /\ Published /\ SpentSaved

USE DEF frame
-----------------------------------------------------------------------------
(* What a step of a task does to the tokens in hand, to the locks, to the  *)
(* stored tokens and to what is remembered as spent or declined.           *)

HandStep(t) == hand' \in [Tasks -> Tokens] /\ \A u \in Tasks : u # t => hand'[u] = hand[u]

LockStep(t) ==
  /\ lock' \in [Locks -> Tasks \cup {Free}]
  /\ \A x \in Locks : lock'[x] = lock[x] \/ (lock[x] \in {t, Free} /\ lock'[x] \in {t, Free})

StoreStep(t) ==
  /\ store' \in [Services -> Tokens]
  /\ \A s \in Services : store'[s] = store[s] \/ lock[s] = t

SpentStep(t) ==
  \A s \in Services : store'[s].rt = "spent" /\ s \notin orphan' =>
    Saving(t, s)' \/ (store[s].rt = "spent" /\ s \notin orphan /\ ~Saving(t, s))

DeclineStep(t) ==
  declined' = declined \/ (pc[t] = "sub_page" /\ declined' = declined \cup {kind[t]})

(* Only the holder of the start lock publishes a login.                    *)
PublishStep(t) ==
  /\ Published' /\ pending' \in BOOLEAN
  /\ polls' \in [1..2 -> {"none", "polling", "granted", "saved"}]
  /\ pending' => pending \/ lock["start"] = t

(* A step of one task that does as above, and leaves the task itself in    *)
(* order, keeps the invariant: the others have their locks.                *)
LEMMA OthersKeep ==
  ASSUME IInv, NEW t \in Tasks, NEW l \in Pcs, pc' = [pc EXCEPT ![t] = l], kind' = kind,
         HandStep(t), LockStep(t), StoreStep(t), SpentStep(t), DeclineStep(t), PublishStep(t), Local(t)'
  PROVE  IInv'
<1>1. Typed /\ pc \in [Tasks -> Pcs]
  BY Zenon DEF IInv, Typed
<1>2. pc' \in [Tasks -> Pcs] /\ \A u \in Tasks : u # t => pc'[u] = pc[u]
  BY <1>1, Zenon
<1>3. pc[t] = "sub_page" => kind[t] \in Subs /\ lock[kind[t]] = t
  BY Zenon DEF IInv, Local, InPlace, LocksHeld
<1>4. Typed'
  <2>1. declined' \subseteq Subs
    BY <1>1, <1>3, Zenon DEF Typed, DeclineStep
  <2> QED BY <1>1, <1>2, <2>1, Zenon DEF Typed, HandStep, LockStep, StoreStep, PublishStep
<1>5. ASSUME NEW u \in Tasks, u # t PROVE Local(u)'
  <2>1. /\ pc'[u] = pc[u] /\ kind'[u] = kind[u] /\ hand'[u] = hand[u] /\ Local(u)
        /\ u # Free
    BY <1>2, <1>5, TasksNamed, Zenon DEF HandStep, IInv, Free
  <2>2. \A x \in Locks : lock[x] = u => lock'[x] = u
    BY <1>5, <2>1, Zenon DEF LockStep
  <2>3. \A s \in Services : lock[s] = u => store'[s] = store[s]
    BY <1>5, Zenon DEF StoreStep
  <2>4. {"gw", "gh", "start", "listener"} \subseteq Locks /\ {"gw", "gh"} \subseteq Services
        /\ \A s \in Subs : s \in Locks /\ s \in Services
    BY Zenon DEF Locks, Services
  <2>5. LocksHeld(u)'
    BY <2>1, <2>2, <2>4, Zenon DEF Local, LocksHeld, InPlace
  <2>6. InPlace(u)' /\ InHand(u)'
    BY <2>1, Zenon DEF Local, InPlace, InHand
  <2>7. Unpublished(u)'
    BY <1>5, <2>1, Zenon DEF Local, LocksHeld, Unpublished, PublishStep
  <2>8. pc[u] \in {"sub_listen", "sub_page", "sub_exchange", "sub_store"} => kind[u] \notin declined'
    BY <1>3, <1>5, <2>1, Zenon DEF Local, LocksHeld, Unusable, DeclineStep
  <2>9. Unusable(u)'
    BY <2>1, <2>3, <2>4, <2>8, Zenon DEF Local, LocksHeld, InPlace, Unusable
  <2> QED BY <2>5, <2>6, <2>7, <2>9, Zenon DEF Local
<1>6. \A u \in Tasks : Local(u)'
  BY <1>5, Zenon
<1>7. Published'
  BY Zenon DEF PublishStep
<1>8. SpentSaved'
  <2> SUFFICES ASSUME NEW s \in Services, store'[s].rt = "spent", s \notin orphan'
               PROVE  \E u \in Tasks : Saving(u, s)'
    BY Zenon DEF SpentSaved
  <2>1. CASE Saving(t, s)'
    BY <2>1, Zenon
  <2>2. CASE store[s].rt = "spent" /\ s \notin orphan /\ ~Saving(t, s)
    <3>1. PICK u \in Tasks : Saving(u, s)
      BY <2>2, Zenon DEF IInv, SpentSaved
    <3>2. u # t /\ u # Free /\ s \in Locks
      BY <2>2, <3>1, TasksNamed, Zenon DEF Free, Locks
    <3>3. lock'[s] = u /\ pc'[u] = pc[u]
      BY <1>2, <3>1, <3>2, Zenon DEF Saving, LockStep
    <3>4. Saving(u, s)'
      BY <3>1, <3>3, Zenon DEF Saving
    <3> QED BY <3>4, Zenon
  <2> QED BY <2>1, <2>2, Zenon DEF SpentStep
<1> QED BY <1>4, <1>6, <1>7, <1>8, Zenon DEF IInv

(* The same for a step that publishes nothing.                             *)
LEMMA TaskKeeps ==
  ASSUME IInv, NEW t \in Tasks, NEW l \in Pcs, pc' = [pc EXCEPT ![t] = l], kind' = kind,
         HandStep(t), LockStep(t), StoreStep(t), SpentStep(t), DeclineStep(t), Local(t)',
         UNCHANGED <<pending, polls>>
  PROVE  IInv'
<1>1. PublishStep(t)
  BY Zenon DEF IInv, Typed, Published, Live, PublishStep
<1> QED BY <1>1, OthersKeep, Zenon

(* The forms those parts of a step take.                                   *)
LEMMA Unchanging ==
  ASSUME IInv, NEW t \in Tasks
  PROVE  /\ hand' = hand => HandStep(t)
         /\ lock' = lock => LockStep(t)
         /\ store' = store => StoreStep(t)
         /\ declined' = declined => DeclineStep(t)
  BY Zenon DEF IInv, Typed, HandStep, LockStep, StoreStep, DeclineStep

(* A request takes tokens in hand; the others keep theirs.                 *)
LEMMA Taking ==
  ASSUME IInv, NEW t \in Tasks, NEW k \in Tokens, hand' = [hand EXCEPT ![t] = k]
  PROVE  HandStep(t) /\ hand'[t] = k
  BY Zenon DEF IInv, Typed, HandStep

(* A request takes a free lock and keeps those it holds.                   *)
LEMMA Acquiring ==
  ASSUME IInv, NEW t \in Tasks, NEW x \in Locks, lock[x] = Free, lock' = [lock EXCEPT ![x] = t]
  PROVE  LockStep(t) /\ lock'[x] = t /\ \A y \in Locks : lock[y] = t => lock'[y] = t
<1>1. lock \in [Locks -> Tasks \cup {Free}]
  BY Zenon DEF IInv, Typed
<1> QED BY <1>1, Zenon DEF LockStep

(* A request drops its guards; the others keep theirs.                     *)
LEMMA Releasing ==
  ASSUME IInv, NEW t \in Tasks, lock' = Released(t)
  PROVE  LockStep(t)
<1>1. lock \in [Locks -> Tasks \cup {Free}]
  BY Zenon DEF IInv, Typed
<1>2. \A x \in Locks : lock'[x] = IF lock[x] = t THEN Free ELSE lock[x]
  BY Zenon DEF Released
<1>3. lock' \in [Locks -> Tasks \cup {Free}]
  BY <1>1, Zenon DEF Released
<1> QED BY <1>2, <1>3, Zenon DEF LockStep

(* The services, subscriptions and locks by name.                          *)
LEMMA Names ==
  /\ {"gw", "gh"} \subseteq Services /\ Subs \subseteq Services
  /\ Services \subseteq Locks /\ {"start", "listener"} \subseteq Locks
  /\ "anthropic" \in Subs /\ "openai" \in Subs /\ Subs \subseteq AllKinds /\ Subs \cap {"gw", "gh"} = {}
  /\ NoTokens \in Tokens /\ NoTokens.st = "none" /\ NoTokens.rt = "none"
  BY Zenon DEF Services, Subs, Locks, AllKinds, NoTokens, Tokens

(* A task that leaves the store alone and does not lose rotated tokens.    *)
LEMMA SpentKept ==
  ASSUME NEW t \in Tasks, store' = store, orphan \subseteq orphan',
         \A s \in Services : Saving(t, s) => store[s].rt # "spent" \/ s \in orphan'
  PROVE  SpentStep(t)
  BY Zenon DEF SpentStep

(* Only a request about to write a refreshed token is saving.              *)
LEMMA NotSaving ==
  ASSUME NEW t \in Tasks, pc[t] \notin {"gw_save", "st_save", "gh_save", "sub_save"}
  PROVE  \A s \in Services : ~Saving(t, s)
  BY Zenon DEF Saving

(* A request ends: it drops its guards and what it has in hand.            *)
LEMMA EndKeeps ==
  ASSUME IInv, NEW t \in Tasks, pc' = [pc EXCEPT ![t] = "ended"], lock' = Released(t), kind' = kind,
         hand' = hand \/ hand' = [hand EXCEPT ![t] = NoTokens],
         StoreStep(t), SpentStep(t), DeclineStep(t), UNCHANGED <<pending, polls>>
  PROVE  IInv'
<1>1. "ended" \in Pcs
  BY Zenon DEF Pcs
<1>2. pc'[t] = "ended"
  BY Zenon DEF IInv, Typed
<1>3. HandStep(t) /\ hand'[t].rt # "spent"
  <2>1. CASE hand' = hand
    BY <2>1, Unchanging, Zenon DEF IInv, Local, InHand
  <2>2. CASE hand' = [hand EXCEPT ![t] = NoTokens]
    BY <2>2, Taking, Names, Zenon DEF NoTokens
  <2> QED BY <2>1, <2>2, Zenon
<1>4. Local(t)'
  BY <1>2, <1>3, Zenon DEF Local, LocksHeld, InPlace, InHand, Unusable, Unpublished
<1> QED BY <1>1, <1>3, <1>4, Releasing, TaskKeeps, Zenon

(* End in a state in which nothing rotated can be lost.                    *)
LEMMA EndIdleKeeps ==
  ASSUME IInv, NEW t \in Tasks, pc' = [pc EXCEPT ![t] = "ended"], lock' = Released(t), kind' = kind,
         hand' = hand \/ hand' = [hand EXCEPT ![t] = NoTokens],
         pc[t] \notin {"gw_save", "st_save", "gh_save", "sub_save"},
         DeclineStep(t), UNCHANGED <<store, pending, polls>>, orphan \subseteq orphan'
  PROVE  IInv'
<1>1. SpentStep(t)
  BY NotSaving, SpentKept, Zenon
<1> QED BY <1>1, EndKeeps, Unchanging, Zenon

(* The tokens in hand are stored, under the lock of the service.           *)
LEMMA SavedStep ==
  ASSUME IInv, NEW t \in Tasks, NEW s \in Services, lock[s] = t, Saved(t, s), kind' = kind,
         \A u \in Services : Saving(t, u) => u = s
  PROVE  StoreStep(t) /\ SpentStep(t)
<1>1. store \in [Services -> Tokens] /\ hand[t] \in Tokens /\ hand[t].rt # "spent"
  BY Zenon DEF IInv, Typed, Local, InHand
<1>2. /\ store'[s] = hand[t] /\ store' \in [Services -> Tokens]
      /\ \A u \in Services : u # s => store'[u] = store[u] /\ (u \in orphan' <=> u \in orphan)
  BY <1>1, Zenon DEF Saved
<1>3. StoreStep(t)
  BY <1>2, Zenon DEF StoreStep
<1>4. SpentStep(t)
  BY <1>1, <1>2, Zenon DEF SpentStep
<1> QED BY <1>3, <1>4, Zenon

(* A save that fails ends the request and loses what was rotated.          *)
LEMMA SaveFailsKeeps ==
  ASSUME IInv, NEW t \in Tasks, NEW s \in Services, SaveFails(t, s),
         \A u \in Services : Saving(t, u) => u = s
  PROVE  IInv'
<1>1. /\ pc' = [pc EXCEPT ![t] = "ended"] /\ lock' = Released(t)
      /\ hand' = [hand EXCEPT ![t] = NoTokens]
      /\ orphan' = IF store[s].rt = "spent" THEN orphan \cup {s} ELSE orphan
      /\ UNCHANGED <<store, kind, declined, pending, polls>>
  BY Zenon DEF SaveFails, End, Goto
<1>2. orphan \subseteq orphan' /\ (store[s].rt = "spent" => s \in orphan')
  BY <1>1, Zenon
<1>3. SpentStep(t)
  BY <1>1, <1>2, SpentKept, Zenon
<1> QED BY <1>1, <1>3, EndKeeps, Unchanging, Zenon

(* A refresh that reached the provider, and one whose answer was lost.     *)
LEMMA RefreshStep ==
  ASSUME IInv, NEW t \in Tasks, NEW s \in Services, lock[s] = t, kind' = kind,
         \A u \in Services : ~Saving(t, u)
  PROVE  /\ Rotated(t, s) \/ Kept(t, s) \/ Forgotten(t, s) =>
              StoreStep(t) /\ HandStep(t) /\ hand'[t].st = "fresh" /\ hand'[t].rt # "spent"
         /\ Rotated(t, s) /\ orphan' = orphan /\ Saving(t, s)' => SpentStep(t)
         /\ ReplyLost(s) => StoreStep(t) /\ SpentStep(t)
<1>1. store \in [Services -> Tokens]
  BY Zenon DEF IInv, Typed
<1>2. ASSUME Rotated(t, s) \/ ReplyLost(s)
      PROVE  /\ store' \in [Services -> Tokens] /\ \A u \in Services : u # s => store'[u] = store[u]
             /\ \A u \in Services : store'[u].st = store[u].st
  BY <1>1, <1>2 DEF Rotated, ReplyLost, Tokens
<1>3. ASSUME Rotated(t, s) \/ Kept(t, s) \/ Forgotten(t, s)
      PROVE  HandStep(t) /\ hand'[t].st = "fresh" /\ hand'[t].rt # "spent"
  <2>1. PICK k \in {[st |-> "fresh", rt |-> "live"], [st |-> "fresh", rt |-> "none"]} :
               hand' = [hand EXCEPT ![t] = k]
    BY <1>3, Zenon DEF Rotated, Kept, Forgotten
  <2>2. k \in Tokens /\ k.st = "fresh" /\ k.rt # "spent"
    BY DEF Tokens
  <2> QED BY <2>1, <2>2, Taking, Zenon
<1>4. ASSUME Rotated(t, s) \/ Kept(t, s) \/ Forgotten(t, s) \/ ReplyLost(s) PROVE StoreStep(t)
  BY <1>1, <1>2, <1>4, Zenon DEF StoreStep, Kept, Forgotten
<1>5. ASSUME Rotated(t, s), orphan' = orphan, Saving(t, s)' PROVE SpentStep(t)
  BY <1>2, <1>5, Zenon DEF SpentStep
<1>6. ASSUME ReplyLost(s) PROVE SpentStep(t)
  <2>1. orphan' = orphan \cup {s}
    BY <1>6, Zenon DEF ReplyLost
  <2> QED BY <1>2, <1>6, <2>1, Zenon DEF SpentStep
<1> QED BY <1>3, <1>4, <1>5, <1>6, Zenon

(* A task goes on without touching the store.                              *)
LEMMA GoKeeps ==
  ASSUME IInv, NEW t \in Tasks, NEW l \in Pcs, pc' = [pc EXCEPT ![t] = l], kind' = kind,
         HandStep(t), LockStep(t), pc[t] \notin {"gw_save", "st_save", "gh_save", "sub_save"},
         Local(t)', UNCHANGED <<store, orphan, declined, pending, polls>>
  PROVE  IInv'
<1>1. SpentStep(t)
  BY NotSaving, SpentKept, Zenon
<1> QED BY <1>1, TaskKeeps, Unchanging, Zenon

(* What the invariant says of the task that takes a step.                  *)
LEMMA OwnFacts ==
  ASSUME IInv, NEW t \in Tasks
  PROVE  /\ Local(t) /\ pc[t] \in Pcs /\ kind[t] \in AllKinds /\ hand[t] \in Tokens
         /\ \A l : pc' = [pc EXCEPT ![t] = l] => pc'[t] = l
  BY Zenon DEF IInv, Typed

(* Requests start.                                                         *)
LEMMA StartKeeps ==
  ASSUME IInv, NEW t \in Tasks, Start(t) \/ start_device_login_if_configured(t)
  PROVE  IInv'
<1>1. pc[t] = "new" /\ UNCHANGED <<store, lock, kind, hand, declined, pending, polls, orphan>>
  BY Zenon DEF Start, start_device_login_if_configured
<1>2. PICK l \in {"st_lock", "gh_lock", "gw_lock", "sub_lock"} :
             /\ pc' = [pc EXCEPT ![t] = l]
             /\ kind[t] = "login" => l = "st_lock"
             /\ l = "sub_lock" => kind[t] \in Subs
  <2>1. CASE start_device_login_if_configured(t)
    BY <2>1, Zenon DEF start_device_login_if_configured, Goto
  <2>2. CASE Start(t)
    <3> DEFINE l == StartsAt(kind[t])
    <3>1. /\ l \in {"st_lock", "gh_lock", "gw_lock", "sub_lock"}
          /\ kind[t] = "login" => l = "st_lock"
          /\ l = "sub_lock" => kind[t] \in Subs
      BY <2>2, OwnFacts, Zenon DEF Start, StartsAt, AllKinds, Subs, Local, LocksHeld, InPlace, InHand, Unusable, Unpublished
    <3>2. pc' = [pc EXCEPT ![t] = l]
      BY <2>2, Zenon DEF Start, Goto
    <3> HIDE DEF l
    <3> QED BY <3>1, <3>2, Zenon
  <2> QED BY <2>1, <2>2, Zenon
<1>3. Local(t)' /\ l \in Pcs
  BY <1>1, <1>2, OwnFacts, ZenonT(30) DEF Pcs, Local, LocksHeld, InPlace, InHand, Unusable, Unpublished
<1> QED BY <1>1, <1>2, <1>3, GoKeeps, Unchanging, Zenon

(* gateway_oidc: the credential of a program.                              *)
LEMMA CredentialKeeps ==
  ASSUME IInv, NEW t \in Tasks, credential_inner(t)
  PROVE  IInv'
<1>1. /\ pc[t] = "gw_lock" /\ lock["gw"] = Free /\ kind[t] # "login"
      /\ UNCHANGED <<store, kind, hand, declined, pending, polls, orphan>>
  BY OwnFacts, Zenon DEF credential_inner, Local, LocksHeld, InPlace, InHand, Unusable, Unpublished
<1>2. ASSUME NEW l \in {"sub_lock", "ended"}, pc' = [pc EXCEPT ![t] = l], LockStep(t),
             l = "sub_lock" => kind[t] \in Subs
      PROVE  IInv'
  <2>1. Local(t)' /\ l \in Pcs
    BY <1>1, <1>2, OwnFacts, Zenon DEF Pcs, Local, LocksHeld, InPlace, InHand, Unusable, Unpublished
  <2> QED BY <1>1, <1>2, <2>1, GoKeeps, Unchanging, Zenon
<1>3. ASSUME NEW l \in {"gw_refresh", "gw_discover"}, pc' = [pc EXCEPT ![t] = l], Acquire(t, "gw"),
             store["gw"].st # "fresh"
      PROVE  IInv'
  <2>1. LockStep(t) /\ lock'["gw"] = t
    BY <1>3, Acquiring, Names, Zenon DEF Acquire
  <2>2. Local(t)' /\ l \in Pcs
    BY <1>1, <1>3, <2>1, OwnFacts, ZenonT(30) DEF Pcs, Local, LocksHeld, InPlace, InHand, Unusable, Unpublished
  <2> QED BY <1>1, <1>3, <2>1, <2>2, GoKeeps, Unchanging, Zenon
<1>4. CASE IdentityReady(t)
  BY <1>2, <1>4, Releasing, Zenon DEF IdentityReady, Goto
<1>5. CASE Refreshable("gw") /\ Acquire(t, "gw") /\ Goto(t, "gw_refresh")
  BY <1>3, <1>5, Zenon DEF Refreshable, Goto
<1>6. CASE store["gw"].st # "fresh" /\ IF mode = "device" THEN UNCHANGED lock /\ Goto(t, "ended")
                                       ELSE Acquire(t, "gw") /\ Goto(t, "gw_discover")
  BY <1>2, <1>3, <1>6, Unchanging, Zenon DEF Goto
<1> QED BY <1>4, <1>5, <1>6, Zenon DEF credential_inner

(* What a refresh that failed leads to, and the refresh itself.            *)
LEMMA SignInAgainKeeps ==
  ASSUME IInv, NEW t \in Tasks, pc[t] = "gw_refresh", SignInAgain(t), StoreStep(t), SpentStep(t),
         store'["gw"].st # "fresh", UNCHANGED <<kind, hand, declined, pending, polls>>
  PROVE  IInv'
<1>1. CASE mode = "device"
  BY <1>1, EndKeeps, Unchanging, Zenon DEF SignInAgain, Goto
<1>2. CASE mode # "device"
  <2>1. lock' = lock /\ pc' = [pc EXCEPT ![t] = "gw_discover"]
    BY <1>2, Zenon DEF SignInAgain, Goto
  <2>2. lock["gw"] = t /\ kind[t] # "login" /\ hand[t].rt # "spent" /\ pc'[t] = "gw_discover"
    BY <2>1, OwnFacts, Zenon DEF Local, LocksHeld, InPlace, InHand, Unusable, Unpublished
  <2>3. Local(t)' /\ "gw_discover" \in Pcs
    BY <2>1, <2>2, Zenon DEF Pcs, Local, LocksHeld, InPlace, InHand, Unusable, Unpublished
  <2> QED BY <2>1, <2>3, TaskKeeps, Unchanging, Zenon
<1> QED BY <1>1, <1>2, Zenon

(* The refresh of the gateway's token under its lock: the answer, rotated  *)
(* or kept, is in hand for the save.                                       *)
LEMMA RefreshKeeps ==
  ASSUME IInv, NEW t \in Tasks, refresh_access_token(t)
  PROVE  IInv'
<1>1. /\ pc[t] = "gw_refresh" /\ lock["gw"] = t /\ store["gw"].st # "fresh" /\ kind[t] # "login"
      /\ UNCHANGED <<kind, declined, pending, polls>>
  BY OwnFacts, Zenon DEF refresh_access_token, Local, LocksHeld, InPlace, InHand, Unusable, Unpublished
<1>2. "gw" \in Services /\ \A u \in Services : ~Saving(t, u)
  BY <1>1, NotSaving, Names, Zenon
<1>3. CASE (Rotated(t, "gw") \/ Kept(t, "gw")) /\ Goto(t, "gw_save") /\ UNCHANGED <<lock, orphan, faults>>
  <2>1. pc' = [pc EXCEPT ![t] = "gw_save"] /\ lock' = lock /\ orphan' = orphan
    BY <1>3, Zenon DEF Goto
  <2>2. StoreStep(t) /\ HandStep(t) /\ hand'[t].st = "fresh" /\ hand'[t].rt # "spent"
    BY <1>1, <1>2, <1>3, RefreshStep, Zenon
  <2>3. pc'[t] = "gw_save"
    BY <2>1, OwnFacts, Zenon
  <2>4. Saving(t, "gw")' /\ "gw_save" \in Pcs
    BY <1>1, <2>1, <2>3, Zenon DEF Saving, Pcs
  <2>6. Local(t)'
    BY <1>1, <2>1, <2>2, <2>3, Zenon DEF Local, LocksHeld, InPlace, InHand, Unusable, Unpublished
  <2>5. SpentStep(t)
    <3>1. CASE Rotated(t, "gw")
      BY <1>1, <1>2, <2>1, <2>4, <3>1, RefreshStep, Zenon
    <3>2. CASE store' = store
      BY <1>2, <2>1, <3>2, SpentKept, Zenon
    <3> QED BY <1>3, <3>1, <3>2, Zenon DEF Kept
  <2> QED BY <1>1, <2>1, <2>2, <2>4, <2>5, <2>6, TaskKeeps, Unchanging, Zenon
<1>4. CASE ReplyLost("gw") /\ SignInAgain(t) /\ UNCHANGED hand
  <2>1. StoreStep(t) /\ SpentStep(t)
    BY <1>1, <1>2, <1>4, RefreshStep, Zenon
  <2>2. store'["gw"].st # "fresh"
    BY <1>1, <1>2, <1>4, Zenon DEF ReplyLost, IInv, Typed, Tokens
  <2> QED BY <1>1, <1>4, <2>1, <2>2, SignInAgainKeeps, Zenon
<1>5. CASE SignInAgain(t) /\ UNCHANGED <<store, hand, orphan, faults>>
  <2>1. SpentStep(t)
    BY <1>2, <1>5, SpentKept, Zenon
  <2> QED BY <1>1, <1>5, <2>1, SignInAgainKeeps, Unchanging, Zenon
<1> QED BY <1>3, <1>4, <1>5, Zenon DEF refresh_access_token

(* With the identity stored a subscription request goes on; others end.    *)
LEMMA SavedReadyKeeps ==
  ASSUME IInv, NEW t \in Tasks, pc[t] \in {"gw_save", "gw_store"}, Saved(t, "gw"),
         hand' = [hand EXCEPT ![t] = NoTokens], IdentityReady(t),
         UNCHANGED <<kind, declined, pending, polls>>
  PROVE  IInv'
<1>1. lock["gw"] = t /\ kind[t] # "login" /\ "gw" \in Services
  BY OwnFacts, Names, Zenon DEF Local, LocksHeld, InPlace, InHand, Unusable, Unpublished
<1>2. \A u \in Services : Saving(t, u) => u = "gw"
  BY Zenon DEF Saving
<1>3. StoreStep(t) /\ SpentStep(t)
  BY <1>1, <1>2, SavedStep, Zenon
<1>4. HandStep(t) /\ hand'[t] = NoTokens /\ NoTokens.rt # "spent"
  BY Taking, Names, Zenon
<1>5. LockStep(t)
  BY Releasing, Zenon DEF IdentityReady
<1>6. PICK l \in {"sub_lock", "ended"} : pc' = [pc EXCEPT ![t] = l] /\ (l = "sub_lock" => kind[t] \in Subs)
  BY Zenon DEF IdentityReady, Goto
<1>7. Local(t)' /\ l \in Pcs
  BY <1>1, <1>4, <1>6, OwnFacts, ZenonT(30) DEF Pcs, Local, LocksHeld, InPlace, InHand, Unusable, Unpublished
<1> QED BY <1>3, <1>4, <1>5, <1>6, <1>7, TaskKeeps, Unchanging, Zenon

(* The write of the refreshed gateway token.                               *)
LEMMA SaveRefreshedKeeps ==
  ASSUME IInv, NEW t \in Tasks, save_refreshed(t)
  PROVE  IInv'
<1>1. pc[t] = "gw_save" /\ \A u \in Services : Saving(t, u) => u = "gw"
  BY Zenon DEF save_refreshed, Saving
<1>2. CASE SaveFails(t, "gw")
  BY <1>1, <1>2, SaveFailsKeeps, Names, Zenon
<1>3. CASE ~SaveFails(t, "gw")
  BY <1>1, <1>3, SavedReadyKeeps, Zenon DEF save_refreshed
<1> QED BY <1>2, <1>3, Zenon

(* A request that has nothing to save ends with an error or a timeout.     *)
LEMMA GivesUp ==
  ASSUME IInv, NEW t \in Tasks, End(t) \/ GitHubFails(t),
         pc[t] \notin {"gw_save", "st_save", "gh_save", "sub_save"},
         UNCHANGED <<kind, store, declined, pending, polls, orphan>>
  PROVE  IInv'
<1>1. /\ pc' = [pc EXCEPT ![t] = "ended"] /\ lock' = Released(t)
      /\ hand' = [hand EXCEPT ![t] = NoTokens]
  BY Zenon DEF End, GitHubFails, Goto
<1> QED BY <1>1, EndIdleKeeps, Unchanging, Zenon

(* The next step of a sign-in under the same locks.                        *)
LEMMA NextKeeps ==
  ASSUME IInv, NEW t \in Tasks, NEW l, pc' = [pc EXCEPT ![t] = l],
         \/ pc[t] = "gw_discover" /\ l = "gw_bind"
         \/ pc[t] = "gw_bind" /\ l = "gw_page"
         \/ pc[t] = "gw_page" /\ l = "gw_exchange"
         \/ pc[t] = "gh_code" /\ l = "gh_bind"
         \/ pc[t] = "gh_bind" /\ l = "gh_poll"
         \/ pc[t] = "gh_refresh" /\ l = "gh_code",
         UNCHANGED <<kind, lock, hand, store, declined, pending, polls, orphan>>
  PROVE  IInv'
<1>1. /\ l \in {"gw_bind", "gw_page", "gw_exchange", "gh_bind", "gh_poll", "gh_code"}
      /\ pc[t] \in {"gw_discover", "gw_bind", "gw_page", "gh_code", "gh_bind", "gh_refresh"}
  BY Zenon
<1>2. pc'[t] = l /\ l \in Pcs
  BY <1>1, OwnFacts, Zenon DEF Pcs
<1>3. Local(t)'
  BY <1>2, OwnFacts, Zenon DEF Local, LocksHeld, InPlace, InHand, Unusable, Unpublished
<1> QED BY <1>1, <1>2, <1>3, GoKeeps, Unchanging, Zenon

(* The provider has issued tokens for a sign-in.                           *)
LEMMA IssuedKeeps ==
  ASSUME IInv, NEW t \in Tasks, NEW l, pc' = [pc EXCEPT ![t] = l], NEW k \in Tokens,
         hand' = [hand EXCEPT ![t] = k], k.st = "fresh", k.rt # "spent",
         \/ pc[t] = "gw_exchange" /\ l = "gw_store"
         \/ pc[t] = "gh_poll" /\ l = "gh_store"
         \/ pc[t] = "sub_exchange" /\ l = "sub_store",
         UNCHANGED <<kind, lock, store, declined, pending, polls, orphan>>
  PROVE  IInv'
<1>1. /\ l \in {"gw_store", "gh_store", "sub_store"}
      /\ pc[t] \in {"gw_exchange", "gh_poll", "sub_exchange"}
  BY Zenon
<1>2. pc'[t] = l /\ l \in Pcs
  BY <1>1, OwnFacts, Zenon DEF Pcs
<1>3. HandStep(t) /\ hand'[t] = k
  BY Taking, Zenon
<1>4. Local(t)'
  BY <1>2, <1>3, OwnFacts, Zenon DEF Local, LocksHeld, InPlace, InHand, Unusable, Unpublished
<1> QED BY <1>1, <1>2, <1>3, <1>4, GoKeeps, Unchanging, Zenon

(* What a sign-in yields is fresh and was never presented.                 *)
LEMMA IssuedTokens == \A k \in Issued : k \in Tokens /\ k.st = "fresh" /\ k.rt # "spent"
  BY Zenon DEF Issued, Tokens

(* The browser sign-in to the gateway.                                     *)
LEMMA BrowserKeeps ==
  ASSUME IInv, NEW t \in Tasks,
         discover(t) \/ open_gateway_page(t) \/ wait_for_code(t) \/ exchange_authorization_code(t)
  PROVE  IInv'
<1>1. /\ pc[t] \in {"gw_discover", "gw_bind", "gw_page", "gw_exchange"}
      /\ UNCHANGED <<kind, store, declined, pending, polls, orphan>>
  BY Zenon DEF discover, open_gateway_page, wait_for_code, exchange_authorization_code
<1>2. CASE End(t)
  BY <1>1, <1>2, GivesUp, Zenon
<1>3. CASE ~End(t)
  <2>1. CASE discover(t)
    BY <1>1, <1>3, <2>1, NextKeeps, Zenon DEF discover, Goto
  <2>2. CASE open_gateway_page(t)
    BY <1>1, <1>3, <2>2, NextKeeps, Zenon DEF open_gateway_page, Bind, Goto
  <2>3. CASE wait_for_code(t)
    BY <1>1, <1>3, <2>3, NextKeeps, Zenon DEF wait_for_code, Goto
  <2>4. CASE exchange_authorization_code(t)
    <3>1. PICK k \in Issued : hand' = [hand EXCEPT ![t] = k]
      BY <1>3, <2>4, Zenon DEF exchange_authorization_code
    <3>2. pc[t] = "gw_exchange" /\ pc' = [pc EXCEPT ![t] = "gw_store"] /\ lock' = lock
      BY <1>3, <2>4, Zenon DEF exchange_authorization_code, Goto
    <3> QED BY <1>1, <3>1, <3>2, IssuedTokens, IssuedKeeps, Zenon
  <2> QED BY <2>1, <2>2, <2>3, <2>4, Zenon
<1> QED BY <1>2, <1>3, Zenon

(* The identity is stored and the GitHub sign-in may continue.             *)
LEMMA SaveSignedInKeeps ==
  ASSUME IInv, NEW t \in Tasks, save_signed_in(t)
  PROVE  IInv'
<1>1. pc[t] = "gw_store" /\ "gw" \in Services /\ \A u \in Services : ~Saving(t, u)
  BY NotSaving, Names, Zenon DEF save_signed_in
<1>2. CASE SaveFails(t, "gw")
  BY <1>1, <1>2, SaveFailsKeeps, Zenon
<1>3. CASE ~SaveFails(t, "gw")
  <2>1. /\ Saved(t, "gw") /\ hand' = [hand EXCEPT ![t] = NoTokens]
        /\ UNCHANGED <<kind, declined, pending, polls>>
    BY <1>3, Zenon DEF save_signed_in
  <2>2. CASE IdentityReady(t)
    BY <1>1, <2>1, <2>2, SavedReadyKeeps, Zenon
  <2>3. CASE ~IdentityReady(t)
    <3>1. pc' = [pc EXCEPT ![t] = "gh_lock"] /\ lock' = lock /\ kind[t] = "proxy"
      BY <1>3, <2>3, Zenon DEF save_signed_in, Goto
    <3>2. pc'[t] = "gh_lock" /\ lock["gw"] = t
      BY <1>1, <3>1, OwnFacts, Zenon DEF Local, LocksHeld
    <3>3. StoreStep(t) /\ SpentStep(t)
      BY <1>1, <2>1, <3>2, SavedStep, Zenon
    <3>4. HandStep(t) /\ hand'[t] = NoTokens /\ NoTokens.rt # "spent"
      BY <2>1, Taking, Names, Zenon
    <3>5. Local(t)' /\ "gh_lock" \in Pcs
      BY <2>1, <3>1, <3>2, <3>4, Zenon DEF Pcs, Local, LocksHeld, InPlace, InHand, Unusable, Unpublished
    <3> QED BY <2>1, <3>1, <3>3, <3>4, <3>5, TaskKeeps, Unchanging, Zenon
  <2> QED BY <2>2, <2>3, Zenon
<1> QED BY <1>2, <1>3, Zenon

(* github_oauth: the lock, the refresh and the save.                       *)
LEMMA AcquireGitHubKeeps ==
  ASSUME IInv, NEW t \in Tasks, acquire_github(t)
  PROVE  IInv'
<1>1. /\ pc[t] = "gh_lock" /\ Acquire(t, "gh") /\ kind[t] # "login" /\ hand[t].rt # "spent"
      /\ UNCHANGED <<store, kind, hand, declined, pending, polls, orphan>>
  BY OwnFacts, Zenon DEF acquire_github, Local, InPlace, InHand
<1>2. LockStep(t) /\ lock'["gh"] = t
  BY <1>1, Acquiring, Names, Zenon DEF Acquire
<1>3. PICK l \in {"gh_shown", "gh_refresh", "gh_code"} :
             pc' = [pc EXCEPT ![t] = l] /\ (l # "gh_shown" => store["gh"].st # "fresh")
  BY Zenon DEF acquire_github, Goto
<1>4. pc'[t] = l /\ l \in Pcs
  BY <1>3, OwnFacts, Zenon DEF Pcs
<1>5. Local(t)'
  BY <1>1, <1>2, <1>3, <1>4, Zenon DEF Local, LocksHeld, InPlace, InHand, Unusable, Unpublished
<1> QED BY <1>1, <1>2, <1>3, <1>4, <1>5, GoKeeps, Unchanging, Zenon

(* The refresh of the GitHub token under its lock.                         *)
LEMMA RefreshGitHubKeeps ==
  ASSUME IInv, NEW t \in Tasks, refresh_github(t)
  PROVE  IInv'
<1>1. /\ pc[t] = "gh_refresh" /\ lock["gh"] = t /\ store["gh"].st # "fresh" /\ kind[t] # "login"
      /\ UNCHANGED <<kind, declined, pending, polls>>
  BY OwnFacts, Zenon DEF refresh_github, Local, LocksHeld, InPlace, Unusable
<1>2. "gh" \in Services /\ \A u \in Services : ~Saving(t, u)
  BY <1>1, NotSaving, Names, Zenon
<1>3. CASE /\ Rotated(t, "gh") \/ Forgotten(t, "gh")
           /\ Goto(t, "gh_save") /\ UNCHANGED <<lock, bound, page, orphan, faults>>
  <2>1. pc' = [pc EXCEPT ![t] = "gh_save"] /\ lock' = lock /\ orphan' = orphan
    BY <1>3, Zenon DEF Goto
  <2>2. StoreStep(t) /\ HandStep(t) /\ hand'[t].st = "fresh" /\ hand'[t].rt # "spent"
    BY <1>1, <1>2, <1>3, RefreshStep, Zenon
  <2>3. pc'[t] = "gh_save"
    BY <2>1, OwnFacts, Zenon
  <2>4. Saving(t, "gh")' /\ "gh_save" \in Pcs
    BY <1>1, <2>1, <2>3, Zenon DEF Saving, Pcs
  <2>5. SpentStep(t)
    <3>1. CASE Rotated(t, "gh")
      BY <1>1, <1>2, <2>1, <2>4, <3>1, RefreshStep, Zenon
    <3>2. CASE store' = store
      BY <1>2, <2>1, <3>2, SpentKept, Zenon
    <3> QED BY <1>3, <3>1, <3>2, Zenon DEF Forgotten
  <2>6. Local(t)'
    BY <1>1, <2>1, <2>2, <2>3, Zenon DEF Local, LocksHeld, InPlace, InHand, Unusable, Unpublished
  <2> QED BY <1>1, <2>1, <2>2, <2>4, <2>5, <2>6, TaskKeeps, Unchanging, Zenon
<1>4. CASE ReplyLost("gh") /\ GitHubFails(t)
  <2>1. StoreStep(t) /\ SpentStep(t)
    BY <1>1, <1>2, <1>4, RefreshStep, Zenon
  <2>2. /\ pc' = [pc EXCEPT ![t] = "ended"] /\ lock' = Released(t)
        /\ hand' = [hand EXCEPT ![t] = NoTokens]
    BY <1>4, Zenon DEF GitHubFails, Goto
  <2> QED BY <1>1, <2>1, <2>2, EndKeeps, Unchanging, Zenon
<1>5. CASE Goto(t, "gh_code") /\ UNCHANGED <<store, lock, hand, bound, page, orphan, faults>>
  BY <1>1, <1>5, NextKeeps, Zenon DEF Goto
<1>6. CASE GitHubFails(t) /\ UNCHANGED <<store, orphan, faults>>
  BY <1>1, <1>6, GivesUp, Zenon
<1> QED BY <1>3, <1>4, <1>5, <1>6, Zenon DEF refresh_github

(* The write of GitHub's tokens, refreshed or of a device grant.           *)
LEMMA SaveGitHubKeeps ==
  ASSUME IInv, NEW t \in Tasks, save_github(t) \/ save_github_device(t)
  PROVE  IInv'
<1>1. /\ pc[t] \in {"gh_save", "gh_store"} /\ lock["gh"] = t /\ kind[t] # "login"
      /\ hand' = [hand EXCEPT ![t] = NoTokens]
      /\ UNCHANGED <<kind, declined, pending, polls>>
  BY OwnFacts, Zenon DEF save_github, save_github_device, GitHubFails, Local, LocksHeld, InPlace
<1>2. "gh" \in Services /\ \A u \in Services : Saving(t, u) => u = "gh"
  BY <1>1, Names, Zenon DEF Saving
<1>3. HandStep(t) /\ hand'[t] = NoTokens /\ NoTokens.rt # "spent"
  BY <1>1, Taking, Names, Zenon
<1>4. ASSUME Saved(t, "gh") PROVE StoreStep(t) /\ SpentStep(t)
  BY <1>1, <1>2, <1>4, SavedStep, Zenon
<1>5. ASSUME GitHubSaveFails(t) PROVE StoreStep(t) /\ SpentStep(t)
  <2>1. store' = store /\ orphan \subseteq orphan' /\ (store["gh"].rt = "spent" => "gh" \in orphan')
    BY <1>5, Zenon DEF GitHubSaveFails
  <2> QED BY <1>2, <2>1, SpentKept, Unchanging, Zenon
<1>6. CASE Goto(t, "ended") /\ lock' = Released(t) /\ (Saved(t, "gh") \/ GitHubSaveFails(t))
  BY <1>1, <1>4, <1>5, <1>6, EndKeeps, Unchanging, Zenon DEF Goto
<1>7. CASE Saved(t, "gh") /\ Goto(t, "gh_shown") /\ lock' = lock
  <2>1. pc' = [pc EXCEPT ![t] = "gh_shown"] /\ "gh_shown" \in Pcs
    BY <1>7, Zenon DEF Goto, Pcs
  <2>2. pc'[t] = "gh_shown"
    BY <2>1, OwnFacts, Zenon
  <2>3. Local(t)'
    BY <1>1, <1>3, <1>7, <2>2, Zenon DEF Local, LocksHeld, InPlace, InHand, Unusable, Unpublished
  <2> QED BY <1>1, <1>3, <1>4, <1>7, <2>1, <2>3, TaskKeeps, Unchanging, Zenon
<1> QED BY <1>6, <1>7, Zenon DEF save_github, save_github_device, GitHubFails

(* The device page, its poll and the result page.                          *)
LEMMA GitHubDeviceKeeps ==
  ASSUME IInv, NEW t \in Tasks,
         show_connected(t) \/ request_device_code(t) \/ device_page(t) \/ poll_github(t)
  PROVE  IInv'
<1>1. /\ pc[t] \in {"gh_shown", "gh_code", "gh_bind", "gh_poll"}
      /\ UNCHANGED <<kind, store, declined, pending, polls, orphan>>
  BY Zenon DEF show_connected, request_device_code, device_page, poll_github
<1>2. CASE GitHubFails(t)
  BY <1>1, <1>2, GivesUp, Zenon
<1>3. CASE Goto(t, "ended") /\ lock' = Released(t) /\ UNCHANGED hand
  BY <1>1, <1>3, EndIdleKeeps, Unchanging, Zenon DEF Goto
<1>4. CASE request_device_code(t) /\ ~GitHubFails(t)
  BY <1>1, <1>4, NextKeeps, Zenon DEF request_device_code, Goto
<1>5. CASE device_page(t) /\ ~GitHubFails(t)
  BY <1>1, <1>5, NextKeeps, Zenon DEF device_page, Goto
<1>6. CASE poll_github(t) /\ ~(Goto(t, "ended") /\ lock' = Released(t) /\ UNCHANGED hand)
  <2>1. PICK k \in Issued : hand' = [hand EXCEPT ![t] = k]
    BY <1>6, Zenon DEF poll_github
  <2>2. pc[t] = "gh_poll" /\ pc' = [pc EXCEPT ![t] = "gh_store"] /\ lock' = lock
    BY <1>6, Zenon DEF poll_github, Goto
  <2> QED BY <1>1, <2>1, <2>2, IssuedTokens, IssuedKeeps, Zenon
<1>7. ASSUME show_connected(t) PROVE Goto(t, "ended") /\ lock' = Released(t) /\ UNCHANGED hand
  BY <1>7, Zenon DEF show_connected
<1> QED BY <1>2, <1>3, <1>4, <1>5, <1>6, <1>7, Zenon

(* subscription_oauth: the lock, the refresh and the save.                 *)
LEMMA SubscriptionKeeps ==
  ASSUME IInv, NEW t \in Tasks, subscription_inner(t)
  PROVE  IInv'
<1>1. /\ pc[t] = "sub_lock" /\ Acquire(t, kind[t]) /\ kind[t] \in Subs /\ hand[t].rt # "spent"
      /\ UNCHANGED <<store, kind, hand, declined, pending, polls, orphan>>
  BY OwnFacts, Zenon DEF subscription_inner, Sub, Local, InPlace, InHand
<1>2. kind[t] # "login" /\ kind[t] \in Locks
  BY <1>1, Names, Zenon DEF Subs
<1>3. LockStep(t) /\ lock'[kind[t]] = t
  BY <1>1, <1>2, Acquiring, Zenon DEF Acquire
<1>4. PICK l \in {"sub_ready", "sub_refresh", "sub_declined", "sub_listen"} :
             /\ pc' = [pc EXCEPT ![t] = l]
             /\ l \in {"sub_refresh", "sub_listen"} => store[kind[t]].st # "fresh"
             /\ l = "sub_refresh" => kind[t] = "openai"
             /\ l = "sub_listen" => kind[t] \notin declined
  <2>1. CASE store[kind[t]].st = "fresh"
    BY <2>1, Zenon DEF subscription_inner, Sub, Goto
  <2>2. CASE store[kind[t]].st # "fresh" /\ Refreshable(kind[t]) /\ kind[t] = "openai"
    BY <2>2, Zenon DEF subscription_inner, Sub, Goto
  <2>3. CASE store[kind[t]].st # "fresh" /\ ~(Refreshable(kind[t]) /\ kind[t] = "openai")
    <3>1. pc' = [pc EXCEPT ![t] = AskOrSkip(kind[t])]
      BY <2>3, Zenon DEF subscription_inner, Sub, Goto
    <3> QED BY <2>3, <3>1, Zenon DEF AskOrSkip
  <2> QED BY <2>1, <2>2, <2>3, Zenon
<1>5. pc'[t] = l /\ l \in Pcs
  BY <1>4, OwnFacts, Zenon DEF Pcs
<1>6. Local(t)'
  BY <1>1, <1>2, <1>3, <1>4, <1>5, Zenon DEF Local, LocksHeld, InPlace, InHand, Unusable, Unpublished
<1> QED BY <1>1, <1>3, <1>4, <1>5, <1>6, GoKeeps, Unchanging, Zenon

(* The refresh of a subscription's token under its lock; Anthropic tokens  *)
(* have none.                                                              *)
LEMMA RefreshSubscriptionKeeps ==
  ASSUME IInv, NEW t \in Tasks, refresh_subscription(t)
  PROVE  IInv'
<1>1. /\ pc[t] = "sub_refresh" /\ kind[t] = "openai" /\ lock["openai"] = t
      /\ store["openai"].st # "fresh" /\ hand[t].rt # "spent"
      /\ UNCHANGED <<kind, declined, pending, polls>>
  <2>1. pc[t] = "sub_refresh" /\ UNCHANGED <<kind, declined, pending, polls>>
    BY Zenon DEF refresh_subscription
  <2>2. Local(t)
    BY Zenon DEF IInv
  <2>3. kind[t] = "openai"
    BY <2>1, <2>2, Zenon DEF Local, InPlace
  <2>4. lock["openai"] = t /\ store["openai"].st # "fresh"
    BY <2>1, <2>2, <2>3, Zenon DEF Local, LocksHeld, Unusable
  <2> QED BY <2>1, <2>2, <2>3, <2>4, Zenon DEF Local, InHand
<1>2. "openai" \in Services /\ "openai" \in Subs /\ \A u \in Services : ~Saving(t, u)
  BY <1>1, NotSaving, Names, Zenon
<1>3. CASE /\ Rotated(t, "openai") \/ Kept(t, "openai")
           /\ Goto(t, "sub_save") /\ UNCHANGED <<lock, orphan>>
  <2>1. pc' = [pc EXCEPT ![t] = "sub_save"] /\ lock' = lock /\ orphan' = orphan
    BY <1>3, Zenon DEF Goto
  <2>2. StoreStep(t) /\ HandStep(t) /\ hand'[t].st = "fresh" /\ hand'[t].rt # "spent"
    BY <1>1, <1>2, <1>3, RefreshStep, Zenon
  <2>3. pc'[t] = "sub_save"
    BY <2>1, OwnFacts, Zenon
  <2>4. Saving(t, "openai")' /\ "sub_save" \in Pcs
    BY <1>1, <2>1, <2>3, Zenon DEF Saving, Pcs
  <2>5. SpentStep(t)
    <3>1. CASE Rotated(t, "openai")
      BY <1>1, <1>2, <2>1, <2>4, <3>1, RefreshStep, Zenon
    <3>2. CASE store' = store
      BY <1>2, <2>1, <3>2, SpentKept, Zenon
    <3> QED BY <1>3, <3>1, <3>2, Zenon DEF Kept
  <2>6. Local(t)'
    BY <1>1, <1>2, <2>1, <2>2, <2>3, Zenon DEF Local, LocksHeld, InPlace, InHand, Unusable, Unpublished
  <2> QED BY <1>1, <2>1, <2>2, <2>4, <2>5, <2>6, TaskKeeps, Unchanging, Zenon
<1>4. CASE ReplyLost("openai") /\ End(t)
  <2>1. StoreStep(t) /\ SpentStep(t)
    BY <1>1, <1>2, <1>4, RefreshStep, Zenon
  <2>2. /\ pc' = [pc EXCEPT ![t] = "ended"] /\ lock' = Released(t)
        /\ hand' = [hand EXCEPT ![t] = NoTokens]
    BY <1>4, Zenon DEF End, Goto
  <2> QED BY <1>1, <2>1, <2>2, EndKeeps, Unchanging, Zenon
<1>5. CASE Goto(t, AskOrSkip("openai")) /\ UNCHANGED <<store, lock, hand, orphan>>
  <2>1. PICK l \in {"sub_declined", "sub_listen"} :
               pc' = [pc EXCEPT ![t] = l] /\ (l = "sub_listen" => "openai" \notin declined)
    BY <1>5, Zenon DEF AskOrSkip, Goto
  <2>2. pc'[t] = l /\ l \in Pcs
    BY <2>1, OwnFacts, Zenon DEF Pcs
  <2>3. Local(t)'
    BY <1>1, <1>2, <1>5, <2>1, <2>2, Zenon DEF Local, LocksHeld, InPlace, InHand, Unusable, Unpublished
  <2> QED BY <1>1, <1>5, <2>1, <2>2, <2>3, GoKeeps, Unchanging, Zenon
<1>6. CASE End(t) /\ UNCHANGED <<store, orphan>>
  BY <1>1, <1>6, GivesUp, Zenon
<1> QED BY <1>3, <1>4, <1>5, <1>6, Zenon DEF refresh_subscription

(* The write of a subscription's tokens, refreshed or of a sign-in.        *)
LEMMA SaveSubscriptionKeeps ==
  ASSUME IInv, NEW t \in Tasks, save_subscription(t) \/ save_subscription_sign_in(t)
  PROVE  IInv'
<1>1. pc[t] \in {"sub_save", "sub_store"} /\ kind[t] \in Subs /\ lock[kind[t]] = t
  BY OwnFacts, Zenon DEF save_subscription, save_subscription_sign_in, Local, LocksHeld, InPlace
<1>2. kind[t] \in Services /\ kind[t] # "login" /\ \A u \in Services : Saving(t, u) => u = kind[t]
  BY <1>1, Names, Zenon DEF Saving, Subs
<1>3. CASE SaveFails(t, kind[t])
  BY <1>2, <1>3, SaveFailsKeeps, Zenon
<1>4. CASE ~SaveFails(t, kind[t])
  <2>1. /\ Saved(t, kind[t]) /\ hand' = [hand EXCEPT ![t] = NoTokens]
        /\ UNCHANGED <<kind, declined, pending, polls>>
    BY <1>4, Zenon DEF save_subscription, save_subscription_sign_in, Sub, End
  <2>2. StoreStep(t) /\ SpentStep(t)
    BY <1>1, <1>2, <2>1, SavedStep, Zenon
  <2>3. HandStep(t) /\ hand'[t] = NoTokens /\ NoTokens.rt # "spent"
    BY <2>1, Taking, Names, Zenon
  <2>4. CASE End(t)
    BY <2>1, <2>2, <2>4, EndKeeps, Unchanging, Zenon DEF End, Goto
  <2>5. CASE Goto(t, "sub_ready") /\ lock' = lock
    <3>1. pc' = [pc EXCEPT ![t] = "sub_ready"] /\ "sub_ready" \in Pcs
      BY <2>5, Zenon DEF Goto, Pcs
    <3>2. pc'[t] = "sub_ready"
      BY <3>1, OwnFacts, Zenon
    <3>3. Local(t)'
      BY <1>1, <1>2, <2>1, <2>3, <2>5, <3>2, Zenon DEF Local, LocksHeld, InPlace, InHand, Unusable, Unpublished
    <3> QED BY <2>1, <2>2, <2>3, <2>5, <3>1, <3>3, TaskKeeps, Unchanging, Zenon
  <2> QED BY <1>4, <2>4, <2>5, Zenon DEF save_subscription, save_subscription_sign_in, Sub
<1> QED BY <1>3, <1>4, Zenon

(* The subscription page: shown under the listener lock, answered, skipped *)
(* or timed out.                                                           *)
LEMMA SubscriptionPageKeeps ==
  ASSUME IInv, NEW t \in Tasks,
         \/ finish_ready(t) \/ continue_subscription_page(t) \/ open_subscription_page(t)
         \/ wait_for_subscription_code(t) \/ exchange_subscription(t)
  PROVE  IInv'
<1>1. /\ pc[t] \in {"sub_ready", "sub_declined", "sub_viewed", "sub_listen", "sub_page", "sub_exchange"}
      /\ kind[t] \in Subs /\ lock[kind[t]] = t /\ hand[t].rt # "spent"
      /\ pc[t] \in {"sub_listen", "sub_page", "sub_exchange"} =>
           store[kind[t]].st # "fresh" /\ kind[t] \notin declined
      /\ pc[t] = "sub_page" => lock["listener"] = t
      /\ UNCHANGED <<kind, store, pending, polls, orphan>>
  BY OwnFacts, Zenon DEF finish_ready, continue_subscription_page, open_subscription_page,
                  wait_for_subscription_code, exchange_subscription, Local, LocksHeld, InPlace, InHand, Unusable
<1>2. kind[t] \in Locks /\ kind[t] # "login" /\ kind[t] # "listener" /\ "listener" \in Locks
  BY <1>1, Names, Zenon DEF Subs
<1>3. CASE End(t) /\ declined' = declined
  BY <1>1, <1>3, GivesUp, Zenon
<1>4. CASE End(t) /\ declined' # declined
  <2>1. DeclineStep(t)
    BY <1>4, Zenon DEF DeclineStep, wait_for_subscription_code, finish_ready, continue_subscription_page,
                       open_subscription_page, exchange_subscription, Sub
  <2>2. /\ pc' = [pc EXCEPT ![t] = "ended"] /\ lock' = Released(t)
        /\ hand' = [hand EXCEPT ![t] = NoTokens]
    BY <1>4, Zenon DEF End, Goto
  <2> QED BY <1>1, <2>1, <2>2, EndIdleKeeps, Zenon
<1>5. CASE (finish_ready(t) \/ open_subscription_page(t)) /\ ~End(t)
  <2>1. /\ lock["listener"] = Free /\ lock' = [lock EXCEPT !["listener"] = t]
        /\ UNCHANGED <<hand, declined>>
    BY <1>5, Zenon DEF finish_ready, open_subscription_page
  <2>2. PICK l \in {"sub_viewed", "sub_page"} :
               pc' = [pc EXCEPT ![t] = l] /\ (l = "sub_page" => pc[t] = "sub_listen")
    BY <1>5, Zenon DEF finish_ready, open_subscription_page, Goto
  <2>3. pc'[t] = l /\ l \in Pcs
    BY <2>2, OwnFacts, Zenon DEF Pcs
  <2>4. LockStep(t) /\ lock'["listener"] = t /\ lock'[kind[t]] = t
    BY <1>1, <1>2, <2>1, Acquiring, Zenon
  <2>5. Local(t)'
    BY <1>1, <1>2, <2>1, <2>2, <2>3, <2>4, Zenon DEF Local, LocksHeld, InPlace, InHand, Unusable, Unpublished
  <2> QED BY <1>1, <2>1, <2>2, <2>3, <2>4, <2>5, GoKeeps, Unchanging, Zenon
<1>6. CASE wait_for_subscription_code(t) /\ ~End(t)
  <2>1. /\ pc[t] = "sub_page" /\ lock' = [lock EXCEPT !["listener"] = Free]
        /\ pc' = [pc EXCEPT ![t] = "sub_exchange"] /\ UNCHANGED <<hand, declined>>
    BY <1>6, Zenon DEF wait_for_subscription_code, Goto
  <2>2. lock \in [Locks -> Tasks \cup {Free}]
    BY Zenon DEF IInv, Typed
  <2>3. LockStep(t) /\ lock'[kind[t]] = t
    BY <1>1, <1>2, <2>1, <2>2, Zenon DEF LockStep
  <2>4. pc'[t] = "sub_exchange" /\ "sub_exchange" \in Pcs
    BY <2>1, OwnFacts, Zenon DEF Pcs
  <2>5. Local(t)'
    BY <1>1, <1>2, <2>1, <2>3, <2>4, Zenon DEF Local, LocksHeld, InPlace, InHand, Unusable, Unpublished
  <2> QED BY <1>1, <2>1, <2>3, <2>4, <2>5, GoKeeps, Unchanging, Zenon
<1>7. CASE exchange_subscription(t) /\ ~End(t)
  <2> DEFINE k == [st |-> "fresh", rt |-> IF kind[t] = "openai" THEN "live" ELSE "none"]
  <2>1. /\ pc[t] = "sub_exchange" /\ hand' = [hand EXCEPT ![t] = k]
        /\ pc' = [pc EXCEPT ![t] = "sub_store"] /\ UNCHANGED <<lock, declined>>
    BY <1>7, Zenon DEF exchange_subscription, Sub, Goto
  <2>2. k \in Tokens /\ k.st = "fresh" /\ k.rt # "spent"
    BY Zenon DEF Tokens
  <2> HIDE DEF k
  <2> QED BY <1>1, <2>1, <2>2, IssuedKeeps, Zenon
<1>8. ASSUME continue_subscription_page(t) PROVE End(t) /\ declined' = declined
  BY <1>8, Zenon DEF continue_subscription_page
<1> QED BY <1>3, <1>4, <1>5, <1>6, <1>7, <1>8, Zenon

(* gateway_oidc: the status of a device login.                             *)
LEMMA NotSignedInKeeps ==
  ASSUME IInv, NEW t \in Tasks, pc[t] \in {"st_lock", "again_lock", "st_refresh"},
         NotSignedIn(t, Again(t)), StoreStep(t), SpentStep(t),
         UNCHANGED <<kind, hand, declined, pending, polls>>
  PROVE  IInv'
<1>1. CASE pending
  BY <1>1, EndKeeps, Unchanging, Zenon DEF NotSignedIn, Goto
<1>2. CASE ~pending
  <2>1. lock \in [Locks -> Tasks \cup {Free}] /\ hand[t].rt # "spent"
    BY OwnFacts, Zenon DEF IInv, Typed, Local, InHand
  <2>2. lock' = [l \in Locks |-> IF l = "gw" /\ lock[l] = t THEN Free ELSE lock[l]]
    BY <1>2, Zenon DEF NotSignedIn
  <2>3. LockStep(t)
    BY <2>1, <2>2, Zenon DEF LockStep
  <2>4. PICK l \in {"grant", "start_lock"} :
               pc' = [pc EXCEPT ![t] = l] /\ (l = "grant" => lock["start"] = t)
    BY <1>2, Zenon DEF NotSignedIn, Again, Goto
  <2>5. pc'[t] = l /\ l \in Pcs
    BY <2>4, OwnFacts, Zenon DEF Pcs
  <2>6. l = "grant" => lock'["start"] = t
    BY <2>2, <2>4, Names, Zenon
  <2>7. Local(t)'
    BY <1>2, <2>1, <2>5, <2>6, Zenon DEF Local, LocksHeld, InPlace, InHand, Unusable, Unpublished
  <2> QED BY <2>3, <2>4, <2>5, <2>7, TaskKeeps, Unchanging, Zenon
<1> QED BY <1>1, <1>2, Zenon

(* device_login_status takes the gateway's lock to read the stored token.  *)
LEMMA StatusKeeps ==
  ASSUME IInv, NEW t \in Tasks, device_login_status(t)
  PROVE  IInv'
<1>1. /\ pc[t] \in {"st_lock", "again_lock"} /\ hand[t].rt # "spent"
      /\ UNCHANGED <<kind, store, hand, declined, pending, polls, orphan>>
  BY OwnFacts, Zenon DEF device_login_status, Local, InHand
<1>2. SpentStep(t)
  BY <1>1, NotSaving, SpentKept, Zenon
<1>3. CASE Goto(t, "ended") /\ lock' = Released(t)
  BY <1>1, <1>3, EndIdleKeeps, Unchanging, Zenon DEF Goto
<1>4. CASE Goto(t, "st_refresh") /\ Acquire(t, "gw")
  <2>1. LockStep(t) /\ lock'["gw"] = t
    BY <1>4, Acquiring, Names, Zenon DEF Acquire
  <2>2. pc' = [pc EXCEPT ![t] = "st_refresh"] /\ "st_refresh" \in Pcs
    BY <1>4, Zenon DEF Goto, Pcs
  <2>3. pc'[t] = "st_refresh"
    BY <2>2, OwnFacts, Zenon
  <2>4. Local(t)'
    BY <1>1, <2>1, <2>3, Zenon DEF Local, LocksHeld, InPlace, InHand, Unusable, Unpublished
  <2> QED BY <1>1, <2>1, <2>2, <2>4, GoKeeps, Unchanging, Zenon
<1>5. CASE NotSignedIn(t, Again(t))
  BY <1>1, <1>2, <1>5, NotSignedInKeeps, Unchanging, Zenon
<1> QED BY <1>3, <1>4, <1>5, Zenon DEF device_login_status

(* The refresh of a stale token that device_login_status comes upon.       *)
LEMMA RefreshStatusKeeps ==
  ASSUME IInv, NEW t \in Tasks, refresh_status(t)
  PROVE  IInv'
<1>1. /\ pc[t] = "st_refresh" /\ lock["gw"] = t
      /\ UNCHANGED <<kind, declined, pending, polls>>
  BY OwnFacts, Zenon DEF refresh_status, Local, LocksHeld
<1>2. "gw" \in Services /\ \A u \in Services : ~Saving(t, u)
  BY <1>1, NotSaving, Names, Zenon
<1>3. CASE (Rotated(t, "gw") \/ Kept(t, "gw")) /\ Goto(t, "st_save") /\ UNCHANGED <<lock, orphan, faults>>
  <2>1. pc' = [pc EXCEPT ![t] = "st_save"] /\ lock' = lock /\ orphan' = orphan
    BY <1>3, Zenon DEF Goto
  <2>2. StoreStep(t) /\ HandStep(t) /\ hand'[t].st = "fresh" /\ hand'[t].rt # "spent"
    BY <1>1, <1>2, <1>3, RefreshStep, Zenon
  <2>3. pc'[t] = "st_save"
    BY <2>1, OwnFacts, Zenon
  <2>4. Saving(t, "gw")' /\ "st_save" \in Pcs
    BY <1>1, <2>1, <2>3, Zenon DEF Saving, Pcs
  <2>5. SpentStep(t)
    <3>1. CASE Rotated(t, "gw")
      BY <1>1, <1>2, <2>1, <2>4, <3>1, RefreshStep, Zenon
    <3>2. CASE store' = store
      BY <1>2, <2>1, <3>2, SpentKept, Zenon
    <3> QED BY <1>3, <3>1, <3>2, Zenon DEF Kept
  <2>6. Local(t)'
    BY <1>1, <2>1, <2>2, <2>3, Zenon DEF Local, LocksHeld, InPlace, InHand, Unusable, Unpublished
  <2> QED BY <1>1, <2>1, <2>2, <2>4, <2>5, <2>6, TaskKeeps, Unchanging, Zenon
<1>4. CASE ReplyLost("gw") /\ NotSignedIn(t, Again(t)) /\ UNCHANGED hand
  <2>1. StoreStep(t) /\ SpentStep(t)
    BY <1>1, <1>2, <1>4, RefreshStep, Zenon
  <2> QED BY <1>1, <1>4, <2>1, NotSignedInKeeps, Zenon
<1>5. CASE NotSignedIn(t, Again(t)) /\ UNCHANGED <<store, hand, orphan, faults>>
  <2>1. SpentStep(t)
    BY <1>2, <1>5, SpentKept, Zenon
  <2> QED BY <1>1, <1>5, <2>1, NotSignedInKeeps, Unchanging, Zenon
<1> QED BY <1>3, <1>4, <1>5, Zenon DEF refresh_status

(* The write of the token that device_login_status refreshed.              *)
LEMMA SaveStatusKeeps ==
  ASSUME IInv, NEW t \in Tasks, save_status(t)
  PROVE  IInv'
<1>1. /\ pc[t] = "st_save" /\ lock["gw"] = t /\ "gw" \in Services
      /\ \A u \in Services : Saving(t, u) => u = "gw"
  BY OwnFacts, Names, Zenon DEF save_status, Local, LocksHeld, Saving
<1>2. CASE SaveFails(t, "gw")
  BY <1>1, <1>2, SaveFailsKeeps, Zenon
<1>3. CASE ~SaveFails(t, "gw")
  <2>1. Saved(t, "gw") /\ End(t) /\ UNCHANGED <<kind, declined, pending, polls>>
    BY <1>3, Zenon DEF save_status
  <2>2. StoreStep(t) /\ SpentStep(t)
    BY <1>1, <2>1, SavedStep, Zenon
  <2> QED BY <2>1, <2>2, EndKeeps, Unchanging, Zenon DEF End, Goto
<1> QED BY <1>2, <1>3, Zenon

(* A request takes the lock of starting logins and looks at the stored     *)
(* token again.                                                            *)
LEMMA StartingKeeps ==
  ASSUME IInv, NEW t \in Tasks, starting_lock(t)
  PROVE  IInv'
<1>1. /\ pc[t] = "start_lock" /\ Acquire(t, "start") /\ hand[t].rt # "spent"
      /\ pc' = [pc EXCEPT ![t] = "again_lock"] /\ "again_lock" \in Pcs
      /\ UNCHANGED <<kind, store, hand, declined, pending, polls, orphan>>
  BY OwnFacts, Zenon DEF starting_lock, Goto, Pcs, Local, InHand
<1>2. LockStep(t) /\ lock'["start"] = t
  BY <1>1, Acquiring, Names, Zenon DEF Acquire
<1>3. pc'[t] = "again_lock"
  BY <1>1, OwnFacts, Zenon
<1>4. Local(t)'
  BY <1>1, <1>2, <1>3, Zenon DEF Local, LocksHeld, InPlace, InHand, Unusable, Unpublished
<1> QED BY <1>1, <1>2, <1>4, GoKeeps, Unchanging, Zenon

(* The grant: no login is published when the holder of the start lock      *)
(* asks for one.                                                           *)
LEMMA GrantKeeps ==
  ASSUME IInv, NEW t \in Tasks, request_device_grant(t)
  PROVE  IInv'
<1>1. /\ pc[t] = "grant" /\ lock["start"] = t /\ ~pending
      /\ pc' = [pc EXCEPT ![t] = "ended"] /\ lock' = Released(t) /\ "ended" \in Pcs
      /\ hand' = [hand EXCEPT ![t] = NoTokens]
      /\ UNCHANGED <<kind, store, declined, orphan>>
  BY OwnFacts, Zenon DEF request_device_grant, End, Goto, Pcs, Local, LocksHeld, Unpublished
<1>2. CASE UNCHANGED <<pending, polls>>
  BY <1>1, <1>2, EndIdleKeeps, Unchanging, Zenon
<1>3. CASE ~UNCHANGED <<pending, polls>>
  <2>1. pending' = TRUE /\ \E i \in 1..2 : polls' = [polls EXCEPT ![i] = "polling"]
    BY <1>3, Zenon DEF request_device_grant
  <2>2. polls \in [1..2 -> {"none", "polling", "granted", "saved"}] /\ ~Live(1) /\ ~Live(2)
    BY <1>1, Zenon DEF IInv, Typed, Published
  <2>3. PublishStep(t)
    BY <1>1, <2>1, <2>2 DEF PublishStep, Published, Live
  <2>4. HandStep(t) /\ hand'[t].rt # "spent"
    BY <1>1, Taking, Names, Zenon
  <2>5. SpentStep(t)
    BY <1>1, NotSaving, SpentKept, Zenon
  <2>6. pc'[t] = "ended"
    BY <1>1, OwnFacts, Zenon
  <2>7. Local(t)'
    BY <2>4, <2>6, Zenon DEF Local, LocksHeld, InPlace, InHand, Unusable, Unpublished
  <2> QED BY <1>1, <2>3, <2>4, <2>5, <2>7, Releasing, Unchanging, OthersKeep, Zenon
<1> QED BY <1>2, <1>3, Zenon

(* A step outside the tasks changes stored tokens only to unusable ones or *)
(* while nobody holds the lock of their service.                           *)
LEMMA SurroundingKeeps ==
  ASSUME IInv, UNCHANGED <<pc, kind, lock, hand, declined>>,
         store' \in [Services -> Tokens],
         \A s \in Services : store'[s] = store[s] \/ store'[s].st # "fresh" \/ lock[s] = Free,
         \A s \in Services : store'[s].rt = "spent" /\ s \notin orphan' =>
                               store[s].rt = "spent" /\ s \notin orphan,
         Published', pending' => pending, pending' \in BOOLEAN,
         polls' \in [1..2 -> {"none", "polling", "granted", "saved"}]
  PROVE  IInv'
<1>1. Typed'
  BY Zenon DEF IInv, Typed
<1>2. ASSUME NEW t \in Tasks PROVE Local(t)'
  <2>1. Local(t) /\ t # Free
    BY TasksNamed, Zenon DEF IInv, Free
  <2>2. \A s \in Services : lock[s] = t /\ store[s].st # "fresh" => store'[s].st # "fresh"
    BY <2>1, Zenon
  <2>3. /\ "gw" \in Services /\ "gh" \in Services
        /\ kind[t] \in Subs => kind[t] \in Services
    BY Names, Zenon
  <2>4. LocksHeld(t)' /\ InPlace(t)' /\ InHand(t)' /\ Unpublished(t)'
    BY <2>1, Zenon DEF Local, LocksHeld, InPlace, InHand, Unpublished
  <2>5. Unusable(t)'
    BY <2>1, <2>2, <2>3, Zenon DEF Local, LocksHeld, InPlace, Unusable
  <2> QED BY <2>4, <2>5, Zenon DEF Local
<1>3. SpentSaved'
  BY Zenon DEF IInv, SpentSaved, Saving
<1> QED BY <1>1, <1>2, <1>3, Zenon DEF IInv

(* The background poll of a device grant and its end.                      *)
LEMMA PollKeeps ==
  ASSUME IInv, NEW i \in 1..2, Poll(i)
  PROVE  IInv'
<1>1. /\ polls \in [1..2 -> {"none", "polling", "granted", "saved"}] /\ store \in [Services -> Tokens]
      /\ polls[i] # "none" /\ pending \in BOOLEAN
      /\ UNCHANGED <<pc, kind, lock, hand, declined>>
  BY Zenon DEF Poll, poll_device_token, complete_device_login, IInv, Typed
<1>2. PICK l \in {"none", "granted", "saved"} :
             /\ polls' = [polls EXCEPT ![i] = l]
             /\ IF l = "none" THEN pending' = FALSE ELSE pending' = pending
  BY Zenon DEF Poll, poll_device_token, complete_device_login
<1>3. Published' /\ (pending' => pending) /\ pending' \in BOOLEAN
      /\ polls' \in [1..2 -> {"none", "polling", "granted", "saved"}]
  <2>1. i = 1 \/ i = 2
    OBVIOUS
  <2>2. Published
    BY Zenon DEF IInv
  <2>3. polls' \in [1..2 -> {"none", "polling", "granted", "saved"}]
    BY <1>1, <1>2, Zenon
  <2>4. polls'[i] = l /\ \A j \in 1..2 : j # i => polls'[j] = polls[j]
    BY <1>1, <1>2, Zenon
  <2>5. CASE i = 1
    <3>1. polls'[1] = l /\ polls'[2] = polls[2] /\ polls[1] # "none" /\ polls[2] = "none"
      BY <1>1, <2>2, <2>4, <2>5 DEF Published, Live
    <3> QED BY <1>1, <1>2, <2>2, <2>3, <3>1, Zenon DEF Published, Live
  <2>6. CASE i = 2
    <3>1. polls'[2] = l /\ polls'[1] = polls[1] /\ polls[2] # "none" /\ polls[1] = "none"
      BY <1>1, <2>2, <2>4, <2>6 DEF Published, Live
    <3> QED BY <1>1, <1>2, <2>2, <2>3, <3>1, Zenon DEF Published, Live
  <2> QED BY <2>1, <2>5, <2>6, Zenon
<1>4. CASE UNCHANGED <<store, orphan>>
  BY <1>1, <1>3, <1>4, SurroundingKeeps, Zenon
<1>5. CASE ~UNCHANGED <<store, orphan>>
  <2>1. /\ lock["gw"] = Free /\ \E k \in Issued : store' = [store EXCEPT !["gw"] = k]
        /\ orphan' = orphan \ {"gw"}
    BY <1>5, Zenon DEF Poll, poll_device_token, complete_device_login
  <2>2. /\ store' \in [Services -> Tokens] /\ store'["gw"].rt # "spent"
        /\ \A s \in Services : s # "gw" => store'[s] = store[s] /\ (s \in orphan' <=> s \in orphan)
    BY <1>1, <2>1, IssuedTokens, Names, ZenonT(30)
  <2> QED BY <1>1, <1>3, <2>1, <2>2, SurroundingKeeps, Zenon
<1> QED BY <1>4, <1>5, Zenon

(* A token expires.                                                        *)
LEMMA ExpireKeeps ==
  ASSUME IInv, NEW s \in Services, Expire(s)
  PROVE  IInv'
<1>1. /\ store \in [Services -> Tokens] /\ store' = [store EXCEPT ![s].st = "stale"]
      /\ UNCHANGED <<kind, lock, pc, hand, declined, pending, polls, orphan>>
  BY Zenon DEF Expire, IInv, Typed
<1>2. /\ store' \in [Services -> Tokens] /\ store'[s].st # "fresh" /\ store'[s].rt = store[s].rt
      /\ \A u \in Services : u # s => store'[u] = store[u]
  BY <1>1, Zenon DEF Tokens
<1>3. Published' /\ pending \in BOOLEAN /\ polls \in [1..2 -> {"none", "polling", "granted", "saved"}]
  BY <1>1, Zenon DEF IInv, Typed, Published, Live
<1> QED BY <1>1, <1>2, <1>3, SurroundingKeeps, Zenon

(* A callback, a page that is taken down, and a stuttering step.           *)
LEMMA AsideKeeps ==
  ASSUME IInv, UNCHANGED <<kind, store, lock, pc, hand, declined, pending, polls, orphan>>
  PROVE  IInv'
<1>1. /\ Published' /\ pending \in BOOLEAN /\ polls \in [1..2 -> {"none", "polling", "granted", "saved"}]
      /\ store \in [Services -> Tokens]
  BY Zenon DEF IInv, Typed, Published, Live
<1> QED BY <1>1, SurroundingKeeps, Zenon

(* A login whose caller went away, in the middle of a save at worst.       *)
LEMMA DisconnectKeeps ==
  ASSUME IInv, NEW t \in Tasks, Disconnect(t)
  PROVE  IInv'
<1>1. /\ pc' = [pc EXCEPT ![t] = "ended"] /\ lock' = Released(t)
      /\ hand' = [hand EXCEPT ![t] = NoTokens]
      /\ UNCHANGED <<kind, store, declined, pending, polls>>
  BY Zenon DEF Disconnect, End, Goto
<1>2. kind[t] = "login" /\ pc[t] \notin {"gw_save", "gh_save", "sub_save"}
  BY OwnFacts, Zenon DEF Disconnect, Local, InPlace
<1>3. /\ orphan \subseteq orphan'
      /\ \A s \in Services : Saving(t, s) => store[s].rt # "spent" \/ s \in orphan'
  BY <1>2, Zenon DEF Disconnect, Saving
<1>4. SpentStep(t)
  BY <1>1, <1>3, SpentKept, Zenon
<1> QED BY <1>1, <1>4, EndKeeps, Unchanging, Zenon

(* The daemon dies: only the secret store remains.                         *)
LEMMA CrashKeeps ==
  ASSUME IInv, Crash
  PROVE  IInv'
<1>1. /\ \A t \in Tasks : pc'[t] \in {"new", "ended"} /\ hand'[t] = NoTokens
      /\ declined' = {} /\ pending' = FALSE /\ polls' = [i \in 1..2 |-> "none"]
      /\ orphan' = {s \in Services : store[s].rt = "spent"} /\ UNCHANGED <<kind, store>>
  BY Zenon DEF Crash
<1>2. Typed'
  <2>1. /\ pc' \in [Tasks -> Pcs] /\ lock' \in [Locks -> Tasks \cup {Free}]
        /\ hand' \in [Tasks -> Tokens]
    BY Names, Zenon DEF Crash, Pcs
  <2> QED BY <1>1, <2>1, Zenon DEF IInv, Typed
<1>3. ASSUME NEW t \in Tasks PROVE Local(t)'
  BY <1>1, Names, Zenon DEF Local, LocksHeld, InPlace, InHand, Unusable, Unpublished
<1>4. Published'
  BY <1>1 DEF Published, Live
<1>5. SpentSaved'
  BY <1>1, Zenon DEF SpentSaved
<1> QED BY <1>2, <1>3, <1>4, <1>5, Zenon DEF IInv

(* Every step keeps the invariant.                                         *)
LEMMA StepKeeps ==
  ASSUME IInv, [Next]_vars
  PROVE  IInv'
<1>1. ASSUME NEW t \in Tasks, Step(t) PROVE IInv'
  BY <1>1, CredentialKeeps, RefreshKeeps, SaveRefreshedKeeps, BrowserKeeps, SaveSignedInKeeps,
     AcquireGitHubKeeps, RefreshGitHubKeeps, SaveGitHubKeeps, GitHubDeviceKeeps,
     SubscriptionKeeps, RefreshSubscriptionKeeps, SaveSubscriptionKeeps, SubscriptionPageKeeps,
     StatusKeeps, RefreshStatusKeeps, SaveStatusKeeps, StartingKeeps, GrantKeeps, Zenon DEF Step
<1>2. ASSUME NEW t \in Tasks, Answer(t) PROVE IInv'
  BY <1>2, BrowserKeeps, SubscriptionPageKeeps, Zenon DEF Answer
<1>3. ASSUME NEW t \in Tasks, Start(t) \/ start_device_login_if_configured(t) \/ Disconnect(t) PROVE IInv'
  BY <1>3, StartKeeps, DisconnectKeeps, Zenon
<1>4. ASSUME (\E t \in Tasks : callback(t)) \/ PageAborted \/ UNCHANGED vars PROVE IInv'
  <2>1. UNCHANGED <<kind, store, lock, pc, hand, declined, pending, polls, orphan>>
    BY <1>4, Zenon DEF callback, PageAborted, vars
  <2> QED BY <2>1, AsideKeeps, Zenon
<1> QED BY <1>1, <1>2, <1>3, <1>4, PollKeeps, ExpireKeeps, CrashKeeps, Zenon DEF Next

(* The invariant holds at launch, with nothing stored or a stale token.    *)
LEMMA InitHolds == Init => IInv
<1> SUFFICES ASSUME Init PROVE IInv
  BY Zenon
<1>1. store \in [Services -> Tokens] /\ \A s \in Services : store[s].rt # "spent"
  <2>1. NoTokens \in Tokens /\ [st |-> "stale", rt |-> "live"] \in Tokens
    BY Zenon DEF NoTokens, Tokens
  <2>2. NoTokens.rt # "spent" /\ [st |-> "stale", rt |-> "live"].rt # "spent"
    BY Zenon DEF NoTokens
  <2> QED BY <2>1, <2>2, Zenon DEF Init
<1>2. Typed
  <2>1. kind \in [Tasks -> AllKinds]
    BY KindsKnown, Zenon DEF Init
  <2> QED BY <1>1, <2>1, Names, Zenon DEF Init, Typed, Pcs
<1>3. \A t \in Tasks : pc[t] = "new" /\ hand[t] = NoTokens
  BY Zenon DEF Init
<1>4. \A t \in Tasks : Local(t)
  BY <1>3, Names, Zenon DEF Local, LocksHeld, InPlace, InHand, Unusable, Unpublished
<1>5. Published
  BY DEF Init, Published, Live
<1>6. SpentSaved
  BY <1>1, Zenon DEF SpentSaved
<1> QED BY <1>2, <1>4, <1>5, <1>6, Zenon DEF IInv

(* The inductive invariant holds in every reachable state.                 *)
THEOREM Invariance == Spec => []IInv
<1>1. IInv /\ [Next]_vars => IInv'
  BY StepKeeps, Zenon
<1> QED BY <1>1, InitHolds, PTL DEF Spec

(* However many logins, configurations and program choices start a device  *)
(* login at once, one background poll runs at most and a login is          *)
(* published exactly while it runs (device_login).                         *)
THEOREM OneGrantAtATime == Spec => []OneGrant
<1>1. ASSUME IInv PROVE OneGrant
  <2>1. Published /\ pending \in BOOLEAN
    BY <1>1, Zenon DEF IInv, Typed
  <2>2. pending <=> \E i \in 1..2 : Live(i)
    BY <2>1 DEF Published
  <2>3. \A i, j \in 1..2 : Live(i) /\ Live(j) => i = j
    BY <2>1 DEF Published
  <2> QED BY <2>2, <2>3, Zenon DEF OneGrant
<1> QED BY <1>1, Invariance, PTL

(* A refresh token the provider has replaced stays in the store only while *)
(* its successor is about to be saved, unless a fault came between:        *)
(* credential calls outlive their callers.                                 *)
THEOREM RotatedTokensSaved == Spec => []RotatedTokenSaved
<1>1. ASSUME IInv PROVE RotatedTokenSaved
  <2>1. \A t \in Tasks, s \in Services : Saving(t, s) => lock[s] = t /\ hand[t].st = "fresh"
    BY <1>1, Zenon DEF IInv, Local, InHand, Saving
  <2> QED BY <1>1, <2>1, Zenon DEF IInv, SpentSaved, RotatedTokenSaved
<1> QED BY <1>1, Invariance, PTL

(* Of any number of requests one at a time asks the user to sign in to a   *)
(* service, only while the stored token is not usable, and never for a     *)
(* subscription the user skipped.                                          *)
THEOREM SignInIsNeeded == Spec => []NoNeedlessSignIn
<1>1. ASSUME IInv, NEW s \in Services, NEW t \in Tasks, Asking(t, s)
      PROVE  store[s].st # "fresh" /\ s \notin declined /\ lock[s] = t
  <2>1. Local(t) /\ declined \subseteq Subs
    BY <1>1, Zenon DEF IInv, Typed
  <2> QED BY <1>1, <2>1, Zenon DEF Asking, Sub, Subs, Local, LocksHeld, Unusable
<1>2. IInv => NoNeedlessSignIn
  BY <1>1, Zenon DEF NoNeedlessSignIn
<1> QED BY <1>2, Invariance, PTL
=============================================================================
