------------------------------ MODULE SignIns ------------------------------
(***************************************************************************)
(* The agent's OAuth sign-ins: the gateway identity (gateway_oidc.rs), its *)
(* device authorization, GitHub (github_oauth.rs), the Claude and ChatGPT  *)
(* subscriptions (subscription_oauth/) and the local callback pages of     *)
(* oidc.rs.  Requests of programs run concurrently; each service keeps its *)
(* tokens in the secret store behind its own lock, refresh tokens rotate,  *)
(* and all pages share one loopback port.  A provider call without a       *)
(* timeout may stay unanswered for ever; every other wait is bounded.      *)
(***************************************************************************)
EXTENDS Naturals

CONSTANTS Tasks,        \* requests, one credential or login call each
          Kinds,        \* what a request may be
          Modes,        \* how the gateway authenticates: "browser", "device", "jwt"
          GitHub,       \* the gateway asks for a GitHub sign-in too
          MaxExpiries,  \* stored access tokens that expire
          MaxFaults     \* failed saves, lost replies and daemon crashes

AllKinds == {"proxy", "github", "anthropic", "openai", "login", "start"}
ASSUME TasksNamed == Tasks \cap {"free", "linger"} = {}
ASSUME KindsKnown == Kinds \subseteq AllKinds /\ Modes \subseteq {"browser", "device", "jwt"}
ASSUME BoundsNat == MaxExpiries \in Nat /\ MaxFaults \in Nat /\ GitHub \in BOOLEAN

Subs == {"anthropic", "openai"}
Services == {"gw", "gh"} \cup Subs
Ports == {"prompt", "openai"}
Free == "free"
\* Tokens as stored: whether the access token is usable beyond the 60 s skew,
\* and whether the refresh token is the provider's current one.
Tokens == [st : {"none", "fresh", "stale"}, rt : {"none", "live", "spent"}]
NoTokens == [st |-> "none", rt |-> "none"]
Locks == Services \cup {"listener", "start"}

VARIABLES mode,      \* the gateway's authentication
          store,     \* tokens per service, in the secret store
          lock,      \* lock -> the task that holds it
          kind, pc,  \* per task: the request and where it is
          inter,     \* per task: the gateway sign-in was interactive
          hand,      \* per task: tokens received and not yet saved
          bound,     \* port -> the task or page that listens on it
          page,      \* per task: what its page's oneshot has received
          declined,  \* subscriptions skipped since the daemon started
          pending,   \* a device login is published for the account
          polls,     \* slot -> state of a background poll for a device grant
          orphan,    \* services whose rotated tokens a fault lost
          expiries, faults

vars == <<mode, store, lock, kind, pc, inter, hand, bound, page, declined, pending, polls,
          orphan, expiries, faults>>

Pcs == {"new", "ended",
        "gw_lock", "gw_refresh", "gw_save", "gw_discover", "gw_bind", "gw_page", "gw_exchange", "gw_store",
        "gh_lock", "gh_refresh", "gh_save", "gh_shown", "gh_code", "gh_bind", "gh_poll", "gh_store",
        "sub_lock", "sub_refresh", "sub_save", "sub_ready", "sub_declined", "sub_viewed",
        "sub_listen", "sub_page", "sub_exchange", "sub_store",
        "st_lock", "st_refresh", "st_save", "start_lock", "again_lock", "grant"}

TypeOK ==
  /\ mode \in Modes
  /\ store \in [Services -> Tokens]
  /\ lock \in [Locks -> Tasks \cup {Free}]
  /\ kind \in [Tasks -> AllKinds]
  /\ pc \in [Tasks -> Pcs]
  /\ inter \in [Tasks -> BOOLEAN]
  /\ hand \in [Tasks -> Tokens]
  /\ bound \in [Ports -> Tasks \cup {Free, "linger"}]
  /\ page \in [Tasks -> {"none", "open", "code", "skip", "error"}]
  /\ declined \subseteq Subs
  /\ pending \in BOOLEAN
  /\ polls \in [1..2 -> {"none", "polling", "granted", "saved"}]
  /\ orphan \subseteq Services
  /\ expiries \in 0..MaxExpiries /\ faults \in 0..MaxFaults

Init ==
  /\ mode \in Modes
  /\ store \in [Services -> {NoTokens, [st |-> "stale", rt |-> "live"]}]
  /\ store["anthropic"] = NoTokens /\ store["openai"] = store["gw"]
  /\ lock = [l \in Locks |-> Free]
  /\ kind \in [Tasks -> Kinds]
  /\ pc = [t \in Tasks |-> "new"]
  /\ inter = [t \in Tasks |-> FALSE]
  /\ hand = [t \in Tasks |-> NoTokens]
  /\ bound = [q \in Ports |-> Free]
  /\ page = [t \in Tasks |-> "none"]
  /\ declined = {}
  /\ pending = FALSE
  /\ polls = [i \in 1..2 |-> "none"]
  /\ orphan = {}
  /\ expiries = 0 /\ faults = 0

(***************************************************************************)
(* Steps common to the flows.                                              *)
(***************************************************************************)

Goto(t, l) == pc' = [pc EXCEPT ![t] = l]
Acquire(t, l) == lock[l] = Free /\ lock' = [lock EXCEPT ![l] = t]
Released(t) == [l \in Locks |-> IF lock[l] = t THEN Free ELSE lock[l]]
Unbound(t) == [q \in Ports |-> IF bound[q] = t THEN Free ELSE bound[q]]
Closed(t) == page' = [page EXCEPT ![t] = "none"] /\ bound' = Unbound(t)

\* The request is over: guards are dropped, the servers shut down.
End(t) ==
  /\ Goto(t, "ended")
  /\ lock' = Released(t)
  /\ Closed(t)
  /\ hand' = [hand EXCEPT ![t] = NoTokens]

\* A new access token, with or without a refresh token.
Issued == [st : {"fresh"}, rt : {"none", "live"}]
Refreshable(s) == store[s].st = "stale" /\ store[s].rt # "none"

\* A refresh request: the provider may rotate the token (the stored one is
\* spent from then on) or keep it; a spent one is refused.
Rotated(t, s) ==
  /\ store[s].rt = "live"
  /\ store' = [store EXCEPT ![s].rt = "spent"]
  /\ hand' = [hand EXCEPT ![t] = [st |-> "fresh", rt |-> "live"]]

Kept(t, s) ==
  /\ store[s].rt = "live"
  /\ hand' = [hand EXCEPT ![t] = [st |-> "fresh", rt |-> "live"]]
  /\ UNCHANGED store

\* GitHub's answer replaces the stored tokens, without a refresh token too.
Forgotten(t, s) ==
  /\ store[s].rt = "live"
  /\ hand' = [hand EXCEPT ![t] = [st |-> "fresh", rt |-> "none"]]
  /\ UNCHANGED store

\* The answer is lost, late or invalid after the provider has rotated.
ReplyLost(s) ==
  /\ store[s].rt = "live" /\ faults < MaxFaults
  /\ faults' = faults + 1
  /\ store' = [store EXCEPT ![s].rt = "spent"]
  /\ orphan' = orphan \cup {s}

Saved(t, s) ==
  /\ store' = [store EXCEPT ![s] = hand[t]]
  /\ orphan' = orphan \ {s}

\* SecretStore::set fails: the request ends with the error.
SaveFails(t, s) ==
  /\ faults < MaxFaults
  /\ faults' = faults + 1
  /\ End(t)
  /\ orphan' = IF store[s].rt = "spent" THEN orphan \cup {s} ELSE orphan
  /\ UNCHANGED <<mode, store, kind, inter, declined, pending, polls, expiries>>

frame == <<mode, kind, expiries>>

(***************************************************************************)
(* Requests start (api.rs, llm_proxy.rs, daemon.rs).                       *)
(***************************************************************************)

StartsAt(k) ==
  CASE k = "github" -> "gh_lock"
    [] k = "login" -> "st_lock"
    [] k \in Subs /\ mode = "jwt" -> "sub_lock"
    [] k = "proxy" \/ (k \in Subs /\ mode # "jwt") -> "gw_lock"

Start(t) ==
  /\ pc[t] = "new" /\ kind[t] # "start"
  /\ kind[t] = "proxy" => mode # "jwt"
  /\ kind[t] = "login" => mode = "device"
  /\ Goto(t, StartsAt(kind[t]))
  /\ UNCHANGED <<frame, store, lock, inter, hand, bound, page, declined, pending, polls, orphan, faults>>

\* At startup, with each applied configuration and each program choice.
start_device_login_if_configured(t) ==
  /\ pc[t] = "new" /\ kind[t] = "start"
  /\ mode = "device"
  /\ Goto(t, "st_lock")
  /\ UNCHANGED <<frame, store, lock, inter, hand, bound, page, declined, pending, polls, orphan, faults>>

(***************************************************************************)
(* gateway_oidc::credential_inner and stored_credential.                   *)
(***************************************************************************)

\* With the identity at hand a subscription request goes on; others end.
IdentityReady(t) ==
  /\ lock' = Released(t)
  /\ Goto(t, IF kind[t] \in Subs THEN "sub_lock" ELSE "ended")

\* Under LOGIN: a usable token, a refresh, SignInRequired, or the browser.
credential_inner(t) ==
  /\ pc[t] = "gw_lock"
  /\ lock["gw"] = Free
  /\ \/ /\ store["gw"].st = "fresh"
        /\ IdentityReady(t)
     \/ /\ Refreshable("gw")
        /\ Acquire(t, "gw") /\ Goto(t, "gw_refresh")
     \/ /\ store["gw"].st # "fresh" /\ ~Refreshable("gw")
        /\ IF mode = "device"
           THEN UNCHANGED lock /\ Goto(t, "ended")
           ELSE Acquire(t, "gw") /\ Goto(t, "gw_discover")
  /\ UNCHANGED <<frame, store, inter, hand, bound, page, declined, pending, polls, orphan, faults>>

\* What a refresh that failed leads to.
SignInAgain(t) ==
  IF mode = "device"
  THEN /\ lock' = Released(t) /\ Goto(t, "ended")
  ELSE UNCHANGED lock /\ Goto(t, "gw_discover")

refresh_access_token(t) ==
  /\ pc[t] = "gw_refresh"
  /\ \/ (Rotated(t, "gw") \/ Kept(t, "gw")) /\ Goto(t, "gw_save") /\ UNCHANGED <<lock, orphan, faults>>
     \/ ReplyLost("gw") /\ SignInAgain(t) /\ UNCHANGED hand
     \/ SignInAgain(t) /\ UNCHANGED <<store, hand, orphan, faults>>
  /\ UNCHANGED <<frame, inter, bound, page, declined, pending, polls>>

save_refreshed(t) ==
  /\ pc[t] = "gw_save"
  /\ \/ /\ Saved(t, "gw")
        /\ hand' = [hand EXCEPT ![t] = NoTokens]
        /\ IdentityReady(t)
        /\ UNCHANGED <<frame, inter, bound, page, declined, pending, polls, faults>>
     \/ SaveFails(t, "gw")

\* No timeout: the provider's metadata, then the callback page.
discover(t) ==
  /\ pc[t] = "gw_discover"
  /\ \/ Goto(t, "gw_bind") /\ UNCHANGED <<lock, hand, bound, page>>
     \/ End(t)
  /\ UNCHANGED <<frame, store, inter, declined, pending, polls, orphan, faults>>

\* bind_callback fails while another page of the daemon has the port.
Bind(t, ports, l) ==
  \/ /\ \A q \in ports : bound[q] = Free
     /\ bound' = [q \in Ports |-> IF q \in ports THEN t ELSE bound[q]]
     /\ page' = [page EXCEPT ![t] = "open"]
     /\ Goto(t, l)
     /\ UNCHANGED <<lock, hand>>
  \/ /\ \E q \in ports : bound[q] # Free
     /\ End(t)

open_gateway_page(t) ==
  /\ pc[t] = "gw_bind"
  /\ Bind(t, {"prompt"}, "gw_page")
  /\ UNCHANGED <<frame, store, inter, declined, pending, polls, orphan, faults>>

\* The routes that answer the page's oneshot: only a subscription page has a
\* skip route.
Answers(t) == {"code", "error"} \cup (IF pc[t] = "sub_page" THEN {"skip"} ELSE {})

\* It is answered once; a wrong state or a provider error counts.
callback(t) ==
  /\ page[t] = "open"
  /\ \E r \in Answers(t) : page' = [page EXCEPT ![t] = r]
  /\ UNCHANGED <<frame, store, lock, pc, inter, hand, bound, declined, pending, polls, orphan, faults>>

\* Mutant of wait_for_code: no timeout.
WaitForCodeForever(t) ==
  /\ pc[t] = "gw_page"
  /\ \/ /\ page[t] = "code"
        /\ Closed(t) /\ Goto(t, "gw_exchange")
        /\ UNCHANGED <<lock, hand>>
     \/ page[t] = "error" /\ End(t)
  /\ UNCHANGED <<frame, store, inter, declined, pending, polls, orphan, faults>>

\* A code, an error or CALLBACK_TIMEOUT; both servers are shut down first.
wait_for_code(t) ==
  /\ pc[t] = "gw_page"
  /\ \/ /\ page[t] = "code"
        /\ Closed(t) /\ Goto(t, "gw_exchange")
        /\ UNCHANGED <<lock, hand>>
     \/ page[t] \in {"open", "error"} /\ End(t)
  /\ UNCHANGED <<frame, store, inter, declined, pending, polls, orphan, faults>>

exchange_authorization_code(t) ==
  /\ pc[t] = "gw_exchange"
  /\ \/ /\ \E k \in Issued : hand' = [hand EXCEPT ![t] = k]
        /\ Goto(t, "gw_store")
        /\ UNCHANGED <<lock, bound, page>>
     \/ End(t)
  /\ UNCHANGED <<frame, store, inter, declined, pending, polls, orphan, faults>>

\* The GitHub sign-in continues in the same browser tab, LOGIN still held.
save_signed_in(t) ==
  /\ pc[t] = "gw_store"
  /\ \/ /\ Saved(t, "gw")
        /\ hand' = [hand EXCEPT ![t] = NoTokens]
        /\ inter' = [inter EXCEPT ![t] = TRUE]
        /\ IF kind[t] = "proxy" /\ GitHub
           THEN Goto(t, "gh_lock") /\ UNCHANGED lock
           ELSE IdentityReady(t)
        /\ UNCHANGED <<frame, bound, page, declined, pending, polls, faults>>
     \/ SaveFails(t, "gw")

(***************************************************************************)
(* github_oauth::credential.                                               *)
(***************************************************************************)

acquire_github(t) ==
  /\ pc[t] = "gh_lock"
  /\ Acquire(t, "gh")
  /\ Goto(t, IF store["gh"].st = "fresh" THEN "gh_shown"
             ELSE IF Refreshable("gh") THEN "gh_refresh" ELSE "gh_code")
  /\ UNCHANGED <<frame, store, inter, hand, bound, page, declined, pending, polls, orphan, faults>>

\* A failure page replaces the one the waiting tab asks for, if it can bind.
GitHubFails(t) ==
  /\ Goto(t, "ended")
  /\ lock' = Released(t)
  /\ hand' = [hand EXCEPT ![t] = NoTokens]
  /\ page' = [page EXCEPT ![t] = "none"]
  /\ bound' = IF inter[t] /\ bound["prompt"] = Free
              THEN [bound EXCEPT !["prompt"] = "linger"] ELSE bound

refresh_github(t) ==
  /\ pc[t] = "gh_refresh"
  /\ \/ /\ Rotated(t, "gh") \/ Forgotten(t, "gh")
        /\ Goto(t, "gh_save") /\ UNCHANGED <<lock, bound, page, orphan, faults>>
     \/ ReplyLost("gh") /\ GitHubFails(t)
     \/ Goto(t, "gh_code") /\ UNCHANGED <<store, lock, hand, bound, page, orphan, faults>>
     \/ GitHubFails(t) /\ UNCHANGED <<store, orphan, faults>>
  /\ UNCHANGED <<frame, inter, declined, pending, polls>>

GitHubSaveFails(t) ==
  /\ faults < MaxFaults
  /\ faults' = faults + 1
  /\ orphan' = IF store["gh"].rt = "spent" THEN orphan \cup {"gh"} ELSE orphan
  /\ UNCHANGED store

save_github(t) ==
  /\ pc[t] = "gh_save"
  /\ \/ /\ Saved(t, "gh")
        /\ hand' = [hand EXCEPT ![t] = NoTokens]
        /\ Goto(t, "gh_shown")
        /\ UNCHANGED <<lock, bound, page, faults>>
     \/ GitHubSaveFails(t) /\ GitHubFails(t)
  /\ UNCHANGED <<frame, inter, declined, pending, polls>>

\* A continued flow shows the result page, which stays up for 60 s; without
\* a port the request fails although the token is stored.
show_connected(t) ==
  /\ pc[t] = "gh_shown"
  /\ bound' = IF inter[t] /\ bound["prompt"] = Free
              THEN [bound EXCEPT !["prompt"] = "linger"] ELSE bound
  /\ lock' = Released(t) /\ Goto(t, "ended")
  /\ UNCHANGED <<frame, store, inter, hand, page, declined, pending, polls, orphan, faults>>

request_device_code(t) ==
  /\ pc[t] = "gh_code"
  /\ \/ Goto(t, "gh_bind") /\ UNCHANGED <<lock, hand, bound, page>>
     \/ GitHubFails(t)
  /\ UNCHANGED <<frame, store, inter, declined, pending, polls, orphan, faults>>

\* The page of its own binds any port; a continued one needs the callback's.
device_page(t) ==
  /\ pc[t] = "gh_bind"
  /\ IF ~inter[t] THEN Goto(t, "gh_poll") /\ UNCHANGED <<lock, hand, bound, page>>
     ELSE IF bound["prompt"] # Free THEN GitHubFails(t)
     ELSE /\ bound' = [bound EXCEPT !["prompt"] = t]
          /\ Goto(t, "gh_poll") /\ UNCHANGED <<lock, hand, page>>
  /\ UNCHANGED <<frame, store, inter, declined, pending, polls, orphan, faults>>

\* finish_page: the result stays on the port for 60 s.
PageFinished(t) ==
  [q \in Ports |-> IF bound[q] = t THEN "linger" ELSE bound[q]]

\* Approved; or declined, expired or refused.  Polls that find the request
\* still pending, slow_down included, change nothing.
poll_github(t) ==
  /\ pc[t] = "gh_poll"
  /\ \/ /\ \E k \in Issued : hand' = [hand EXCEPT ![t] = k]
        /\ Goto(t, "gh_store")
        /\ UNCHANGED <<lock, bound>>
     \/ /\ Goto(t, "ended") /\ lock' = Released(t) /\ bound' = PageFinished(t)
        /\ UNCHANGED hand
  /\ UNCHANGED <<frame, store, inter, page, declined, pending, polls, orphan, faults>>

save_github_device(t) ==
  /\ pc[t] = "gh_store"
  /\ \/ Saved(t, "gh") /\ UNCHANGED faults
     \/ GitHubSaveFails(t)
  /\ hand' = [hand EXCEPT ![t] = NoTokens]
  /\ Goto(t, "ended") /\ lock' = Released(t) /\ bound' = PageFinished(t)
  /\ UNCHANGED <<frame, inter, page, declined, pending, polls>>

PageAborted ==
  /\ \E q \in Ports : bound[q] = "linger"
  /\ bound' = [q \in Ports |-> IF bound[q] = "linger" THEN Free ELSE bound[q]]
  /\ UNCHANGED <<frame, store, lock, pc, inter, hand, page, declined, pending, polls, orphan, faults>>

(***************************************************************************)
(* subscription_oauth::credential_inner; open_browser is ~inter.           *)
(***************************************************************************)

Sub(t) == kind[t]

\* Mutant of AskOrSkip: the user who declined is asked again.
AskAlways(s) == "sub_listen"

\* Where the flow goes without a usable token.
AskOrSkip(s) == IF s \in declined THEN "sub_declined" ELSE "sub_listen"

subscription_inner(t) ==
  /\ pc[t] = "sub_lock"
  /\ Acquire(t, Sub(t))
  /\ Goto(t, IF store[Sub(t)].st = "fresh" THEN "sub_ready"
             ELSE IF Refreshable(Sub(t)) /\ Sub(t) = "openai" THEN "sub_refresh"
             ELSE AskOrSkip(Sub(t)))
  /\ UNCHANGED <<frame, store, inter, hand, bound, page, declined, pending, polls, orphan, faults>>

\* What ChatGPT's token endpoint may answer, and what is taken from it: an
\* omitted account or refresh token is the previous one, a changed account,
\* an access token within the skew or a missing part is refused.
TokenAnswers == [bearer : BOOLEAN, account : {"same", "other", "none", "invalid"},
                 lasting : BOOLEAN, refresh : BOOLEAN]

stored_token(a, previous) ==
  /\ a.bearer /\ a.lasting
  /\ a.account \in (IF previous THEN {"same", "none"} ELSE {"same", "other"})
  /\ a.refresh \/ previous

\* Reauthorization leads to the page; any other failure ends the request.
refresh_subscription(t) ==
  /\ pc[t] = "sub_refresh"
  /\ \/ /\ \E a \in TokenAnswers :
             stored_token(a, TRUE) /\ (IF a.refresh THEN Rotated(t, "openai") ELSE Kept(t, "openai"))
        /\ Goto(t, "sub_save")
        /\ UNCHANGED <<lock, bound, page, orphan, faults>>
     \/ ReplyLost("openai") /\ End(t)
     \/ Goto(t, AskOrSkip("openai")) /\ UNCHANGED <<store, lock, hand, bound, page, orphan, faults>>
     \/ End(t) /\ UNCHANGED <<store, orphan, faults>>
  /\ UNCHANGED <<frame, inter, declined, pending, polls>>

save_subscription(t) ==
  /\ pc[t] = "sub_save"
  /\ \/ /\ Saved(t, Sub(t))
        /\ hand' = [hand EXCEPT ![t] = NoTokens]
        /\ Goto(t, "sub_ready")
        /\ UNCHANGED <<frame, lock, inter, bound, page, declined, pending, polls, faults>>
     \/ SaveFails(t, Sub(t))

\* A continued tab waits for a page that says how it ended.
finish_ready(t) ==
  /\ pc[t] \in {"sub_ready", "sub_declined"}
  /\ IF inter[t]
     THEN /\ lock["listener"] = Free
          /\ \/ /\ bound["prompt"] = Free
                /\ bound' = [bound EXCEPT !["prompt"] = t]
                /\ lock' = [lock EXCEPT !["listener"] = t]
                /\ Goto(t, "sub_viewed")
                /\ UNCHANGED <<hand, page>>
             \/ bound["prompt"] # Free /\ End(t)
     ELSE End(t)
  /\ UNCHANGED <<frame, store, inter, declined, pending, polls, orphan, faults>>

\* Viewed, or CALLBACK_TIMEOUT.
continue_subscription_page(t) ==
  /\ pc[t] = "sub_viewed"
  /\ End(t)
  /\ UNCHANGED <<frame, store, inter, declined, pending, polls, orphan, faults>>

\* Under LISTENER_LOCK; ChatGPT's callback has a port of its own as well.
open_subscription_page(t) ==
  /\ pc[t] = "sub_listen"
  /\ lock["listener"] = Free
  /\ LET ports == IF Sub(t) = "openai" THEN Ports ELSE {"prompt"} IN
     \/ /\ \A q \in ports : bound[q] = Free
        /\ bound' = [q \in Ports |-> IF q \in ports THEN t ELSE bound[q]]
        /\ page' = [page EXCEPT ![t] = "open"]
        /\ lock' = [lock EXCEPT !["listener"] = t]
        /\ Goto(t, "sub_page")
        /\ UNCHANGED hand
     \/ (\E q \in ports : bound[q] # Free) /\ End(t)
  /\ UNCHANGED <<frame, store, inter, declined, pending, polls, orphan, faults>>

\* A skip is remembered until the daemon restarts.
wait_for_subscription_code(t) ==
  /\ pc[t] = "sub_page"
  /\ \/ /\ page[t] = "code"
        /\ Closed(t) /\ Goto(t, "sub_exchange")
        /\ lock' = [lock EXCEPT !["listener"] = Free]
        /\ UNCHANGED <<hand, declined>>
     \/ /\ page[t] = "skip"
        /\ declined' = declined \cup {Sub(t)}
        /\ End(t)
     \/ page[t] \in {"open", "error"} /\ End(t) /\ UNCHANGED declined
  /\ UNCHANGED <<frame, store, inter, pending, polls, orphan, faults>>

\* Claude issues no refresh token, ChatGPT must.
exchange_subscription(t) ==
  /\ pc[t] = "sub_exchange"
  /\ \/ /\ Sub(t) = "openai" => \E a \in TokenAnswers : stored_token(a, FALSE)
        /\ hand' = [hand EXCEPT ![t] = [st |-> "fresh", rt |-> IF Sub(t) = "openai" THEN "live" ELSE "none"]]
        /\ Goto(t, "sub_store")
        /\ UNCHANGED <<lock, bound, page>>
     \/ End(t)
  /\ UNCHANGED <<frame, store, inter, declined, pending, polls, orphan, faults>>

save_subscription_sign_in(t) ==
  /\ pc[t] = "sub_store"
  /\ \/ /\ Saved(t, Sub(t))
        /\ End(t)
        /\ UNCHANGED <<frame, inter, declined, pending, polls, faults>>
     \/ SaveFails(t, Sub(t))

(***************************************************************************)
(* gateway_oidc::device_login and its background poll.                     *)
(***************************************************************************)

\* The first status check and the one under the account's start lock.
NotSignedIn(t, again) ==
  IF pending THEN Goto(t, "ended") /\ lock' = Released(t)
  ELSE /\ Goto(t, IF again THEN "grant" ELSE "start_lock")
       /\ lock' = [l \in Locks |-> IF l = "gw" /\ lock[l] = t THEN Free ELSE lock[l]]

\* Holding the start lock tells which of the two checks this is.
Again(t) == lock["start"] = t

\* Holds LOGIN, across a refresh as well.
device_login_status(t) ==
  /\ pc[t] \in {"st_lock", "again_lock"}
  /\ lock["gw"] = Free
  /\ \/ store["gw"].st = "fresh" /\ Goto(t, "ended") /\ lock' = Released(t)
     \/ Refreshable("gw") /\ Goto(t, "st_refresh") /\ Acquire(t, "gw")
     \/ store["gw"].st # "fresh" /\ ~Refreshable("gw") /\ NotSignedIn(t, Again(t))
  /\ UNCHANGED <<frame, store, inter, hand, bound, page, declined, pending, polls, orphan, faults>>

refresh_status(t) ==
  /\ pc[t] = "st_refresh"
  /\ \/ (Rotated(t, "gw") \/ Kept(t, "gw")) /\ Goto(t, "st_save") /\ UNCHANGED <<lock, orphan, faults>>
     \/ ReplyLost("gw") /\ NotSignedIn(t, Again(t)) /\ UNCHANGED hand
     \/ NotSignedIn(t, Again(t)) /\ UNCHANGED <<store, hand, orphan, faults>>
  /\ UNCHANGED <<frame, inter, bound, page, declined, pending, polls>>

save_status(t) ==
  /\ pc[t] = "st_save"
  /\ \/ /\ Saved(t, "gw")
        /\ End(t)
        /\ UNCHANGED <<frame, inter, declined, pending, polls, faults>>
     \/ SaveFails(t, "gw")

\* Mutant of starting_lock: a loser of the race does not check again.
StartUnchecked(t) ==
  /\ pc[t] = "start_lock"
  /\ Acquire(t, "start")
  /\ Goto(t, "grant")
  /\ UNCHANGED <<frame, store, inter, hand, bound, page, declined, pending, polls, orphan, faults>>

\* Losers of the race wait here, then check again.
starting_lock(t) ==
  /\ pc[t] = "start_lock"
  /\ Acquire(t, "start")
  /\ Goto(t, "again_lock")
  /\ UNCHANGED <<frame, store, inter, hand, bound, page, declined, pending, polls, orphan, faults>>

\* A provider's device authorization: usable with both codes, a verification
\* URL and a lifetime, which is capped.
MaxLifetime == 2
DeviceAnswers == [codes : BOOLEAN, uri : BOOLEAN, expires : 0..(MaxLifetime + 1)]
validate_device(d) == d.codes /\ d.uri /\ (IF d.expires > MaxLifetime THEN MaxLifetime ELSE d.expires) # 0

\* The grant is published, its poll runs in the background; or the request
\* fails, is invalid, or exceeds DEVICE_REQUEST_TIMEOUT.
request_device_grant(t) ==
  /\ pc[t] = "grant"
  /\ End(t)
  /\ \E d \in DeviceAnswers :
       IF validate_device(d)
       THEN /\ pending' = TRUE
            /\ \E i \in 1..2 : polls[i] = "none" /\ polls' = [polls EXCEPT ![i] = "polling"]
       ELSE UNCHANGED <<pending, polls>>
  /\ UNCHANGED <<frame, store, inter, declined, orphan, faults>>

\* RFC 8628 section 3.5: which token endpoint errors end a poll.
PollErrors == {"authorization_pending", "slow_down", "access_denied", "expired_token",
               "unknown", "unreadable"}
classify_device_token_error(e) ==
  CASE e = "authorization_pending" -> "Pending"
    [] e = "slow_down" -> "SlowDown"
    [] e \notin {"authorization_pending", "slow_down"} -> "Failed"

\* Approved before the deadline; denied, failed or expired; or polled again,
\* never past the deadline.
poll_device_token(i) ==
  /\ polls[i] = "polling"
  /\ \/ polls' = [polls EXCEPT ![i] = "granted"] /\ UNCHANGED pending
     \/ \E e \in PollErrors :
          /\ classify_device_token_error(e) = "Failed"
          /\ polls' = [polls EXCEPT ![i] = "none"] /\ pending' = FALSE
  /\ UNCHANGED <<frame, store, lock, pc, inter, hand, bound, page, declined, orphan, faults>>

\* The tokens are saved under LOGIN, then the login is no longer pending.
complete_device_login(i) ==
  /\ \/ /\ polls[i] = "granted" /\ lock["gw"] = Free
        /\ \/ /\ \E k \in Issued : store' = [store EXCEPT !["gw"] = k]
              /\ orphan' = orphan \ {"gw"}
              /\ UNCHANGED faults
           \/ /\ faults < MaxFaults /\ faults' = faults + 1
              /\ UNCHANGED <<store, orphan>>
        /\ polls' = [polls EXCEPT ![i] = "saved"]
        /\ UNCHANGED pending
     \/ /\ polls[i] = "saved"
        /\ pending' = FALSE
        /\ polls' = [polls EXCEPT ![i] = "none"]
        /\ UNCHANGED <<store, orphan, faults>>
  /\ UNCHANGED <<frame, lock, pc, inter, hand, bound, page, declined>>

(***************************************************************************)
(* The surroundings.                                                       *)
(***************************************************************************)

\* Mutant of Disconnect: the handler of a dropped connection takes its task
\* along, which ends at its next await.
DroppedTask(t) ==
  /\ pc[t] \notin {"new", "ended"}
  /\ End(t)
  /\ orphan' = IF kind[t] = "login" /\ pc[t] = "st_save" /\ store["gw"].rt = "spent"
               THEN orphan \cup {"gw"} ELSE orphan
  /\ UNCHANGED <<frame, store, inter, declined, pending, polls, faults>>

\* A caller that goes away: credential calls run in a task of their own and
\* finish all the same; the login handler does not.
Disconnect(t) ==
  /\ kind[t] = "login"
  /\ pc[t] \notin {"new", "ended"}
  /\ End(t)
  /\ orphan' = IF pc[t] = "st_save" /\ store["gw"].rt = "spent" THEN orphan \cup {"gw"} ELSE orphan
  /\ UNCHANGED <<frame, store, inter, declined, pending, polls, faults>>

\* The skew before an access token's expiry begins.
Expire(s) ==
  /\ store[s].st = "fresh" /\ expiries < MaxExpiries
  /\ expiries' = expiries + 1
  /\ store' = [store EXCEPT ![s].st = "stale"]
  /\ UNCHANGED <<mode, kind, lock, pc, inter, hand, bound, page, declined, pending, polls, orphan, faults>>

\* The daemon dies and starts again: only the secret store remains.
Crash ==
  /\ faults < MaxFaults /\ faults' = faults + 1
  /\ \E t \in Tasks : pc[t] \notin {"new", "ended"}
  /\ pc' = [t \in Tasks |-> IF pc[t] = "new" THEN "new" ELSE "ended"]
  /\ lock' = [l \in Locks |-> Free]
  /\ hand' = [t \in Tasks |-> NoTokens]
  /\ bound' = [q \in Ports |-> Free]
  /\ page' = [t \in Tasks |-> "none"]
  /\ declined' = {} /\ pending' = FALSE
  /\ polls' = [i \in 1..2 |-> "none"]
  /\ orphan' = {s \in Services : store[s].rt = "spent"}
  /\ UNCHANGED <<mode, kind, store, inter, expiries>>

\* Calls without a timeout.
Untimed == {"gw_discover", "gw_exchange", "sub_exchange"}

Step(t) ==
  \/ credential_inner(t) \/ refresh_access_token(t) \/ save_refreshed(t) \/ open_gateway_page(t)
  \/ wait_for_code(t) \/ save_signed_in(t)
  \/ acquire_github(t) \/ refresh_github(t) \/ save_github(t) \/ show_connected(t)
  \/ request_device_code(t) \/ device_page(t) \/ poll_github(t) \/ save_github_device(t)
  \/ subscription_inner(t) \/ refresh_subscription(t) \/ save_subscription(t) \/ finish_ready(t)
  \/ continue_subscription_page(t) \/ open_subscription_page(t) \/ wait_for_subscription_code(t)
  \/ save_subscription_sign_in(t)
  \/ device_login_status(t) \/ refresh_status(t) \/ save_status(t) \/ starting_lock(t)
  \/ request_device_grant(t)

Answer(t) == discover(t) \/ exchange_authorization_code(t) \/ exchange_subscription(t)

Poll(i) == poll_device_token(i) \/ complete_device_login(i)

Next ==
  \/ \E t \in Tasks : \/ Start(t) \/ start_device_login_if_configured(t)
                     \/ Step(t) \/ Answer(t) \/ callback(t) \/ Disconnect(t)
  \/ \E i \in 1..2 : Poll(i)
  \/ \E s \in Services : Expire(s)
  \/ PageAborted \/ Crash

\* Every wait of a step is bounded by a timer or a lock's queue; providers
\* that answer nothing are not assumed away.
Fairness ==
  /\ \A t \in Tasks : WF_vars(Step(t))
  /\ \A i \in 1..2 : WF_vars(Poll(i))
  /\ WF_vars(PageAborted)

Spec == Init /\ [][Next]_vars /\ Fairness

(***************************************************************************)
(* Properties.                                                             *)
(***************************************************************************)

Live(i) == polls[i] # "none"

\* Concurrent logins never start a second grant for the account: one
\* background poll at most, and a login is published exactly while it runs
\* (the re-check under the account's start lock in device_login).
OneGrant ==
  /\ \A i, j \in 1..2 : Live(i) /\ Live(j) => i = j
  /\ pending <=> \E i \in 1..2 : Live(i)

\* A refresh token the provider has replaced stays in the store only while
\* the task that received its successor is about to save it, unless a fault
\* (lost reply, failed save, crash, dropped login handler) came between: a
\* caller that disconnects loses no sign-in.
RotatedTokenSaved ==
  \A s \in Services : store[s].rt = "spent" =>
    s \in orphan \/ \E t \in Tasks : lock[s] = t /\ hand[t].st = "fresh"

Asking(t, s) ==
  \/ s = "gw" /\ pc[t] \in {"gw_page", "gw_exchange", "gw_store", "gw_discover"}
  \/ s = "gh" /\ pc[t] \in {"gh_bind", "gh_poll", "gh_store"}
  \/ s \in Subs /\ Sub(t) = s /\ pc[t] \in {"sub_listen", "sub_page", "sub_exchange", "sub_store"}

\* The user is asked to sign in to a service only while its stored token is
\* not usable, by one request at a time, and never again for a subscription
\* they skipped; requests that waited meanwhile use what the first obtained.
NoNeedlessSignIn ==
  \A s \in Services : \A t \in Tasks : Asking(t, s) =>
    /\ store[s].st # "fresh" /\ s \notin declined
    /\ \A u \in Tasks : Asking(u, s) => u = t

\* Every request ends, unless a provider call without a timeout stays
\* unanswered (discovery and the code exchanges): no lock is waited for in a
\* circle, and no page, refresh or device grant holds one for ever.
RequestsEnd ==
  \A t \in Tasks : (pc[t] \notin {"new", "ended"})
    ~> (pc[t] = "ended" \/ \E u \in Tasks : pc[u] \in Untimed)
=============================================================================
