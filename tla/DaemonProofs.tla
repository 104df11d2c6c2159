---------------------------- MODULE DaemonProofs ----------------------------
(***************************************************************************)
(* Proofs about the daemon process: its model proxy (LlmProxy), for any    *)
(* number of requests, devices, credentials, clock changes and suspends,   *)
(* and its life from launch to exit (DaemonLifecycle), for any number of   *)
(* daemons.                                                                *)
(***************************************************************************)
EXTENDS LlmProxy, DaemonLifecycle, TLAPS

-----------------------------------------------------------------------------
(* The model proxy *)


\* Devices only follow one another: what a request may be served was issued
\* to the device it noted or to a later one, also while it is in the cache.
Devices ==
  /\ device # 0 => device = devices
  /\ entry.cred.id # 0 => entry.cred.dev >= entry.device
  /\ \A r \in Requests :
       /\ pc[r] # "idle" => req[r].since <= devices \/ (req[r].since = devices + 1 /\ device = 0)
       /\ req[r].key # 0 => req[r].key = req[r].since
       /\ pc[r] = "flight" => req[r].key # 0
       /\ pc[r] \in {"issue", "insert", "send", "tunnel"} => req[r].cred.dev >= req[r].since

\* The request is under way with a credential of the cache.
Served(r) == pc[r] = "send" /\ req[r].fromCache
Holding == {"load", "issue", "insert"}

\* Credentials enter the cache in the order of their calls, since the fetches of
\* a key hold its flight lock: what the cache holds is later than what was
\* rejected, and not earlier than what it served.
Credited ==
  /\ entry.cred.id <= issued
  /\ \A r \in Requests :
       /\ req[r].cred.id <= issued /\ req[r].rejected <= issued
       /\ pc[r] \in Holding /\ req[r].key # 0 => flight = {r}
       /\ entry.cred.id = 0 \/ entry.cred.id > req[r].rejected
       /\ pc[r] \in {"insert", "send"} => req[r].cred.id > req[r].rejected
       /\ Served(r) => \/ entry.cred.id = 0 \/ entry.cred.id > req[r].cred.id
                       \/ entry.cred = req[r].cred
       /\ pc[r] = "insert" /\ req[r].key # 0 =>
            /\ req[r].cred.id > entry.cred.id
            /\ \A s \in Requests : /\ req[r].cred.id > req[s].rejected
                                   /\ Served(s) => req[r].cred.id > req[s].cred.id

\* The inductive invariant: NoOldDevice needs to know what the cache holds for
\* whom (Devices), RetryTakesLater in which order it is filled (Credited).
IInv == TypeOK /\ Devices /\ Credited

\* A step of request q to state x and label l, and what it has to respect.
Move(q, x, l) ==
  /\ req' = [req EXCEPT ![q] = x] /\ pc' = [pc EXCEPT ![q] = l]
  /\ UNCHANGED <<clocks, enrolled>>

Typed(x, l) ==
  /\ x \in RequestStates /\ l \in Labels /\ entry' \in Entries
  /\ flight' \subseteq Requests /\ issued' \in issued .. MaxIssued

KeepsDevices(x, l) ==
  /\ entry'.cred.id # 0 => entry'.cred.dev >= entry'.device
  /\ l # "idle" => x.since <= devices \/ (x.since = devices + 1 /\ device = 0)
  /\ x.key # 0 => x.key = x.since
  /\ l = "flight" => x.key # 0
  /\ l \in {"issue", "insert", "send", "tunnel"} => x.cred.dev >= x.since

KeepsCredited(q, x, l) ==
  /\ entry'.cred.id <= issued' /\ x.cred.id <= issued' /\ x.rejected <= issued'
  /\ l \in Holding /\ x.key # 0 => flight' = {q}
  /\ entry'.cred.id = 0 \/ entry'.cred.id > x.rejected
  /\ l \in {"insert", "send"} => x.cred.id > x.rejected
  /\ l = "send" /\ x.fromCache => \/ entry'.cred.id = 0 \/ entry'.cred.id > x.cred.id
                                  \/ entry'.cred = x.cred
  /\ l = "insert" /\ x.key # 0 =>
       /\ x.cred.id > entry'.cred.id
       /\ \A s \in Requests \ {q} : /\ x.cred.id > req[s].rejected
                                    /\ Served(s) => x.cred.id > req[s].cred.id
  /\ \A s \in Requests \ {q} :
       /\ pc[s] \in Holding /\ req[s].key # 0 => flight' = {s}
       /\ entry'.cred.id = 0 \/ entry'.cred.id > req[s].rejected
       /\ Served(s) => \/ entry'.cred.id = 0 \/ entry'.cred.id > req[s].cred.id
                       \/ entry'.cred = req[s].cred
       /\ pc[s] = "insert" /\ req[s].key # 0 =>
            /\ req[s].cred.id > entry'.cred.id /\ req[s].cred.id > x.rejected
            /\ l = "send" /\ x.fromCache => req[s].cred.id > x.cred.id

-----------------------------------------------------------------------------
\* Nothing is cached, fetched or enrolled when the daemon starts.
LEMMA InitIInv == Init => IInv
<1> SUFFICES ASSUME Init PROVE IInv
  BY Zenon
<1> USE ProxyAssumption
<1>1. TypeOK
  BY DEF Init, TypeOK, Credentials, Deadlines, Entries, RequestStates, Labels, NoEntry, NoRequest,
     NoCred, NoDeadline
<1>2. Devices /\ Credited
  BY DEF Init, Devices, Credited, Served, Holding, NoEntry, NoRequest, NoCred
<1> QED
  BY <1>1, <1>2, Zenon DEF IInv

\* A step of one request that respects the three conditions preserves the
\* inductive invariant for all of them.
LEMMA MoveIInv ==
  ASSUME IInv, NEW q \in Requests, NEW x, NEW l, Move(q, x, l), Typed(x, l),
         KeepsDevices(x, l), KeepsCredited(q, x, l)
  PROVE  IInv'
<1> USE ProxyAssumption
<1>1. TypeOK'
  BY DEF IInv, TypeOK, Move, Typed, clocks, enrolled
<1>2. \A r \in Requests : /\ r = q => req'[r] = x /\ pc'[r] = l
                          /\ r # q => req'[r] = req[r] /\ pc'[r] = pc[r]
  BY Zenon DEF IInv, TypeOK, Move
<1>3. Devices'
  BY <1>2 DEF IInv, TypeOK, Move, Devices, KeepsDevices, enrolled
<1>4. issued \in Nat /\ issued' \in Nat /\ issued <= issued'
  BY DEF IInv, TypeOK, Typed
<1>5. \A r \in Requests : req[r].cred.id \in Nat /\ req[r].rejected \in Nat
  BY DEF IInv, TypeOK, RequestStates, Credentials
<1>6. \A r \in Requests : Served(r)' <=> IF r = q THEN l = "send" /\ x.fromCache ELSE Served(r)
  BY <1>2, Zenon DEF Served
<1>7. Credited'
  BY <1>2, <1>4, <1>5, <1>6, SMTT(30) DEF IInv, Credited, KeepsCredited, Holding
<1> QED
  BY <1>1, <1>3, <1>7, Zenon DEF IInv

\* What the fields of the state hold.
LEMMA Fields ==
  ASSUME IInv, NEW q \in Requests
  PROVE  /\ req[q] \in RequestStates /\ pc[q] \in Labels /\ entry \in Entries
         /\ entry.cred \in Credentials /\ req[q].cred \in Credentials
         /\ req[q].fromCache \in BOOLEAN
         /\ entry.cred.id \in 0 .. MaxIssued /\ entry.cred.dev \in 0 .. MaxDevices
         /\ entry.device \in 0 .. MaxDevices
         /\ req[q].cred.id \in 0 .. MaxIssued /\ req[q].cred.dev \in 0 .. MaxDevices
         /\ req[q].rejected \in 0 .. MaxIssued /\ req[q].key \in 0 .. MaxDevices
         /\ req[q].since \in 0 .. MaxDevices + 1
         /\ now \in Int /\ wall \in Int /\ asleep \in Int
         /\ device \in 0 .. devices /\ devices \in 0 .. MaxDevices /\ issued \in 0 .. MaxIssued
BY ProxyAssumption DEF IInv, TypeOK, Entries, RequestStates, Credentials

\* No entry holds no credential.
LEMMA NoEntryHolds == NoEntry \in Entries /\ NoEntry.cred.id = 0
<1> USE ProxyAssumption
<1>1. NoCred \in Credentials /\ NoDeadline \in Deadlines /\ NoCred.id = 0
  BY DEF NoCred, NoDeadline, Credentials, Deadlines
<1> QED
  BY <1>1 DEF NoEntry, Entries

\* A request, a fetch or a tunnel that ends leaves nothing behind.
LEMMA FinishIInv ==
  ASSUME IInv, NEW q \in Requests, Finish(q), UNCHANGED <<clocks, enrolled, issued>>,
         flight' \in {flight, flight \ {q}}, entry' \in {entry, NoEntry}
  PROVE  IInv'
<1> USE ProxyAssumption
<1>1. Move(q, NoRequest, "idle")
  BY Zenon DEF Move, Finish, Goto
<1>2. Typed(NoRequest, "idle")
  BY Fields DEF Typed, IInv, TypeOK, RequestStates, Entries, Labels, Credentials, Deadlines,
     NoEntry, NoRequest, NoCred, NoDeadline
<1>3. KeepsDevices(NoRequest, "idle")
  BY SMTT(30) DEF KeepsDevices, IInv, Devices, NoEntry, NoRequest, NoCred
<1>4. KeepsCredited(q, NoRequest, "idle")
  BY Fields, SMTT(30) DEF KeepsCredited, IInv, Credited, Served, Holding, NoEntry, NoRequest, NoCred
<1> QED
  BY <1>1, <1>2, <1>3, <1>4, MoveIInv, Zenon

\* A servable entry was issued to the device of the request or a later one,
\* and is not the one that was rejected.
LEMMA CachedIInv ==
  ASSUME IInv, NEW q \in Requests, pc[q] # "idle", req[q].key # 0, Servable(req[q].key),
         Attempt(q, entry.cred, entry.deadline, TRUE),
         UNCHANGED <<clocks, enrolled, issued, entry, flight>>
  PROVE  IInv'
<1> USE ProxyAssumption
<1> DEFINE x == [req[q] EXCEPT !.cred = entry.cred, !.deadline = entry.deadline,
                               !.fromCache = TRUE, !.waiting = FALSE]
<1>1. Move(q, x, "send")
  BY Zenon DEF Move, Attempt, Goto, IInv, TypeOK
<1>2. /\ x.key = req[q].key /\ x.since = req[q].since /\ x.rejected = req[q].rejected
      /\ x.cred = entry.cred /\ x \in RequestStates
  BY Fields, Zenon DEF RequestStates, Entries
<1> HIDE DEF x
<1>3. Typed(x, "send")
  BY <1>2, Fields DEF Typed, IInv, TypeOK, Labels
<1>4. KeepsDevices(x, "send")
  BY <1>2, Fields, Zenon DEF KeepsDevices, IInv, Devices, Servable
<1>5. KeepsCredited(q, x, "send")
  <2>1. 0 <= issued /\ issued' = issued /\ entry' = entry /\ flight' = flight
    BY Fields
  <2>2. entry.cred.id # 0 /\ entry.cred.id > req[q].rejected
    BY Zenon DEF IInv, Credited, Servable
  <2> QED
    BY <1>2, <2>1, <2>2, Zenon DEF KeepsCredited, IInv, Credited, Holding
<1> QED
  BY <1>1, <1>3, <1>4, <1>5, MoveIInv, Zenon

\* Every step of a request, of a fetch and of the world around them preserves
\* the inductive invariant.
LEMMA StepIInv == IInv /\ [Next]_vars => IInv'
<1> SUFFICES ASSUME IInv, [Next]_vars PROVE IInv'
  BY Zenon
<1> USE ProxyAssumption
<1>1. ASSUME NEW q \in Requests, Arrive(q) PROVE IInv'
  <2> DEFINE since == IF device = 0 THEN devices + 1 ELSE device
             x == [req[q] EXCEPT !.key = device, !.since = since]
  <2>1. Move(q, x, "lookup")
    BY <1>1, Zenon DEF Move, Arrive, Goto, IInv, TypeOK
  <2>a. since \in 0 .. MaxDevices + 1 /\ device \in 0 .. MaxDevices
    BY Fields, SMTT(30)
  <2>b. /\ since <= devices \/ (since = devices + 1 /\ device = 0)
        /\ device # 0 => device = since
    BY Fields DEF IInv, Devices
  <2> HIDE DEF since
  <2>2. /\ x.key = device /\ x.since = since /\ x.rejected = req[q].rejected
        /\ x.cred = req[q].cred /\ x.fromCache = req[q].fromCache /\ x \in RequestStates
    BY <2>a, Fields, Zenon DEF RequestStates
  <2> HIDE DEF x
  <2>3. Typed(x, "lookup")
    BY <1>1, <2>2, Fields DEF Typed, Arrive, IInv, TypeOK, Labels
  <2>4. KeepsDevices(x, "lookup")
    BY <1>1, <2>2, <2>b, Fields, Zenon DEF KeepsDevices, Arrive, IInv, Devices
  <2>5. KeepsCredited(q, x, "lookup")
    BY <1>1, <2>2, Zenon DEF KeepsCredited, Arrive, IInv, Credited, Holding
  <2> QED
    BY <2>1, <2>3, <2>4, <2>5, MoveIInv, Zenon
<1>2. ASSUME NEW q \in Requests, Lookup(q) PROVE IInv'
  <2>1. CASE req[q].key # 0 /\ Servable(req[q].key)
    BY <1>2, <2>1, CachedIInv, Zenon DEF Lookup
  <2>2. CASE ~(req[q].key # 0 /\ Servable(req[q].key))
    <3> DEFINE x == [req[q] EXCEPT !.waiting = TRUE]
    <3>1. PICK l \in {"flight", "load"} : /\ Move(q, x, l)
                                          /\ l = IF req[q].key # 0 THEN "flight" ELSE "load"
      BY <1>2, <2>2, Zenon DEF Move, Lookup, Goto, IInv, TypeOK
    <3>2. /\ x.key = req[q].key /\ x.since = req[q].since /\ x.rejected = req[q].rejected
          /\ x.cred = req[q].cred /\ x \in RequestStates
      BY Fields, Zenon DEF RequestStates
    <3> HIDE DEF x
    <3>3. Typed(x, l)
      BY <1>2, <3>2, Fields DEF Typed, Lookup, IInv, TypeOK, Labels, Fetching
    <3>4. KeepsDevices(x, l)
      BY <1>2, <3>1, <3>2, Fields, Zenon DEF KeepsDevices, Lookup, IInv, Devices
    <3>5. KeepsCredited(q, x, l)
      BY <1>2, <3>1, <3>2, Zenon DEF KeepsCredited, Lookup, IInv, Credited, Holding
    <3> QED
      BY <3>1, <3>3, <3>4, <3>5, MoveIInv, Zenon
  <2> QED
    BY <2>1, <2>2, Zenon
<1>3. ASSUME NEW q \in Requests, Abandon(q) PROVE IInv'
  <2> DEFINE x == [req[q] EXCEPT !.waiting = FALSE]
  <2>1. Move(q, x, pc[q])
    BY <1>3, Zenon DEF Move, Abandon, IInv, TypeOK
  <2>2. /\ x.key = req[q].key /\ x.since = req[q].since /\ x.rejected = req[q].rejected
        /\ x.cred = req[q].cred /\ x.fromCache = req[q].fromCache /\ x \in RequestStates
    BY Fields, Zenon DEF RequestStates
  <2> HIDE DEF x
  <2>3. Typed(x, pc[q])
    BY <1>3, <2>2, Fields DEF Typed, Abandon, IInv, TypeOK
  <2>4. KeepsDevices(x, pc[q])
    BY <1>3, <2>2, Fields, Zenon DEF KeepsDevices, Abandon, IInv, Devices
  <2>5. KeepsCredited(q, x, pc[q])
    BY <1>3, <2>2, Zenon DEF KeepsCredited, Abandon, IInv, Credited, Served, Holding, Fetching
  <2> QED
    BY <2>1, <2>3, <2>4, <2>5, MoveIInv, Zenon
<1>4. ASSUME NEW q \in Requests, Answered(q) PROVE IInv'
  BY <1>4, FinishIInv, Zenon DEF Answered
<1>5. ASSUME NEW q \in Requests, NEW t \in BOOLEAN, Rejected(q, t) PROVE IInv'
  <2>1. /\ UNCHANGED <<clocks, enrolled, issued, flight>> /\ pc[q] = "send"
        /\ entry' \in {entry, NoEntry} /\ (Retries(q, t) => entry' = InvalidateIf(req[q].cred))
    BY <1>5, Zenon DEF Rejected, InvalidateIf
  <2>2. CASE ~Retries(q, t)
    BY <1>5, <2>1, <2>2, FinishIInv, Zenon DEF Rejected
  <2>3. CASE Retries(q, t)
    <3> DEFINE x == [NoRequest EXCEPT !.key = req[q].key, !.since = req[q].since,
                                      !.rejected = req[q].cred.id]
    <3>1. Move(q, x, "lookup")
      BY <1>5, <2>1, <2>3, Zenon DEF Rejected, Move, Goto
    <3>a. NoCred \in Credentials /\ NoDeadline \in Deadlines
      BY DEF NoCred, NoDeadline, Credentials, Deadlines
    <3>2. /\ x.key = req[q].key /\ x.since = req[q].since /\ x.rejected = req[q].cred.id
          /\ x.cred = NoCred /\ x \in RequestStates
      BY <3>a, Fields, Zenon DEF RequestStates, NoRequest
    <3>d. Served(q)
      BY <2>1, <2>3, Zenon DEF Retries, Served
    <3>3. entry' = NoEntry \/ (entry' = entry /\ (entry.cred.id = 0 \/ entry.cred.id > req[q].cred.id))
      BY <2>1, <2>3, <3>d, Zenon DEF InvalidateIf, IInv, Credited
    <3>4. entry' \in Entries
      BY <2>1, Fields, SMTT(30) DEF Entries, Credentials, Deadlines, NoEntry, NoCred, NoDeadline
    <3> HIDE DEF x
    <3>5. Typed(x, "lookup")
      BY <2>1, <3>2, <3>4, Fields DEF Typed, IInv, TypeOK, Labels
    <3>b. entry'.cred.id # 0 => entry' = entry
      BY <2>1, NoEntryHolds, Zenon
    <3>c. 0 <= issued
      BY Fields
    <3>6. KeepsDevices(x, "lookup")
      BY <2>1, <3>2, <3>b, Zenon DEF KeepsDevices, IInv, Devices
    <3>7. KeepsCredited(q, x, "lookup")
      <4>1. /\ entry'.cred.id <= issued' /\ x.cred.id <= issued' /\ x.rejected <= issued'
            /\ entry'.cred.id = 0 \/ entry'.cred.id > x.rejected
        BY <2>1, <3>2, <3>3, <3>c, NoEntryHolds, SMTT(30) DEF IInv, Credited, NoCred
      <4>2. ASSUME NEW s \in Requests \ {q}
            PROVE  /\ pc[s] \in Holding /\ req[s].key # 0 => flight' = {s}
                   /\ entry'.cred.id = 0 \/ entry'.cred.id > req[s].rejected
                   /\ Served(s) => \/ entry'.cred.id = 0 \/ entry'.cred.id > req[s].cred.id
                                   \/ entry'.cred = req[s].cred
                   /\ pc[s] = "insert" /\ req[s].key # 0 =>
                        req[s].cred.id > entry'.cred.id /\ req[s].cred.id > x.rejected
        <5>1. pc[s] = "insert" => req[s].cred.id > 0
          BY Fields DEF IInv, Credited
        <5> QED
          BY <2>1, <3>2, <3>3, <3>d, <5>1, NoEntryHolds, Zenon DEF IInv, Credited
      <4> QED
        BY <4>1, <4>2, Zenon DEF KeepsCredited, Holding
    <3> QED
      BY <3>1, <3>5, <3>6, <3>7, MoveIInv, Zenon
  <2> QED
    BY <2>2, <2>3, Zenon
<1>6. ASSUME NEW q \in Requests, Upgraded(q) PROVE IInv'
  <2>1. Move(q, req[q], "tunnel")
    BY <1>6, Zenon DEF Move, Upgraded, Goto, IInv, TypeOK
  <2>2. Typed(req[q], "tunnel")
    BY <1>6, Fields DEF Typed, Upgraded, IInv, TypeOK, Labels
  <2>3. KeepsDevices(req[q], "tunnel")
    BY <1>6, Fields, Zenon DEF KeepsDevices, Upgraded, IInv, Devices
  <2>4. KeepsCredited(q, req[q], "tunnel")
    BY <1>6, Zenon DEF KeepsCredited, Upgraded, IInv, Credited, Holding
  <2> QED
    BY <2>1, <2>2, <2>3, <2>4, MoveIInv, Zenon
<1>7. ASSUME NEW q \in Requests, JoinFlight(q) PROVE IInv'
  <2>1. CASE Servable(req[q].key) /\ req[q].waiting
    BY <1>7, <2>1, CachedIInv, Zenon DEF JoinFlight, Deliver, IInv, Devices
  <2>2. CASE Servable(req[q].key) /\ ~req[q].waiting
    BY <1>7, <2>2, FinishIInv, Zenon DEF JoinFlight, Deliver
  <2>3. CASE ~Servable(req[q].key)
    <3>1. Move(q, req[q], "load")
      BY <1>7, <2>3, Zenon DEF Move, JoinFlight, Goto, IInv, TypeOK
    <3>2. Typed(req[q], "load")
      BY <1>7, <2>3, Fields DEF Typed, JoinFlight, IInv, TypeOK, Labels, Fetching
    <3>3. KeepsDevices(req[q], "load")
      BY <1>7, <2>3, Fields, Zenon DEF KeepsDevices, JoinFlight, IInv, Devices
    <3>4. KeepsCredited(q, req[q], "load")
      BY <1>7, <2>3, Zenon DEF KeepsCredited, JoinFlight, IInv, Credited, Holding
    <3> QED
      BY <3>1, <3>2, <3>3, <3>4, MoveIInv, Zenon
  <2> QED
    BY <2>1, <2>2, <2>3, Zenon
<1>8. ASSUME NEW q \in Requests, LoadIdentity(q) PROVE IInv'
  <2> DEFINE x == [req[q] EXCEPT !.cred.dev = device]
  <2>1. Move(q, x, "issue")
    BY <1>8, Zenon DEF Move, LoadIdentity, Goto, IInv, TypeOK
  <2>2. /\ x.key = req[q].key /\ x.since = req[q].since /\ x.rejected = req[q].rejected
        /\ x.cred.id = req[q].cred.id /\ x.cred.dev = device /\ x \in RequestStates
        /\ x.fromCache = req[q].fromCache
    BY Fields DEF RequestStates, Credentials
  <2> HIDE DEF x
  <2>3. Typed(x, "issue")
    BY <1>8, <2>2, Fields DEF Typed, LoadIdentity, IInv, TypeOK, Labels, Fetching
  <2>4. KeepsDevices(x, "issue")
    BY <1>8, <2>2, Fields, Zenon DEF KeepsDevices, LoadIdentity, IInv, Devices
  <2>5. KeepsCredited(q, x, "issue")
    BY <1>8, <2>2, Zenon DEF KeepsCredited, LoadIdentity, IInv, Credited, Holding
  <2> QED
    BY <2>1, <2>3, <2>4, <2>5, MoveIInv, Zenon
<1>9. ASSUME NEW q \in Requests, Issue(q) PROVE IInv'
  <2>e. PICK life \in Lifetimes : \E token \in {issued + 1} \cup Repeated(req[q].cred.dev, now + life) :
          req' = [req EXCEPT ![q].cred = [@ EXCEPT !.id = issued + 1, !.token = token,
                                                  !.exp = now + life]]
    BY <1>9, Zenon DEF Issue
  <2>1. PICK token \in {issued + 1} \cup Repeated(req[q].cred.dev, now + life) :
          req' = [req EXCEPT ![q].cred = [@ EXCEPT !.id = issued + 1, !.token = token,
                                                  !.exp = now + life]]
    BY <2>e, Zenon
  <2> DEFINE c == [req[q].cred EXCEPT !.id = issued + 1, !.token = token, !.exp = now + life]
             x == [req[q] EXCEPT !.cred = c]
  <2>2. Move(q, x, "insert")
    BY <1>9, <2>1, Zenon DEF Move, Issue, Goto, IInv, TypeOK
  <2>a. issued + 1 \in 0 .. MaxIssued /\ now + life \in Int
    BY <1>9, Fields DEF Issue
  <2>c. \A h \in {entry.cred} \cup {req[s].cred : s \in Requests} : h.token \in 0 .. MaxIssued
    BY Fields, Zenon DEF Credentials
  <2>d. token \in 0 .. MaxIssued
    BY <2>a, <2>c, Zenon DEF Repeated
  <2>b. c \in Credentials /\ c.id = issued + 1 /\ c.dev = req[q].cred.dev
    BY <2>a, <2>d, Fields, Zenon DEF Credentials
  <2> HIDE DEF c
  <2>3. /\ x.key = req[q].key /\ x.since = req[q].since /\ x.rejected = req[q].rejected
        /\ x.cred.id = issued + 1 /\ x.cred.dev = req[q].cred.dev /\ x \in RequestStates
    BY <2>b, Fields, Zenon DEF RequestStates
  <2> HIDE DEF x
  <2>4. Typed(x, "insert")
    BY <1>9, <2>3, Fields DEF Typed, Issue, IInv, TypeOK, Labels, Fetching
  <2>5. KeepsDevices(x, "insert")
    BY <1>9, <2>3, Fields, Zenon DEF KeepsDevices, Issue, IInv, Devices
  <2>6. KeepsCredited(q, x, "insert")
    <3>1. /\ issued \in Nat /\ entry.cred.id \in Nat
          /\ \A s \in Requests : req[s].cred.id \in Nat /\ req[s].rejected \in Nat
      BY Fields
    <3>2. /\ issued' = issued + 1 /\ entry' = entry /\ flight' = flight /\ pc[q] = "issue"
      BY <1>9, Zenon DEF Issue
    <3>3. \A s \in Requests : issued + 1 > req[s].rejected /\ issued + 1 > req[s].cred.id
      BY <3>1 DEF IInv, Credited
    <3>4. /\ issued + 1 > entry.cred.id /\ entry.cred.id <= issued + 1 /\ issued + 1 <= issued + 1
          /\ req[q].rejected <= issued + 1
      BY <3>1 DEF IInv, Credited
    <3> QED
      BY <2>3, <3>2, <3>3, <3>4, Zenon DEF KeepsCredited, IInv, Credited, Holding
  <2> QED
    BY <2>2, <2>4, <2>5, <2>6, MoveIInv, Zenon
<1>10. ASSUME NEW q \in Requests, Insert(q) PROVE IInv'
  <2> DEFINE c == [req[q].cred EXCEPT !.slept = asleep, !.skew = wall - now]
             e == Inserted(req[q].key, c)
  <2>a. asleep \in Int /\ wall - now \in Int /\ req[q].cred \in Credentials
    BY Fields
  <2>1. c \in Credentials /\ c.id = req[q].cred.id /\ c.dev = req[q].cred.dev /\ c.exp \in Int
    BY <2>a, Zenon DEF Credentials
  <2>2. /\ entry' = IF req[q].key # 0 THEN e ELSE entry
        /\ Deliver(q, c, FromUnix(c.exp), FALSE) /\ flight' = flight \ {q}
        /\ UNCHANGED <<clocks, enrolled, issued>> /\ pc[q] = "insert"
    BY <1>10, Zenon DEF Insert
  <2> HIDE DEF c
  <2>3. FromUnix(c.exp) \in Deadlines /\ mono \in Int /\ CacheLifetime(c.exp) \in Int
    BY <2>1, Fields, SMTT(30) DEF FromUnix, Minus, Deadlines, mono, CacheLifetime,
       CREDENTIAL_CACHE_TTL, CREDENTIAL_EXPIRY_MARGIN
  <2>4. e = NoEntry \/ (e.cred = c /\ e.device = req[q].key /\ e \in Entries)
    BY <2>1, <2>3, Fields DEF Inserted, Entries
  <2> HIDE DEF e
  <2>5. NoEntry \in Entries /\ NoEntry.cred.id = 0
    BY NoEntryHolds, Zenon
  <2>6. /\ \/ entry' = entry /\ req[q].key = 0
           \/ entry' = NoEntry
           \/ entry' \in Entries /\ entry'.cred = c /\ entry'.device = req[q].key /\ req[q].key # 0
        /\ entry' \in Entries
    BY <2>2, <2>4, <2>5, Fields, Zenon
  <2>d. entry'.cred.id # 0 => entry'.cred.dev >= entry'.device
    <3>1. req[q].key # 0 => c.dev >= req[q].key
      BY <2>1, <2>2, Zenon DEF IInv, Devices
    <3> QED
      BY <2>5, <2>6, <3>1, Zenon DEF IInv, Devices
  <2>b. /\ 0 <= issued /\ c.id <= issued /\ entry'.cred.id <= issued /\ c.id > req[q].rejected
        /\ entry'.cred.id = 0 \/ entry'.cred.id > req[q].rejected
        /\ entry'.cred.id = 0 \/ entry'.cred.id > 0
        /\ req[q].rejected <= issued
    <3>1. 0 <= issued /\ (entry.cred.id = 0 \/ entry.cred.id > 0) /\ (c.id = 0 \/ c.id > 0)
      BY <2>1, Fields
    <3>2. c.id <= issued /\ c.id > req[q].rejected
      BY <2>1, <2>2, Zenon DEF IInv, Credited
    <3> QED
      BY <2>5, <2>6, <3>1, <3>2, Zenon DEF IInv, Credited
  <2>c. ASSUME NEW s \in Requests \ {q}
        PROVE  /\ pc[s] \in Holding /\ req[s].key # 0 => flight' = {s}
               /\ entry'.cred.id = 0 \/ entry'.cred.id > req[s].rejected
               /\ Served(s) => \/ entry'.cred.id = 0 \/ entry'.cred.id > req[s].cred.id
                               \/ entry'.cred = req[s].cred
               /\ pc[s] = "insert" /\ req[s].key # 0 =>
                    /\ req[s].cred.id > entry'.cred.id /\ req[s].cred.id > req[q].rejected
                    /\ req[s].cred.id > 0
    <3>1. pc[s] \in Holding /\ req[s].key # 0 => flight = {s} /\ flight' = {s} /\ req[q].key = 0
      BY <2>2, Zenon DEF IInv, Credited, Holding
    <3>2. pc[s] = "insert" => req[s].cred.id > 0
      BY Fields DEF IInv, Credited
    <3>3. req[q].key # 0 => c.id > req[s].rejected /\ (Served(s) => c.id > req[s].cred.id)
      BY <2>1, <2>2, Zenon DEF IInv, Credited
    <3>4. /\ entry'.cred.id = 0 \/ entry'.cred.id > req[s].rejected
          /\ Served(s) => \/ entry'.cred.id = 0 \/ entry'.cred.id > req[s].cred.id
                          \/ entry'.cred = req[s].cred
      BY <2>5, <2>6, <3>3, Zenon DEF IInv, Credited
    <3>5. pc[s] = "insert" /\ req[s].key # 0 =>
            req[s].cred.id > entry'.cred.id /\ req[s].cred.id > req[q].rejected
      BY <2>5, <2>6, <3>1, <3>2, Zenon DEF IInv, Credited, Holding
    <3> QED
      BY <3>1, <3>2, <3>4, <3>5, Zenon
  <2>7. CASE req[q].waiting
    <3> DEFINE x == [req[q] EXCEPT !.cred = c, !.deadline = FromUnix(c.exp), !.fromCache = FALSE,
                                   !.waiting = FALSE]
    <3>1. Move(q, x, "send")
      BY <2>2, <2>7, Zenon DEF Move, Deliver, Attempt, Goto, IInv, TypeOK
    <3>2. /\ x.key = req[q].key /\ x.since = req[q].since /\ x.rejected = req[q].rejected
          /\ x.cred = c /\ ~x.fromCache /\ x \in RequestStates
      BY <2>1, <2>3, Fields, Zenon DEF RequestStates
    <3> HIDE DEF x
    <3>3. Typed(x, "send")
      <4>1. flight' \subseteq Requests
        BY <2>2, Zenon DEF IInv, TypeOK
      <4>2. issued' \in issued .. MaxIssued
        BY <2>2, Fields
      <4> QED
        BY <2>6, <3>2, <4>1, <4>2, Zenon DEF Typed, Labels
    <3>4. KeepsDevices(x, "send")
      BY <2>1, <2>2, <2>d, <3>2, Fields, Zenon DEF KeepsDevices, IInv, Devices
    <3>5. KeepsCredited(q, x, "send")
      BY <2>2, <2>b, <2>c, <3>2, Zenon DEF KeepsCredited, Holding
    <3> QED
      BY <3>1, <3>3, <3>4, <3>5, MoveIInv, Zenon
  <2>8. CASE ~req[q].waiting
    <3>1. Move(q, NoRequest, "idle")
      BY <2>2, <2>8, Zenon DEF Move, Deliver, Finish, Goto
    <3>a. NoRequest \in RequestStates
      BY DEF RequestStates, Credentials, Deadlines, NoRequest, NoCred, NoDeadline
    <3>2. Typed(NoRequest, "idle")
      BY <2>2, <2>6, <3>a DEF Typed, IInv, TypeOK, Labels
    <3>3. KeepsDevices(NoRequest, "idle")
      BY <2>2, <2>d, Zenon DEF KeepsDevices, NoRequest
    <3>4. KeepsCredited(q, NoRequest, "idle")
      BY <2>2, <2>b, <2>c, Zenon DEF KeepsCredited, Holding, NoRequest, NoCred
    <3> QED
      BY <3>1, <3>2, <3>3, <3>4, MoveIInv, Zenon
  <2> QED
    BY <2>7, <2>8, Zenon
<1>11. ASSUME NEW q \in Requests, FetchFails(q) PROVE IInv'
  BY <1>11, FinishIInv, Zenon DEF FetchFails
<1>12. ASSUME NEW q \in Requests, TunnelCloses(q) PROVE IInv'
  BY <1>12, FinishIInv, Zenon DEF TunnelCloses
<1>13. ASSUME World PROVE IInv'
  <2>1. UNCHANGED <<issued, entry, flight, pc, req>>
    BY <1>13, Zenon DEF World, Tick, Suspend, SetClock, Logout, Enroll
  <2>a. /\ now \in 0 .. MaxTime /\ asleep \in 0 .. MaxAsleep /\ wall \in Int
        /\ sets \in 0 .. MaxSets /\ device \in 0 .. devices /\ devices \in 0 .. MaxDevices
    BY Zenon DEF IInv, TypeOK
  <2>b. /\ now' \in 0 .. MaxTime /\ asleep' \in 0 .. MaxAsleep /\ wall' \in Int
        /\ sets' \in 0 .. MaxSets
    BY <1>13, <2>a DEF World, Tick, Suspend, SetClock, Logout, Enroll, clocks
  <2>c. /\ device' \in 0 .. devices' /\ devices' \in 0 .. MaxDevices
        /\ devices' = devices \/ (devices' = devices + 1 /\ device = 0)
        /\ devices' = devices => device' \in {device, 0}
        /\ devices' # devices => device' = devices'
    BY <1>13, <2>a DEF World, Tick, Suspend, SetClock, Logout, Enroll, enrolled
  <2>2. TypeOK'
    BY <2>1, <2>b, <2>c, Zenon DEF IInv, TypeOK
  <2>d. \A r \in Requests : req[r].since \in Int
    BY Fields
  <2>e. ASSUME NEW r \in Requests, pc[r] # "idle"
        PROVE  req[r].since <= devices' \/ (req[r].since = devices' + 1 /\ device' = 0)
    <3>1. req[r].since <= devices \/ (req[r].since = devices + 1 /\ device = 0)
      BY <2>e, Zenon DEF IInv, Devices
    <3> QED
      BY <2>a, <2>c, <2>d, <3>1
  <2>f. device' # 0 => device' = devices'
    BY <2>c, Zenon DEF IInv, Devices
  <2>3. Devices'
    BY <2>1, <2>e, <2>f, Zenon DEF IInv, Devices
  <2>4. Credited'
    BY <2>1, Zenon DEF IInv, Credited, Served
  <2> QED
    BY <2>2, <2>3, <2>4, Zenon DEF IInv
<1>14. CASE UNCHANGED vars
  BY <1>14, Zenon DEF IInv, vars, TypeOK, Devices, Credited, Served
<1> QED
  BY <1>1, <1>2, <1>3, <1>4, <1>5, <1>6, <1>7, <1>8, <1>9, <1>10, <1>11, <1>12, <1>13, <1>14, Zenon
     DEF Next, Handle, Fetch

-----------------------------------------------------------------------------
\* A request is never sent with a credential of a device that was given up
\* before it arrived (the device id in the cache entry, llm_proxy/cache.rs).
THEOREM OldDeviceNeverServed == Spec => []NoOldDevice
<1>1. IInv => NoOldDevice
  BY Zenon DEF IInv, Devices, NoOldDevice
<1> QED
  BY <1>1, InitIInv, StepIInv, PTL DEF Spec

\* The retry of forward after a 401 presents a credential of a later call to the
\* controller than the rejected one, for any number of requests that fill and
\* clear the cache.
THEOREM RetryPresentsLater == Spec => []RetryTakesLater
<1>1. IInv => RetryTakesLater
  BY Zenon DEF IInv, Credited, RetryTakesLater
<1> QED
  BY <1>1, InitIInv, StepIInv, PTL DEF Spec

-----------------------------------------------------------------------------
\* What insert wrote down with an entry: its two deadlines lie within the TTL
\* of the instant, the sleep and the clock error of the fetch, and the one on
\* the wall clock before the margin of the expiry.
Window ==
  entry.cred.id # 0 =>
    /\ entry.until <= entry.at - entry.cred.slept + CREDENTIAL_CACHE_TTL
    /\ entry.untilUnix <= entry.at + entry.cred.skew + CREDENTIAL_CACHE_TTL
    /\ entry.untilUnix <= entry.cred.exp - CREDENTIAL_EXPIRY_MARGIN
    /\ entry.at <= now /\ entry.cred.slept <= asleep

\* A fetch for an enrolled device holds the flight lock, and while it does
\* nothing puts an entry its request could have been served into the cache.
Locked ==
  \A r \in Requests :
    pc[r] \in {"load", "issue", "insert"} /\ req[r].key # 0 =>
      flight = {r} /\ (~Servable(req[r].key) \/ sets > 0)

\* The clocks of the machine: the true time and the time asleep only grow, and
\* the wall clock too unless it is set.
LEMMA ClocksGrow ==
  ASSUME IInv, [Next]_vars
  PROVE  /\ now \in Int /\ now' \in Int /\ asleep \in Int /\ asleep' \in Int
         /\ wall \in Int /\ wall' \in Int /\ sets \in Nat /\ sets' \in Nat
         /\ now <= now' /\ asleep <= asleep' /\ mono <= mono' /\ sets <= sets'
         /\ wall <= wall' \/ sets' > 0
<1> USE ProxyAssumption
<1>1. IInv'
  BY StepIInv, Zenon
<1>2. /\ now \in Int /\ now' \in Int /\ asleep \in Int /\ asleep' \in Int
      /\ wall \in Int /\ wall' \in Int /\ sets \in Nat /\ sets' \in Nat
  BY <1>1 DEF IInv, TypeOK
<1>3. CASE World
  <2>1. CASE Tick \/ Suspend
    <3>1. now' = now + 1 /\ wall' = wall + 1 /\ sets' = sets
      BY <2>1, Zenon DEF Tick, Suspend
    <3>2. asleep' = asleep \/ asleep' = asleep + 1
      BY <2>1, Zenon DEF Tick, Suspend
    <3>3. wall <= wall'
      BY <1>2, <3>1
    <3>4. now <= now' /\ asleep <= asleep' /\ sets <= sets'
      BY <1>2, <3>1, <3>2
    <3>5. now - asleep <= now' - asleep'
      <4>1. CASE asleep' = asleep
        BY <1>2, <3>1, <4>1
      <4>2. CASE asleep' = asleep + 1
        BY <1>2, <3>1, <4>2
      <4> QED
        BY <3>2, <4>1, <4>2, Zenon
    <3> QED
      BY <1>2, <3>3, <3>4, <3>5, Zenon DEF mono
  <2>2. CASE SetClock
    BY <1>2, <2>2 DEF SetClock, mono
  <2>3. CASE Logout \/ Enroll
    <3>1. now' = now /\ asleep' = asleep /\ wall' = wall /\ sets' = sets
      BY <2>3, Zenon DEF Logout, Enroll, clocks
    <3> QED
      BY <1>2, <3>1 DEF mono
  <2> QED
    BY <1>3, <2>1, <2>2, <2>3, Zenon DEF World
<1>4. CASE ~World
  <2>1. UNCHANGED clocks
    BY <1>4, Zenon DEF Next, Handle, Fetch, Arrive, Lookup, Answered, Rejected, Upgraded, Abandon,
       JoinFlight, LoadIdentity, Issue, Insert, FetchFails, TunnelCloses, vars, clocks
  <2> QED
    BY <1>2, <2>1 DEF clocks, mono
<1> QED
  BY <1>3, <1>4, Zenon

\* Only insert puts something into the cache.
LEMMA OnlyInsertCaches ==
  ASSUME IInv, [Next]_vars, \A q \in Requests : ~(Insert(q) /\ req[q].key # 0)
  PROVE  entry' \in {entry, NoEntry}
BY Zenon DEF Next, Handle, Fetch, World, Arrive, Lookup, Answered, Rejected, Upgraded, Abandon, JoinFlight,
   LoadIdentity, Issue, Insert, FetchFails, TunnelCloses, Tick, Suspend, SetClock, Logout, Enroll,
   InvalidateIf, vars

\* The deadlines of an entry keep to the TTL and the margin, whatever the
\* clocks do after the fetch.
LEMMA WindowKeeps ==
  ASSUME IInv, Window, [Next]_vars
  PROVE  Window'
<1> USE ProxyAssumption
<1>1. CASE \A q \in Requests : ~(Insert(q) /\ req[q].key # 0)
  <2>1. entry' = entry \/ entry' = NoEntry
    BY <1>1, OnlyInsertCaches, Zenon
  <2>2. CASE entry' = NoEntry
    BY <2>2, Zenon DEF Window, NoEntry, NoCred
  <2>3. CASE entry' = entry
    <3>1. entry.at \in Int /\ entry.cred.slept \in Int
      BY Zenon DEF IInv, TypeOK, Entries, Credentials
    <3>2. /\ now \in Int /\ now' \in Int /\ asleep \in Int /\ asleep' \in Int
          /\ now <= now' /\ asleep <= asleep'
      BY ClocksGrow, Zenon
    <3> QED
      BY <2>3, <3>1, <3>2 DEF Window
  <2> QED
    BY <2>1, <2>2, <2>3, Zenon
<1>2. ASSUME NEW q \in Requests, Insert(q), req[q].key # 0
      PROVE  Window'
  <2> DEFINE c == [req[q].cred EXCEPT !.slept = asleep, !.skew = wall - now]
  <2>1. req[q].cred \in Credentials /\ now \in Int /\ asleep \in Int /\ wall \in Int
    BY Fields, Zenon
  <2>2. c.exp \in Int /\ c.slept = asleep /\ c.skew = wall - now
    BY <2>1, Zenon DEF Credentials
  <2>3. entry' = Inserted(req[q].key, c) /\ now' = now /\ asleep' = asleep
    BY <1>2, Zenon DEF Insert, clocks
  <2> HIDE DEF c
  <2>4. CASE entry' = NoEntry
    BY <2>4, Zenon DEF Window, NoEntry, NoCred
  <2>5. CASE entry' # NoEntry
    <3> DEFINE life == CacheLifetime(c.exp)
    <3>1. /\ life > 0
          /\ entry'.cred = c /\ entry'.until = mono + life /\ entry'.untilUnix = wall + life
          /\ entry'.at = now
      BY <2>3, <2>5, Zenon DEF Inserted
    <3>2. /\ life \in Int /\ life <= CREDENTIAL_CACHE_TTL
          /\ life > 0 => life <= c.exp - wall - CREDENTIAL_EXPIRY_MARGIN
      BY <2>1, <2>2 DEF CacheLifetime, Minus, CREDENTIAL_CACHE_TTL, CREDENTIAL_EXPIRY_MARGIN
    <3> HIDE DEF life
    <3> QED
      BY <2>1, <2>2, <2>3, <3>1, <3>2 DEF Window, mono, CREDENTIAL_CACHE_TTL,
         CREDENTIAL_EXPIRY_MARGIN
  <2> QED
    BY <2>4, <2>5, Zenon
<1> QED
  BY <1>1, <1>2, Zenon

\* A credential is served from the cache for CREDENTIAL_CACHE_TTL at most and
\* never within CREDENTIAL_EXPIRY_MARGIN of its expiry, for every schedule of
\* suspends and clock changes and every lifetime the controller chooses.
THEOREM CacheWindow == Spec => []ServedInWindow
<1>1. Init => Window
  BY DEF Init, Window, NoEntry, NoCred
<1>2. IInv /\ Window => ServedInWindow
  <2> SUFFICES ASSUME IInv, Window, NEW d \in 1 .. MaxDevices, Servable(d)
               PROVE  /\ \/ now < entry.at + CREDENTIAL_CACHE_TTL
                         \/ asleep > entry.cred.slept /\ wall - now < entry.cred.skew
                      /\ wall + CREDENTIAL_EXPIRY_MARGIN < entry.cred.exp
    BY Zenon DEF ServedInWindow
  <2>1. /\ entry.at \in Int /\ entry.until \in Int /\ entry.untilUnix \in Int
        /\ entry.cred.slept \in Int /\ entry.cred.skew \in Int /\ entry.cred.exp \in Int
        /\ now \in Int /\ asleep \in Int /\ wall \in Int
    BY DEF IInv, TypeOK, Entries, Credentials
  <2> QED
    BY <2>1 DEF Window, Servable, mono, CREDENTIAL_CACHE_TTL, CREDENTIAL_EXPIRY_MARGIN
<1>3. IInv /\ Window /\ [Next]_vars => Window'
  BY WindowKeeps, Zenon
<1> QED
  BY <1>1, <1>2, <1>3, InitIInv, StepIInv, PTL DEF Spec

-----------------------------------------------------------------------------
\* What cannot be served now cannot be served later from the same entry, while
\* the wall clock is not set.
LEMMA NotServableStays ==
  ASSUME IInv, [Next]_vars, entry' \in {entry, NoEntry}, NEW d, ~Servable(d) \/ sets > 0
  PROVE  ~Servable(d)' \/ sets' > 0
<1>1. /\ entry.until \in Int /\ entry.untilUnix \in Int
      /\ mono \in Int /\ mono' \in Int
  BY ClocksGrow DEF IInv, TypeOK, Entries, mono
<1>2. /\ wall \in Int /\ wall' \in Int /\ sets \in Nat /\ sets' \in Nat
      /\ mono <= mono' /\ sets <= sets'
      /\ wall <= wall' \/ sets' > 0
  BY ClocksGrow, Zenon
<1>3. CASE entry' = NoEntry
  BY <1>3, Zenon DEF Servable, NoEntry, NoCred
<1>4. CASE entry' = entry
  BY <1>1, <1>2, <1>4 DEF Servable
<1> QED
  BY <1>3, <1>4, Zenon

\* The step of request q keeps the lock with its holder.
LEMMA LockedMove ==
  ASSUME IInv, Locked, [Next]_vars, NEW q \in Requests,
         \A s \in Requests \ {q} : pc'[s] = pc[s] /\ req'[s] = req[s],
         \A s \in Requests \ {q} : flight = {s} => flight' = {s} /\ entry' \in {entry, NoEntry},
         pc'[q] \in {"load", "issue", "insert"} /\ req'[q].key # 0 =>
           flight' = {q} /\ (~Servable(req[q].key)' \/ sets' > 0)
  PROVE  Locked'
<1> SUFFICES ASSUME NEW s \in Requests, s # q, pc'[s] \in {"load", "issue", "insert"},
                    req'[s].key # 0
             PROVE  flight' = {s} /\ (~Servable(req[s].key)' \/ sets' > 0)
  BY Zenon DEF Locked
<1>1. pc'[s] = pc[s] /\ req'[s] = req[s]
  BY Zenon
<1>2. PICK d : d = req[s].key
  BY Zenon
<1>3. flight = {s} /\ (~Servable(d) \/ sets > 0)
  BY <1>1, <1>2, Zenon DEF Locked
<1>4. flight' = {s} /\ entry' \in {entry, NoEntry}
  BY <1>3, Zenon
<1>5. ~Servable(d)' \/ sets' > 0
  BY <1>3, <1>4, NotServableStays, Zenon
<1> QED
  BY <1>1, <1>2, <1>4, <1>5, Zenon DEF Servable

\* Every step keeps the flight lock with the one fetch that holds it, and no
\* entry the fetch would make needless appears meanwhile.
LEMMA LockedKeeps ==
  ASSUME IInv, Locked, [Next]_vars
  PROVE  Locked'
<1> USE ProxyAssumption
<1> USE DEF Holding
<1> DEFINE Alone(q) == \A s \in Requests \ {q} : pc'[s] = pc[s] /\ req'[s] = req[s]
<1>1. pc \in [Requests -> Labels] /\ req \in [Requests -> RequestStates]
  BY Zenon DEF IInv, TypeOK
<1>2. ASSUME NEW q \in Requests, NEW t \in BOOLEAN,
             Arrive(q) \/ Answered(q) \/ Rejected(q, t) \/ Upgraded(q) \/ TunnelCloses(q)
      PROVE  Locked'
  <2>1. Alone(q) /\ flight' = flight /\ entry' \in {entry, NoEntry} /\ pc'[q] \notin Holding
    BY <1>1, <1>2, Zenon DEF Arrive, Answered, Rejected, Upgraded, TunnelCloses, Finish, Goto, InvalidateIf
  <2> QED
    BY <2>1, LockedMove, Zenon
<1>3. ASSUME NEW q \in Requests, Lookup(q)
      PROVE  Locked'
  <2>1. Alone(q) /\ flight' = flight /\ entry' = entry
    BY <1>1, <1>3, Zenon DEF Lookup, Attempt, Goto
  <2>2. pc'[q] \in Holding => req'[q].key = 0
    BY <1>1, <1>3 DEF Lookup, Attempt, Goto, RequestStates
  <2> QED
    BY <2>1, <2>2, LockedMove, Zenon
<1>4. ASSUME NEW q \in Requests, Abandon(q) \/ LoadIdentity(q) \/ Issue(q)
      PROVE  Locked'
  <2>1. Alone(q) /\ flight' = flight /\ entry' = entry
    BY <1>1, <1>4, Zenon DEF Abandon, LoadIdentity, Issue, Goto
  <2>2. req'[q].key = req[q].key /\ (pc'[q] \in Holding => pc[q] \in Holding)
    <3>1. CASE Abandon(q)
      BY <1>1, <3>1, Zenon DEF Abandon, RequestStates
    <3>2. CASE LoadIdentity(q)
      BY <1>1, <3>2, Zenon DEF LoadIdentity, Goto, RequestStates
    <3>3. CASE Issue(q)
      BY <1>1, <3>3, Zenon DEF Issue, Goto, RequestStates
    <3> QED
      BY <1>4, <3>1, <3>2, <3>3, Zenon
  <2>3. PICK d : d = req[q].key
    BY Zenon
  <2>4. ~Servable(d) \/ sets > 0 => ~Servable(d)' \/ sets' > 0
    BY <2>1, NotServableStays, Zenon
  <2>5. pc'[q] \in Holding /\ req'[q].key # 0 =>
          flight' = {q} /\ (~Servable(req[q].key)' \/ sets' > 0)
    BY <2>1, <2>2, <2>3, <2>4, Zenon DEF Locked, Servable
  <2> QED
    BY <2>1, <2>5, LockedMove, Zenon
<1>5. ASSUME NEW q \in Requests, JoinFlight(q)
      PROVE  Locked'
  <2>1. Alone(q) /\ flight = {} /\ entry' = entry /\ sets' = sets /\ UNCHANGED <<now, asleep, wall>>
    BY <1>1, <1>5, Zenon DEF JoinFlight, Deliver, Attempt, Finish, Goto, clocks
  <2>2. CASE Servable(req[q].key)
    <3>1. pc'[q] \notin Holding
      BY <1>1, <1>5, <2>2, Zenon DEF JoinFlight, Deliver, Attempt, Finish, Goto
    <3> QED
      BY <2>1, <3>1, LockedMove, Zenon
  <2>3. CASE ~Servable(req[q].key)
    <3>1. flight' = {q} /\ req' = req
      BY <1>5, <2>3, Zenon DEF JoinFlight
    <3>2. ~Servable(req[q].key)'
      BY <2>1, <2>3, <3>1, Zenon DEF Servable, mono
    <3> QED
      BY <2>1, <3>1, <3>2, LockedMove, Zenon
  <2> QED
    BY <2>2, <2>3, Zenon
<1>6. ASSUME NEW q \in Requests, Insert(q) \/ FetchFails(q)
      PROVE  Locked'
  <2>1. Alone(q) /\ flight' = flight \ {q} /\ pc'[q] \notin Holding /\ pc[q] \in Holding
    BY <1>1, <1>6, Zenon DEF Insert, FetchFails, Deliver, Attempt, Finish, Goto
  <2>2. req[q].key = 0 => entry' = entry
    BY <1>6, Zenon DEF Insert, FetchFails
  <2>3. req[q].key # 0 => flight = {q}
    BY <2>1, Zenon DEF Locked
  <2>4. \A s \in Requests \ {q} : flight = {s} => flight' = {s} /\ entry' \in {entry, NoEntry}
    BY <2>1, <2>2, <2>3, Zenon
  <2> QED
    BY <2>1, <2>4, LockedMove, Zenon
<1>7. CASE World \/ UNCHANGED vars
  <2>1. UNCHANGED <<entry, flight, pc, req>>
    BY <1>7, Zenon DEF World, Tick, Suspend, SetClock, Logout, Enroll, vars
  <2>2. \A d \in 0 .. MaxDevices : ~Servable(d) \/ sets > 0 => ~Servable(d)' \/ sets' > 0
    BY <2>1, NotServableStays, Zenon
  <2>3. \A r \in Requests : req[r].key \in 0 .. MaxDevices
    BY Fields, Zenon
  <2> QED
    BY <2>1, <2>2, <2>3, Zenon DEF Locked, Servable
<1> QED
  BY <1>2, <1>3, <1>4, <1>5, <1>6, <1>7, Zenon DEF Next, Handle, Fetch

\* The controller is asked for a credential only when the cache has none to
\* serve: get_or_fetch reads the cache again under the flight lock, and nobody
\* else fills it while the lock is held.
THEOREM FetchIsNeeded == Spec => NoNeedlessFetch
<1>1. Init => Locked
  BY Zenon DEF Init, Locked
<1>2. IInv /\ Locked /\ [Next]_vars => Locked'
  BY LockedKeeps, Zenon
<1>3. IInv /\ Locked => \A r \in Requests :
        Issue(r) /\ req[r].key # 0 => ~Servable(req[r].key) \/ sets > 0
  BY Zenon DEF Locked, Issue
<1> QED
  BY <1>1, <1>2, <1>3, InitIInv, StepIInv, PTL DEF Spec, NoNeedlessFetch

-----------------------------------------------------------------------------
(* From launch to exit *)

(* A daemon's record; what the launch holds does not matter here.          *)
ProcessFields == {"pc", "launch", "proxy", "pairing", "current", "unsaved", "stop", "service",
           "touched", "rival", "exit"}
IsProcess(r) == r = [f \in ProcessFields |-> r[f]]

Starting == {"off", "resolve", "proxy"}
Bound(d) == proc[d].proxy = "bound"

(* The value in d's files has to be its own.                               *)
Answers(d) == Applied(d) /\ Bound(d) /\ ~proc[d].rival
Own(d, value) == value \in {NoPairing, proc[d].pairing}

(* What holds of each daemon.  Its port is the one it bound; with the port *)
(* it has a pairing value; nothing is applied before the restart's apply;  *)
(* what is in the files is its own value once it has applied.              *)
Held(d) ==
  /\ IsProcess(proc[d])
  /\ Bound(d) <=> port = d
  /\ proc[d].pc \in Starting => ~Bound(d)
  /\ proc[d].pc \in Starting \cup {"pairing"} => proc[d].pairing = NoPairing
  /\ Bound(d) => proc[d].pc = "pairing" \/ proc[d].pairing # NoPairing
  /\ proc[d].current # "none" => proc[d].pc \in {"bind", "serving"}
  /\ Answers(d) => \A p \in ProxyPrograms : Own(d, pointer[p])
  /\ Running(d) => proc[d].exit = "none"

(* Two daemons with two values have met.                                   *)
Met ==
  \A d, e \in Daemons :
    proc[d].pairing # NoPairing /\ proc[e].pairing \notin {NoPairing, proc[d].pairing} => proc[d].rival

(* What the programs' files hold in every scope.                           *)
InFiles ==
  /\ dependent \subseteq InScope
  /\ scope # "user" => \A p \in ProxyPrograms : pointer[p] = NoPairing

DaemonTyped ==
  /\ proc = [d \in Daemons |-> proc[d]]
  /\ values \in Nat
  /\ pairing = [is |-> pairing.is, value |-> pairing.value]
  /\ pairing.is = "stored" => pairing.value # NoPairing

DaemonInv == DaemonTyped /\ InFiles /\ Met /\ \A d \in Daemons : Held(d)

(* The step leaves the files of each daemon valid.                         *)
FilesKept == \A e \in Daemons : Answers(e) => \A p \in ProxyPrograms : Own(e, pointer'[p])

-----------------------------------------------------------------------------
(* Facts about a step *)

LEMMA Ended ==
  ASSUME NEW code
  PROVE  /\ IsProcess(Off(code))
         /\ Off(code).pc = "off" /\ Off(code).proxy = "off" /\ Off(code).pairing = NoPairing
         /\ Off(code).current = "none" /\ Off(code).exit = code
BY Zenon DEF IsProcess, ProcessFields, Off

(* An apply keeps the other daemons' files valid: the value it writes is   *)
(* theirs, or they have met a rival.                                       *)
LEMMA AppliedFiles ==
  ASSUME DaemonInv, NEW d \in Daemons, NEW c, NEW ps, ps \subseteq InScope, ApplyTo(d, c, ps),
         UNCHANGED scope
  PROVE  /\ InFiles' /\ FilesKept
         /\ ps = InScope /\ proc[d].pairing # NoPairing => \A p \in ProxyPrograms : Own(d, pointer'[p])
<1> Held(d) /\ InFiles /\ Met /\ \A e \in Daemons : Held(e)
  BY Zenon DEF DaemonInv
<1>1. ASSUME NEW p \in ProxyPrograms
      PROVE  /\ p \in ps => pointer'[p] = Pointed(d, c)[p]
             /\ p \notin ps => pointer'[p] = pointer[p]
  BY <1>1, Zenon DEF ApplyTo
<1>2. ASSUME NEW p \in ProxyPrograms
      PROVE  /\ Pointed(d, c)[p] \in {NoPairing, pointer[p], proc[d].pairing}
             /\ proc[d].pairing # NoPairing => Own(d, Pointed(d, c)[p])
  BY <1>2, Zenon DEF Pointed, Own
<1>3. ASSUME NEW p \in ProxyPrograms, scope # "user"
      PROVE  p \notin InScope
  BY <1>3 DEF ProxyPrograms, InScope, UserPrograms
<1>4. ASSUME NEW p \in ProxyPrograms, scope = "user"
      PROVE  p \in InScope
  BY <1>4 DEF ProxyPrograms, InScope, SystemPrograms, UserPrograms, Programs
<1>5. dependent' \subseteq InScope
  <2>1. Calls(c) \subseteq InScope
    BY Zenon DEF Calls, Managed, Through
  <2> QED
    BY <2>1, Zenon DEF ApplyTo, InFiles
<1>6. InFiles'
  BY <1>1, <1>3, <1>5, Zenon DEF InFiles, InScope
<1>7. ASSUME NEW e \in Daemons, Answers(e), NEW p \in ProxyPrograms
      PROVE  Own(e, pointer'[p])
  <2>1. Own(e, pointer[p]) /\ proc[e].pairing # NoPairing
    BY <1>7, Zenon DEF Held, Answers, Applied
  <2>2. Own(e, proc[d].pairing)
    BY <1>7, <2>1, Zenon DEF Met, Answers, Own
  <2> QED
    BY <1>1, <1>2, <2>1, <2>2, Zenon DEF Own
<1>8. ASSUME ps = InScope, proc[d].pairing # NoPairing, NEW p \in ProxyPrograms
      PROVE  Own(d, pointer'[p])
  BY <1>1, <1>2, <1>3, <1>4, <1>8, Zenon DEF InFiles, Own
<1> QED
  BY <1>6, <1>7, <1>8, Zenon DEF FilesKept

(* Also where it stops on its way.                                         *)
LEMMA PartFiles ==
  ASSUME DaemonInv, NEW d \in Daemons, NEW c, ApplyPart(d, c), UNCHANGED scope
  PROVE  InFiles' /\ FilesKept
<1>1. \E ps : ps \subseteq InScope /\ ApplyTo(d, c, ps)
  <2>1. PICK n \in 0 .. 8 :
          ApplyTo(d, c, InScope \cap ({MANAGED_PROGRAMS[i] : i \in 1 .. n}
            \ (IF platform = "windows" /\ n < 8 THEN {"claude-desktop"} ELSE {})))
    BY Zenon DEF ApplyPart
  <2> QED
    BY <2>1, Zenon
<1> QED
  BY <1>1, AppliedFiles, Zenon

(* What a daemon's record keeps when another one takes a step.              *)
Kept(e) ==
  /\ IsProcess(proc'[e])
  /\ proc'[e].pc = proc[e].pc /\ proc'[e].proxy = proc[e].proxy
  /\ proc'[e].pairing = proc[e].pairing /\ proc'[e].current = proc[e].current
  /\ proc'[e].unsaved = proc[e].unsaved /\ proc'[e].exit = proc[e].exit
  /\ proc[e].rival => proc'[e].rival

(* Values are only lost, and who has met a rival keeps that in mind.       *)
LEMMA StillMet ==
  ASSUME Met, \A e \in Daemons :
           \/ proc'[e].pairing = NoPairing
           \/ proc'[e].pairing = proc[e].pairing /\ (proc[e].rival => proc'[e].rival)
  PROVE  Met'
BY Zenon DEF Met

(* A daemon is none the worse for a step that leaves its record, its port   *)
(* and its files alone.                                                    *)
LEMMA OthersHeld ==
  ASSUME DaemonInv, NEW e \in Daemons, Kept(e), port' = e <=> port = e, FilesKept
  PROVE  Held(e)'
<1> Held(e)
  BY Zenon DEF DaemonInv
<1>1. Answers(e)' => Answers(e)
  BY Zenon DEF Answers, Applied, Bound, Kept
<1>2. Answers(e)' => \A p \in ProxyPrograms : Own(e, pointer[p])'
  BY <1>1, Zenon DEF FilesKept, Own, Kept
<1> QED
  BY <1>2, Zenon DEF Kept, Held, Bound, Running

(* A step of d alone: everyone else is kept.                               *)
LEMMA OwnStep ==
  ASSUME DaemonInv, NEW d \in Daemons, proc' = [proc EXCEPT ![d] = proc'[d]],
         port' \in {port, Nobody, d}, port' = Nobody => port \in {d, Nobody},
         port' = d => port \in {d, Nobody}, FilesKept,
         \/ proc'[d].pairing = NoPairing
         \/ proc'[d].pairing = proc[d].pairing /\ (proc[d].rival => proc'[d].rival),
         DaemonTyped', InFiles', Held(d)'
  PROVE  DaemonInv'
<1> DaemonTyped /\ Met /\ \A e \in Daemons : Held(e)
  BY Zenon DEF DaemonInv
<1>1. \A e \in Daemons : e # d => proc'[e] = proc[e]
  BY Zenon DEF DaemonTyped
<1>2. ASSUME NEW e \in Daemons, e # d
      PROVE  Held(e)'
  <2>1. Kept(e)
    BY <1>1, <1>2, Zenon DEF Kept, Held
  <2>2. port' = e <=> port = e
    BY <1>2, DaemonsAssumption
  <2> QED
    BY <2>1, <2>2, OthersHeld, Zenon
<1>3. Met'
  BY <1>1, StillMet, Zenon
<1> QED
  BY <1>2, <1>3, Zenon DEF DaemonInv

(* The process ends.                                                       *)
LEMMA ExitHeld ==
  ASSUME DaemonInv, NEW d \in Daemons, NEW code, NEW path, Exit(d, code, path), UNCHANGED <<pairing, values>>,
         FilesKept, InFiles'
  PROVE  DaemonInv'
<1> DaemonTyped /\ Held(d)
  BY Zenon DEF DaemonInv
<1>1. proc' = [proc EXCEPT ![d] = proc'[d]] /\ proc'[d] = Off(code)
  BY Zenon DEF Exit, DaemonTyped
<1>2. DaemonTyped'
  BY <1>1, Zenon DEF DaemonTyped
<1>3. Held(d)'
  BY <1>1, Ended, DaemonsAssumption DEF Held, Bound, Answers, Applied, Running, Exit
<1>4. port' \in {port, Nobody} /\ (port' = Nobody => port \in {d, Nobody}) /\ port' # d
  BY DaemonsAssumption, Zenon DEF Exit
<1>5. proc'[d].pairing = NoPairing
  BY <1>1, Ended
<1> QED
  BY <1>1, <1>2, <1>3, <1>4, <1>5, OwnStep, Zenon

(* The files are not written.                                              *)
LEMMA Untouched ==
  ASSUME DaemonInv, UNCHANGED <<scope, pointer, dependent>>
  PROVE  InFiles' /\ FilesKept
BY Zenon DEF DaemonInv, InFiles, InScope, Held, FilesKept

-----------------------------------------------------------------------------
(* The actions keep the invariant *)

LEMMA InitDaemonInv == DaemonInit => DaemonInv
<1> SUFFICES ASSUME DaemonInit PROVE DaemonInv
  BY Zenon
<1>1. \A d \in Daemons : proc[d] = Off("none")
  BY Zenon DEF DaemonInit
<1>2. \A d \in Daemons : Held(d)
  BY <1>1, Ended, DaemonsAssumption, Zenon DEF DaemonInit, Held, Bound, Answers, Applied, Running
<1>3. DaemonTyped
  BY Zenon DEF DaemonInit, DaemonTyped
<1>4. InFiles
  BY Zenon DEF DaemonInit, InFiles
<1>5. \A d \in Daemons : proc[d].pairing = NoPairing
  BY <1>1, Ended
<1>6. Met
  BY <1>5, Zenon DEF Met
<1> QED
  BY <1>2, <1>3, <1>4, <1>6, Zenon DEF DaemonInv

LEMMA LaunchHeld ==
  ASSUME DaemonInv, NEW d \in Daemons, NEW a \in Launches, Launch(d, a)
  PROVE  DaemonInv'
<1> DaemonTyped /\ Met /\ \A e \in Daemons : Held(e)
  BY Zenon DEF DaemonInv
<1>1. InFiles' /\ FilesKept
  BY Untouched, Zenon DEF Launch, machine, files
<1>2. DaemonTyped'
  BY Zenon DEF DaemonTyped, Launch
<1>3. ASSUME NEW e \in Daemons, e # d
      PROVE  Kept(e)
  <2>1. \/ proc'[e] = proc[e]
        \/ proc'[e] = [proc[e] EXCEPT !.touched = TRUE]
    BY <1>3, Zenon DEF Launch
  <2> QED
    BY <2>1, Zenon DEF Kept, Held, IsProcess, ProcessFields
<1>4. Held(d)'
  <2>1. /\ IsProcess(proc'[d]) /\ proc'[d].pc = "resolve" /\ proc'[d].proxy = "off"
        /\ proc'[d].pairing = NoPairing /\ proc'[d].current = "none" /\ proc'[d].exit = "none"
    BY Zenon DEF Launch, Off, IsProcess, ProcessFields
  <2>2. port' # d
    BY Zenon DEF Launch, Held, Running, Starting
  <2> QED
    BY <2>1, <2>2, Zenon DEF Held, Bound, Answers, Applied, Running
<1>5. \A e \in Daemons : e # d => Held(e)'
  BY <1>1, <1>3, OthersHeld, Zenon DEF Launch
<1>6. proc'[d].pairing = NoPairing
  BY Zenon DEF Launch, Off
<1>7. Met'
  BY <1>3, <1>6, StillMet, Zenon DEF Kept
<1> QED
  BY <1>1, <1>2, <1>4, <1>5, <1>7, Zenon DEF DaemonInv

LEMMA ResolveHeld ==
  ASSUME DaemonInv, NEW d \in Daemons, Resolve(d)
  PROVE  DaemonInv'
<1> DaemonTyped /\ Held(d)
  BY Zenon DEF DaemonInv
<1>1. InFiles' /\ FilesKept
  BY Untouched, Zenon DEF Resolve, machine, files
<1>2. CASE Refuses(d)
  BY <1>1, <1>2, ExitHeld, Zenon DEF Resolve, Refuses
<1>3. CASE GoTo(d, "proxy") /\ UNCHANGED port
  <2>1. proc' = [proc EXCEPT ![d] = proc'[d]] /\ proc'[d] = [proc[d] EXCEPT !.pc = "proxy"] /\ DaemonTyped'
    BY <1>3, Zenon DEF GoTo, DaemonTyped, Resolve
  <2>2. Held(d)'
    BY <2>1, <1>3, Zenon DEF Held, Bound, Answers, Applied, Running, IsProcess, ProcessFields, Starting, Resolve, At, files
  <2>3. proc'[d].pairing = proc[d].pairing /\ proc'[d].rival = proc[d].rival
    BY <2>1, Zenon DEF Held, IsProcess, ProcessFields
  <2> QED
    BY <1>1, <1>3, <2>1, <2>2, <2>3, OwnStep, Zenon DEF Resolve
<1> QED
  BY <1>2, <1>3, Zenon DEF Resolve

LEMMA BindProxyHeld ==
  ASSUME DaemonInv, NEW d \in Daemons, bind_llm_proxy(d)
  PROVE  DaemonInv'
<1> DaemonTyped /\ Held(d)
  BY Zenon DEF DaemonInv
<1>1. InFiles' /\ FilesKept
  BY Untouched, Zenon DEF bind_llm_proxy, machine, files
<1> DEFINE proxy == IF ~proc[d].launch.listen THEN "off" ELSE IF port = Nobody THEN "bound" ELSE "failed"
<1>a. proc' = [proc EXCEPT ![d].pc = "pairing", ![d].proxy = proxy]
  BY Zenon DEF bind_llm_proxy
<1>b. \/ proxy \in {"off", "failed"} /\ port' = port
      \/ proxy = "bound" /\ port = Nobody /\ port' = d
  BY Zenon DEF bind_llm_proxy
<1> HIDE DEF proxy
<1>2. /\ proc' = [proc EXCEPT ![d] = proc'[d]] /\ DaemonTyped'
      /\ proc'[d] = [proc[d] EXCEPT !.pc = "pairing", !.proxy = proxy]
  BY <1>a, Zenon DEF bind_llm_proxy, DaemonTyped
<1>c. proc[d].pc = "proxy" /\ UNCHANGED <<pairing, values, pointer>>
  BY Zenon DEF bind_llm_proxy, At, files
<1>d. /\ IsProcess(proc'[d]) /\ proc'[d].pc = "pairing" /\ proc'[d].proxy = proxy
      /\ proc'[d].pairing = proc[d].pairing /\ proc'[d].current = proc[d].current
      /\ proc'[d].exit = proc[d].exit /\ proc'[d].unsaved = proc[d].unsaved /\ proc'[d].rival = proc[d].rival
  BY <1>2, Zenon DEF Held, IsProcess, ProcessFields
<1>3. Held(d)'
  BY <1>b, <1>c, <1>d, Zenon DEF Held, Bound, Answers, Applied, Running, Starting
<1> QED
  BY <1>1, <1>b, <1>d, <1>2, <1>3, OwnStep, Zenon DEF bind_llm_proxy

LEMMA LoadPairingHeld ==
  ASSUME DaemonInv, NEW d \in Daemons, load_or_create_pairing(d)
  PROVE  DaemonInv'
<1> DaemonTyped /\ Met /\ \A e \in Daemons : Held(e)
  BY Zenon DEF DaemonInv
<1>1. InFiles' /\ FilesKept
  BY Untouched, ZenonT(30) DEF load_or_create_pairing, machine, files
<1>2. /\ proc[d].pc = "pairing" /\ Bound(d) /\ UNCHANGED port
      /\ \/ pairing.is = "stored" /\ UNCHANGED <<pairing, values>>
         \/ /\ values' = values + 1
            /\ pairing' = [is |-> "stored", value |-> values + 1]
      /\ Paired(d, pairing'.value)
  BY DEF load_or_create_pairing, At, Bound
<1> DEFINE value == pairing'.value
           rivals == {e \in Daemons : proc[e].pairing \notin {NoPairing, value}}
<1>3. value # NoPairing /\ values' \in Nat /\ pairing'.is = "stored"
      /\ pairing' = [is |-> pairing'.is, value |-> pairing'.value]
  BY <1>2 DEF DaemonTyped, NoPairing
<1>4. /\ proc' = [e \in Daemons |-> proc'[e]]
      /\ proc'[d] = [proc[d] EXCEPT !.pc = "once", !.pairing = value, !.rival = rivals # {}]
      /\ \A e \in Daemons : e # d => proc'[e] = [proc[e] EXCEPT !.rival = @ \/ e \in rivals]
  BY <1>2, Zenon DEF Paired
<1>5. DaemonTyped'
  BY <1>3, <1>4, Zenon DEF DaemonTyped
<1> HIDE DEF value
<1>6. /\ IsProcess(proc'[d]) /\ proc'[d].pc = "once" /\ proc'[d].proxy = proc[d].proxy
      /\ proc'[d].pairing = value /\ proc'[d].current = proc[d].current
      /\ proc'[d].exit = proc[d].exit /\ proc'[d].rival = (rivals # {})
  BY <1>4, ZenonT(30) DEF Held, IsProcess, ProcessFields
<1>7. Held(d)'
  BY <1>2, <1>3, <1>6, Zenon DEF Held, Bound, Answers, Applied, Running, Starting
<1>8. ASSUME NEW e \in Daemons, e # d
      PROVE  Kept(e) /\ proc'[e].rival = (proc[e].rival \/ e \in rivals)
  <2>1. proc'[e] = [proc[e] EXCEPT !.rival = @ \/ e \in rivals]
    BY <1>4, <1>8, Zenon
  <2> QED
    BY <2>1, ZenonT(30) DEF Kept, Held, IsProcess, ProcessFields
<1>9. \A e \in Daemons : e # d => Held(e)'
  BY <1>1, <1>2, <1>8, OthersHeld, Zenon
<1>10. ASSUME NEW e \in Daemons, NEW f \in Daemons, proc'[e].pairing # NoPairing,
              proc'[f].pairing \notin {NoPairing, proc'[e].pairing}
       PROVE  proc'[e].rival
  <2>1. CASE e = d
    <3>1. f # d /\ f \in rivals
      BY <1>6, <1>8, <1>10, <2>1, Zenon DEF Kept
    <3> QED
      BY <1>6, <2>1, <3>1, Zenon
  <2>2. CASE e # d /\ f = d
    BY <1>6, <1>8, <1>10, <2>2, Zenon DEF Kept
  <2>3. CASE e # d /\ f # d
    BY <1>8, <1>10, <2>3, Zenon DEF Kept, Met
  <2> QED
    BY <2>1, <2>2, <2>3, Zenon
<1>11. Met'
  BY <1>10, Zenon DEF Met
<1> QED
  BY <1>1, <1>5, <1>7, <1>9, <1>11, Zenon DEF DaemonInv

(* A step of d that leaves the files, the port and its proxy alone.         *)
LEMMA ProgressHeld ==
  ASSUME DaemonInv, NEW d \in Daemons, UNCHANGED <<scope, port, pairing, values, pointer, dependent>>,
         proc' = [proc EXCEPT ![d] = proc'[d]], IsProcess(proc'[d]),
         proc'[d].proxy = proc[d].proxy, proc'[d].pairing = proc[d].pairing,
         proc'[d].current = proc[d].current, proc'[d].exit = proc[d].exit,
         proc'[d].unsaved = proc[d].unsaved, proc'[d].rival = proc[d].rival,
         \/ proc'[d].pc = proc[d].pc
         \/ /\ proc[d].pc \notin Starting /\ proc'[d].pc \notin Starting \cup {"pairing"}
            /\ proc[d].pc = "pairing" => ~Bound(d)
            /\ proc[d].current # "none" => proc'[d].pc \in {"bind", "serving"}
  PROVE  DaemonInv'
<1> DaemonTyped /\ Held(d)
  BY Zenon DEF DaemonInv
<1>1. InFiles' /\ FilesKept
  BY Untouched, Zenon
<1>2. DaemonTyped'
  BY Zenon DEF DaemonTyped
<1>3. Answers(d)' => \A p \in ProxyPrograms : Own(d, pointer[p])'
  BY Zenon DEF Held, Bound, Answers, Applied, Own
<1>4. Held(d)'
  BY <1>3, Zenon DEF Held, Bound, Running, Starting
<1> QED
  BY <1>1, <1>2, <1>4, OwnStep, DaemonsAssumption, Zenon

LEMMA AttachHeld ==
  ASSUME DaemonInv, NEW d \in Daemons, attach_llm_proxy_pairing(d)
  PROVE  DaemonInv'
<1> DaemonTyped /\ Held(d)
  BY Zenon DEF DaemonInv
<1>1. proc[d].pc = "pairing" /\ UNCHANGED <<scope, pairing, values, pointer, dependent>>
  BY Zenon DEF attach_llm_proxy_pairing, At, machine, files
<1>2. CASE ~Bound(d) /\ GoTo(d, "once") /\ UNCHANGED port
  <2>1. proc' = [proc EXCEPT ![d] = proc'[d]] /\ proc'[d] = [proc[d] EXCEPT !.pc = "once"]
    BY <1>2, Zenon DEF GoTo, DaemonTyped
  <2>2. /\ IsProcess(proc'[d]) /\ proc'[d].pc = "once" /\ proc'[d].proxy = proc[d].proxy
        /\ proc'[d].pairing = proc[d].pairing /\ proc'[d].current = proc[d].current
        /\ proc'[d].exit = proc[d].exit /\ proc'[d].unsaved = proc[d].unsaved /\ proc'[d].rival = proc[d].rival
    BY <2>1, Zenon DEF Held, IsProcess, ProcessFields
  <2>3. proc[d].current = "none"
    BY <1>1, Zenon DEF Held, Starting
  <2> QED
    BY <1>1, <1>2, <2>1, <2>2, <2>3, ProgressHeld, Zenon DEF Starting
<1>3. CASE /\ Bound(d) /\ port' = Nobody
           /\ proc' = [proc EXCEPT ![d].pc = "once", ![d].proxy = "failed"]
  <2>1. /\ proc' = [proc EXCEPT ![d] = proc'[d]]
        /\ proc'[d] = [proc[d] EXCEPT !.pc = "once", !.proxy = "failed"] /\ DaemonTyped'
    BY <1>1, <1>3, Zenon DEF DaemonTyped
  <2>2. /\ IsProcess(proc'[d]) /\ proc'[d].pc = "once" /\ proc'[d].proxy = "failed"
        /\ proc'[d].pairing = proc[d].pairing /\ proc'[d].current = proc[d].current
        /\ proc'[d].exit = proc[d].exit /\ proc'[d].unsaved = proc[d].unsaved /\ proc'[d].rival = proc[d].rival
    BY <2>1, Zenon DEF Held, IsProcess, ProcessFields
  <2>3. Held(d)' /\ port = d
    BY <1>1, <1>3, <2>2, DaemonsAssumption, Zenon DEF Held, Bound, Answers, Applied, Running, Starting
  <2>4. InFiles' /\ FilesKept
    BY <1>1, Untouched, Zenon
  <2> QED
    BY <1>1, <1>3, <2>1, <2>2, <2>3, <2>4, OwnStep, Zenon
<1> QED
  BY <1>2, <1>3, Zenon DEF attach_llm_proxy_pairing, Bound

(* The process ends by itself or is ended, and the files stay as they are.  *)
LEMMA EndHeld ==
  ASSUME DaemonInv, NEW d \in Daemons, NEW code, NEW path, Exit(d, code, path),
         UNCHANGED <<scope, pairing, values, pointer, dependent>>
  PROVE  DaemonInv'
BY Untouched, ExitHeld, Zenon

LEMMA OneShotHeld ==
  ASSUME DaemonInv, NEW d \in Daemons, OneShot(d)
  PROVE  DaemonInv'
<1> DEFINE c == proc[d].launch.local
<1>1. UNCHANGED <<scope, pairing, values>>
  BY Zenon DEF OneShot, machine
<1>2. CASE Apply(d, c) /\ Exit(d, "ok", Closed(d))
  BY <1>1, <1>2, AppliedFiles, ExitHeld, Zenon DEF Apply
<1>3. CASE ApplyPart(d, c) /\ Fails(d)
  BY <1>1, <1>3, PartFiles, ExitHeld, Zenon DEF Fails
<1>4. ASSUME NEW code, Exit(d, code, Closed(d)), UNCHANGED files
      PROVE  DaemonInv'
  BY <1>1, <1>4, EndHeld, Zenon DEF files
<1> QED
  BY <1>2, <1>3, <1>4, Zenon DEF OneShot, Refuses, Fails

LEMMA StartServicesHeld ==
  ASSUME DaemonInv, NEW d \in Daemons, StartServices(d)
  PROVE  DaemonInv'
<1> DaemonTyped /\ Held(d)
  BY Zenon DEF DaemonInv
<1>1. proc[d].pc = "once" /\ UNCHANGED <<scope, pairing, values, pointer, dependent>>
  BY Zenon DEF StartServices, At, machine, files
<1>2. CASE Fails(d)
  BY <1>1, <1>2, EndHeld, Zenon DEF Fails
<1>3. CASE GoTo(d, "restore") /\ UNCHANGED port
  <2>1. proc' = [proc EXCEPT ![d] = proc'[d]] /\ proc'[d] = [proc[d] EXCEPT !.pc = "restore"]
    BY <1>3, Zenon DEF GoTo, DaemonTyped
  <2>2. /\ IsProcess(proc'[d]) /\ proc'[d].pc = "restore" /\ proc'[d].proxy = proc[d].proxy
        /\ proc'[d].pairing = proc[d].pairing /\ proc'[d].current = proc[d].current
        /\ proc'[d].exit = proc[d].exit /\ proc'[d].unsaved = proc[d].unsaved /\ proc'[d].rival = proc[d].rival
    BY <2>1, Zenon DEF Held, IsProcess, ProcessFields
  <2>3. proc[d].current = "none"
    BY <1>1, Zenon DEF Held
  <2> QED
    BY <1>1, <1>3, <2>1, <2>2, <2>3, ProgressHeld, Zenon DEF Starting
<1> QED
  BY <1>2, <1>3, Zenon DEF StartServices

(* d has applied: the value in the files is its own from here on.  After   *)
(* an apply that stopped on its way it still is if it was before.          *)
LEMMA AppliedHeld ==
  ASSUME DaemonInv, NEW d \in Daemons, NEW c, UNCHANGED <<scope, port, pairing, values>>,
         \/ Apply(d, c)
         \/ ApplyPart(d, c) /\ (proc'[d].unsaved \/ proc'[d] = proc[d]),
         proc' = [proc EXCEPT ![d] = proc'[d]], IsProcess(proc'[d]),
         proc[d].pc \in {"restore", "bind", "serving"}, proc'[d].pc \in {"bind", "serving"},
         proc'[d].proxy = proc[d].proxy, proc'[d].pairing = proc[d].pairing,
         proc'[d].exit = proc[d].exit, proc'[d].rival = proc[d].rival
  PROVE  DaemonInv'
<1> DaemonTyped /\ Held(d)
  BY Zenon DEF DaemonInv
<1>1. InFiles' /\ FilesKept
  BY AppliedFiles, PartFiles, Zenon DEF Apply
<1>2. Apply(d, c) /\ proc[d].pairing # NoPairing => \A p \in ProxyPrograms : Own(d, pointer'[p])
  BY AppliedFiles, Zenon DEF Apply
<1>3. DaemonTyped'
  BY Zenon DEF DaemonTyped
<1>4. ASSUME Answers(d)', NEW p \in ProxyPrograms
      PROVE  Own(d, pointer[p])'
  <2>1. proc[d].pairing # NoPairing
    BY <1>4, Zenon DEF Held, Answers, Bound, Starting
  <2>2. CASE Apply(d, c)
    BY <1>2, <2>1, <2>2, Zenon DEF Own
  <2>3. CASE proc'[d] = proc[d]
    BY <1>1, <1>4, <2>3, Zenon DEF FilesKept, Answers, Applied, Bound, Own
  <2>4. CASE proc'[d].unsaved
    BY <1>4, <2>4, Zenon DEF Answers, Applied
  <2> QED
    BY <2>2, <2>3, <2>4, Zenon
<1>5. Held(d)'
  BY <1>4, Zenon DEF Held, Bound, Running, Starting
<1> QED
  BY <1>1, <1>3, <1>5, OwnStep, DaemonsAssumption, Zenon

LEMMA RestoreHeld ==
  ASSUME DaemonInv, NEW d \in Daemons, RestoreAndApply(d)
  PROVE  DaemonInv'
<1> DaemonTyped /\ Held(d)
  BY Zenon DEF DaemonInv
<1>1. proc[d].pc = "restore" /\ UNCHANGED <<scope, pairing, values>>
  BY Zenon DEF RestoreAndApply, At, machine
<1>2. ASSUME NEW code, Exit(d, code, Closed(d)), UNCHANGED files
      PROVE  DaemonInv'
  BY <1>1, <1>2, EndHeld, Zenon DEF files
<1>3. CASE GoTo(d, "bind") /\ UNCHANGED files /\ UNCHANGED port
  <2>1. proc' = [proc EXCEPT ![d] = proc'[d]] /\ proc'[d] = [proc[d] EXCEPT !.pc = "bind"]
    BY <1>3, Zenon DEF GoTo, DaemonTyped
  <2>2. /\ IsProcess(proc'[d]) /\ proc'[d].pc = "bind" /\ proc'[d].proxy = proc[d].proxy
        /\ proc'[d].pairing = proc[d].pairing /\ proc'[d].current = proc[d].current
        /\ proc'[d].exit = proc[d].exit /\ proc'[d].unsaved = proc[d].unsaved /\ proc'[d].rival = proc[d].rival
    BY <2>1, Zenon DEF Held, IsProcess, ProcessFields
  <2> QED
    BY <1>1, <1>3, <2>1, <2>2, ProgressHeld, Zenon DEF Starting, files
<1>4. ASSUME NEW c, NEW u, Apply(d, c), UNCHANGED port,
             proc' = [proc EXCEPT ![d].pc = "bind", ![d].current = u]
      PROVE  DaemonInv'
  <2>1. /\ proc' = [proc EXCEPT ![d] = proc'[d]]
        /\ proc'[d] = [proc[d] EXCEPT !.pc = "bind", !.current = u]
    BY <1>4, Zenon DEF DaemonTyped
  <2>2. /\ IsProcess(proc'[d]) /\ proc'[d].pc = "bind" /\ proc'[d].proxy = proc[d].proxy
        /\ proc'[d].pairing = proc[d].pairing /\ proc'[d].exit = proc[d].exit
        /\ proc'[d].rival = proc[d].rival
    BY <2>1, Zenon DEF Held, IsProcess, ProcessFields
  <2> QED
    BY <1>1, <1>4, <2>1, <2>2, AppliedHeld, Zenon
<1>5. ASSUME NEW c, ApplyPart(d, c), Fails(d)
      PROVE  DaemonInv'
  BY <1>1, <1>5, PartFiles, ExitHeld, Zenon DEF Fails
<1> QED
  BY <1>2, <1>3, <1>4, <1>5, ZenonT(30) DEF RestoreAndApply, Refuses, Fails

LEMMA BindHeld ==
  ASSUME DaemonInv, NEW d \in Daemons, Bind(d)
  PROVE  DaemonInv'
<1> DaemonTyped /\ Met /\ \A e \in Daemons : Held(e)
  BY Zenon DEF DaemonInv
<1>1. proc[d].pc = "bind" /\ UNCHANGED <<scope, pairing, values, pointer, dependent>>
  BY Zenon DEF Bind, At, machine, files
<1>2. CASE Refuses(d)
  BY <1>1, <1>2, EndHeld, Zenon DEF Refuses
<1>3. CASE /\ UNCHANGED port
           /\ proc' = [e \in Daemons |-> CASE e = d -> [proc[e] EXCEPT !.pc = "serving"]
                                           [] e # d -> [proc[e] EXCEPT !.touched = @ \/ Running(e)]]
  <2>1. InFiles' /\ FilesKept
    BY <1>1, Untouched, Zenon
  <2>2. DaemonTyped'
    BY <1>1, <1>3, Zenon DEF DaemonTyped
  <2>3. ASSUME NEW e \in Daemons, e # d
        PROVE  Held(e)' /\ Kept(e)
    <3>1. proc'[e] = [proc[e] EXCEPT !.touched = @ \/ Running(e)]
      BY <1>3, <2>3, Zenon
    <3>2. Kept(e)
      BY <3>1, ZenonT(30) DEF Kept, Held, IsProcess, ProcessFields
    <3> QED
      BY <1>1, <1>3, <2>1, <3>2, OthersHeld, Zenon
  <2>4. Held(d)'
    <3>1. proc'[d] = [proc[d] EXCEPT !.pc = "serving"]
      BY <1>3, Zenon
    <3>2. /\ IsProcess(proc'[d]) /\ proc'[d].pc = "serving" /\ proc'[d].proxy = proc[d].proxy
          /\ proc'[d].pairing = proc[d].pairing /\ proc'[d].current = proc[d].current
          /\ proc'[d].exit = proc[d].exit /\ proc'[d].unsaved = proc[d].unsaved /\ proc'[d].rival = proc[d].rival
      BY <3>1, ZenonT(30) DEF Held, IsProcess, ProcessFields
    <3>3. Answers(d)' => Answers(d)
      BY <3>2, Zenon DEF Bound, Answers, Applied
    <3>4. Answers(d)' => \A p \in ProxyPrograms : Own(d, pointer[p])'
      BY <2>1, <3>2, <3>3, Zenon DEF FilesKept, Own
    <3> QED
      BY <1>1, <1>3, <3>2, <3>4 DEF Held, Bound, Running, Starting
  <2>5. proc'[d].pairing = proc[d].pairing /\ proc'[d].rival = proc[d].rival
    BY <1>3, Zenon DEF Held, IsProcess, ProcessFields
  <2>6. Met'
    BY <2>3, <2>5, StillMet, Zenon DEF Kept
  <2> QED
    BY <2>1, <2>2, <2>3, <2>4, <2>6, Zenon DEF DaemonInv
<1> QED
  BY <1>2, <1>3, Zenon DEF Bind

(* Applies while serving.                                                  *)
LEMMA ReapplyHeld ==
  ASSUME DaemonInv, NEW d \in Daemons, Reapply(d)
  PROVE  DaemonInv'
<1> DaemonTyped /\ Held(d)
  BY Zenon DEF DaemonInv
<1>1. proc[d].pc = "serving" /\ UNCHANGED <<scope, port, pairing, values>>
  BY Zenon DEF Reapply, Serving, machine
<1>2. CASE Apply(d, Current(d)) /\ proc' = [proc EXCEPT ![d].unsaved = FALSE]
  <2>1. /\ proc' = [proc EXCEPT ![d] = proc'[d]]
        /\ proc'[d] = [proc[d] EXCEPT !.unsaved = FALSE]
    BY <1>2, Zenon DEF DaemonTyped
  <2>2. /\ IsProcess(proc'[d]) /\ proc'[d].pc = proc[d].pc /\ proc'[d].proxy = proc[d].proxy
        /\ proc'[d].pairing = proc[d].pairing /\ proc'[d].exit = proc[d].exit
        /\ proc'[d].rival = proc[d].rival
    BY <2>1, Zenon DEF Held, IsProcess, ProcessFields
  <2> QED
    BY <1>1, <1>2, <2>1, <2>2, AppliedHeld, Zenon
<1>3. CASE ApplyPart(d, Current(d)) /\ UNCHANGED proc
  <2>1. proc' = [proc EXCEPT ![d] = proc'[d]] /\ IsProcess(proc'[d])
    BY <1>3, Zenon DEF DaemonTyped, Held
  <2> QED
    BY <1>1, <1>3, <2>1, AppliedHeld, Zenon
<1> QED
  BY <1>2, <1>3, Zenon DEF Reapply

LEMMA PushHeld ==
  ASSUME DaemonInv, NEW d \in Daemons, Push(d)
  PROVE  DaemonInv'
<1> DaemonTyped /\ Held(d)
  BY Zenon DEF DaemonInv
<1>1. proc[d].pc = "serving" /\ UNCHANGED <<scope, port, pairing, values>>
  BY Zenon DEF Push, Serving, machine
<1>2. PICK saved \in BOOLEAN :
        /\ (saved /\ Apply(d, Remote)) \/ (~saved /\ ApplyPart(d, Remote))
        /\ proc' = [proc EXCEPT ![d].current = "remote", ![d].unsaved = ~saved]
  BY Zenon DEF Push
<1>3. /\ proc' = [proc EXCEPT ![d] = proc'[d]]
      /\ proc'[d] = [proc[d] EXCEPT !.current = "remote", !.unsaved = ~saved]
  BY <1>2, Zenon DEF DaemonTyped
<1>4. /\ IsProcess(proc'[d]) /\ proc'[d].pc = proc[d].pc /\ proc'[d].proxy = proc[d].proxy
      /\ proc'[d].pairing = proc[d].pairing /\ proc'[d].exit = proc[d].exit
      /\ proc'[d].rival = proc[d].rival /\ proc'[d].unsaved = ~saved
  BY <1>3, Zenon DEF Held, IsProcess, ProcessFields
<1> QED
  BY <1>1, <1>2, <1>3, <1>4, AppliedHeld, Zenon

LEMMA ProxyStopsHeld ==
  ASSUME DaemonInv, NEW d \in Daemons, ProxyStops(d)
  PROVE  DaemonInv'
<1> DaemonTyped /\ Held(d)
  BY Zenon DEF DaemonInv
<1>1. /\ proc[d].pc = "serving" /\ Bound(d) /\ port' = Nobody
      /\ UNCHANGED <<scope, pairing, values, pointer, dependent>>
      /\ proc' = [proc EXCEPT ![d].proxy = "stopped"]
  BY Zenon DEF ProxyStops, Serving, Bound, machine, files
<1>2. /\ proc' = [proc EXCEPT ![d] = proc'[d]]
      /\ proc'[d] = [proc[d] EXCEPT !.proxy = "stopped"] /\ DaemonTyped'
  BY <1>1, Zenon DEF DaemonTyped
<1>3. /\ IsProcess(proc'[d]) /\ proc'[d].pc = proc[d].pc /\ proc'[d].proxy = "stopped"
      /\ proc'[d].pairing = proc[d].pairing /\ proc'[d].current = proc[d].current
      /\ proc'[d].exit = proc[d].exit /\ proc'[d].unsaved = proc[d].unsaved /\ proc'[d].rival = proc[d].rival
  BY <1>2, Zenon DEF Held, IsProcess, ProcessFields
<1>4. Held(d)' /\ port = d
  BY <1>1, <1>3, DaemonsAssumption, Zenon DEF Held, Bound, Answers, Applied, Running, Starting
<1>5. InFiles' /\ FilesKept
  BY <1>1, Untouched, Zenon
<1> QED
  BY <1>1, <1>2, <1>3, <1>4, <1>5, OwnStep, Zenon

LEMMA RequestStopHeld ==
  ASSUME DaemonInv, NEW d \in Daemons, RequestStop(d)
  PROVE  DaemonInv'
<1> DaemonTyped /\ Held(d)
  BY Zenon DEF DaemonInv
<1>1. UNCHANGED <<scope, pairing, values, pointer, dependent>>
  BY Zenon DEF RequestStop, machine, files
<1>2. CASE Fails(d)
  BY <1>1, <1>2, EndHeld, Zenon DEF Fails
<1>3. CASE /\ UNCHANGED port
           /\ proc' = [proc EXCEPT ![d].stop = TRUE, ![d].service = "StopAsked", ![d].touched = TRUE]
  <2>1. /\ proc' = [proc EXCEPT ![d] = proc'[d]]
        /\ proc'[d] = [proc[d] EXCEPT !.stop = TRUE, !.service = "StopAsked", !.touched = TRUE]
    BY <1>3, Zenon DEF DaemonTyped
  <2>2. /\ IsProcess(proc'[d]) /\ proc'[d].pc = proc[d].pc /\ proc'[d].proxy = proc[d].proxy
        /\ proc'[d].pairing = proc[d].pairing /\ proc'[d].current = proc[d].current
        /\ proc'[d].exit = proc[d].exit /\ proc'[d].unsaved = proc[d].unsaved /\ proc'[d].rival = proc[d].rival
    BY <2>1, Zenon DEF Held, IsProcess, ProcessFields
  <2> QED
    BY <1>1, <1>3, <2>1, <2>2, ProgressHeld, Zenon
<1> QED
  BY <1>2, <1>3, Zenon DEF RequestStop

LEMMA EndsHeld ==
  ASSUME DaemonInv, NEW d \in Daemons, AccessFails(d) \/ AcceptFails(d) \/ ShutDown(d)
  PROVE  DaemonInv'
<1>1. UNCHANGED <<scope, pairing, values, pointer, dependent>>
  BY Zenon DEF AccessFails, AcceptFails, ShutDown, machine, files
<1>2. PICK code, path : Exit(d, code, path)
  <2>1. CASE AccessFails(d)
    BY <2>1, Zenon DEF AccessFails
  <2>2. CASE AcceptFails(d)
    BY <2>2, Zenon DEF AcceptFails, Fails
  <2>3. CASE ShutDown(d)
    BY <2>3, Zenon DEF ShutDown
  <2> QED
    BY <2>1, <2>2, <2>3, Zenon
<1> QED
  BY <1>1, <1>2, EndHeld, Zenon

LEMMA KillHeld ==
  ASSUME DaemonInv, NEW d \in Daemons, Kill(d)
  PROVE  DaemonInv'
<1>1. Fails(d) /\ UNCHANGED <<scope, pairing, values>>
  BY Zenon DEF Kill, machine
<1>2. CASE UNCHANGED <<pointer, dependent>>
  BY <1>1, <1>2, EndHeld, Zenon DEF Fails
<1>3. CASE ApplyPart(d, Current(d))
  BY <1>1, <1>3, PartFiles, ExitHeld, Zenon DEF Fails
<1> QED
  BY <1>2, <1>3, Zenon DEF Kill

LEMMA MeddleHeld ==
  ASSUME DaemonInv, Meddle
  PROVE  DaemonInv'
<1> DaemonTyped /\ Met /\ \A e \in Daemons : Held(e)
  BY Zenon DEF DaemonInv
<1>1. /\ UNCHANGED <<scope, values, pointer, dependent>>
      /\ proc' = [d \in Daemons |-> [proc[d] EXCEPT !.touched = Running(d)]]
      /\ pairing' = pairing \/ \E is : is # "stored" /\ pairing' = [pairing EXCEPT !.is = is]
      /\ port' = port \/ (port \in {Nobody, Other} /\ port' \in {Nobody, Other})
  BY Zenon DEF Meddle, machine
<1>2. InFiles' /\ FilesKept
  BY <1>1, Untouched, Zenon
<1>3. DaemonTyped'
  BY <1>1, Zenon DEF DaemonTyped
<1>4. ASSUME NEW e \in Daemons
      PROVE  Kept(e)
  <2>1. proc'[e] = [proc[e] EXCEPT !.touched = Running(e)]
    BY <1>1, Zenon
  <2> QED
    BY <2>1, ZenonT(30) DEF Kept, Held, IsProcess, ProcessFields
<1>5. \A e \in Daemons : port' = e <=> port = e
  BY <1>1, DaemonsAssumption
<1>6. Met'
  BY <1>4, StillMet, Zenon DEF Kept
<1> QED
  BY <1>2, <1>3, <1>4, <1>5, <1>6, OthersHeld, Zenon DEF DaemonInv

LEMMA NextDaemonInv == DaemonInv /\ [DaemonNext]_daemon => DaemonInv'
<1> SUFFICES ASSUME DaemonInv, [DaemonNext]_daemon PROVE DaemonInv'
  BY Zenon
<1>1. CASE UNCHANGED daemon
  BY <1>1, ZenonT(30) DEF daemon, DaemonInv, DaemonTyped, InFiles, InScope, Held, Bound,
     Answers, Applied, Own, Running, Met
<1>2. ASSUME NEW d \in Daemons,
             \/ \E a \in Launches : Launch(d, a)
             \/ Step(d) \/ AccessFails(d) \/ Reapply(d) \/ Push(d)
             \/ ProxyStops(d) \/ AcceptFails(d) \/ RequestStop(d) \/ Kill(d)
      PROVE  DaemonInv'
  BY <1>2, LaunchHeld, ResolveHeld, BindProxyHeld, LoadPairingHeld, AttachHeld, OneShotHeld,
     StartServicesHeld, RestoreHeld, BindHeld, EndsHeld, KillHeld, ReapplyHeld, PushHeld,
     ProxyStopsHeld, RequestStopHeld, Zenon DEF Step
<1> QED
  BY <1>1, <1>2, MeddleHeld, Zenon DEF DaemonNext

THEOREM DaemonInvariance == DaemonSpec => []DaemonInv
BY InitDaemonInv, NextDaemonInv, PTL DEF DaemonSpec

(* Client files stay valid: a daemon that serves the proxy has its own      *)
(* pairing value, or none, in the files it has applied, unless a daemon    *)
(* with another value has run beside it.                                   *)
THEOREM PairingIsCurrent == DaemonSpec => []PairingCurrent
<1>1. DaemonInv => PairingCurrent
  BY Zenon DEF DaemonInv, Held, PairingCurrent, Answers, Own
<1> QED
  BY <1>1, DaemonInvariance, PTL

-----------------------------------------------------------------------------
(* What --once leaves behind *)

(* What validate_one_shot accepts writes no file that calls a daemon.       *)
LEMMA AcceptedCallsNobody ==
  ASSUME NEW c, validate_one_shot(c)
  PROVE  Calls(c) = {}
<1>1. ~c.telemetry
  BY Zenon DEF validate_one_shot
<1>2. CASE c.authentication # "none"
  <2>1. Through(c, Chosen(c)) \cap (InScope \ ProxyPrograms) = {}
    BY <1>2, Zenon DEF validate_one_shot
  <2>2. Through(c, Managed(c)) \ ProxyPrograms \subseteq Through(c, Chosen(c)) \cap (InScope \ ProxyPrograms)
    BY Zenon DEF Through, Managed
  <2> QED
    BY <1>1, <2>1, <2>2, Zenon DEF Calls
<1>3. CASE c.authentication = "none"
  BY <1>1, <1>3, Zenon DEF Calls
<1> QED
  BY <1>2, <1>3, Zenon

(* Nor one that holds a pairing value.                                     *)
LEMMA AcceptedPointsNowhere ==
  ASSUME NEW d, NEW c, validate_one_shot(c), scope = "user"
  PROVE  \A p \in ProxyPrograms : Pointed(d, c)[p] = NoPairing
<1>1. Chosen(c) \cap ProxyPrograms = {}
  BY Zenon DEF validate_one_shot
<1>2. Through(c, Managed(c)) \cap ProxyPrograms = {}
  BY <1>1, ZenonT(30) DEF Through, Managed
<1> QED
  BY <1>2, Zenon DEF Pointed

(* How a step of e leaves the exit code of d.                               *)
Unended(d) == proc'[d].exit = proc[d].exit

LEMMA ExitOf ==
  ASSUME DaemonInv, NEW d \in Daemons, NEW e \in Daemons, NEW code, NEW path, Exit(e, code, path),
         code = "ok" => e # d, Running(d)
  PROVE  proc'[d].exit # "ok"
<1>1. DaemonTyped /\ proc[d].exit = "none"
  BY Zenon DEF DaemonInv, Held
<1>2. proc'[d] = IF d = e THEN Off(code) ELSE proc[d]
  BY <1>1, Zenon DEF Exit, DaemonTyped
<1> QED
  BY <1>1, <1>2, Ended

(* No step but those that end a process sets an exit code.                  *)
LEMMA StartupUnended ==
  ASSUME DaemonInv, NEW d \in Daemons, NEW e \in Daemons,
         \/ bind_llm_proxy(e) \/ load_or_create_pairing(e) \/ attach_llm_proxy_pairing(e)
         \/ Reapply(e) \/ Push(e) \/ ProxyStops(e)
  PROVE  Unended(d)
<1> DaemonTyped /\ IsProcess(proc[d])
  BY Zenon DEF DaemonInv, Held
<1> USE DEF Unended, DaemonTyped, IsProcess, ProcessFields
<1>1. CASE bind_llm_proxy(e)
  BY <1>1, Zenon DEF bind_llm_proxy
<1>2. CASE load_or_create_pairing(e)
  <2>1. PICK value : Paired(e, value)
    BY <1>2, Zenon DEF load_or_create_pairing
  <2> QED
    BY <2>1, Zenon DEF Paired
<1>3. CASE attach_llm_proxy_pairing(e)
  BY <1>3 DEF attach_llm_proxy_pairing, GoTo
<1>4. CASE Reapply(e)
  <2>1. CASE proc' = [proc EXCEPT ![e].unsaved = FALSE]
    BY <2>1, Zenon
  <2>2. CASE UNCHANGED proc
    BY <2>2, Zenon
  <2> QED
    BY <1>4, <2>1, <2>2, Zenon DEF Reapply
<1>5. CASE Push(e)
  <2>1. PICK saved : proc' = [proc EXCEPT ![e].current = "remote", ![e].unsaved = ~saved]
    BY <1>5, Zenon DEF Push
  <2> QED
    BY <2>1, Zenon
<1>6. CASE ProxyStops(e)
  BY <1>6, Zenon DEF ProxyStops
<1> QED
  BY <1>1, <1>2, <1>3, <1>4, <1>5, <1>6, Zenon

LEMMA RestoreProcess ==
  ASSUME NEW e, RestoreAndApply(e)
  PROVE  \/ Refuses(e) \/ Fails(e) \/ GoTo(e, "bind")
         \/ \E u : proc' = [proc EXCEPT ![e].pc = "bind", ![e].current = u]
<1> DEFINE local == proc[e].launch.local
           u == IF local.controller /\ cached = "stored" THEN "remote" ELSE "local"
<1>1. \/ Refuses(e) \/ Fails(e) \/ GoTo(e, "bind")
      \/ proc' = [proc EXCEPT ![e].pc = "bind", ![e].current = u]
  BY Zenon DEF RestoreAndApply
<1> HIDE DEF u
<1> QED
  BY <1>1, Zenon

(* A daemon at the point where --once is handled ends well only by OneShot. *)
LEMMA EndsByOneShot ==
  ASSUME DaemonInv, DaemonNext, NEW d \in Daemons, At(d, "once"), proc'[d].exit = "ok"
  PROVE  OneShot(d)
<1> SUFFICES ASSUME ~OneShot(d) PROVE FALSE
  BY Zenon
<1>1. DaemonTyped /\ IsProcess(proc[d]) /\ proc[d].exit = "none" /\ Running(d) /\ ~Serving(d)
  BY Zenon DEF DaemonInv, Held, At, Running, Serving
<1>2. ~Unended(d)
  BY <1>1, Zenon DEF Unended
<1>3. ASSUME NEW e \in Daemons, NEW code, NEW path, Exit(e, code, path), code = "ok" => e # d
      PROVE  FALSE
  BY <1>1, <1>3, ExitOf, Zenon
<1>4. ASSUME NEW e \in Daemons, NEW a \in Launches, Launch(e, a)
      PROVE  FALSE
  <2>1. e # d
    BY <1>1, <1>4, Zenon DEF Launch
  <2>2. proc'[d] = [proc[d] EXCEPT !.touched = TRUE]
    BY <1>1, <1>4, <2>1, Zenon DEF Launch
  <2> QED
    BY <1>1, <1>2, <2>2, Zenon DEF Unended, IsProcess, ProcessFields
<1>5. ASSUME NEW e \in Daemons, Resolve(e)
      PROVE  FALSE
  <2>1. CASE Refuses(e)
    BY <1>3, <2>1, Zenon DEF Refuses
  <2>2. CASE GoTo(e, "proxy")
    BY <1>1, <1>2, <2>2, Zenon DEF GoTo, Unended, DaemonTyped, IsProcess, ProcessFields
  <2> QED
    BY <1>5, <2>1, <2>2, Zenon DEF Resolve
<1>6. ASSUME NEW e \in Daemons, OneShot(e)
      PROVE  FALSE
  <2>1. PICK code : Exit(e, code, Closed(e))
    BY <1>6, Zenon DEF OneShot, Refuses, Fails
  <2> QED
    BY <1>3, <1>6, <2>1, Zenon
<1>7. ASSUME NEW e \in Daemons, RestoreAndApply(e)
      PROVE  FALSE
  <2>1. CASE Refuses(e) \/ Fails(e)
    BY <1>3, <2>1, Zenon DEF Refuses, Fails
  <2>2. CASE GoTo(e, "bind")
    BY <1>1, <1>2, <2>2, Zenon DEF GoTo, Unended, DaemonTyped, IsProcess, ProcessFields
  <2>3. ASSUME NEW u, proc' = [proc EXCEPT ![e].pc = "bind", ![e].current = u]
        PROVE  FALSE
    <3>1. proc'[d] = proc[d] \/ proc'[d] = [proc[d] EXCEPT !.pc = "bind", !.current = u]
      BY <1>1, <2>3, Zenon DEF DaemonTyped
    <3> QED
      BY <1>1, <1>2, <3>1, Zenon DEF Unended, IsProcess, ProcessFields
  <2> QED
    BY <1>7, <2>1, <2>2, <2>3, RestoreProcess, Zenon
<1>8. ASSUME NEW e \in Daemons, Bind(e)
      PROVE  FALSE
  <2>1. CASE Refuses(e)
    BY <1>3, <2>1, Zenon DEF Refuses
  <2>2. CASE proc' = [f \in Daemons |-> CASE f = e -> [proc[f] EXCEPT !.pc = "serving"]
                                          [] f # e -> [proc[f] EXCEPT !.touched = @ \/ Running(f)]]
    <3>1. \/ proc'[d] = [proc[d] EXCEPT !.pc = "serving"]
          \/ proc'[d] = [proc[d] EXCEPT !.touched = @ \/ Running(d)]
      BY <2>2, Zenon
    <3> QED
      BY <1>1, <1>2, <3>1, Zenon DEF Unended, IsProcess, ProcessFields
  <2> QED
    BY <1>8, <2>1, <2>2, Zenon DEF Bind
<1>9. ASSUME NEW e \in Daemons, RequestStop(e)
      PROVE  FALSE
  <2>1. CASE Fails(e)
    BY <1>3, <2>1, Zenon DEF Fails
  <2>2. CASE proc' = [proc EXCEPT ![e].stop = TRUE, ![e].service = "StopAsked", ![e].touched = TRUE]
    BY <1>1, <1>2, <2>2, Zenon DEF Unended, DaemonTyped, IsProcess, ProcessFields
  <2> QED
    BY <1>9, <2>1, <2>2, Zenon DEF RequestStop
<1>10. ASSUME NEW e \in Daemons, AccessFails(e) \/ AcceptFails(e) \/ Kill(e)
       PROVE  FALSE
  <2>1. PICK path : Exit(e, "failed", path)
    BY <1>10, Zenon DEF AccessFails, AcceptFails, Kill, Fails
  <2> QED
    BY <1>3, <2>1, Zenon
<1>11. ASSUME NEW e \in Daemons, ShutDown(e)
       PROVE  FALSE
  <2>1. e # d
    BY <1>1, <1>11, Zenon DEF ShutDown
  <2>2. PICK path : Exit(e, "ok", path)
    BY <1>11, Zenon DEF ShutDown
  <2> QED
    BY <1>3, <2>1, <2>2, Zenon
<1>12. ASSUME NEW e \in Daemons, StartServices(e)
       PROVE  FALSE
  <2>1. CASE Fails(e)
    BY <1>3, <2>1, Zenon DEF Fails
  <2>2. CASE GoTo(e, "restore")
    BY <1>1, <1>2, <2>2, Zenon DEF GoTo, Unended, DaemonTyped, IsProcess, ProcessFields
  <2> QED
    BY <1>12, <2>1, <2>2, Zenon DEF StartServices
<1>13. ASSUME NEW e \in Daemons,
              \/ bind_llm_proxy(e) \/ load_or_create_pairing(e) \/ attach_llm_proxy_pairing(e)
              \/ Reapply(e) \/ Push(e) \/ ProxyStops(e)
       PROVE  FALSE
  BY <1>2, <1>13, StartupUnended, Zenon
<1>14. ~Meddle
  <2>1. Meddle => proc'[d] = [proc[d] EXCEPT !.touched = Running(d)]
    BY Zenon DEF Meddle
  <2> QED
    BY <1>1, <1>2, <2>1, Zenon DEF Unended, IsProcess, ProcessFields
<1> QED
  BY <1>4, <1>5, <1>6, <1>7, <1>8, <1>9, <1>10, <1>11, <1>12, <1>13, <1>14,
     Zenon DEF DaemonNext, Step

(* A successful --once leaves no program calling a daemon and no pairing    *)
(* value in the files, whatever other daemons of the scope do.             *)
THEOREM OnceLeavesNothing == DaemonSpec => OnceSelfContained
<1>1. ASSUME DaemonInv, [DaemonNext]_daemon, NEW d \in Daemons, At(d, "once"), proc[d].launch.once,
             ~proc[d].launch.dry_run, proc'[d].exit = "ok"
      PROVE  dependent' = {} /\ \A p \in ProxyPrograms : pointer'[p] = NoPairing
  <2> DEFINE c == proc[d].launch.local
  <2>1. proc[d].exit = "none" /\ InFiles
    BY <1>1, Zenon DEF DaemonInv, Held, At, Running
  <2>2. DaemonNext
    BY <1>1, <2>1, Zenon DEF daemon
  <2>3. OneShot(d)
    BY <1>1, <2>2, EndsByOneShot, Zenon
  <2>4. ASSUME NEW code, NEW path, Exit(d, code, path)
        PROVE  code = "ok"
    <3>1. proc'[d] = Off(code)
      BY <1>1, <2>4, Zenon DEF Exit, DaemonInv, DaemonTyped
    <3> QED
      BY <1>1, <3>1, Ended
  <2>5. validate_one_shot(c) /\ Apply(d, c)
    <3>1. ~Refuses(d) /\ ~Fails(d)
      BY <2>4, Zenon DEF Refuses, Fails
    <3> QED
      BY <1>1, <2>3, <3>1, Zenon DEF OneShot
  <2>6. dependent' = {}
    BY <2>1, <2>5, AcceptedCallsNobody, Zenon DEF Apply, ApplyTo, InFiles
  <2>7. ASSUME NEW p \in ProxyPrograms
        PROVE  pointer'[p] = NoPairing
    <3>1. pointer'[p] = IF p \in InScope THEN Pointed(d, c)[p] ELSE pointer[p]
      BY <2>5, Zenon DEF Apply, ApplyTo
    <3>2. p \in InScope <=> scope = "user"
      BY DEF ProxyPrograms, InScope, SystemPrograms, UserPrograms, Programs
    <3> QED
      BY <2>1, <2>5, <3>1, <3>2, AcceptedPointsNowhere, Zenon DEF InFiles
  <2> QED
    BY <2>6, <2>7, Zenon
<1>2. DaemonInv /\ [DaemonNext]_daemon =>
        [\A d \in Daemons :
           LET a == proc[d].launch
           IN  At(d, "once") /\ a.once /\ ~a.dry_run /\ proc'[d].exit = "ok" =>
                 dependent' = {} /\ \A p \in ProxyPrograms : pointer'[p] = NoPairing]_daemon
  BY <1>1, Zenon
<1> QED
  BY <1>2, DaemonInvariance, PTL DEF DaemonSpec, OnceSelfContained

=============================================================================
