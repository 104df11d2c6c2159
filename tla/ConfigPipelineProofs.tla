------------------------ MODULE ConfigPipelineProofs ------------------------
(***************************************************************************)
(* Proofs about ConfigPipeline, for any bodies and bounds: what the        *)
(* connection loop, the tick and a choice change leave behind when their   *)
(* applies, their outcomes and the writes of remote-config.yaml interleave *)
(* with failures and restarts.                                             *)
(***************************************************************************)
EXTENDS ConfigPipeline, TLAPS

(* A stopped daemon holds nothing in memory.                               *)
Stopped ==
  ~alive => /\ push.step = "idle" /\ current = NoConfig /\ stream = "closed"
            /\ lastSent = NoStatus /\ pending = NoBody /\ streamRev = 0
            /\ \A w \in Workers : work[w] = "idle"

(* While a push is handled it is the current configuration.                *)
Handling ==
  push.step # "idle" =>
    /\ alive /\ stream \in {"open", "dead"}
    /\ current = push.config /\ streamRev = push.config.rev
    /\ push.config.rev # 0 /\ push.config.body \in Bodies
    /\ push.step = "persist" => push.config.body \in applied

(* Only a push or a choice that is still to be applied is ahead of the     *)
(* last apply.                                                             *)
AppliesCurrent ==
  alive /\ push.step # "apply" /\ work["choice"] # "apply" /\ current # NoConfig
    => /\ lastApply.body = current.body
       /\ lastApply.choice = Effective(current.body, choiceMem)

(* Of the outcomes in the channel and on their way to it, the one with the *)
(* highest number is that of the last re-apply.                            *)
Newest(o) == o.seq # 0 /\ statuses.seq <= o.seq /\ \A w \in Workers : outcome[w].seq <= o.seq
Content(o) == [rev |-> o.rev, error |-> o.error, choice |-> o.choice]

Channel ==
  /\ \A w \in Workers : IF work[w] = "publish" THEN outcome[w].seq # 0 ELSE outcome[w] = NoOutcome
  /\ statuses.seq = 0 => statuses = NoOutcome
  /\ \A w \in Workers : outcome[w].seq # 0 => outcome[w].seq # statuses.seq
  /\ \A v, w \in Workers : v # w /\ outcome[v].seq # 0 => outcome[v].seq # outcome[w].seq
  /\ Newest(statuses) => Content(statuses) = lastReapply
  /\ \A w \in Workers : Newest(outcome[w]) => Content(outcome[w]) = lastReapply

(* The configurations that can still reach the daemon or are in it.        *)
Known == {published, current} \cup {down[i] : i \in 1 .. Len(down)}
IsOutcome(o) == o = statuses \/ \E w \in Workers : o = outcome[w]

(* Revisions grow with the controller's restarts; bodies are real ones.    *)
Numbered ==
  /\ published.rev # 0 /\ published.rev - 1 <= count["change"] /\ published.body \in Bodies
  /\ \A i \in 1 .. Len(down) : /\ down[i].rev # 0 /\ down[i].rev <= published.rev
                               /\ down[i].body \in Bodies
  /\ current.rev <= published.rev
  /\ current.rev # 0 => current.body \in Bodies \ Unparsable
  /\ statuses.rev <= published.rev /\ \A w \in Workers : outcome[w].rev <= published.rev

(* What is held back for the next tick was reported as not applied, and a  *)
(* new stream starts with nothing received.                                *)
HeldBack ==
  /\ pending # NoBody => lastSent.error # "none" /\ streamRev # 0
  /\ stream = "opening" => streamRev = 0

(* A revision has one body, and an outcome speaks of that body.            *)
Identified ==
  /\ \A c, d \in Known : c.rev = d.rev /\ c.rev # 0 => c.body = d.body
  /\ \A o \in Outcomes, c \in Known :
       IsOutcome(o) /\ o.rev # 0 /\ c.rev = o.rev =>
         c.body \notin Unparsable /\ (o.error = "none" => c.body \in applied)

Listening == stream \in {"open", "dead"} /\ push.step = "idle"

(* The configuration received last is saved or held back, unless it did    *)
(* not parse; then no outcome is about it.                                 *)
Received ==
  Listening /\ streamRev # 0 =>
    IF current.rev = streamRev
      THEN IF pending = NoBody THEN saved = current.body ELSE pending = current.body
      ELSE pending = NoBody /\ \A o \in Outcomes : IsOutcome(o) => o.rev # streamRev

Restorable ==
  RevisionsIdentify =>
    Identified /\ Received /\ SavedWasApplied /\ AppliedReportHolds

(* The inductive invariant. *)
IInv == TypeOK /\ Stopped /\ Handling /\ AppliesCurrent /\ Channel /\ Numbered /\ HeldBack /\ Restorable

-----------------------------------------------------------------------------
(* The numbers of the outcomes *)

(* Rank counts the numbers in use up to one of them, so it keeps their     *)
(* order: renumbering never swaps two applies (ApplyReport::sequence).     *)
LEMMA RankFacts ==
  ASSUME IInv
  PROVE  /\ \A s \in 0 .. 3 : Rank(s) \in Nat /\ Rank(s) <= Rank(3)
         /\ Rank(0) = 0
         /\ \A s, t \in InUse : s < t => Rank(s) < Rank(t)
<1> TypeOK
  BY Zenon DEF IInv
<1>1. InUse \subseteq 0 .. 3
  BY DEF TypeOK, InUse, Outcomes
<1>2. \A s \in 0 .. 3 : Rank(s) \in Nat /\ Rank(s) <= Rank(3)
  BY DEF Rank
<1>3. Rank(0) = 0
  BY DEF Rank
<1>4. ASSUME NEW s \in InUse, NEW t \in InUse, s < t
      PROVE  Rank(s) < Rank(t)
  <2>1. t \in 1 .. 3 /\ s \in 0 .. 3
    BY <1>1, <1>4
  <2> QED
    BY <1>4, <2>1 DEF Rank
<1> QED
  BY <1>2, <1>3, <1>4, Zenon

(* A worker that has nothing to publish leaves a number free.              *)
LEMMA RankBound ==
  ASSUME IInv, NEW w \in Workers, outcome[w].seq = 0
  PROVE  Rank(3) <= 2
<1> TypeOK
  BY Zenon DEF IInv
<1>1. PICK v \in Workers : Workers = {v, w}
  BY Zenon DEF Workers
<1>2. \A t \in InUse \ {0} : t = outcome[v].seq \/ t = statuses.seq
  BY <1>1, Zenon DEF InUse
<1> QED
  BY <1>2 DEF Rank

-----------------------------------------------------------------------------
(* Building blocks *)

(* The values that stand for nothing are well typed.                       *)
LEMMA Constants ==
  /\ NoConfig \in Configs /\ NoStatus \in Statuses /\ NoOutcome \in Outcomes
  /\ NoOutcome.seq = 0 /\ NoOutcome.rev = 0 /\ NoConfig.rev = 0 /\ NoConfig.body = NoBody
  /\ NoStatus.error = "none"
  BY BoundsAssumption DEF NoConfig, NoStatus, NoOutcome, Configs, Statuses, Outcomes, Revisions, Errors

(* The push that is received is the first one under way.                   *)
LEMMA FirstOf ==
  ASSUME NEW S, NEW s \in Seq(S), s # <<>>
  PROVE  Head(s) = s[1] /\ 1 \in 1 .. Len(s) /\ Head(s) \in S
  OBVIOUS

LEMMA FirstPushed ==
  ASSUME TypeOK, ReceivePush
  PROVE  Head(down) = down[1] /\ 1 \in 1 .. Len(down) /\ Head(down) \in Configs
<1>1. down \in Seq(Configs) /\ down # <<>>
  BY Zenon DEF TypeOK, ReceivePush
<1> QED
  BY <1>1, FirstOf, Zenon

(* A status made of a revision and an error is one of Statuses.            *)
LEMMA StatusType ==
  ASSUME NEW r \in Revisions, NEW e \in Errors, NEW b, choiceMem \in Choices
  PROVE  /\ Status(r, e, b) \in Statuses
         /\ Status(r, e, b).rev = r /\ Status(r, e, b).error = e
         /\ Status(r, e, b).choice \in Choices
  BY Zenon DEF Status, Statuses, Effective, Choices

(* What apply_with_lock leaves: the apply it records, and the body among   *)
(* those applied unless it failed.                                         *)
LEMMA ApplyType ==
  ASSUME IInv, NEW b \in Bodies, Apply(b)
  PROVE  /\ lastApply' \in [body : Bodies \cup {NoBody}, choice : Choices, ok : BOOLEAN]
         /\ applied' \subseteq Bodies /\ applied \subseteq applied'
         /\ lastApply'.body = b /\ lastApply'.choice = Effective(b, choiceMem)
         /\ fault # "apply" => b \in applied'
  BY Zenon DEF IInv, TypeOK, Apply, Effective, Choices

(* A counted event stays within its bound and leaves the other counters.   *)
LEMMA CountedType ==
  ASSUME IInv, NEW e \in Events, Counted(e)
  PROVE  /\ count' \in [Events -> Nat] /\ \A d \in Events : count'[d] <= Bound[d]
         /\ count'[e] = count[e] + 1 /\ \A d \in Events \ {e} : count'[d] = count[d]
  BY BoundsAssumption, SMTT(30) DEF IInv, TypeOK, Counted, Events, Bound

(* A configuration that can be applied has a body.                         *)
LEMMA CurrentType ==
  ASSUME IInv, current # NoConfig
  PROVE  current.body \in Bodies /\ current.rev \in Revisions
  BY Zenon DEF IInv, TypeOK, Numbered, NoConfig, Configs

(* What apply_current does when there is a configuration: it applies it,   *)
(* and its outcome gets a number above all the others.                     *)
Reapplied(w, e) ==
  LET s == Status(current.rev, e, current.body)
  IN /\ Apply(current.body) /\ lastReapply' = s
     /\ e = (IF fault = "apply" THEN "apply" ELSE "none")
     /\ outcome' = [v \in Workers |->
                     IF v = w THEN [rev |-> s.rev, error |-> s.error, choice |-> s.choice,
                                    seq |-> Rank(3) + 1]
                              ELSE Renumbered(outcome[v])]
     /\ statuses' = Renumbered(statuses)
     /\ work' = [work EXCEPT ![w] = "publish"] /\ work[w] = "apply"

(* A re-apply takes the latest number and renumbering keeps the order and  *)
(* the content of every other outcome.                                     *)
LEMMA ReapplyNumbers ==
  ASSUME IInv, current # NoConfig,
         NEW w \in Workers, NEW e \in Errors, Reapplied(w, e)
  PROVE  /\ statuses' \in Outcomes /\ outcome' \in [Workers -> Outcomes]
         /\ Content(statuses') = Content(statuses) /\ statuses'.seq = Rank(statuses.seq)
         /\ \A v \in Workers \ {w} : /\ Content(outcome'[v]) = Content(outcome[v])
                                      /\ outcome'[v].seq = Rank(outcome[v].seq)
         /\ Content(outcome'[w]) = lastReapply' /\ outcome'[w].seq = Rank(3) + 1
<1> TypeOK /\ Channel /\ Numbered
  BY Zenon DEF IInv
<1>1. outcome[w] = NoOutcome
  BY Zenon DEF Channel, Reapplied
<1>2. Rank(3) <= 2
  BY <1>1, Constants, RankBound, Zenon
<1>3. /\ Rank(3) \in Nat
      /\ \A s \in 0 .. 3 : Rank(s) \in 0 .. 2
  BY <1>2, RankFacts
<1>4. current.rev \in Revisions
  BY CurrentType, Zenon
<1>5. ASSUME NEW o \in Outcomes
      PROVE  /\ Renumbered(o) \in Outcomes /\ Content(Renumbered(o)) = Content(o)
             /\ Renumbered(o).seq = Rank(o.seq)
  <2>1. o.seq \in 0 .. 3
    BY Zenon DEF Outcomes
  <2>2. Rank(o.seq) \in 0 .. 3
    BY <1>3, <2>1
  <2> QED
    BY <2>2, Zenon DEF Renumbered, Content, Outcomes
<1> DEFINE s == Status(current.rev, e, current.body)
           new == [rev |-> s.rev, error |-> s.error, choice |-> s.choice, seq |-> Rank(3) + 1]
<1>6. s \in Statuses
  BY <1>4, StatusType DEF TypeOK
<1>7. Rank(3) + 1 \in 0 .. 3
  BY <1>2, <1>3
<1> HIDE DEF s
<1>8. new \in Outcomes /\ Content(new) = s /\ new.seq = Rank(3) + 1
  BY <1>6, <1>7, Zenon DEF Statuses, Outcomes, Content
<1>9. /\ statuses' = Renumbered(statuses) /\ lastReapply' = s
      /\ outcome' = [v \in Workers |-> IF v = w THEN new ELSE Renumbered(outcome[v])]
  BY Zenon DEF Reapplied, s
<1>10. statuses \in Outcomes /\ \A v \in Workers : outcome[v] \in Outcomes
  BY Zenon DEF TypeOK
<1> HIDE DEF new
<1>11. statuses' \in Outcomes /\ Content(statuses') = Content(statuses) /\ statuses'.seq = Rank(statuses.seq)
  BY <1>5, <1>9, <1>10, Zenon
<1>12. \A v \in Workers \ {w} : outcome'[v] = Renumbered(outcome[v])
  BY <1>9, Zenon
<1>13. outcome'[w] = new
  BY <1>9, Zenon
<1>14. \A v \in Workers \ {w} : /\ Content(outcome'[v]) = Content(outcome[v])
                                 /\ outcome'[v].seq = Rank(outcome[v].seq)
  BY <1>5, <1>10, <1>12, Zenon
<1>15. outcome' \in [Workers -> Outcomes]
  BY <1>5, <1>8, <1>9, <1>10, Zenon
<1> QED
  BY <1>8, <1>9, <1>11, <1>13, <1>14, <1>15, Zenon

-----------------------------------------------------------------------------
(* The first start, and what the invariant says *)

(* The invariant holds at the first start.                                 *)
LEMMA InitIInv ==
  ASSUME Init
  PROVE  IInv
<1>1. PICK b \in Bodies : published = [rev |-> 1, body |-> b]
  BY Zenon DEF Init
<1>2. /\ 0 \in Revisions /\ 1 \in Revisions
      /\ count["change"] = 0
  BY BoundsAssumption DEF Init, Revisions, Events
<1>3. TypeOK
  <2>1. published \in Configs
    BY <1>1, <1>2, Zenon DEF Configs
  <2>2. down \in Seq(Configs) /\ Len(down) <= MaxQueue
    BY BoundsAssumption DEF Init
  <2>3. count \in [Events -> Nat] /\ \A e \in Events : count[e] <= Bound[e]
    BY BoundsAssumption DEF Init, Events, Bound
  <2>4. /\ work \in [Workers -> {"idle", "saved", "apply", "publish"}]
        /\ outcome \in [Workers -> Outcomes]
    BY Constants, Zenon DEF Init
  <2>5. lastApply \in [body : Bodies \cup {NoBody}, choice : Choices, ok : BOOLEAN]
    BY Constants, Zenon DEF Init, Choices
  <2>6. push \in [step : {"idle", "apply", "persist"}, config : Configs]
    BY Constants, Zenon DEF Init
  <2> QED
    BY <1>2, <2>1, <2>2, <2>3, <2>4, <2>5, <2>6, Constants, Zenon DEF Init, TypeOK, Choices
<1>4. Stopped /\ Handling /\ AppliesCurrent /\ HeldBack
  BY Constants, Zenon DEF Init, Stopped, Handling, AppliesCurrent, HeldBack
<1>5. Channel
  BY Constants, Zenon DEF Init, Channel, Newest, Workers
<1>6. Len(down) = 0 /\ current = NoConfig /\ statuses = NoOutcome /\ \A w \in Workers : outcome[w] = NoOutcome
  BY Zenon DEF Init
<1>7. Numbered
  BY <1>1, <1>2, <1>6, Constants DEF Numbered
<1>8. Identified
  <2>1. \A c \in Known : c = published \/ c.rev = 0
    BY <1>6, Constants DEF Known
  <2>2. \A o \in Outcomes : IsOutcome(o) => o.rev = 0
    BY <1>6, Constants, Zenon DEF IsOutcome
  <2>3. \A c, d \in Known : c.rev = d.rev /\ c.rev # 0 => c.body = d.body
    BY <2>1, Zenon
  <2> QED
    BY <2>2, <2>3, Zenon DEF Identified
<1>9. Received /\ SavedWasApplied /\ AppliedReportHolds
  BY Constants, Zenon DEF Init, Received, Listening, SavedWasApplied, AppliedReportHolds
<1> QED
  BY <1>3, <1>4, <1>5, <1>7, <1>8, <1>9, Zenon DEF IInv, Restorable

(* What the invariant says of the pipeline's promises.                     *)
LEMMA Promises ==
  ASSUME IInv
  PROVE  LastApplyIsCurrent /\ ChannelHoldsLatest /\ RestartRestoresApplied
<1>1. LastApplyIsCurrent
  BY Zenon DEF IInv, AppliesCurrent, LastApplyIsCurrent
<1>2. ChannelHoldsLatest
  <2> SUFFICES ASSUME statuses # NoOutcome, \A w \in Workers : work[w] # "publish"
               PROVE  Content(statuses) = lastReapply
    BY Zenon DEF ChannelHoldsLatest, Content
  <2>1. Channel /\ statuses.seq \in Nat
    BY DEF IInv, TypeOK, Outcomes
  <2>2. statuses.seq # 0 /\ \A w \in Workers : outcome[w].seq = 0
    BY <2>1, Constants, Zenon DEF Channel
  <2>3. Newest(statuses)
    BY <2>1, <2>2 DEF Newest
  <2> QED
    BY <2>1, <2>3, Zenon DEF Channel
<1>3. RestartRestoresApplied
  <2> SUFFICES ASSUME RevisionsIdentify
               PROVE  SavedWasApplied /\ AppliedReportHolds /\ ReceivedIsSaved
    BY Zenon DEF RestartRestoresApplied
  <2>1. Received /\ SavedWasApplied /\ AppliedReportHolds /\ HeldBack
    BY Zenon DEF IInv, Restorable
  <2>2. ReceivedIsSaved
    BY <2>1, Zenon DEF Received, Listening, HeldBack, ReceivedIsSaved
  <2> QED
    BY <2>1, <2>2, Zenon
<1> QED
  BY <1>1, <1>2, <1>3, Zenon

-----------------------------------------------------------------------------
(* Outcomes and their numbers *)

(* A step that publishes nothing and starts no re-apply leaves the channel *)
(* as it is.                                                               *)
LEMMA ChannelFrame ==
  ASSUME Channel, UNCHANGED <<outcome, statuses, lastReapply>>,
         \A w \in Workers : work'[w] = "publish" <=> work[w] = "publish"
  PROVE  Channel'
  BY Zenon DEF Channel, Newest, Content

(* The outcome of a re-apply is newer than all that are still in use.      *)
LEMMA ReappliedChannel ==
  ASSUME IInv, current # NoConfig,
         NEW w \in Workers, NEW e \in Errors, Reapplied(w, e)
  PROVE  Channel'
<1> TypeOK /\ Channel /\ Numbered
  BY Zenon DEF IInv
<1>1. PICK v \in Workers : v # w /\ Workers = {v, w}
  BY Zenon DEF Workers
<1> DEFINE s == statuses.seq
           o == outcome[v].seq
<1>2. s \in 0 .. 3 /\ o \in 0 .. 3 /\ s \in InUse /\ o \in InUse
  BY Zenon DEF TypeOK, Outcomes, InUse
<1>3. /\ Rank(s) \in Nat /\ Rank(o) \in Nat /\ Rank(3) \in Nat
      /\ Rank(s) <= Rank(3) /\ Rank(o) <= Rank(3) /\ Rank(0) = 0
      /\ (s < o => Rank(s) < Rank(o)) /\ (o < s => Rank(o) < Rank(s))
  BY <1>2, RankFacts
<1>4. (s # 0 => Rank(s) # 0) /\ (o # 0 => Rank(o) # 0)
  <2>1. outcome[w].seq = 0 /\ 0 \in InUse
    BY Constants DEF Reapplied, Channel, InUse
  <2> QED
    BY <1>2, <1>3, <2>1, RankFacts
<1>5. /\ statuses'.seq = Rank(s) /\ outcome'[v].seq = Rank(o) /\ outcome'[w].seq = Rank(3) + 1
      /\ Content(outcome'[w]) = lastReapply'
      /\ Content(statuses') = Content(statuses) /\ Content(outcome'[v]) = Content(outcome[v])
  BY <1>1, ReapplyNumbers, Zenon
<1>6. o # 0 => o # s
  BY Zenon DEF Channel
<1>7. /\ work'[w] = "publish" /\ work'[v] = work[v]
  BY <1>1, Zenon DEF TypeOK, Reapplied
<1>8. /\ statuses' \in Outcomes /\ outcome'[v] \in Outcomes /\ outcome[v] \in Outcomes
      /\ statuses \in Outcomes
  BY ReapplyNumbers, Zenon DEF TypeOK
<1>9. s = 0 => statuses' = NoOutcome
  <2>1. s = 0 => statuses = NoOutcome
    BY Zenon DEF Channel
  <2>2. s = 0 => Content(statuses') = Content(NoOutcome) /\ statuses'.seq = 0
    BY <1>3, <1>5, <2>1, Zenon
  <2> QED
    BY <1>8, <2>2, Zenon DEF Content, NoOutcome, Outcomes
<1>10. work[v] # "publish" => outcome'[v] = NoOutcome
  <2>1. work[v] # "publish" => outcome[v] = NoOutcome
    BY Zenon DEF Channel
  <2>2. work[v] # "publish" => Content(outcome'[v]) = Content(NoOutcome) /\ outcome'[v].seq = 0
    BY <1>3, <1>5, <2>1, Constants, Zenon
  <2> QED
    BY <1>8, <2>2, Zenon DEF Content, NoOutcome, Outcomes
<1>11. work[v] = "publish" => outcome'[v].seq # 0
  BY <1>4, <1>5, Zenon DEF Channel
<1> HIDE DEF s, o
<1>12. ~ Newest(statuses)' /\ ~ Newest(outcome[v])'
  BY <1>3, <1>5 DEF Newest
<1>13. /\ outcome'[v].seq # 0 => outcome'[v].seq # statuses'.seq
       /\ outcome'[w].seq # statuses'.seq /\ outcome'[w].seq # outcome'[v].seq /\ outcome'[w].seq # 0
  <2>1. s \in 0 .. 3 /\ o \in 0 .. 3
    BY <1>2, Zenon
  <2> QED
    BY <1>3, <1>4, <1>5, <1>6, <2>1
<1>14. statuses'.seq = 0 => statuses' = NoOutcome
  BY <1>4, <1>5, <1>9, Zenon
<1> QED
  BY <1>1, <1>5, <1>7, <1>10, <1>11, <1>12, <1>13, <1>14, Zenon DEF Channel

-----------------------------------------------------------------------------
(* What a step writes *)

(* The steps that write a variable: connect and complete_logout own the    *)
(* stream, apply_parsed and a tick write remote-config.yaml, the workers   *)
(* own the channel.                                                        *)
LEMMA Writers ==
  ASSUME [Next]_vars
  PROVE  /\ published' = published \/ Reload \/ Redeploy
         /\ \/ stream' = stream \/ StartConnect \/ OpenStream \/ NoticeBroken \/ Redeploy
            \/ StreamBreaks \/ Logout \/ Crash
         /\ \/ down' = down \/ OpenStream \/ NoticeBroken \/ ReceivePush \/ Logout \/ Crash
            \/ SendUpdate
         /\ alive' = alive \/ Startup \/ Crash
         /\ current' = current \/ ReceivePush \/ Startup \/ Logout \/ Crash
         /\ push' = push \/ ReceivePush \/ ApplyPush \/ PersistPush \/ Crash
         /\ streamRev' = streamRev \/ StartConnect \/ ReceivePush \/ Crash
         /\ \/ UNCHANGED <<pending, lastSent, reported>> \/ StartConnect \/ ReceivePush \/ ApplyPush
            \/ PersistPush \/ ReceiveTick \/ Crash
         /\ saved' = saved \/ PersistPush \/ ReceiveTick
         /\ UNCHANGED applies \/ ApplyPush \/ Startup \/ \E w \in Workers : Reapply(w)
         /\ \/ work' = work \/ SetChoice \/ ChangeChoice \/ TickFires \/ Crash
            \/ \E w \in Workers : Reapply(w) \/ Publish(w)
         /\ \/ UNCHANGED <<outcome, statuses>> \/ Crash
            \/ \E w \in Workers : Reapply(w) \/ Publish(w)
         /\ lastReapply' = lastReapply \/ Crash \/ \E w \in Workers : Reapply(w)
         /\ choiceMem' = choiceMem \/ SetChoice \/ Startup
         /\ count' = count \/ Reload \/ Redeploy \/ \E e \in Events \ {"change"} : Counted(e)
<1> USE DEF Next, DaemonStep, Environment, vars, controller, loop, reapply, choice, applies,
      StartConnect, OpenStream, NoticeBroken, ReceivePush, ApplyPush, PersistPush, ReceiveTick,
      SetChoice, Startup, Reload, Redeploy, StreamBreaks, Logout, ChangeChoice, FaultArises,
      FaultFixed, Crash,
      SendUpdate, TickFires, Reapply, Publish
<1>1. published' = published \/ Reload \/ Redeploy
  BY Zenon
<1>2. \/ stream' = stream \/ StartConnect \/ OpenStream \/ NoticeBroken \/ Redeploy
      \/ StreamBreaks \/ Logout \/ Crash
  BY Zenon
<1>3. down' = down \/ OpenStream \/ NoticeBroken \/ ReceivePush \/ Logout \/ Crash \/ SendUpdate
  BY Zenon
<1>4. alive' = alive \/ Startup \/ Crash
  BY Zenon
<1>5. current' = current \/ ReceivePush \/ Startup \/ Logout \/ Crash
  BY Zenon
<1>6. push' = push \/ ReceivePush \/ ApplyPush \/ PersistPush \/ Crash
  BY Zenon
<1>7. streamRev' = streamRev \/ StartConnect \/ ReceivePush \/ Crash
  BY Zenon
<1>8. \/ UNCHANGED <<pending, lastSent, reported>> \/ StartConnect \/ ReceivePush \/ ApplyPush
      \/ PersistPush \/ ReceiveTick \/ Crash
  BY Zenon
<1>9. saved' = saved \/ PersistPush \/ ReceiveTick
  BY Zenon
<1>10. UNCHANGED applies \/ ApplyPush \/ Startup \/ \E w \in Workers : Reapply(w)
  BY Zenon
<1>11. \/ work' = work \/ SetChoice \/ ChangeChoice \/ TickFires \/ Crash
       \/ \E w \in Workers : Reapply(w) \/ Publish(w)
  BY Zenon
<1>12. UNCHANGED <<outcome, statuses>> \/ Crash \/ \E w \in Workers : Reapply(w) \/ Publish(w)
  BY Zenon
<1>13. lastReapply' = lastReapply \/ Crash \/ \E w \in Workers : Reapply(w)
  BY Zenon
<1>14. choiceMem' = choiceMem \/ SetChoice \/ Startup
  BY Zenon
<1>15. count' = count \/ Reload \/ Redeploy \/ \E e \in {"choice", "fault", "crash"} : Counted(e)
  BY Zenon
<1> HIDE DEF StartConnect, OpenStream, NoticeBroken, ReceivePush, ApplyPush, PersistPush, ReceiveTick,
      SetChoice, Startup, Reload, Redeploy, StreamBreaks, Logout, ChangeChoice, FaultArises,
      FaultFixed, Crash,
      SendUpdate, TickFires, Reapply, Publish, Next, applies
<1>16. Events \ {"change"} = {"choice", "fault", "crash"}
  BY Zenon DEF Events
<1> QED
  BY <1>1, <1>2, <1>3, <1>4, <1>5, <1>6, <1>7, <1>8, <1>9, <1>10, <1>11, <1>12, <1>13, <1>14,
     <1>15, <1>16, Zenon

(* The values a step can give to what it writes, where these are few.      *)
LEMMA Effects ==
  ASSUME [Next]_vars
  PROVE  /\ unsent' = unsent \/ unsent' = FALSE \/ unsent' = (stream = "open")
         /\ stream' \in {stream, "closed", "opening", "open", "dead"}
         /\ fault' = fault \/ fault' \in Faults \cup {"none"}
         /\ choiceFile' = choiceFile \/ choiceFile' \in Choices
         /\ choiceMem' = choiceMem \/ choiceMem' = choiceFile
         /\ unseen' \in {unseen, TRUE, FALSE}
         /\ applied' = applied \/ \E b : applied' = applied \cup {b}
<1> USE DEF Next, DaemonStep, Environment, vars, controller, loop, reapply, choice, applies, Apply,
      StartConnect, OpenStream, NoticeBroken, ReceivePush, ApplyPush, PersistPush, ReceiveTick,
      SetChoice, Startup, Reload, Redeploy, StreamBreaks, Logout, ChangeChoice, FaultArises,
      FaultFixed, Crash,
      SendUpdate, TickFires, Reapply, Publish
<1>1. unsent' = unsent \/ unsent' = FALSE \/ unsent' = (stream = "open")
  BY Zenon
<1>2. stream' \in {stream, "closed", "opening", "open", "dead"}
  BY Zenon
<1>3. fault' = fault \/ fault' \in Faults \cup {"none"}
  BY Zenon
<1>4. choiceFile' = choiceFile \/ choiceFile' \in Choices
  BY Zenon
<1>5. choiceMem' = choiceMem \/ choiceMem' = choiceFile
  BY Zenon
<1>6. unseen' \in {unseen, TRUE, FALSE}
  BY Zenon
<1>7. applied' = applied \/ \E b : applied' = applied \cup {b}
  BY Zenon
<1> HIDE DEF StartConnect, OpenStream, NoticeBroken, ReceivePush, ApplyPush, PersistPush, ReceiveTick,
      SetChoice, Startup, Reload, Redeploy, StreamBreaks, Logout, ChangeChoice, FaultArises,
      FaultFixed, Crash,
      SendUpdate, TickFires, Reapply, Publish, Next, applies
<1> QED
  BY <1>1, <1>2, <1>3, <1>4, <1>5, <1>6, <1>7, Zenon

(* The controller's messages are taken in their order; each brings what    *)
(* was published when it was sent.                                         *)
LEMMA DownSteps ==
  ASSUME [Next]_vars
  PROVE  \/ down' = down \/ down' = <<>> \/ down' = <<published>>
         \/ down' = Tail(down) /\ down # <<>>
         \/ down' = Append(down, published) /\ Len(down) < MaxQueue
<1>1. CASE OpenStream
  BY <1>1, Zenon DEF OpenStream
<1>2. CASE NoticeBroken \/ Logout \/ Crash
  BY <1>2, Zenon DEF NoticeBroken, Logout, Crash
<1>3. CASE ReceivePush
  BY <1>3, Zenon DEF ReceivePush
<1>4. CASE SendUpdate
  BY <1>4, Zenon DEF SendUpdate
<1> QED
  BY <1>1, <1>2, <1>3, <1>4, Writers, Zenon

(* What was applied once stays among the applied bodies.                   *)
LEMMA AppliedGrows ==
  ASSUME [Next]_vars
  PROVE  applied \subseteq applied'
  BY Effects, Zenon

-----------------------------------------------------------------------------
(* The channel of outcomes *)

(* The watch channel and the outcomes on their way to it keep the order of *)
(* the re-applies.                                                         *)
LEMMA ChannelKeeps ==
  ASSUME IInv, [Next]_vars
  PROVE  Channel'
<1> TypeOK /\ Channel /\ Numbered
  BY Zenon DEF IInv
<1> USE Constants
<1>1. CASE Crash
  <2>1. /\ statuses' = NoOutcome
        /\ \A w \in Workers : work'[w] = "idle" /\ outcome'[w] = NoOutcome
    BY <1>1, Zenon DEF Crash
  <2> QED
    BY <2>1, Zenon DEF Channel, Newest
<1>2. CASE ~ Crash /\ ~ \E w \in Workers : Reapply(w) \/ Publish(w)
  <2>1. UNCHANGED <<outcome, statuses, lastReapply>>
    BY <1>2, Writers, Zenon
  <2>2. work' = work \/ SetChoice \/ ChangeChoice \/ TickFires
    BY <1>2, Writers, Zenon
  <2>3. \A w \in Workers : work'[w] = "publish" <=> work[w] = "publish"
    BY <2>2, Zenon DEF TypeOK, SetChoice, ChangeChoice, TickFires, Workers
  <2> QED
    BY <2>1, <2>3, ChannelFrame, Zenon
<1>3. ASSUME NEW w \in Workers, Publish(w)
       PROVE  Channel'
  <2>1. PICK v \in Workers : v # w /\ Workers = {v, w}
    BY Zenon DEF Workers
  <2>2. /\ outcome'[w] = NoOutcome /\ outcome'[v] = outcome[v] /\ outcome[w].seq # 0
        /\ work'[w] = "idle" /\ work'[v] = work[v] /\ lastReapply' = lastReapply
    BY <1>3, <2>1, Zenon DEF TypeOK, Publish, Channel
  <2>3. /\ statuses.seq \in Nat /\ outcome[v].seq \in Nat /\ outcome[w].seq \in Nat
        /\ outcome[w].seq # statuses.seq /\ outcome[w].seq # outcome[v].seq
    BY <2>1, <2>2 DEF TypeOK, Outcomes, Channel
  <2>4. CASE statuses.seq > outcome[w].seq
    <3>1. statuses' = statuses
      BY <1>3, <2>4, Zenon DEF Publish
    <3>2. Newest(statuses)' => Newest(statuses)
      BY <2>1, <2>2, <2>3, <2>4, <3>1 DEF Newest
    <3>3. Newest(outcome[v])' => Newest(outcome[v])
      BY <2>1, <2>2, <2>3, <2>4, <3>1 DEF Newest
    <3>4. ~ Newest(outcome[w])'
      BY <2>2, Zenon DEF Newest
    <3> QED
      BY <2>1, <2>2, <2>3, <3>1, <3>2, <3>3, <3>4 DEF Channel, Content
  <2>5. CASE ~ (statuses.seq > outcome[w].seq)
    <3>1. statuses' = outcome[w]
      BY <1>3, <2>5, Zenon DEF Publish
    <3>2. Newest(statuses)' => Newest(outcome[w])
      BY <2>1, <2>2, <2>3, <2>5, <3>1 DEF Newest
    <3>3. Newest(outcome[v])' => Newest(outcome[v])
      BY <2>1, <2>2, <2>3, <2>5, <3>1 DEF Newest
    <3>4. ~ Newest(outcome[w])'
      BY <2>2, Zenon DEF Newest
    <3> QED
      BY <2>1, <2>2, <2>3, <3>1, <3>2, <3>3, <3>4 DEF Channel, Content
  <2> QED
    BY <2>4, <2>5, Zenon
<1>4. ASSUME NEW w \in Workers, Reapply(w)
       PROVE  Channel'
  <2>1. CASE current = NoConfig
    <3>1. \A v \in Workers : work'[v] = "publish" <=> work[v] = "publish"
      BY <1>4, <2>1, Zenon DEF TypeOK, Reapply
    <3> QED
      BY <1>4, <2>1, <3>1, ChannelFrame, Zenon DEF Reapply
  <2>2. CASE current # NoConfig
    <3>1. PICK e \in Errors : Reapplied(w, e)
      BY <1>4, <2>2, Zenon DEF Reapply, Reapplied, Errors
    <3> QED
      BY <2>2, <3>1, ReappliedChannel, Zenon
  <2> QED
    BY <2>1, <2>2, Zenon
<1> QED
  BY <1>1, <1>2, <1>3, <1>4, Zenon

-----------------------------------------------------------------------------
(* Revisions *)

(* The outcome of a re-apply is about the current configuration.           *)
LEMMA ReapplyRevisions ==
  ASSUME IInv, current # NoConfig,
         NEW w \in Workers, NEW e \in Errors, Reapplied(w, e)
  PROVE  /\ statuses'.rev = statuses.rev /\ statuses'.error = statuses.error
         /\ \A v \in Workers \ {w} : /\ outcome'[v].rev = outcome[v].rev
                                      /\ outcome'[v].error = outcome[v].error
         /\ outcome'[w].rev = current.rev /\ outcome'[w].error = e
<1> TypeOK /\ Channel /\ Numbered
  BY Zenon DEF IInv
<1>1. ASSUME NEW o, NEW p, Content(o) = Content(p)
      PROVE  o.rev = p.rev /\ o.error = p.error
  BY <1>1, Zenon DEF Content
<1>2. lastReapply'.rev = current.rev /\ lastReapply'.error = e
  BY Zenon DEF Reapplied, Status
<1>3. ASSUME NEW o, Content(o) = lastReapply'
      PROVE  o.rev = lastReapply'.rev /\ o.error = lastReapply'.error
  BY <1>3, Zenon DEF Content
<1>4. /\ Content(statuses') = Content(statuses)
      /\ \A v \in Workers \ {w} : Content(outcome'[v]) = Content(outcome[v])
      /\ Content(outcome'[w]) = lastReapply'
  BY ReapplyNumbers, Zenon
<1>5. /\ statuses'.rev = statuses.rev /\ statuses'.error = statuses.error
  BY <1>1, <1>4, Zenon
<1>6. \A v \in Workers \ {w} : /\ outcome'[v].rev = outcome[v].rev
                                /\ outcome'[v].error = outcome[v].error
  BY <1>1, <1>4, Zenon
<1>7. outcome'[w].rev = lastReapply'.rev /\ outcome'[w].error = lastReapply'.error
  BY <1>3, <1>4, Zenon
<1> QED
  BY <1>2, <1>5, <1>6, <1>7, Zenon

(* The controller sends what is published, and a message not yet taken     *)
(* stays as it was sent.                                                   *)
LEMMA DownContents ==
  ASSUME IInv, [Next]_vars, NEW i \in 1 .. Len(down')
  PROVE  down'[i] = published \/ \E j \in 1 .. Len(down) : down'[i] = down[j]
<1> TypeOK
  BY Zenon DEF IInv
<1>1. down \in Seq(Configs) /\ Len(down) \in Nat
  BY DEF TypeOK
<1>2. CASE down' = down
  BY <1>2, Zenon
<1>3. CASE down' = <<>> \/ down' = <<published>>
  BY <1>3
<1>4. CASE down' = Tail(down) /\ down # <<>>
  <2>1. i + 1 \in 1 .. Len(down) /\ down'[i] = down[i + 1]
    BY <1>1, <1>4
  <2> QED
    BY <2>1, Zenon
<1>5. CASE down' = Append(down, published)
  <2>1. i \in 1 .. Len(down) \/ i = Len(down) + 1
    BY <1>1, <1>5
  <2> QED
    BY <1>1, <1>5, <2>1
<1> QED
  BY <1>2, <1>3, <1>4, <1>5, DownSteps, Zenon

(* The current configuration comes from the controller and parses, or from *)
(* remote-config.yaml without a revision.                                  *)
LEMMA CurrentSteps ==
  ASSUME IInv, [Next]_vars
  PROVE  \/ current' = current \/ current'.rev = 0
         \/ current'.body \notin Unparsable /\ \E j \in 1 .. Len(down) : current' = down[j]
<1> TypeOK
  BY Zenon DEF IInv
<1>1. CASE ReceivePush
  <2>1. 1 \in 1 .. Len(down) /\ Head(down) = down[1]
    BY <1>1, FirstPushed, Zenon
  <2>2. current' = current \/ (current' = Head(down) /\ Head(down).body \notin Unparsable)
    BY <1>1, Zenon DEF ReceivePush
  <2> QED
    BY <2>1, <2>2, Zenon
<1>2. CASE Startup
  BY <1>2 DEF Startup
<1>3. CASE Logout \/ Crash
  BY <1>3, Constants, Zenon DEF Logout, Crash
<1> QED
  BY <1>1, <1>2, <1>3, Writers, Zenon

(* Revisions grow only with the controller's restarts.                     *)
LEMMA PublishedSteps ==
  ASSUME IInv, [Next]_vars
  PROVE  /\ published.rev \in Int /\ count["change"] \in Int
         /\ \/ UNCHANGED <<published, count["change"]>>
            \/ /\ Redeploy /\ ~ Reload /\ published'.rev = published.rev + 1 /\ published'.body \in Bodies
               /\ count'["change"] = count["change"] + 1
            \/ /\ Reload /\ published'.rev = published.rev /\ published'.body \in Bodies
               /\ count'["change"] = count["change"] + 1
<1> TypeOK /\ Numbered
  BY Zenon DEF IInv
<1>1. published.rev \in Int /\ count["change"] \in Int /\ published \in Configs
  BY BoundsAssumption DEF TypeOK, Configs, Revisions, Events
<1>2. Reload => published'.rev = published.rev /\ published'.body \in Bodies
  BY <1>1, Zenon DEF Configs, Reload
<1>3. Redeploy => published'.rev = published.rev + 1 /\ published'.body \in Bodies
  BY DEF Redeploy
<1>4. Redeploy => ~ Reload
  BY <1>1, <1>2, <1>3
<1>5. Reload \/ Redeploy => count'["change"] = count["change"] + 1
  <2>1. Reload \/ Redeploy => Counted("change") /\ "change" \in Events
    BY Zenon DEF Reload, Redeploy, Events
  <2> QED
    BY <2>1, CountedType, Zenon
<1>6. ~ Reload /\ ~ Redeploy => UNCHANGED <<published, count["change"]>>
  <2>1. ASSUME NEW e \in Events \ {"change"}, Counted(e)
        PROVE  count'["change"] = count["change"]
    <3>1. "change" \in Events \ {e}
      BY Zenon DEF Events
    <3> QED
      BY <2>1, <3>1, CountedType, Zenon
  <2> QED
    BY <2>1, Writers, Zenon
<1> QED
  BY <1>1, <1>2, <1>3, <1>4, <1>5, <1>6, Zenon

(* A step names no revision in an outcome but that of the current          *)
(* configuration or one already named.                                     *)
LEMMA OutcomeRevisions ==
  ASSUME IInv, [Next]_vars
  PROVE  /\ statuses'.rev <= published.rev
         /\ \A w \in Workers : outcome'[w].rev <= published.rev
<1> TypeOK /\ Channel /\ Numbered
  BY Zenon DEF IInv
<1>1. 0 <= published.rev
  BY BoundsAssumption DEF TypeOK, Configs, Revisions
<1>2. CASE Crash
  BY <1>1, <1>2, Constants, Zenon DEF Crash
<1>3. ASSUME NEW w \in Workers, Publish(w)
      PROVE  /\ statuses'.rev <= published.rev
             /\ \A v \in Workers : outcome'[v].rev <= published.rev
  <2>1. \A v \in Workers : outcome'[v] \in {outcome[v], NoOutcome}
    BY <1>3, Zenon DEF TypeOK, Publish
  <2>2. statuses' \in {statuses, outcome[w]}
    BY <1>3, Zenon DEF Publish
  <2> QED
    BY <1>1, <2>1, <2>2, Constants, Zenon DEF Numbered
<1>4. ASSUME NEW w \in Workers, Reapply(w)
      PROVE  /\ statuses'.rev <= published.rev
             /\ \A v \in Workers : outcome'[v].rev <= published.rev
  <2>1. CASE current = NoConfig
    BY <1>4, <2>1, Zenon DEF Numbered, Reapply
  <2>2. CASE current # NoConfig
    <3>1. PICK e \in Errors : Reapplied(w, e)
      BY <1>4, <2>2, Zenon DEF Reapply, Reapplied, Errors
    <3> QED
      BY <2>2, <3>1, ReapplyRevisions, Zenon DEF Numbered
  <2> QED
    BY <2>1, <2>2, Zenon
<1>5. CASE UNCHANGED <<outcome, statuses>>
  BY <1>5, Zenon DEF Numbered
<1> QED
  BY <1>2, <1>3, <1>4, <1>5, Writers, Zenon

(* Nothing names a revision that was not published.                        *)
LEMMA NumberedKeeps ==
  ASSUME IInv, TypeOK', [Next]_vars
  PROVE  Numbered'
<1> TypeOK /\ Channel /\ Numbered
  BY Zenon DEF IInv
<1>1. /\ published.rev <= published'.rev /\ published'.rev \in Int
      /\ published'.rev # 0 /\ published'.rev - 1 <= count'["change"] /\ published'.body \in Bodies
  <2>1. published.rev >= 0
    BY BoundsAssumption DEF TypeOK, Configs, Revisions
  <2> QED
    BY <2>1, PublishedSteps DEF Numbered
<1>2. ASSUME NEW r \in Int, r <= published.rev
      PROVE  r <= published'.rev
  BY <1>1, <1>2, PublishedSteps
<1>3. ASSUME NEW c \in Configs
      PROVE  c.rev \in Int /\ 0 <= c.rev
  BY BoundsAssumption DEF Configs, Revisions
<1>4. ASSUME NEW i \in 1 .. Len(down')
      PROVE  down'[i].rev # 0 /\ down'[i].rev <= published'.rev /\ down'[i].body \in Bodies
  <2>1. /\ published.rev # 0 /\ published.body \in Bodies
        /\ \A j \in 1 .. Len(down) : /\ down[j].rev # 0 /\ down[j].rev <= published.rev
                                     /\ down[j].body \in Bodies
    BY Zenon DEF Numbered
  <2>2. \A j \in 1 .. Len(down) : down[j].rev \in Int
    <3>1. \A j \in 1 .. Len(down) : down[j] \in Configs
      BY DEF TypeOK
    <3> QED
      BY <1>3, <3>1, Zenon
  <2> QED
    BY <1>1, <1>2, <2>1, <2>2, DownContents, Zenon
<1>5. /\ current'.rev <= published'.rev
      /\ current'.rev # 0 => current'.body \in Bodies \ Unparsable
  <2>1. /\ \A j \in 1 .. Len(down) : down[j].rev \in Int /\ down[j].rev <= published.rev /\ down[j].body \in Bodies
        /\ current.rev \in Int /\ current.rev <= published.rev /\ 0 \in Int /\ 0 <= published.rev
        /\ current.rev # 0 => current.body \in Bodies \ Unparsable
    <3>1. current \in Configs /\ published \in Configs /\ \A j \in 1 .. Len(down) : down[j] \in Configs
      BY DEF TypeOK
    <3>2. 0 \in Int
      OBVIOUS
    <3> QED
      BY <1>3, <3>1, <3>2, Zenon DEF Numbered
  <2> QED
    BY <1>2, <2>1, CurrentSteps, Zenon
<1>6. statuses'.rev <= published'.rev /\ \A w \in Workers : outcome'[w].rev <= published'.rev
  <2>1. statuses'.rev \in Int /\ \A w \in Workers : outcome'[w].rev \in Int
    BY BoundsAssumption DEF TypeOK, Outcomes, Revisions
  <2> QED
    BY <1>2, <2>1, OutcomeRevisions, Zenon
<1> QED
  BY <1>1, <1>4, <1>5, <1>6, Zenon DEF Numbered

-----------------------------------------------------------------------------
(* What a restart restores *)

(* A hot reload changes the content of a revision for good: if revisions   *)
(* identify contents after a step, they did before it.                     *)
LEMMA RevisionsStay ==
  ASSUME IInv, [Next]_vars, RevisionsIdentify'
  PROVE  RevisionsIdentify /\ ~ Reload
<1> TypeOK /\ Numbered
  BY Zenon DEF IInv
<1>1. published.rev \in Int /\ count["change"] \in Int /\ published.rev - 1 <= count["change"]
  BY PublishedSteps, Zenon DEF Numbered
<1>2. \/ ~ Reload /\ UNCHANGED <<published, count["change"]>>
      \/ /\ ~ Reload /\ published'.rev = published.rev + 1
         /\ count'["change"] = count["change"] + 1
      \/ /\ published'.rev = published.rev /\ count'["change"] = count["change"] + 1
  <2>1. Reload => ~ (published' = published)
    BY DEF Reload, TypeOK, Configs
  <2> QED
    BY <2>1, PublishedSteps, Zenon
<1> QED
  BY <1>1, <1>2 DEF RevisionsIdentify

(* Only a restart of the controller brings a new configuration into play.  *)
LEMMA KnownShrinks ==
  ASSUME IInv, [Next]_vars, ~ Reload
  PROVE  \A c \in Known' : \/ c \in Known \/ c.rev = 0
                           \/ Redeploy /\ c = published'
<1> TypeOK
  BY Zenon DEF IInv
<1>1. /\ published \in Known /\ current \in Known /\ \A j \in 1 .. Len(down) : down[j] \in Known
      /\ \A c \in Known' : \/ c = published' \/ c = current'
                           \/ \E i \in 1 .. Len(down') : c = down'[i]
  BY Zenon DEF Known
<1>2. published' = published \/ Redeploy
  BY Writers, Zenon
<1>3. \A i \in 1 .. Len(down') : down'[i] \in Known
  BY <1>1, DownContents, Zenon
<1>4. current' \in Known \/ current'.rev = 0
  BY <1>1, CurrentSteps, Zenon
<1> QED
  BY <1>1, <1>2, <1>3, <1>4, Zenon

(* An outcome is one of before, or that of a re-apply of the current       *)
(* configuration, which then leaves everything else as it was.             *)
Fresh(o) ==
  /\ o.rev = current.rev /\ (o.error = "none" => current.body \in applied')
  /\ UNCHANGED <<controller, current, push, streamRev, pending, saved>>

(* An outcome of a re-apply is of this step, or was there before.          *)
LEMMA OutcomeSources ==
  ASSUME IInv, [Next]_vars,
         NEW o \in Outcomes, IsOutcome(o)'
  PROVE  \/ o.rev = 0 \/ Fresh(o)
         \/ \E p \in Outcomes : IsOutcome(p) /\ p.rev = o.rev /\ p.error = o.error
<1> TypeOK /\ Channel /\ Numbered
  BY Zenon DEF IInv
<1> USE Constants
<1>1. statuses \in Outcomes /\ \A v \in Workers : outcome[v] \in Outcomes
  BY Zenon DEF TypeOK
<1>2. CASE Crash
  <2>1. o = NoOutcome
    BY <1>2, Zenon DEF Crash, IsOutcome
  <2> QED
    BY <2>1, Zenon
<1>3. ASSUME NEW w \in Workers, Publish(w)
      PROVE  o.rev = 0 \/ \E p \in Outcomes : IsOutcome(p) /\ p.rev = o.rev /\ p.error = o.error
  <2>1. statuses' \in {statuses, outcome[w]} /\ \A v \in Workers : outcome'[v] \in {outcome[v], NoOutcome}
    BY <1>3, Zenon DEF TypeOK, Publish
  <2>2. o = NoOutcome \/ IsOutcome(o)
    BY <2>1, Zenon DEF IsOutcome
  <2> QED
    BY <2>2, Zenon
<1>4. ASSUME NEW w \in Workers, Reapply(w)
      PROVE  Fresh(o) \/ \E p \in Outcomes : IsOutcome(p) /\ p.rev = o.rev /\ p.error = o.error
  <2>1. CASE current = NoConfig
    <3>1. UNCHANGED <<outcome, statuses>>
      BY <1>4, <2>1, Zenon DEF Reapply
    <3>2. IsOutcome(o)
      BY <3>1, Zenon DEF IsOutcome
    <3> QED
      BY <3>2, Zenon
  <2>2. CASE current # NoConfig
    <3>1. PICK e \in Errors : Reapplied(w, e)
      BY <1>4, <2>2, Zenon DEF Reapply, Reapplied, Errors
    <3>2. /\ statuses'.rev = statuses.rev /\ statuses'.error = statuses.error
          /\ \A v \in Workers \ {w} : /\ outcome'[v].rev = outcome[v].rev
                                      /\ outcome'[v].error = outcome[v].error
          /\ outcome'[w].rev = current.rev /\ outcome'[w].error = e
      BY <2>2, <3>1, ReapplyRevisions, Zenon
    <3>3. CASE o = statuses'
      BY <1>1, <3>2, <3>3, Zenon DEF IsOutcome
    <3>4. ASSUME NEW v \in Workers \ {w}, o = outcome'[v]
          PROVE  \E p \in Outcomes : IsOutcome(p) /\ p.rev = o.rev /\ p.error = o.error
      <4>1. IsOutcome(outcome[v]) /\ outcome[v] \in Outcomes
        BY <1>1, Zenon DEF IsOutcome
      <4> QED
        BY <3>2, <3>4, <4>1, Zenon
    <3>5. CASE o = outcome'[w]
      <4>1. Apply(current.body) /\ e = (IF fault = "apply" THEN "apply" ELSE "none") /\ current.body \in Bodies
        BY <2>2, <3>1, CurrentType, Zenon DEF Reapplied
      <4>2. e = "none" => current.body \in applied'
        BY <4>1, Zenon DEF Apply
      <4>3. UNCHANGED <<controller, current, push, streamRev, pending, saved>>
        BY <1>4, Zenon DEF Reapply, loop
      <4> QED
        BY <3>2, <3>5, <4>2, <4>3, Zenon DEF Fresh
    <3>6. o = statuses' \/ o = outcome'[w] \/ \E v \in Workers \ {w} : o = outcome'[v]
      BY Zenon DEF IsOutcome
    <3> QED
      BY <3>3, <3>4, <3>5, <3>6, Zenon
  <2> QED
    BY <2>1, <2>2, Zenon
<1>5. CASE UNCHANGED <<outcome, statuses>>
  BY <1>5, Zenon DEF IsOutcome
<1> QED
  BY <1>2, <1>3, <1>4, <1>5, Writers, Zenon

(* A configuration in the system has a revision the controller published.  *)
LEMMA KnownType ==
  ASSUME IInv, NEW c \in Known
  PROVE  c \in Configs /\ c.rev \in Int /\ c.rev <= published.rev
<1> TypeOK /\ Numbered
  BY Zenon DEF IInv
<1>1. published \in Configs /\ current \in Configs /\ \A i \in 1 .. Len(down) : down[i] \in Configs
  BY DEF TypeOK
<1>2. c \in Configs
  BY <1>1, Zenon DEF Known
<1>3. c.rev \in Int /\ published.rev \in Int
  BY <1>1, <1>2, BoundsAssumption DEF Configs, Revisions
<1> QED
  BY <1>2, <1>3 DEF Known, Numbered

(* Without a hot reload a revision names one content, since Redeploy takes *)
(* a new one.                                                              *)
LEMMA IdentifiedKeeps ==
  ASSUME IInv, Identified, [Next]_vars, ~ Reload
  PROVE  Identified'
<1> TypeOK /\ Channel /\ Numbered
  BY Zenon DEF IInv
<1>1. ASSUME NEW c \in Known', c.rev # 0
      PROVE  c \in Known \/ (Redeploy /\ c = published' /\ c.rev = published.rev + 1)
  <2>1. c \in Known \/ (Redeploy /\ c = published')
    BY <1>1, KnownShrinks, Zenon
  <2>2. Redeploy => published'.rev = published.rev + 1
    BY DEF Redeploy
  <2> QED
    BY <2>1, <2>2, Zenon
<1>2. published.rev \in Int
  BY BoundsAssumption DEF TypeOK, Configs, Revisions
<1>3. ASSUME NEW c \in Known', NEW d \in Known', c.rev = d.rev, c.rev # 0
      PROVE  c.body = d.body
  <2>1. CASE c \in Known /\ d \in Known
    BY <1>3, <2>1, Zenon DEF Identified
  <2>2. CASE c \notin Known \/ d \notin Known
    <3>1. c = published' /\ d = published'
      BY <1>1, <1>2, <1>3, <2>2, KnownType
    <3> QED
      BY <3>1, Zenon
  <2> QED
    BY <2>1, <2>2, Zenon
<1>4. ASSUME NEW o \in Outcomes, NEW c \in Known', IsOutcome(o)', o.rev # 0, c.rev = o.rev
      PROVE  c.body \notin Unparsable /\ (o.error = "none" => c.body \in applied')
  <2>1. c \in Known
    <3>1. ASSUME Redeploy, c.rev = published.rev + 1
          PROVE  FALSE
      <4>1. statuses' = statuses /\ outcome' = outcome
        BY <3>1, Zenon DEF Redeploy, reapply
      <4>2. o.rev <= published.rev
        BY <1>4, <4>1, Zenon DEF IsOutcome, Numbered
      <4> QED
        BY <1>2, <1>4, <3>1, <4>2
    <3> QED
      BY <1>1, <1>4, <3>1, Zenon
  <2>2. CASE Fresh(o)
    <3>1. current \in Known /\ current.rev = c.rev /\ current.rev # 0
      BY <1>4, <2>2, Zenon DEF Fresh, Known
    <3>2. c.body = current.body /\ current.body \notin Unparsable
      BY <1>4, <2>1, <3>1, Zenon DEF Identified, Numbered
    <3> QED
      BY <2>2, <3>2, Zenon DEF Fresh
  <2>3. ASSUME NEW p \in Outcomes, IsOutcome(p), p.rev = o.rev, p.error = o.error
        PROVE  c.body \notin Unparsable /\ (o.error = "none" => c.body \in applied')
    <3>1. c.body \notin Unparsable /\ (p.error = "none" => c.body \in applied)
      BY <1>4, <2>1, <2>3, Zenon DEF Identified
    <3> QED
      BY <2>3, <3>1, AppliedGrows, Zenon
  <2> QED
    BY <1>4, <2>2, <2>3, OutcomeSources, Zenon
<1> QED
  BY <1>3, <1>4, Zenon DEF Identified

(* Received, where a step leaves the configuration received last, what is  *)
(* held back and what is saved as they are.                                *)
LEMMA ReceivedFrame ==
  ASSUME IInv, Received, [Next]_vars,
         UNCHANGED <<current, push, streamRev, pending, saved>>,
         stream' \in {"open", "dead"} => stream \in {"open", "dead"}
  PROVE  Received'
<1> TypeOK /\ Channel /\ Numbered
  BY Zenon DEF IInv
<1> SUFFICES ASSUME Listening', streamRev # 0, current.rev # streamRev
             PROVE  \A o \in Outcomes : IsOutcome(o)' => o.rev # streamRev
  BY Zenon DEF Received, Listening
<1>1. \A o \in Outcomes : IsOutcome(o) => o.rev # streamRev
  BY Zenon DEF Received, Listening
<1>2. ASSUME NEW o \in Outcomes, IsOutcome(o)'
      PROVE  o.rev # streamRev
  <2>1. o.rev = 0 \/ Fresh(o) \/ \E p \in Outcomes : IsOutcome(p) /\ p.rev = o.rev
    BY <1>2, OutcomeSources, Zenon
  <2>2. Fresh(o) => o.rev = current.rev
    BY Zenon DEF Fresh
  <2> QED
    BY <1>1, <2>1, <2>2, Zenon
<1> QED
  BY <1>2, Zenon

(* The configuration received last stays saved or held back, whatever the  *)
(* ticks, the choice changes and their outcomes do meanwhile.              *)
LEMMA ReceivedKeeps ==
  ASSUME IInv, Identified, Received, ~ Reload,
         [Next]_vars
  PROVE  Received'
<1> TypeOK /\ Stopped /\ Handling /\ Channel /\ Numbered /\ HeldBack
  BY Zenon DEF IInv
<1>1. CASE StartConnect \/ NoticeBroken \/ Logout \/ Crash
  BY <1>1, Zenon DEF Received, Listening, StartConnect, NoticeBroken, Logout, Crash
<1>2. CASE OpenStream
  BY <1>2, Zenon DEF Received, Listening, HeldBack, OpenStream, loop
<1>3. CASE Startup
  BY <1>3, Zenon DEF Received, Listening, Stopped, Startup, controller
<1>4. CASE ReceivePush
  <2>1. 1 \in 1 .. Len(down) /\ Head(down) = down[1]
    BY <1>4, FirstPushed, Zenon
  <2>2. Head(down) \in Known /\ Head(down).rev # 0 /\ current \in Known
    BY <2>1, Zenon DEF Known, Numbered
  <2>3. CASE Head(down).body \in Unparsable
    <3>1. /\ current' = current /\ pending' = NoBody /\ streamRev' = Head(down).rev
          /\ statuses' = statuses /\ outcome' = outcome
      BY <1>4, <2>3, Zenon DEF ReceivePush, reapply
    <3>2. current.rev # Head(down).rev
      BY <2>2, <2>3, Zenon DEF Identified, Numbered
    <3>3. ASSUME NEW o \in Outcomes, IsOutcome(o)'
          PROVE  o.rev # Head(down).rev
      <4>1. IsOutcome(o)
        BY <3>1, <3>3, Zenon DEF IsOutcome
      <4> QED
        BY <2>2, <2>3, <4>1, Zenon DEF Identified
    <3> QED
      BY <3>1, <3>2, <3>3, Zenon DEF Received
  <2>4. CASE Head(down).body \notin Unparsable
    BY <1>4, <2>4 DEF Received, Listening, ReceivePush
  <2> QED
    BY <2>3, <2>4, Zenon
<1>5. CASE ApplyPush
  <2>1. current = push.config /\ streamRev = push.config.rev /\ push.config.body \in Bodies
    BY <1>5, Zenon DEF ApplyPush, Handling
  <2>2. UNCHANGED <<current, streamRev, saved>>
    BY <1>5, Zenon DEF ApplyPush
  <2>3. CASE fault = "apply"
    <3>1. pending' = push.config.body
      BY <1>5, <2>3, Zenon DEF ApplyPush
    <3> QED
      BY <2>1, <2>2, <3>1, BodiesAssumption, Zenon DEF Received
  <2>4. CASE fault # "apply"
    BY <1>5, <2>4, Zenon DEF Received, Listening, ApplyPush, TypeOK
  <2> QED
    BY <2>3, <2>4, Zenon
<1>6. CASE PersistPush
  <2>1. current = push.config /\ streamRev = push.config.rev /\ push.config.body \in Bodies
    BY <1>6, Zenon DEF PersistPush, Handling
  <2>2. UNCHANGED <<current, streamRev>>
    BY <1>6, Zenon DEF PersistPush
  <2>3. \/ pending' = push.config.body
        \/ pending' = NoBody /\ saved' = push.config.body
    BY <1>6, Zenon DEF PersistPush
  <2> QED
    BY <2>1, <2>2, <2>3, BodiesAssumption, Zenon DEF Received
<1>7. CASE ReceiveTick
  <2>1. /\ UNCHANGED <<current, streamRev, statuses, outcome>>
        /\ stream \in {"open", "dead"} /\ push.step = "idle"
    BY <1>7, Zenon DEF ReceiveTick
  <2>2. \/ UNCHANGED <<saved, pending>>
        \/ saved' = pending /\ pending' = NoBody /\ pending # NoBody
    BY <1>7, Zenon DEF ReceiveTick
  <2>3. \A o \in Outcomes : IsOutcome(o)' => IsOutcome(o)
    BY <2>1, Zenon DEF IsOutcome
  <2>4. streamRev # 0 =>
          IF current.rev = streamRev
            THEN IF pending = NoBody THEN saved = current.body ELSE pending = current.body
            ELSE pending = NoBody /\ \A o \in Outcomes : IsOutcome(o) => o.rev # streamRev
    BY <2>1, Zenon DEF Received, Listening
  <2> QED
    BY <2>1, <2>2, <2>3, <2>4, Zenon DEF Received
<1>8. CASE ~ (StartConnect \/ NoticeBroken \/ Logout \/ Crash \/ OpenStream \/ Startup \/ ReceivePush
              \/ ApplyPush \/ PersistPush \/ ReceiveTick)
  <2>1. UNCHANGED <<current, push, streamRev, pending, saved>>
    BY <1>8, Writers, Zenon
  <2>2. stream' = stream \/ Redeploy \/ StreamBreaks
    BY <1>8, Writers, Zenon
  <2>3. stream' \in {"open", "dead"} => stream \in {"open", "dead"}
    BY <2>2, Zenon DEF Redeploy, StreamBreaks
  <2> QED
    BY <2>1, <2>3, ReceivedFrame, Zenon
<1> QED
  BY <1>1, <1>2, <1>3, <1>4, <1>5, <1>6, <1>7, <1>8, Zenon

(* What a tick saves was applied: its outcome is about the configuration   *)
(* received last, which is the one held back.                              *)
LEMMA TickSaves ==
  ASSUME IInv, Identified, Received, Listening,
         statuses.rev # 0, statuses.rev = streamRev
  PROVE  /\ current.rev = streamRev
         /\ statuses.error = "none" => current.body \in applied
         /\ IF pending = NoBody THEN saved = current.body ELSE pending = current.body
<1> TypeOK
  BY Zenon DEF IInv
<1>1. statuses \in Outcomes /\ IsOutcome(statuses) /\ current \in Known
  BY Zenon DEF TypeOK, IsOutcome, Known
<1>2. current.rev = streamRev
  BY <1>1, Zenon DEF Received
<1> QED
  BY <1>1, <1>2, Zenon DEF Received, Identified

(* remote-config.yaml is written after an apply of what is written: by     *)
(* PersistPush, or by ReceiveTick for a configuration held back.           *)
LEMMA SavedKeeps ==
  ASSUME IInv, Identified, Received, SavedWasApplied, [Next]_vars
  PROVE  SavedWasApplied'
<1> TypeOK /\ Handling
  BY Zenon DEF IInv
<1>1. applied \subseteq applied'
  BY AppliedGrows, Zenon
<1>2. CASE PersistPush
  <2>1. push.config.body \in applied
    BY <1>2, Zenon DEF Handling, PersistPush
  <2>2. saved' = saved \/ saved' = push.config.body
    BY <1>2, Zenon DEF PersistPush
  <2> QED
    BY <1>1, <2>1, <2>2, Zenon DEF SavedWasApplied
<1>3. CASE ReceiveTick
  <2>1. CASE saved' = saved
    BY <1>1, <2>1, Zenon DEF SavedWasApplied
  <2>2. CASE saved' # saved
    <3>1. /\ statuses.rev # 0 /\ statuses.rev = streamRev /\ statuses.error = "none"
          /\ pending # NoBody /\ saved' = pending /\ Listening
      BY <1>3, <2>2, Zenon DEF ReceiveTick, Listening
    <3>2. pending \in applied
      BY <3>1, TickSaves, Zenon
    <3> QED
      BY <1>1, <3>1, <3>2, Zenon DEF SavedWasApplied
  <2> QED
    BY <2>1, <2>2, Zenon
<1>4. CASE saved' = saved
  BY <1>1, <1>4, Zenon DEF SavedWasApplied
<1> QED
  BY <1>2, <1>3, <1>4, Writers, Zenon

(* When the last word to the controller is APPLIED, the configuration it   *)
(* is about stays the one that a restart restores.                         *)
LEMMA ReportKeeps ==
  ASSUME IInv, Identified, Received, AppliedReportHolds, [Next]_vars
  PROVE  AppliedReportHolds'
<1> TypeOK /\ Stopped /\ Handling /\ HeldBack
  BY Zenon DEF IInv
<1>1. CASE StartConnect \/ Startup \/ Logout \/ Crash
  <2>1. lastSent' = NoStatus \/ current' = NoConfig
    BY <1>1, Zenon DEF StartConnect, Startup, Stopped, Logout, Crash, loop
  <2> QED
    BY <2>1, Zenon DEF AppliedReportHolds
<1>2. CASE ReceivePush
  BY <1>2 DEF AppliedReportHolds, ReceivePush, Report
<1>3. CASE ApplyPush
  <2>1. push.config.rev \in Revisions /\ choiceMem \in Choices
    BY Zenon DEF TypeOK, Configs
  <2>2. Status(push.config.rev, "apply", push.config.body).error = "apply"
    BY <2>1, StatusType DEF Errors
  <2>3. push'.step = "idle" => lastSent'.error = "apply"
    BY <1>3, <2>2, Zenon DEF TypeOK, ApplyPush, Report
  <2> QED
    BY <2>3, Zenon DEF AppliedReportHolds
<1>4. CASE PersistPush
  <2>1. push.config.rev \in Revisions /\ choiceMem \in Choices
    BY Zenon DEF TypeOK, Configs
  <2>2. Status(push.config.rev, "save", push.config.body).error = "save"
    BY <2>1, StatusType DEF Errors
  <2>3. lastSent'.error = "none" => saved' = push.config.body
    BY <1>4, <2>2, Zenon DEF PersistPush, Report
  <2>4. current' = push.config /\ streamRev' = push.config.rev
    BY <1>4, Zenon DEF PersistPush, Handling
  <2> QED
    BY <2>3, <2>4, Zenon DEF AppliedReportHolds
<1>5. CASE ReceiveTick
  <2>1. Listening /\ alive /\ UNCHANGED <<current, streamRev, push, alive>>
    BY <1>5, Zenon DEF ReceiveTick, Listening
  <2>2. CASE statuses.rev # 0 /\ statuses.rev = streamRev /\ statuses.error = "none"
    <3>1. /\ current.rev = streamRev
          /\ IF pending = NoBody THEN saved = current.body ELSE pending = current.body
      BY <2>1, <2>2, TickSaves, Zenon
    <3>2. CASE pending = NoBody \/ fault # "save"
      <4>1. saved' = current.body
        BY <1>5, <2>2, <3>1, <3>2, Zenon DEF ReceiveTick
      <4> QED
        BY <2>1, <3>1, <4>1, Zenon DEF AppliedReportHolds
    <3>3. CASE pending # NoBody /\ fault = "save"
      <4>1. lastSent'.error # "none"
        BY <1>5, <2>2, <3>3 DEF ReceiveTick, HeldBack, Report
      <4> QED
        BY <4>1, Zenon DEF AppliedReportHolds
    <3> QED
      BY <3>2, <3>3, Zenon
  <2>3. CASE ~ (statuses.rev # 0 /\ statuses.rev = streamRev /\ statuses.error = "none")
    <3>1. saved' = saved /\ (lastSent' = lastSent \/ lastSent'.error # "none")
      BY <1>5, <2>3 DEF ReceiveTick, IsNews, Report
    <3> QED
      BY <2>1, <3>1, Zenon DEF AppliedReportHolds
  <2> QED
    BY <2>2, <2>3, Zenon
<1>6. CASE ~ (StartConnect \/ Startup \/ Logout \/ Crash \/ ReceivePush \/ ApplyPush \/ PersistPush
              \/ ReceiveTick)
  <2>1. UNCHANGED <<alive, push, lastSent, current, streamRev, saved>>
    BY <1>6, Writers, Zenon
  <2> QED
    BY <2>1, Zenon DEF AppliedReportHolds
<1> QED
  BY <1>1, <1>2, <1>3, <1>4, <1>5, <1>6, Zenon

-----------------------------------------------------------------------------
(* Types *)

(* What apply_current leaves is well typed.                                *)
LEMMA ReapplyTypes ==
  ASSUME IInv, NEW w \in Workers, Reapply(w)
  PROVE  /\ lastApply' \in [body : Bodies \cup {NoBody}, choice : Choices, ok : BOOLEAN]
         /\ applied' \subseteq Bodies /\ lastReapply' \in Statuses
         /\ statuses' \in Outcomes /\ outcome' \in [Workers -> Outcomes]
         /\ work' \in [Workers -> {"idle", "saved", "apply", "publish"}]
<1> TypeOK /\ Channel /\ Numbered
  BY Zenon DEF IInv
<1>1. CASE current = NoConfig
  BY <1>1, Zenon DEF TypeOK, Reapply, applies
<1>2. CASE current # NoConfig
  <2>1. PICK e \in Errors : Reapplied(w, e)
    BY <1>2, Zenon DEF Reapply, Reapplied, Errors
  <2>2. Apply(current.body) /\ current.body \in Bodies /\ current.rev \in Revisions
    BY <1>2, <2>1, CurrentType, Zenon DEF Reapplied
  <2>3. /\ lastApply' \in [body : Bodies \cup {NoBody}, choice : Choices, ok : BOOLEAN]
        /\ applied' \subseteq Bodies
    BY <2>2, ApplyType, Zenon
  <2>4. lastReapply' \in Statuses
    BY <2>1, <2>2, StatusType DEF Reapplied, TypeOK
  <2>5. statuses' \in Outcomes /\ outcome' \in [Workers -> Outcomes]
    BY <1>2, <2>1, ReapplyNumbers, Zenon
  <2>6. work' \in [Workers -> {"idle", "saved", "apply", "publish"}]
    BY <2>1, Zenon DEF TypeOK, Reapplied
  <2> QED
    BY <2>3, <2>4, <2>5, <2>6, Zenon
<1> QED
  BY <1>1, <1>2, Zenon

(* Every step keeps the types of what the controller and the stream hold.  *)
LEMMA ControllerTypes ==
  ASSUME IInv, [Next]_vars
  PROVE  /\ published' \in Configs /\ unsent' \in BOOLEAN
         /\ stream' \in {"closed", "opening", "open", "dead"}
         /\ down' \in Seq(Configs) /\ Len(down') <= MaxQueue
         /\ count' \in [Events -> Nat] /\ \A e \in Events : count'[e] <= Bound[e]
<1> TypeOK /\ Numbered
  BY Zenon DEF IInv
<1>1. published' \in Configs
  <2>1. CASE Reload
    BY <2>1, Zenon DEF TypeOK, Reload, Configs
  <2>2. CASE Redeploy
    <3>1. count["change"] < MaxChanges /\ count["change"] \in Nat
      BY <2>2, Zenon DEF TypeOK, Redeploy, Counted, Bound, Events
    <3>2. published.rev \in Revisions /\ published.rev - 1 <= count["change"]
      BY Zenon DEF TypeOK, Configs, Numbered
    <3>3. published.rev + 1 \in Revisions
      BY <3>1, <3>2, BoundsAssumption DEF Revisions
    <3> QED
      BY <2>2, <3>3 DEF Redeploy, Configs
  <2> QED
    BY <2>1, <2>2, Writers, Zenon DEF TypeOK
<1>2. unsent' \in BOOLEAN /\ stream' \in {"closed", "opening", "open", "dead"}
  BY Effects, Zenon DEF TypeOK
<1>3. down' \in Seq(Configs) /\ Len(down') <= MaxQueue
  <2>1. published \in Configs /\ down \in Seq(Configs) /\ Len(down) <= MaxQueue
    BY Zenon DEF TypeOK
  <2>2. /\ <<>> \in Seq(Configs) /\ Len(<<>>) <= MaxQueue
        /\ <<published>> \in Seq(Configs) /\ Len(<<published>>) <= MaxQueue
    BY <2>1, BoundsAssumption
  <2>3. CASE down' = Tail(down) /\ down # <<>>
    BY <2>1, <2>3, BoundsAssumption
  <2>4. CASE down' = Append(down, published) /\ Len(down) < MaxQueue
    BY <2>1, <2>4, BoundsAssumption
  <2> QED
    BY <2>1, <2>2, <2>3, <2>4, DownSteps, Zenon
<1>4. count' = count \/ \E e \in Events : Counted(e)
  <2>1. Reload \/ Redeploy => Counted("change")
    BY Zenon DEF Reload, Redeploy
  <2> QED
    BY <2>1, Writers, Zenon DEF Events
<1>5. count' \in [Events -> Nat] /\ \A e \in Events : count'[e] <= Bound[e]
  BY <1>4, CountedType, Zenon DEF TypeOK
<1> QED
  BY <1>1, <1>2, <1>3, <1>5, Zenon

(* Every step keeps the types of what the daemon's connection loop holds.  *)
LEMMA LoopTypes ==
  ASSUME IInv, [Next]_vars
  PROVE  /\ push' \in [step : {"idle", "apply", "persist"}, config : Configs]
         /\ streamRev' \in Revisions /\ current' \in Configs /\ alive' \in BOOLEAN
         /\ reported' \in Statuses /\ lastSent' \in Statuses
         /\ pending' \in Bodies \cup {NoBody} /\ saved' \in Bodies \cup {NoBody}
<1> TypeOK /\ Handling
  BY Zenon DEF IInv
<1> USE Constants
<1>1. 0 \in Revisions
  BY BoundsAssumption, SMTT(30) DEF Revisions
<1>2. CASE ReceivePush
  <2>1. Head(down) \in Configs /\ Head(down).rev \in Revisions
    <3>1. Head(down) \in Configs
      BY <1>2, FirstPushed, Zenon
    <3> QED
      BY <3>1, Zenon DEF Configs
  <2>2. [rev |-> Head(down).rev, error |-> "parse", choice |-> "none"] \in Statuses
    BY <2>1, Zenon DEF Statuses, Errors
  <2> QED
    BY <1>2, <2>1, <2>2 DEF TypeOK, ReceivePush, Report
<1>3. CASE ApplyPush \/ PersistPush
  <2>1. push.config \in Configs /\ push.config.body \in Bodies /\ push.config.rev \in Revisions
    BY <1>3, Zenon DEF TypeOK, Handling, ApplyPush, PersistPush, Configs
  <2>2. \A e \in Errors : Status(push.config.rev, e, push.config.body) \in Statuses
    BY <2>1, StatusType, Zenon DEF TypeOK
  <2>3. /\ push' = [push EXCEPT !.step = "idle"] \/ push' = [push EXCEPT !.step = "persist"]
        /\ UNCHANGED <<streamRev, current, alive>>
        /\ pending' \in {pending, push.config.body, NoBody} /\ saved' \in {saved, push.config.body}
        /\ \/ UNCHANGED <<reported, lastSent>>
           \/ \E e \in {"apply", "save", "none"} : Report(Status(push.config.rev, e, push.config.body))
    BY <1>3, Zenon DEF ApplyPush, PersistPush
  <2>4. reported' \in Statuses /\ lastSent' \in Statuses
    BY <2>2, <2>3 DEF TypeOK, Report, Errors
  <2> QED
    BY <2>1, <2>3, <2>4 DEF TypeOK
<1>4. CASE ReceiveTick
  <2> DEFINE persist == statuses.rev # 0 /\ statuses.rev = streamRev /\ statuses.error = "none"
                        /\ pending # NoBody
             s == [rev |-> statuses.rev, choice |-> statuses.choice,
                   error |-> IF persist /\ fault = "save" THEN "save" ELSE statuses.error]
  <2>1. s \in Statuses
    BY DEF TypeOK, Outcomes, Statuses, Errors
  <2>2. /\ saved' \in {saved, pending} /\ pending' \in {NoBody, pending}
        /\ lastSent' \in {s, lastSent} /\ reported' \in {s, reported}
        /\ UNCHANGED <<alive, current, push, streamRev>>
    BY <1>4, Zenon DEF ReceiveTick, Report
  <2> QED
    BY <2>1, <2>2, Zenon DEF TypeOK
<1>5. CASE Startup
  <2>1. [rev |-> 0, body |-> saved] \in Configs
    BY <1>1, Zenon DEF TypeOK, Configs
  <2> QED
    BY <1>5, <2>1, Zenon DEF TypeOK, Startup, loop
<1>6. CASE StartConnect \/ Logout \/ Crash
  <2>1. /\ push' = push \/ push' = [step |-> "idle", config |-> NoConfig]
        /\ streamRev' \in {streamRev, 0} /\ current' \in {current, NoConfig} /\ alive' \in {alive, FALSE}
        /\ reported' = reported /\ lastSent' \in {lastSent, NoStatus}
        /\ pending' \in {pending, NoBody} /\ saved' = saved
    BY <1>6, Zenon DEF StartConnect, Logout, Crash, loop
  <2>2. [step |-> "idle", config |-> NoConfig] \in [step : {"idle", "apply", "persist"}, config : Configs]
    BY Zenon
  <2> QED
    BY <1>1, <2>1, <2>2, Zenon DEF TypeOK
<1>7. CASE ~ (ReceivePush \/ ApplyPush \/ PersistPush \/ ReceiveTick \/ Startup \/ StartConnect \/ Logout \/ Crash)
  <2>1. UNCHANGED <<push, streamRev, current, alive, reported, lastSent, pending, saved>>
    BY <1>7, Writers, Zenon
  <2> QED
    BY <2>1, Zenon DEF TypeOK
<1> QED
  BY <1>2, <1>3, <1>4, <1>5, <1>6, <1>7, Zenon

(* Every step keeps the types.                                             *)
LEMMA TypeKeeps ==
  ASSUME IInv, [Next]_vars
  PROVE  TypeOK'
<1> TypeOK /\ Handling /\ Channel /\ Numbered
  BY Zenon DEF IInv
<1>1. fault' \in Faults \cup {"none"} /\ choiceFile' \in Choices /\ choiceMem' \in Choices
      /\ unseen' \in BOOLEAN
  BY Effects, Zenon DEF TypeOK
<1>2. /\ lastApply' \in [body : Bodies \cup {NoBody}, choice : Choices, ok : BOOLEAN]
      /\ applied' \subseteq Bodies
  <2>1. CASE ApplyPush
    BY <2>1, ApplyType, Zenon DEF ApplyPush, Handling
  <2>2. CASE Startup
    <3>1. [body |-> saved, choice |-> Effective(saved, choiceFile), ok |-> fault # "apply"]
            \in [body : Bodies \cup {NoBody}, choice : Choices, ok : BOOLEAN]
      BY Zenon DEF TypeOK, Effective, Choices
    <3>2. \/ UNCHANGED applies
          \/ /\ lastApply' = [body |-> saved, choice |-> Effective(saved, choiceFile), ok |-> fault # "apply"]
             /\ applied' \in {applied, applied \cup {saved}} /\ saved # NoBody
      BY <2>2, Zenon DEF Startup
    <3> QED
      BY <3>1, <3>2, Zenon DEF TypeOK, applies
  <2> QED
    BY <2>1, <2>2, ReapplyTypes, Writers, Zenon DEF TypeOK, applies
<1>3. lastReapply' \in Statuses
  BY Constants, ReapplyTypes, Writers, Zenon DEF TypeOK, Crash
<1>4. /\ work' \in [Workers -> {"idle", "saved", "apply", "publish"}]
      /\ outcome' \in [Workers -> Outcomes] /\ statuses' \in Outcomes
  <2>1. CASE Crash
    BY <2>1, Constants, Zenon DEF Crash
  <2>2. CASE SetChoice \/ ChangeChoice \/ TickFires
    BY <2>2, Zenon DEF TypeOK, SetChoice, ChangeChoice, TickFires
  <2>3. ASSUME NEW w \in Workers, Publish(w)
        PROVE  /\ work' \in [Workers -> {"idle", "saved", "apply", "publish"}]
               /\ outcome' \in [Workers -> Outcomes] /\ statuses' \in Outcomes
    BY <2>3, Constants DEF TypeOK, Publish
  <2>4. CASE UNCHANGED <<work, outcome, statuses>>
    BY <2>4, Zenon DEF TypeOK
  <2> QED
    BY <2>1, <2>2, <2>3, <2>4, ReapplyTypes, Writers, Zenon
<1> QED
  BY <1>1, <1>2, <1>3, <1>4, ControllerTypes, LoopTypes, Zenon DEF TypeOK

-----------------------------------------------------------------------------
(* The daemon's memory, the push it handles and the last apply *)

(* A crash clears all memory, and only startup fills it again.             *)
LEMMA StoppedKeeps ==
  ASSUME IInv, [Next]_vars
  PROVE  Stopped'
<1> TypeOK /\ Stopped
  BY Zenon DEF IInv
<1>1. CASE Crash
  BY <1>1, Zenon DEF Stopped, Crash
<1>2. CASE Startup
  <2>1. UNCHANGED <<push, stream, lastSent, pending, streamRev, work>>
        /\ (~alive' => current' = current) /\ ~alive
    BY <1>2, Zenon DEF Startup, loop, controller, reapply
  <2> QED
    BY <2>1, Zenon DEF Stopped
<1>3. CASE alive /\ ~Crash
  BY <1>3, Writers, Zenon DEF Stopped, Startup
<1>4. CASE ~alive /\ ~Startup
  <2>1. /\ ~ (StartConnect \/ OpenStream \/ NoticeBroken \/ ReceivePush \/ ApplyPush \/ PersistPush)
        /\ ~ (ReceiveTick \/ SetChoice \/ Logout \/ ChangeChoice \/ TickFires \/ Crash)
        /\ ~ \E w \in Workers : Reapply(w) \/ Publish(w)
    BY <1>4, Zenon DEF StartConnect, OpenStream, NoticeBroken, ReceivePush, ApplyPush, PersistPush,
       ReceiveTick, SetChoice, Logout, ChangeChoice, TickFires, Crash, Reapply, Publish
  <2>2. UNCHANGED <<push, current, lastSent, pending, streamRev, work>>
    BY <1>4, <2>1, Writers, Zenon
  <2>3. stream = "closed" => stream' = "closed"
    <3>1. stream' = stream \/ Redeploy \/ StreamBreaks
      BY <2>1, Writers, Zenon
    <3> QED
      BY <3>1, Zenon DEF Redeploy, StreamBreaks
  <2> QED
    BY <1>4, <2>2, <2>3, Zenon DEF Stopped
<1> QED
  BY <1>1, <1>2, <1>3, <1>4, Zenon

(* From its receipt to its save a pushed configuration is the current one, *)
(* as connect handles it in one branch.                                    *)
LEMMA HandlingKeeps ==
  ASSUME IInv, [Next]_vars
  PROVE  Handling'
<1> TypeOK /\ Stopped /\ Handling /\ Numbered
  BY Zenon DEF IInv
<1>1. CASE ReceivePush
  <2>1. Head(down) = down[1] /\ 1 \in 1 .. Len(down)
    BY <1>1, FirstPushed, Zenon
  <2>2. Head(down).rev # 0 /\ Head(down).body \in Bodies
    BY <2>1, Zenon DEF Numbered
  <2>3. push.step = "idle" /\ alive /\ alive' = alive /\ stream \in {"open", "dead"} /\ stream' = stream
    BY <1>1, Zenon DEF ReceivePush
  <2>4. \/ push' = push
        \/ /\ push' = [step |-> "apply", config |-> Head(down)] /\ current' = Head(down)
           /\ streamRev' = Head(down).rev
    BY <1>1, Zenon DEF ReceivePush
  <2> QED
    BY <2>2, <2>3, <2>4 DEF Handling
<1>2. CASE ApplyPush
  <2>1. push.config.body \in Bodies /\ Apply(push.config.body)
    BY <1>2, Zenon DEF Handling, ApplyPush
  <2>2. fault # "apply" => push.config.body \in applied'
    BY <2>1, ApplyType, Zenon
  <2>3. /\ push' = [push EXCEPT !.step = IF fault = "apply" THEN "idle" ELSE "persist"]
        /\ push.step # "idle" /\ UNCHANGED <<alive, stream, current, streamRev>>
    BY <1>2, Zenon DEF ApplyPush, controller
  <2>4. push'.step \in {"idle", "persist"} /\ push'.config = push.config
        /\ (push'.step # "idle" => fault # "apply")
    BY <2>3, Zenon DEF TypeOK
  <2> QED
    BY <2>1, <2>2, <2>3, <2>4, Zenon DEF Handling
<1>3. CASE PersistPush
  BY <1>3, Zenon DEF Handling, TypeOK, PersistPush
<1>4. CASE StartConnect \/ OpenStream \/ NoticeBroken \/ Logout \/ Startup \/ Crash
  <2>1. push.step = "idle" \/ Crash
    BY <1>4, Zenon DEF StartConnect, OpenStream, NoticeBroken, Logout, Startup, Stopped, Handling
  <2>2. push' = push \/ push'.step = "idle"
    BY <1>4 DEF StartConnect, OpenStream, NoticeBroken, Logout, Startup, Crash, loop
  <2>3. Crash => push'.step = "idle"
    BY DEF Crash
  <2> QED
    BY <2>1, <2>2, <2>3, Zenon DEF Handling
<1>5. CASE Redeploy \/ StreamBreaks
  <2>1. UNCHANGED <<alive, current, push, streamRev, applied>>
    BY <1>5, Zenon DEF Redeploy, StreamBreaks, loop, applies
  <2>2. stream \in {"open", "dead"} => stream' \in {"open", "dead"}
    BY <1>5, Zenon DEF Redeploy, StreamBreaks
  <2> QED
    BY <2>1, <2>2, Zenon DEF Handling
<1>6. CASE ~ (ReceivePush \/ ApplyPush \/ PersistPush \/ StartConnect \/ OpenStream \/ NoticeBroken
              \/ Logout \/ Startup \/ Crash \/ Redeploy \/ StreamBreaks)
  <2>1. UNCHANGED <<alive, stream, current, push, streamRev>>
    BY <1>6, Writers, Zenon
  <2> QED
    BY <2>1, AppliedGrows, Zenon DEF Handling
<1> QED
  BY <1>1, <1>2, <1>3, <1>4, <1>5, <1>6, Zenon

(* A configuration held back for the tick was reported as not applied on   *)
(* the stream that brought it.                                             *)
LEMMA HeldBackKeeps ==
  ASSUME IInv, [Next]_vars
  PROVE  HeldBack'
<1> TypeOK /\ Handling /\ Numbered /\ HeldBack
  BY Zenon DEF IInv
<1>1. CASE StartConnect \/ Crash
  BY <1>1, Zenon DEF HeldBack, StartConnect, Crash
<1>2. CASE ReceivePush
  <2>1. Head(down) = down[1] /\ 1 \in 1 .. Len(down)
    BY <1>2, FirstPushed, Zenon
  <2>2. Head(down).rev # 0
    BY <2>1, Zenon DEF Numbered
  <2> QED
    BY <1>2, <2>2, Zenon DEF HeldBack, ReceivePush
<1>3. CASE ApplyPush \/ PersistPush
  <2>1. push.config.rev \in Revisions /\ choiceMem \in Choices
    BY ZenonT(30) DEF TypeOK, Configs
  <2>2. /\ Status(push.config.rev, "apply", push.config.body).error = "apply"
        /\ Status(push.config.rev, "save", push.config.body).error = "save"
    BY <2>1, StatusType DEF Errors
  <2>3. streamRev' = streamRev /\ streamRev # 0 /\ stream' = stream
    BY <1>3, Zenon DEF ApplyPush, PersistPush, Handling, controller
  <2>4. \/ pending' = NoBody \/ UNCHANGED <<pending, lastSent>>
        \/ lastSent' = Status(push.config.rev, "apply", push.config.body)
        \/ lastSent' = Status(push.config.rev, "save", push.config.body)
    BY <1>3, Zenon DEF ApplyPush, PersistPush, Report
  <2> QED
    BY <2>2, <2>3, <2>4, Zenon DEF HeldBack
<1>4. CASE ReceiveTick
  BY <1>4 DEF HeldBack, ReceiveTick, IsNews, Report, controller
<1>5. CASE ~ (StartConnect \/ Crash \/ ReceivePush \/ ApplyPush \/ PersistPush \/ ReceiveTick)
  <2>1. UNCHANGED <<pending, lastSent, streamRev>>
    BY <1>5, Writers, Zenon
  <2>2. stream' = "opening" => stream = "opening"
    <3>1. stream' = stream \/ OpenStream \/ NoticeBroken \/ Redeploy \/ StreamBreaks \/ Logout
      BY <1>5, Writers, Zenon
    <3> QED
      BY <3>1, Zenon DEF OpenStream, NoticeBroken, Redeploy, StreamBreaks, Logout
  <2> QED
    BY <2>1, <2>2, Zenon DEF HeldBack
<1> QED
  BY <1>1, <1>2, <1>3, <1>4, <1>5, Zenon

(* Unless an apply is due, the last one was of the current configuration   *)
(* and choice, whoever performed it.                                       *)
LEMMA AppliesCurrentKeeps ==
  ASSUME IInv, [Next]_vars
  PROVE  AppliesCurrent'
<1> TypeOK /\ Stopped /\ Handling /\ AppliesCurrent /\ Numbered
  BY Zenon DEF IInv
<1>1. CASE ReceivePush
  BY <1>1 DEF AppliesCurrent, ReceivePush, applies, reapply, choice
<1>2. CASE ApplyPush
  <2>1. push.config.body \in Bodies /\ Apply(push.config.body) /\ current = push.config
        /\ current' = current /\ choiceMem' = choiceMem
    BY <1>2, Zenon DEF Handling, ApplyPush, choice
  <2>2. lastApply'.body = current.body /\ lastApply'.choice = Effective(current.body, choiceMem)
    BY <2>1, ApplyType, Zenon
  <2> QED
    BY <2>1, <2>2, Zenon DEF AppliesCurrent, Effective
<1>3. CASE PersistPush
  BY <1>3, Zenon DEF AppliesCurrent, TypeOK, PersistPush, applies, reapply, choice
<1>4. CASE SetChoice
  BY <1>4, Zenon DEF AppliesCurrent, TypeOK, SetChoice, Workers
<1>5. CASE Startup
  <2>1. CASE saved = NoBody \/ fault = "apply"
    <3>1. current' = NoConfig
      BY <1>5, <2>1, Zenon DEF Stopped, Startup
    <3> QED
      BY <3>1, Zenon DEF AppliesCurrent, NoConfig
  <2>2. CASE saved # NoBody /\ fault # "apply"
    <3>1. /\ current'.body = saved /\ lastApply'.body = saved
          /\ lastApply'.choice = Effective(saved, choiceFile) /\ choiceMem' = choiceFile
      BY <1>5, <2>2 DEF Startup
    <3> QED
      BY <3>1, Zenon DEF AppliesCurrent
  <2> QED
    BY <2>1, <2>2, Zenon
<1>6. CASE Logout \/ Crash
  BY <1>6, Zenon DEF AppliesCurrent, Logout, Crash, NoConfig
<1>7. ASSUME NEW w \in Workers, Reapply(w)
      PROVE  AppliesCurrent'
  <2>1. CASE current = NoConfig
    BY <1>7, <2>1, Zenon DEF AppliesCurrent, Reapply
  <2>2. CASE current # NoConfig
    <3>1. Apply(current.body) /\ current.body \in Bodies
      BY <1>7, <2>2, CurrentType, Zenon DEF Reapply
    <3>2. lastApply'.body = current.body /\ lastApply'.choice = Effective(current.body, choiceMem)
      BY <3>1, ApplyType, Zenon
    <3> QED
      BY <1>7, <3>2, Zenon DEF AppliesCurrent, Reapply, choice
  <2> QED
    BY <2>1, <2>2, Zenon
<1>8. CASE /\ ~ (ReceivePush \/ ApplyPush \/ PersistPush \/ SetChoice \/ Startup \/ Logout \/ Crash)
           /\ ~ \E w \in Workers : Reapply(w)
  <2>1. UNCHANGED <<alive, push, current, choiceMem, applies>>
    BY <1>8, Writers, Zenon
  <2>2. work'["choice"] = "apply" <=> work["choice"] = "apply"
    <3>1. work' = work \/ ChangeChoice \/ TickFires \/ \E w \in Workers : Publish(w)
      BY <1>8, Writers, Zenon
    <3> QED
      BY <3>1, Zenon DEF TypeOK, ChangeChoice, TickFires, Publish, Workers
  <2> QED
    BY <2>1, <2>2, Zenon DEF AppliesCurrent, applies, Effective
<1> QED
  BY <1>1, <1>2, <1>3, <1>4, <1>5, <1>6, <1>7, <1>8, Zenon

-----------------------------------------------------------------------------
(* The theorems *)

(* Every step of the daemon, the controller and the environment keeps the  *)
(* invariant.                                                              *)
LEMMA NextIInv ==
  ASSUME IInv, [Next]_vars
  PROVE  IInv'
<1>1. TypeOK /\ Stopped /\ Handling /\ AppliesCurrent /\ Channel /\ Numbered /\ HeldBack
  BY Zenon DEF IInv
<1>2. TypeOK' /\ Stopped' /\ Handling' /\ AppliesCurrent' /\ Channel' /\ Numbered' /\ HeldBack'
  BY <1>1, TypeKeeps, StoppedKeeps, HandlingKeeps, AppliesCurrentKeeps, ChannelKeeps, NumberedKeeps,
     HeldBackKeeps, Zenon
<1>3. Restorable'
  <2> SUFFICES ASSUME RevisionsIdentify'
               PROVE  (Identified /\ Received /\ SavedWasApplied /\ AppliedReportHolds)'
    BY Zenon DEF Restorable
  <2>1. ~ Reload /\ Identified /\ Received /\ SavedWasApplied /\ AppliedReportHolds
    BY <1>1, RevisionsStay, Zenon DEF IInv, Restorable
  <2> QED
    BY <1>1, <2>1, IdentifiedKeeps, ReceivedKeeps, SavedKeeps, ReportKeeps, Zenon
<1> QED
  BY <1>2, <1>3, Zenon DEF IInv

(* The inductive invariant holds in every reachable state.                 *)
THEOREM Invariance == Spec => []IInv
<1>1. Init => IInv
  BY InitIInv, Zenon
<1>2. IInv /\ [Next]_vars => IInv'
  BY NextIInv, Zenon
<1> QED
  BY <1>1, <1>2, PTL DEF Spec

(* Whatever is interleaved, every variable of the pipeline keeps its type; *)
(* the three outcome numbers suffice for the two workers and the channel.  *)
THEOREM TypeCorrect == Spec => []TypeOK
<1>1. IInv => TypeOK
  BY Zenon DEF IInv
<1> QED
  BY <1>1, Invariance, PTL

(* After a tick or a choice change, an apply is never left behind of an    *)
(* older configuration or an older choice: apply_current reads both under  *)
(* the apply lock.                                                         *)
THEOREM LastApplyCurrent == Spec => []LastApplyIsCurrent
<1>1. IInv => LastApplyIsCurrent
  BY Promises, Zenon
<1> QED
  BY <1>1, Invariance, PTL

(* When no outcome is on its way, the channel of tick::publish holds that  *)
(* of the last apply, in whatever order the tick and the choice change     *)
(* published.                                                              *)
THEOREM ChannelLatest == Spec => []ChannelHoldsLatest
<1>1. IInv => ChannelHoldsLatest
  BY Promises, Zenon
<1> QED
  BY <1>1, Invariance, PTL

(* As long as revisions identify contents: remote-config.yaml holds only   *)
(* what was applied; an APPLIED report means that a restart restores the   *)
(* reported configuration; and one that is not saved is held back and not  *)
(* reported as APPLIED (apply_parsed, persist_config, tick_config_status). *)
THEOREM RestartRestores == Spec => []RestartRestoresApplied
<1>1. IInv => RestartRestoresApplied
  BY Promises, Zenon
<1> QED
  BY <1>1, Invariance, PTL
=============================================================================
