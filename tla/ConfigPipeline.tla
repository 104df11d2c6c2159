--------------------------- MODULE ConfigPipeline ---------------------------
(***************************************************************************)
(* How one configuration travels from the controller's file to a device    *)
(* and how its outcome travels back: the controller's hot reload and       *)
(* stream (daemon_config.rs, service.rs), the connection loop of the       *)
(* daemon (remote.rs), the reconcile tick (tick.rs), the program choice of *)
(* the device user (api.rs, program_choice.rs), the apply lock             *)
(* (reconcile/mod.rs) and the restore at startup (daemon.rs).              *)
(*                                                                         *)
(* A configuration is a body with a revision; revision 0 is Option::None,  *)
(* the revision of a configuration restored at startup.  An apply fails    *)
(* exactly while fault = "apply" (a conflicting managed file, say) and     *)
(* remote-config.yaml cannot be written while fault = "save".  The local   *)
(* configuration of a device with a controller is empty and                *)
(* reconcileInterval is set.                                               *)
(***************************************************************************)
EXTENDS Integers, Sequences

CONSTANTS Bodies,      \* contents of the controller's daemon configuration
          NoBody,      \* no configuration
          Unparsable,  \* the bodies this daemon version cannot parse
          Choosable,   \* the bodies with programSelection.allowUserChoice
          HotReload,   \* TRUE: the file changes while the controller runs
          Faults,      \* the faults that can arise, within {"apply", "save"}
          MaxQueue,    \* capacity of the controller's stream channel
          MaxChanges,  \* bound on changes of the controller's configuration
          MaxChoices,  \* bound on program choice changes
          MaxFaults,   \* bound on faults arising, stream failures and logouts
          MaxCrashes,  \* bound on daemon restarts
          MaxEvents    \* bound on all of these together

ASSUME BodiesAssumption == NoBody \notin Bodies /\ Unparsable \subseteq Bodies
                           /\ Choosable \subseteq Bodies
ASSUME BoundsAssumption ==
  /\ HotReload \in BOOLEAN /\ Faults \subseteq {"apply", "save"} /\ MaxQueue \in Nat \ {0}
  /\ MaxChanges \in Nat /\ MaxChoices \in Nat /\ MaxFaults \in Nat
  /\ MaxCrashes \in Nat /\ MaxEvents \in Nat

Choices == {"all", "some"}
Workers == {"tick", "choice"}   \* the two sources of re-applies
Errors  == {"none", "parse", "apply", "save"}

NoConfig == [rev |-> 0, body |-> NoBody]
(* A ConfigStatus; choice stands for its per-program rows, "none" if empty. *)
NoStatus == [rev |-> 0, error |-> "none", choice |-> "none"]

VARIABLES
  published,   \* DaemonConfigStore: the controller's configuration
  unsent,      \* a published change not yet put on the stream
  stream,      \* "closed", "opening", "open" or "dead" (broken, not noticed)
  down,        \* configurations on their way to the daemon
  reported,    \* the status the controller stored last
  alive,       \* the daemon runs
  current,     \* the current configuration of the daemon
  push,        \* the pushed configuration being handled, and how far
  streamRev, lastSent, pending,   \* stream_revision, last_sent, pending_persist
  saved,       \* remote-config.yaml, or NoBody
  fault,       \* what is wrong on the device: "none", "apply" or "save"
  lastApply,   \* what the last apply tried, and whether it succeeded
  work,        \* how far the tick and a choice change are
  outcome,     \* the TickStatus each of them is about to publish
  statuses,    \* the watch channel of TickStatus
  unseen,      \* its value is newer than what the connection loop read
  choiceFile, choiceMem,          \* program-choice.json and Reconciler::choice
  count,       \* how often each bounded event happened
  \* History, read by no action:
  applied,     \* bodies some apply succeeded with
  lastReapply  \* the outcome of the last apply of a worker

controller == <<published, unsent, stream, down>>
loop       == <<push, streamRev, lastSent, pending>>
reapply    == <<work, outcome, statuses, unseen>>
choice     == <<choiceFile, choiceMem>>
applies    == <<lastApply, applied>>
vars == <<controller, reported, alive, current, loop, saved, fault, applies, reapply, choice,
          count, lastReapply>>

Events == {"change", "choice", "fault", "crash"}
Bound  == [change |-> MaxChanges, choice |-> MaxChoices, fault |-> MaxFaults,
           crash |-> MaxCrashes]
Revisions == 0 .. MaxChanges + 1
Configs   == [rev : Revisions, body : Bodies \cup {NoBody}]
Statuses  == [rev : Revisions, error : Errors, choice : Choices \cup {"none"}]
Outcomes  == [rev : Revisions, error : Errors, choice : Choices \cup {"none"}, seq : 0 .. 3]
NoOutcome == [rev |-> 0, error |-> "none", choice |-> "none", seq |-> 0]

TypeOK ==
  /\ published \in Configs /\ unsent \in BOOLEAN
  /\ stream \in {"closed", "opening", "open", "dead"}
  /\ down \in Seq(Configs) /\ Len(down) <= MaxQueue
  /\ reported \in Statuses /\ alive \in BOOLEAN /\ current \in Configs
  /\ push \in [step : {"idle", "apply", "persist"}, config : Configs]
  /\ streamRev \in Revisions /\ lastSent \in Statuses /\ pending \in Bodies \cup {NoBody}
  /\ saved \in Bodies \cup {NoBody} /\ fault \in Faults \cup {"none"}
  /\ lastApply \in [body : Bodies \cup {NoBody}, choice : Choices, ok : BOOLEAN]
  /\ work \in [Workers -> {"idle", "saved", "apply", "publish"}]
  /\ outcome \in [Workers -> Outcomes] /\ statuses \in Outcomes /\ unseen \in BOOLEAN
  /\ choiceFile \in Choices /\ choiceMem \in Choices
  /\ count \in [Events -> Nat] /\ \A e \in Events : count[e] <= Bound[e]
  /\ applied \subseteq Bodies /\ lastReapply \in Statuses

Init ==
  /\ published \in {[rev |-> 1, body |-> b] : b \in Bodies}
  /\ unsent = FALSE /\ stream = "closed" /\ down = <<>> /\ reported = NoStatus
  /\ alive = TRUE /\ current = NoConfig /\ push = [step |-> "idle", config |-> NoConfig]
  /\ streamRev = 0 /\ lastSent = NoStatus /\ pending = NoBody
  /\ saved = NoBody /\ fault = "none"
  /\ lastApply = [body |-> NoBody, choice |-> "all", ok |-> TRUE]
  /\ work = [w \in Workers |-> "idle"] /\ outcome = [w \in Workers |-> NoOutcome]
  /\ statuses = NoOutcome /\ unseen = FALSE
  /\ choiceFile = "all" /\ choiceMem = "all" /\ count = [e \in Events |-> 0]
  /\ applied = {} /\ lastReapply = NoStatus

Happened == count["change"] + count["choice"] + count["fault"] + count["crash"]

Counted(e) ==
  /\ count[e] < Bound[e] /\ Happened < MaxEvents
  /\ count' = [count EXCEPT ![e] = @ + 1]

-----------------------------------------------------------------------------
(* Reconciler: planning and applying under the apply lock *)

(* apply_program_choice *)
Effective(b, c) == IF b \in Choosable THEN c ELSE "all"

Apply(b) ==
  /\ lastApply' = [body |-> b, choice |-> Effective(b, choiceMem), ok |-> fault # "apply"]
  /\ applied' = IF fault = "apply" THEN applied ELSE applied \cup {b}

(* config_status of an apply of b *)
Status(r, e, b) == [rev |-> r, error |-> e, choice |-> Effective(b, choiceMem)]

(* The status is sent; a broken stream does not deliver it.                *)
Report(s) ==
  /\ lastSent' = s
  /\ reported' = IF stream = "open" THEN s ELSE reported

-----------------------------------------------------------------------------
(* The controller *)

(* The file changed: daemon_config::watch publishes the validated content  *)
(* under the revision the controller was started with.                     *)
Reload ==
  /\ HotReload /\ Counted("change")
  /\ \E b \in Bodies \ {published.body} : published' = [published EXCEPT !.body = b]
  /\ unsent' = (stream = "open")
  /\ UNCHANGED <<stream, down, reported, alive, current, loop, saved, fault, applies, reapply,
                 choice, lastReapply>>

(* The controller is restarted with the next revision.                     *)
Redeploy ==
  /\ Counted("change")
  /\ \E b \in Bodies : published' = [rev |-> published.rev + 1, body |-> b]
  /\ unsent' = FALSE /\ stream' = IF stream = "open" THEN "dead" ELSE stream
  /\ UNCHANGED <<down, reported, alive, current, loop, saved, fault, applies, reapply, choice,
                 lastReapply>>

(* The update task of FleetAgent::connect                                  *)
SendUpdate ==
  /\ stream = "open" /\ unsent /\ Len(down) < MaxQueue
  /\ down' = Append(down, published) /\ unsent' = FALSE
  /\ UNCHANGED <<published, stream, reported, alive, current, loop, saved, fault, applies,
                 reapply, choice, count, lastReapply>>

-----------------------------------------------------------------------------
(* connect: the stream *)

(* connect forgets the tick outcomes of before, then opens the stream.     *)
StartConnect ==
  /\ alive /\ stream = "closed"
  /\ stream' = "opening" /\ unseen' = FALSE
  /\ streamRev' = 0 /\ lastSent' = NoStatus /\ pending' = NoBody
  /\ UNCHANGED <<published, unsent, down, reported, alive, current, push, saved, fault, applies,
                 work, outcome, statuses, choice, count, lastReapply>>

OpenStream ==
  /\ alive /\ stream = "opening"
  /\ stream' = "open" /\ down' = <<published>> /\ unsent' = FALSE
  /\ UNCHANGED <<published, reported, alive, current, loop, saved, fault, applies, reapply,
                 choice, count, lastReapply>>

StreamBreaks ==
  /\ stream = "open" /\ Counted("fault")
  /\ stream' = "dead" /\ unsent' = FALSE
  /\ UNCHANGED <<published, down, reported, alive, current, loop, saved, fault, applies, reapply,
                 choice, lastReapply>>

NoticeBroken ==
  /\ alive /\ stream = "dead" /\ push.step = "idle"
  /\ stream' = "closed" /\ down' = <<>>
  /\ UNCHANGED <<published, unsent, reported, alive, current, loop, saved, fault, applies,
                 reapply, choice, count, lastReapply>>

(* complete_logout, and the enrollment that follows it                     *)
Logout ==
  /\ alive /\ push.step = "idle" /\ Counted("fault")
  /\ current' = NoConfig /\ stream' = "closed" /\ down' = <<>> /\ unsent' = FALSE
  /\ UNCHANGED <<published, reported, alive, loop, saved, fault, applies, reapply, choice,
                 lastReapply>>

-----------------------------------------------------------------------------
(* connect: a pushed configuration *)

(* replace_current_config; a push that does not parse is reported at once. *)
ReceivePush ==
  /\ alive /\ stream \in {"open", "dead"} /\ push.step = "idle" /\ down # <<>>
  /\ down' = Tail(down) /\ streamRev' = Head(down).rev
  /\ IF Head(down).body \in Unparsable
       THEN /\ Report([rev |-> Head(down).rev, error |-> "parse", choice |-> "none"])
            /\ pending' = NoBody /\ UNCHANGED <<current, push>>
       ELSE /\ current' = Head(down) /\ push' = [step |-> "apply", config |-> Head(down)]
            /\ UNCHANGED <<reported, lastSent, pending>>
  /\ UNCHANGED <<published, unsent, stream, alive, saved, fault, applies, reapply, choice, count,
                 lastReapply>>

(* apply_parsed, up to the apply                                           *)
ApplyPush ==
  /\ alive /\ push.step = "apply"
  /\ Apply(push.config.body)
  /\ IF fault = "apply"
       THEN /\ Report(Status(push.config.rev, "apply", push.config.body))
            /\ pending' = push.config.body /\ push' = [push EXCEPT !.step = "idle"]
       ELSE /\ push' = [push EXCEPT !.step = "persist"]
            /\ UNCHANGED <<reported, lastSent, pending>>
  /\ UNCHANGED <<controller, alive, current, streamRev, saved, fault, reapply, choice, count,
                 lastReapply>>

\* Mutant of PersistPush: an error of persist_config is ignored.
PersistPushUnchecked ==
  /\ alive /\ push.step = "persist"
  /\ push' = [push EXCEPT !.step = "idle"]
  /\ saved' = IF fault = "save" THEN saved ELSE push.config.body
  /\ pending' = NoBody /\ Report(Status(push.config.rev, "none", push.config.body))
  /\ UNCHANGED <<controller, alive, current, streamRev, fault, applies, reapply, choice, count,
                 lastReapply>>

(* apply_parsed, from persist_config on                                    *)
PersistPush ==
  /\ alive /\ push.step = "persist"
  /\ push' = [push EXCEPT !.step = "idle"]
  /\ IF fault = "save"
       THEN /\ pending' = push.config.body /\ UNCHANGED saved
            /\ Report(Status(push.config.rev, "save", push.config.body))
       ELSE /\ saved' = push.config.body /\ pending' = NoBody
            /\ Report(Status(push.config.rev, "none", push.config.body))
  /\ UNCHANGED <<controller, alive, current, streamRev, fault, applies, reapply, choice, count,
                 lastReapply>>

-----------------------------------------------------------------------------
(* The reconcile tick and a change of the program choice *)

TickFires ==
  /\ alive /\ work["tick"] = "idle" /\ current # NoConfig
  /\ work' = [work EXCEPT !["tick"] = "apply"]
  /\ UNCHANGED <<controller, reported, alive, current, loop, saved, fault, applies, outcome,
                 statuses, unseen, choice, count, lastReapply>>

(* ProgramControl::change up to program_choice::save                       *)
ChangeChoice ==
  /\ alive /\ work["choice"] = "idle" /\ current.body \in Choosable
  /\ Counted("choice")
  /\ choiceFile' \in Choices /\ work' = [work EXCEPT !["choice"] = "saved"]
  /\ UNCHANGED <<controller, reported, alive, current, loop, saved, fault, applies, outcome,
                 statuses, unseen, choiceMem, lastReapply>>

\* Mutant of SetChoice: no re-apply of its own while the tick's is under way.
SetChoiceBusy ==
  /\ alive /\ work["choice"] = "saved"
  /\ choiceMem' = choiceFile
  /\ work' = [work EXCEPT !["choice"] = IF work["tick"] = "idle" THEN "apply" ELSE "idle"]
  /\ UNCHANGED <<controller, reported, alive, current, loop, saved, fault, applies, outcome,
                 statuses, unseen, choiceFile, count, lastReapply>>

(* set_program_choice                                                      *)
SetChoice ==
  /\ alive /\ work["choice"] = "saved"
  /\ choiceMem' = choiceFile /\ work' = [work EXCEPT !["choice"] = "apply"]
  /\ UNCHANGED <<controller, reported, alive, current, loop, saved, fault, applies, outcome,
                 statuses, unseen, choiceFile, count, lastReapply>>

(* Only the order of ApplyReport::sequence numbers is ever read, so the    *)
(* ones still in use are numbered anew by each apply.                      *)
InUse    == {outcome[w].seq : w \in Workers} \cup {statuses.seq}
Rank(s)  == LET one(t) == IF t \in InUse /\ t <= s THEN 1 ELSE 0
            IN  one(1) + one(2) + one(3)
Renumbered(o) == [o EXCEPT !.seq = Rank(o.seq)]

(* apply_current: the configuration is read under the apply lock.          *)
Reapply(w) ==
  /\ alive /\ work[w] = "apply"
  /\ IF current = NoConfig
       THEN /\ work' = [work EXCEPT ![w] = "idle"]
            /\ UNCHANGED <<applies, outcome, statuses, lastReapply>>
       ELSE LET s == Status(current.rev, IF fault = "apply" THEN "apply" ELSE "none", current.body)
                o == [rev |-> s.rev, error |-> s.error, choice |-> s.choice,
                      seq |-> Rank(3) + 1]
            IN /\ Apply(current.body) /\ lastReapply' = s
               /\ outcome' = [v \in Workers |-> IF v = w THEN o ELSE Renumbered(outcome[v])]
               /\ statuses' = Renumbered(statuses)
               /\ work' = [work EXCEPT ![w] = "publish"]
  /\ UNCHANGED <<controller, reported, alive, current, loop, saved, fault, unseen, choice, count>>

\* Mutant of Publish: a later apply in the channel is overwritten.
PublishAlways(w) ==
  /\ alive /\ work[w] = "publish"
  /\ work' = [work EXCEPT ![w] = "idle"] /\ outcome' = [outcome EXCEPT ![w] = NoOutcome]
  /\ statuses' = outcome[w] /\ unseen' = TRUE
  /\ UNCHANGED <<controller, reported, alive, current, loop, saved, fault, applies, choice, count,
                 lastReapply>>

(* tick::publish                                                           *)
Publish(w) ==
  /\ alive /\ work[w] = "publish"
  /\ work' = [work EXCEPT ![w] = "idle"] /\ outcome' = [outcome EXCEPT ![w] = NoOutcome]
  /\ IF statuses.seq > outcome[w].seq
       THEN UNCHANGED <<statuses, unseen>>
       ELSE statuses' = outcome[w] /\ unseen' = TRUE
  /\ UNCHANGED <<controller, reported, alive, current, loop, saved, fault, applies, choice, count,
                 lastReapply>>

(* tick_config_status: what is sent of a re-apply's outcome, if anything.  *)
IsNews(s) == s.rev # 0 /\ s.rev = streamRev /\ s # lastSent

\* Mutant of ReceiveTick: a re-apply's success is not news of a pending configuration.
ReceiveTickUnsaved ==
  /\ alive /\ stream \in {"open", "dead"} /\ push.step = "idle" /\ unseen
  /\ unseen' = FALSE
  /\ LET s == [rev |-> statuses.rev, choice |-> statuses.choice, error |-> statuses.error]
     IN IF IsNews(s) /\ (s.error # "none" \/ pending = NoBody)
          THEN Report(s)
          ELSE UNCHANGED <<reported, lastSent>>
  /\ UNCHANGED <<controller, alive, current, push, streamRev, pending, saved, fault, applies, work,
                 outcome, statuses, choice, count, lastReapply>>

(* connect: a TickStatus arrives; it may save the pending configuration.   *)
ReceiveTick ==
  /\ alive /\ stream \in {"open", "dead"} /\ push.step = "idle" /\ unseen
  /\ unseen' = FALSE
  /\ LET persist == statuses.rev # 0 /\ statuses.rev = streamRev /\ statuses.error = "none"
                    /\ pending # NoBody
         s == [rev |-> statuses.rev, choice |-> statuses.choice,
               error |-> IF persist /\ fault = "save" THEN "save" ELSE statuses.error]
     IN /\ IF persist /\ fault # "save"
             THEN saved' = pending /\ pending' = NoBody
             ELSE UNCHANGED <<saved, pending>>
        /\ IF IsNews(s) THEN Report(s) ELSE UNCHANGED <<reported, lastSent>>
  /\ UNCHANGED <<controller, alive, current, push, streamRev, fault, applies, work, outcome,
                 statuses, choice, count, lastReapply>>

-----------------------------------------------------------------------------
(* The device *)

(* A hand edit creates a conflict, or a disk fills.                        *)
FaultArises ==
  /\ fault = "none" /\ Counted("fault")
  /\ fault' \in Faults
  /\ UNCHANGED <<controller, reported, alive, current, loop, saved, applies, reapply, choice,
                 lastReapply>>

(* The conflict is removed, or the disk empties.                           *)
FaultFixed ==
  /\ fault # "none" /\ fault' = "none"
  /\ UNCHANGED <<controller, reported, alive, current, loop, saved, applies, reapply, choice,
                 count, lastReapply>>

Crash ==
  /\ alive /\ Counted("crash")
  /\ alive' = FALSE /\ current' = NoConfig
  /\ stream' = "closed" /\ down' = <<>> /\ unsent' = FALSE
  /\ push' = [step |-> "idle", config |-> NoConfig]
  /\ streamRev' = 0 /\ lastSent' = NoStatus /\ pending' = NoBody
  /\ work' = [w \in Workers |-> "idle"] /\ outcome' = [w \in Workers |-> NoOutcome]
  /\ statuses' = NoOutcome /\ unseen' = FALSE /\ lastReapply' = NoStatus
  /\ UNCHANGED <<published, reported, saved, fault, applies, choice>>

(* run_until_shutdown: restores the saved configuration; a failing first   *)
(* apply stops the daemon, and the service manager starts it again.        *)
Startup ==
  /\ ~alive
  /\ choiceMem' = choiceFile
  /\ IF saved = NoBody
       THEN alive' = TRUE /\ UNCHANGED <<current, applies>>
       ELSE /\ lastApply' = [body |-> saved, choice |-> Effective(saved, choiceFile),
                             ok |-> fault # "apply"]
            /\ applied' = IF fault = "apply" THEN applied ELSE applied \cup {saved}
            /\ alive' = (fault # "apply")
            /\ current' = IF fault = "apply" THEN current ELSE [rev |-> 0, body |-> saved]
  /\ UNCHANGED <<controller, reported, loop, saved, fault, reapply, choiceFile, count,
                 lastReapply>>

-----------------------------------------------------------------------------
DaemonStep ==
  \/ StartConnect \/ OpenStream \/ NoticeBroken \/ ReceivePush \/ ApplyPush \/ PersistPush
  \/ ReceiveTick \/ SetChoice \/ Startup

Environment ==
  \/ Reload \/ Redeploy \/ StreamBreaks \/ Logout \/ ChangeChoice
  \/ FaultArises \/ FaultFixed \/ Crash

Next ==
  \/ DaemonStep \/ Environment \/ SendUpdate \/ TickFires
  \/ \E w \in Workers : Reapply(w) \/ Publish(w)

(* Each task of the daemon and of the controller keeps running: the        *)
(* connection loop retries for ever, select! does not starve a ready       *)
(* branch for ever, and the tick fires every reconcileInterval.            *)
Fairness ==
  /\ WF_vars(StartConnect \/ OpenStream \/ NoticeBroken \/ ApplyPush \/ PersistPush)
  /\ SF_vars(ReceivePush) /\ SF_vars(ReceiveTick)
  /\ WF_vars(Startup) /\ WF_vars(SetChoice) /\ WF_vars(SendUpdate) /\ WF_vars(TickFires)
  /\ \A w \in Workers : WF_vars(Reapply(w)) /\ WF_vars(Publish(w))

Spec == Init /\ [][Next]_vars /\ Fairness

-----------------------------------------------------------------------------
(* A tick or a choice change never re-applies an older configuration after *)
(* a push, and never with an older choice: between two changes, the last   *)
(* apply is of the current configuration under the current choice.         *)
LastApplyIsCurrent ==
  alive /\ push.step = "idle" /\ work["choice"] # "apply" /\ current # NoConfig
    => /\ lastApply.body = current.body
       /\ lastApply.choice = Effective(current.body, choiceMem)

(* No hot reload so far: a revision stands for one content.                *)
RevisionsIdentify == count["change"] = published.rev - 1

(* What a restart restores was applied on this device at least once, so    *)
(* restoring it does not stop the daemon for a reason it was never free of *)
(* (persist_config in apply_parsed and after a tick).                      *)
SavedWasApplied == saved # NoBody => saved \in applied

(* When the daemon's last word to the controller on this stream is         *)
(* APPLIED, it concerns the configuration received last, and a restart     *)
(* restores that one.                                                      *)
AppliedReportHolds ==
  alive /\ push.step = "idle" /\ lastSent # NoStatus /\ lastSent.error = "none" /\ current # NoConfig
    => current.rev = streamRev /\ saved = current.body

(* The configuration received on this stream, once handled, is saved, or   *)
(* it is held for a later tick to save and the controller's last word on   *)
(* it is not APPLIED: a restart does not go back to the previous one       *)
(* unannounced, whichever of apply and save failed or succeeded since.     *)
ReceivedIsSaved ==
  alive /\ stream \in {"open", "dead"} /\ push.step = "idle" /\ current.rev # 0
    /\ streamRev = current.rev
    => saved = current.body \/ (pending = current.body /\ lastSent.error # "none")

(* As long as revisions identify contents, a restart restores neither more *)
(* nor less than what was applied and reported.                            *)
RestartRestoresApplied ==
  RevisionsIdentify => SavedWasApplied /\ AppliedReportHolds /\ ReceivedIsSaved

(* The tick and a choice change publish after releasing the apply lock;    *)
(* whatever the order, the channel ends with the outcome of the apply that *)
(* happened last.                                                          *)
ChannelHoldsLatest ==
  statuses # NoOutcome /\ (\A w \in Workers : work[w] # "publish")
    => [rev |-> statuses.rev, error |-> statuses.error, choice |-> statuses.choice] = lastReapply

(* Once the managed files can be written and the controller's              *)
(* configuration parses, the device ends up running and saving it, and the *)
(* controller ends up showing that it does, whatever failed or raced on    *)
(* the way.                                                                *)
Converged ==
  /\ current = published /\ saved = published.body
  /\ lastApply = [body |-> published.body, choice |-> Effective(published.body, choiceMem),
                  ok |-> TRUE]
  /\ reported = Status(published.rev, "none", published.body)
Converges == (<>[](fault = "none" /\ published.body \notin Unparsable)) => <>[]Converged
=============================================================================
