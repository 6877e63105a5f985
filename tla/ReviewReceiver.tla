---------------------------- MODULE ReviewReceiver ----------------------------
(***************************************************************************)
(* The pull-request receiver: the workflow runs that one pull request's    *)
(* events start, one at a time, each of which correlates the pull request  *)
(* or applies a review event to the stored submission, then posts a        *)
(* handoff message.  Modelled at the grain of its awaits: every read of    *)
(* the store, every conditional save, every message and every label call   *)
(* is a step of its own, and between two steps the pull request moves on,  *)
(* an intake run saves its own progress to the same document, the run      *)
(* fails, or the store's reads lag behind its last write.                  *)
(*                                                                         *)
(* EventIds are the workflow runs: a run's id (GITHUB_RUN_ID) is also the  *)
(* identity of its event, and survives a rerun.                            *)
(***************************************************************************)
EXTENDS ReviewRules

CONSTANTS
    OpenKey,      \* completion key of the opened event's handoff message
    IntakeKeys,   \* completion keys an intake run has still to save
    StaleReads,   \* may a read return the content before the last write?
    MaxFailures,  \* bound: runs that die, or whose outside calls fail
    MaxSent       \* bound: messages are counted up to here

ASSUME ReceiverAssumption ==
    /\ OpenKey \notin EventIds
    /\ IntakeKeys \cap (EventIds \cup {OpenKey}) = {}
    /\ StaleReads \in BOOLEAN
    /\ MaxFailures \in Nat
    /\ MaxSent \in Nat /\ MaxSent >= 1

Keys == EventIds \cup {OpenKey}

\* An event of the workflow's triggers that the parser maps to no action: a
\* comment review, any other label, a close without a merge.
Unrelated == "unrelated"

Payloads == [action : ReviewActions \cup {PullRequestOpened, Unrelated},
             commit : Commits]

Stored == [review : Documents, done : SUBSET (Keys \cup IntakeKeys),
           revision : Nat]

RunStates == {"unused", "waiting", "running", "cancelled", "failed", "succeeded"}

Steps == {"idle", "ignore", "fetch", "match", "correlate", "announce", "sendOpen",
          "completeOpen", "authorize", "find", "apply", "notice", "send",
          "complete", "reload", "retry", "unlabel"}

VARIABLES
    store,       \* the submission's state document, on the state branch
    stale,       \* what a lagging read returns; equal to store once settled
    pull,        \* the pull request on GitHub: its status and head commit
    labels,      \* the reopen commands labelled on it
    event,       \* the payload of every run, fixed when the event happened
    status,      \* the state of every run
    waiting,     \* the run pending in the concurrency group, or None
    active,      \* the run executing in the concurrency group, or None
    pc,          \* the active run's next step
    loaded,      \* ... the document it works on
    observed,    \* ... the head commit LoadPullRequest returned
    authorized,  \* ... reviewEvent.maintainerAuthorized
    transition,  \* ... the transition it will announce, or None
    sent,        \* how often each message was posted, up to MaxSent
    failures     \* failures injected so far

github    == <<pull, labels, event>>
storage   == <<store, stale>>
group     == <<status, waiting, active>>
locals    == <<loaded, observed, authorized, transition>>
vars      == <<github, storage, group, pc, locals, sent, failures>>

InitialStore == [review |-> InitialDocument, done |-> {}, revision |-> 1]

Init ==
    /\ store = InitialStore /\ stale = InitialStore
    /\ pull = [status |-> "none", head |-> None]
    /\ labels = {}
    /\ event = [r \in EventIds |-> None]
    /\ status = [r \in EventIds |-> "unused"]
    /\ waiting = None /\ active = None
    /\ pc = "idle"
    /\ loaded = InitialStore /\ observed = None
    /\ authorized = FALSE /\ transition = None
    /\ sent = [key \in Keys |-> 0]
    /\ failures = 0

-----------------------------------------------------------------------------
(* The state store.  Save compares revisions on a read of its own and then  *)
(* writes under the content SHA it read, so it succeeds only on the current *)
(* document, and may report a conflict although nobody else has written     *)
(* when its read lags.                                                      *)

Readable == {store, stale}

Write(new) ==
    /\ store' = [new EXCEPT !.revision = store.revision + 1]
    /\ stale' = IF StaleReads THEN store ELSE store'

\* Mutation: the expected revision is not compared.
SavesAnyRevision(new) == Write(new)

Saves(new) == loaded.revision = store.revision /\ Write(new)

SaveConflicts ==
    /\ loaded.revision # store.revision \/ stale # store
    /\ UNCHANGED storage

\* GitHub's content reads catch up with the last write.
Settle ==
    /\ stale # store
    /\ stale' = store
    /\ UNCHANGED <<github, store, group, pc, locals, sent, failures>>

\* A concurrent intake run completes one of its own actions: its save goes
\* through, so it is one atomic read-modify-write of the document.
IntakeSave(key) ==
    /\ key \notin store.done
    /\ Write([store EXCEPT !.done = @ \cup {key}])
    /\ UNCHANGED <<github, group, pc, locals, sent, failures>>

-----------------------------------------------------------------------------
(* The pull request, and GitHub Actions' concurrency group: at most one run  *)
(* executes and at most one waits; a newcomer cancels the one that waits.    *)

Enqueue(r) ==
    /\ waiting' = r
    /\ status' = [s \in EventIds |->
                     IF s = r THEN "waiting"
                     ELSE IF s = waiting THEN "cancelled" ELSE status[s]]
    /\ UNCHANGED active

Emit(r, action, commit) ==
    /\ status[r] = "unused"
    /\ event' = [event EXCEPT ![r] = [action |-> action, commit |-> commit]]
    /\ Enqueue(r)
    /\ UNCHANGED <<storage, pc, locals, sent, failures>>

OpenPullRequest(r, commit) ==
    /\ pull.status = "none"
    /\ pull' = [status |-> "open", head |-> commit]
    /\ Emit(r, PullRequestOpened, commit)
    /\ UNCHANGED labels

Push(r, commit) ==
    /\ pull.status = "open" /\ commit # pull.head
    /\ pull' = [pull EXCEPT !.head = commit]
    /\ Emit(r, RevisionSubmitted, commit)
    /\ UNCHANGED labels

Review(r, decision) ==
    /\ pull.status # "none"
    /\ Emit(r, decision, pull.head)
    /\ UNCHANGED <<pull, labels>>

AddLabel(r, reopen) ==
    /\ pull.status # "none" /\ reopen \notin labels
    /\ labels' = labels \cup {reopen}
    /\ Emit(r, reopen, pull.head)
    /\ UNCHANGED pull

Merge(r) ==
    /\ pull.status = "open"
    /\ pull' = [pull EXCEPT !.status = "merged"]
    /\ Emit(r, Merged, pull.head)
    /\ UNCHANGED labels

Comment(r) ==
    /\ pull.status # "none"
    /\ Emit(r, Unrelated, pull.head)
    /\ UNCHANGED <<pull, labels>>

\* An operator reruns a run once the group is idle.  (Rerunning it earlier
\* could only cancel a waiting run, which a newer event does as well.)
Rerun(r) ==
    /\ active = None /\ waiting = None
    /\ status[r] \in {"cancelled", "failed", "succeeded"}
    /\ Enqueue(r)
    /\ UNCHANGED <<github, storage, pc, locals, sent, failures>>

FirstStep(action) ==
    IF action = PullRequestOpened THEN "fetch"
    ELSE IF action = Unrelated THEN "ignore"
    ELSE IF action \in Reopens THEN "authorize" ELSE "find"

\* A job takes its runner, checks out, installs and compiles: by then reads
\* have caught up with whatever was written before it.
Start ==
    /\ active = None /\ waiting # None
    /\ stale = store
    /\ active' = waiting /\ waiting' = None
    /\ status' = [status EXCEPT ![waiting] = "running"]
    /\ pc' = FirstStep(event[waiting].action)
    /\ UNCHANGED <<github, storage, locals, sent, failures>>

-----------------------------------------------------------------------------
(* Steps of the active run.                                                 *)

End(outcome) ==
    /\ status' = [status EXCEPT ![active] = outcome]
    /\ active' = None /\ pc' = "idle"
    /\ loaded' = InitialStore /\ observed' = None
    /\ authorized' = FALSE /\ transition' = None
    /\ UNCHANGED waiting

Goto(step) == pc' = step /\ UNCHANGED group

\* The run is killed, or an outside call throws; a call that took effect
\* although its answer was lost is this step right after the call's own.
RunFails ==
    /\ active # None /\ failures < MaxFailures
    /\ failures' = failures + 1
    /\ End("failed")
    /\ UNCHANGED <<github, storage, sent>>

Post(key) ==
    sent' = [sent EXCEPT ![key] = IF @ < MaxSent THEN @ + 1 ELSE @]

Ignore ==
    /\ pc = "ignore"
    /\ End("succeeded")
    /\ UNCHANGED <<github, storage, sent, failures>>

(* The opened event. *)

FetchPullRequest ==
    /\ pc = "fetch"
    /\ observed' = pull.head
    /\ Goto("match")
    /\ UNCHANGED <<github, storage, loaded, authorized, transition, sent, failures>>

\* Mutation: a rerun saves the match again.
MatchStateAgain ==
    /\ pc = "match"
    /\ \E s \in Readable : loaded' = s
    /\ Goto("correlate")
    /\ UNCHANGED <<github, storage, observed, authorized, transition, sent, failures>>

\* PullRequestService.Apply up to SaveMatch: the evidence names the submission.
MatchState ==
    /\ pc = "match"
    /\ \E s \in Readable :
          /\ loaded' = s
          /\ Goto(IF s.review.correlated THEN "announce" ELSE "correlate")
    /\ UNCHANGED <<github, storage, observed, authorized, transition, sent, failures>>

\* Mutation: a lost save is taken for a match somebody else has saved.
SaveMatchQuietly ==
    /\ pc = "correlate"
    /\ \/ /\ Saves([loaded EXCEPT !.review = CorrelatedDocument(@, observed)])
          /\ Goto("announce")
          /\ UNCHANGED locals
       \/ SaveConflicts /\ End("succeeded")
    /\ UNCHANGED <<github, sent, failures>>

SaveMatch ==
    /\ pc = "correlate"
    /\ \/ /\ Saves([loaded EXCEPT !.review = CorrelatedDocument(@, observed)])
          /\ Goto("announce")
          /\ UNCHANGED locals
       \/ SaveConflicts /\ End("failed")
    /\ UNCHANGED <<github, sent, failures>>

\* AnnounceOpen up to its message: no correlated state is a quiet success.
AnnounceOpen ==
    /\ pc = "announce"
    /\ \E s \in Readable :
          \/ /\ s.review.correlated /\ s.review.stage = TechnicalReview
             /\ OpenKey \notin s.done
             /\ loaded' = s
             /\ Goto("sendOpen")
             /\ UNCHANGED <<observed, authorized, transition>>
          \/ /\ s.review.correlated /\ s.review.stage # TechnicalReview
             /\ End("failed")
          \/ /\ \/ ~s.review.correlated
                \/ s.review.stage = TechnicalReview /\ OpenKey \in s.done
             /\ End("succeeded")
    /\ UNCHANGED <<github, storage, sent, failures>>

SendOpen ==
    /\ pc = "sendOpen"
    /\ Post(OpenKey)
    /\ Goto("completeOpen")
    /\ UNCHANGED <<github, storage, locals, failures>>

CompleteOpen ==
    /\ pc = "completeOpen"
    /\ \/ Saves([loaded EXCEPT !.done = @ \cup {OpenKey}]) /\ End("succeeded")
       \/ SaveConflicts /\ End("failed")
    /\ UNCHANGED <<github, sent, failures>>

(* A review event. *)

\* IsMaintainer asks GitHub now, whoever the actor was when labelling.
Authorize ==
    /\ pc = "authorize"
    /\ authorized' \in BOOLEAN
    /\ Goto("find")
    /\ UNCHANGED <<github, storage, loaded, observed, transition, sent, failures>>

ActiveEvent ==
    [id |-> active, action |-> event[active].action,
     commit |-> event[active].commit, maintainer |-> authorized]

\* ReviewStageService.Apply up to its save.
FindState ==
    /\ pc = "find"
    /\ \E s \in Readable :
          \/ /\ s.review.correlated
             /\ \E i \in DOMAIN s.review.history :
                   /\ s.review.history[i].id = active
                   /\ transition' = s.review.history[i]
             /\ Goto("notice")
             /\ UNCHANGED <<loaded, observed, authorized>>
          \/ /\ s.review.correlated
             /\ active \notin RecordedIds(s.review.history)
             /\ Accepts(s.review, ActiveEvent)
             /\ transition' = TransitionOf(s.review, ActiveEvent)
             /\ loaded' = s
             /\ Goto("apply")
             /\ UNCHANGED <<observed, authorized>>
          \/ /\ \/ ~s.review.correlated
                \/ /\ active \notin RecordedIds(s.review.history)
                   /\ ~Accepts(s.review, ActiveEvent)
             /\ End("failed")
    /\ UNCHANGED <<github, storage, sent, failures>>

\* Mutation: the notice is marked as delivered with the transition.
SaveTransitionAndKey ==
    /\ pc = "apply"
    /\ \/ /\ Saves([loaded EXCEPT !.review = AppliedDocument(@, ActiveEvent),
                                  !.done = @ \cup {active}])
          /\ Goto("notice")
          /\ UNCHANGED locals
       \/ SaveConflicts /\ End("failed")
    /\ UNCHANGED <<github, sent, failures>>

SaveTransition ==
    /\ pc = "apply"
    /\ \/ /\ Saves([loaded EXCEPT !.review = AppliedDocument(@, ActiveEvent)])
          /\ Goto("notice")
          /\ UNCHANGED locals
       \/ SaveConflicts /\ End("failed")
    /\ UNCHANGED <<github, sent, failures>>

\* StageNotificationService.RequireTransition.
HasTransition(s) ==
    /\ s.review.correlated
    /\ \E i \in DOMAIN s.review.history :
          /\ s.review.history[i].id = transition.id
          /\ s.review.history[i].from = transition.from
          /\ s.review.history[i].to = transition.to

\* Mutation: the completion key is not looked up.
FindNoticeAgain(step, next) ==
    /\ pc = step
    /\ \E s \in Readable :
          \/ /\ HasTransition(s)
             /\ loaded' = s
             /\ Goto(next)
             /\ UNCHANGED <<observed, authorized, transition>>
          \/ ~HasTransition(s) /\ End("failed")
    /\ UNCHANGED <<github, storage, sent, failures>>

\* StageNotificationService.FindState and the check of the completion key; the
\* same reads and checks precede the message and follow a save conflict.
FindNotice(step, next) ==
    /\ pc = step
    /\ \E s \in Readable :
          \/ /\ HasTransition(s) /\ active \notin s.done
             /\ loaded' = s
             /\ Goto(next)
             /\ UNCHANGED <<observed, authorized, transition>>
          \/ /\ HasTransition(s) /\ active \in s.done
             /\ Goto("unlabel")
             /\ UNCHANGED locals
          \/ ~HasTransition(s) /\ End("failed")
    /\ UNCHANGED <<github, storage, sent, failures>>

CheckNotice  == FindNotice("notice", "send")
ReloadNotice == FindNotice("reload", "retry")

SendNotice ==
    /\ pc = "send"
    /\ Post(active)
    /\ Goto("complete")
    /\ UNCHANGED <<github, storage, locals, failures>>

SavesCompletion == Saves([loaded EXCEPT !.done = @ \cup {active}])

\* Mutation: a conflict is not reconciled but thrown.
CompleteNoticeOnce ==
    /\ pc = "complete"
    /\ \/ SavesCompletion /\ Goto("unlabel") /\ UNCHANGED locals
       \/ SaveConflicts /\ End("failed")
    /\ UNCHANGED <<github, sent, failures>>

\* Mutation: a conflict is ignored.
CompleteNoticeAnyway ==
    /\ pc = "complete"
    /\ SavesCompletion \/ SaveConflicts
    /\ Goto("unlabel")
    /\ UNCHANGED <<github, locals, sent, failures>>

\* SaveCompletion: the first conflict is reconciled, the second one is thrown.
CompleteNotice ==
    /\ pc = "complete"
    /\ \/ SavesCompletion /\ Goto("unlabel")
       \/ SaveConflicts /\ Goto("reload")
    /\ UNCHANGED <<github, locals, sent, failures>>

RetryNotice ==
    /\ pc = "retry"
    /\ \/ SavesCompletion /\ Goto("unlabel") /\ UNCHANGED locals
       \/ SaveConflicts /\ End("failed")
    /\ UNCHANGED <<github, sent, failures>>

\* Mutation: every reopen label is removed.
UnlabelAll ==
    /\ pc = "unlabel"
    /\ labels' = {}
    /\ End("succeeded")
    /\ UNCHANGED <<pull, event, storage, sent, failures>>

\* A consumed reopen command's label is taken off the pull request, whoever put it there.
Unlabel ==
    /\ pc = "unlabel"
    /\ labels' = labels \ {event[active].action}
    /\ End("succeeded")
    /\ UNCHANGED <<pull, event, storage, sent, failures>>

-----------------------------------------------------------------------------

RunStep ==
    \/ Ignore
    \/ FetchPullRequest \/ MatchState \/ SaveMatch
    \/ AnnounceOpen \/ SendOpen \/ CompleteOpen
    \/ Authorize \/ FindState \/ SaveTransition
    \/ CheckNotice \/ SendNotice \/ CompleteNotice
    \/ ReloadNotice \/ RetryNotice \/ Unlabel

PullRequestActivity(r) ==
    \/ \E commit \in Commits : OpenPullRequest(r, commit) \/ Push(r, commit)
    \/ \E decision \in Decisions : Review(r, decision)
    \/ \E reopen \in Reopens : AddLabel(r, reopen)
    \/ Merge(r) \/ Comment(r)

Next ==
    \/ \E r \in EventIds : PullRequestActivity(r) \/ Rerun(r)
    \/ Start \/ RunStep \/ RunFails
    \/ Settle
    \/ \E key \in IntakeKeys : IntakeSave(key)

Spec == Init /\ [][Next]_vars

\* The runner executes a job it has started, content reads catch up, and an
\* operator who sees a run fail or be cancelled eventually reruns it; reruns
\* are delayed by newer runs, never for ever.  Nothing else is promised: no
\* event has to happen, and runs may be rerun that did not fail.
RerunUnfinished(r) == status[r] \in {"cancelled", "failed"} /\ Rerun(r)

Fairness ==
    /\ WF_vars(RunStep) /\ WF_vars(Start) /\ WF_vars(Settle)
    /\ \A r \in EventIds : SF_vars(RerunUnfinished(r))

FairSpec == Spec /\ Fairness

-----------------------------------------------------------------------------
(* Properties.                                                             *)

TypeOK ==
    /\ store \in Stored /\ stale \in Stored /\ loaded \in Stored
    /\ pull \in [status : {"none", "open", "merged"}, head : Commits \cup {None}]
    /\ labels \subseteq Reopens
    /\ event \in [EventIds -> Payloads \cup {None}]
    /\ status \in [EventIds -> RunStates]
    /\ waiting \in EventIds \cup {None} /\ active \in EventIds \cup {None}
    /\ pc \in Steps
    /\ observed \in Commits \cup {None}
    /\ authorized \in BOOLEAN
    /\ transition \in Transitions \cup {None}
    /\ sent \in [Keys -> 0 .. MaxSent]
    /\ failures \in 0 .. MaxFailures

\* Whatever runs interleave, die, are rerun or read old content, the stored
\* document only takes the atomic steps of ReviewWorkflow, and every message
\* posted is about something the document had recorded by then.
Workflow == INSTANCE ReviewWorkflow WITH
    doc <- store.review, delivered <- {key \in Keys : sent[key] > 0}

ImplementsWorkflow == Workflow!Spec

\* "Event reruns cannot duplicate successful messages": once a message's
\* completion key is stored, nothing posts it again.
RecordedNoticeNeverResent ==
    [][\A key \in Keys : key \in store.done => sent'[key] = sent[key]]_vars

\* Runs that save to the same document never undo one another: revisions go up
\* by one, and a completion key an intake run or another review run stored
\* stays stored.
NothingSavedIsLost ==
    [][/\ store.done \subseteq store'.done
       /\ store'.revision = store.revision + 1]_store

\* A review run that reports success has recorded its event, posted its
\* message and stored the completion key, whatever it had to redo.
SuccessMeansHandedOff ==
    \A r \in EventIds :
        status[r] = "succeeded" /\ event[r].action \in ReviewActions =>
            /\ r \in RecordedIds(store.review.history)
            /\ r \in store.done
            /\ sent[r] > 0

\* The receiver takes a reopen label off the pull request only in a run whose own
\* command is recorded as having reopened that stage, after its message is out and
\* its completion key stored; a run that dies or is refused before leaves it on.
\* The label need not be the one that command put there: a rerun takes off a label
\* put back later, although the later command may be waiting or have been refused.
LabelRemovedOnlyWhenConsumed ==
    [][\A reopen \in labels \ labels' :
          /\ active \in store.done
          /\ sent[active] > 0
          /\ \E i \in DOMAIN store.review.history :
                 /\ store.review.history[i].id = active
                 /\ store.review.history[i].action = reopen]_vars

\* Losing the save to a concurrent run does not post a review message twice:
\* as long as no run dies between its message and its save, SaveCompletion's
\* second attempt keeps every later rerun quiet.
ReviewNoticeOnce == failures = 0 => \A r \in EventIds : sent[r] <= 1

\* An opened run that reports success has correlated the pull request and
\* announced it (while reads are current).
OpenSuccessMeansAnnounced ==
    \A r \in EventIds :
        status[r] = "succeeded" /\ event[r].action = PullRequestOpened =>
            store.review.correlated /\ sent[OpenKey] > 0

\* Every recorded transition is eventually announced, through crashes,
\* conflicts and runs cancelled while they waited.
HandoffDelivered == <>[](\A r \in RecordedIds(store.review.history) : sent[r] > 0)

(* Claims of the source that the code does not keep.                       *)

\* "A stable action key prevents an opened-event rerun from posting the handoff
\* twice" (AnnounceOpen's comment).
OpenNoticeOnce == sent[OpenKey] <= 1

\* RequireCurrentCommit "requires the approval or change request to target the
\* exact current PR head", and refuses one with "the review does not apply to
\* the current pull-request commit": a decision on the current head is not
\* refused while its stage takes decisions.
CurrentHeadReviewable ==
    [][LET d == store.review
           e == ActiveEvent
       IN  /\ pc = "find" /\ failures' = failures
           /\ d.correlated /\ active \notin RecordedIds(d.history)
           /\ e.action \in Decisions /\ e.commit = pull.head
           /\ IF e.action = Approved THEN CanApprove(d) ELSE CanDraft(d)
           => status'[active] # "failed"]_vars

\* AnnounceOpen "announces the initial technical-review handoff after
\* authoritative PR correlation": it does so eventually, given that failed and
\* cancelled runs are rerun.
OpenHandoffDelivered == store.review.correlated ~> sent[OpenKey] > 0

=============================================================================
