----------------------------- MODULE SignoffGate -----------------------------
(***************************************************************************)
(* The sign-off gate of one pull request: two workflows around the label   *)
(* pnp-sign-off, which a reviewer applies by hand.                         *)
(*                                                                         *)
(* signoff-approval-check.yml answers every label change and every push    *)
(* with a run that reads the pull request and publishes the approval       *)
(* status on the head it read.  Its concurrency group keeps one run going  *)
(* and one waiting; a newcomer takes the place of the one that waits.      *)
(*                                                                         *)
(* signoff-review.yml answers every "#sign-off" comment with a run that    *)
(* posts the hold-off comment unless the pull request is approved.  Its    *)
(* group keeps every run (queue: max).                                     *)
(*                                                                         *)
(* The wording of comments and the token patterns are left out: a comment  *)
(* either is a sign-off by a person or is not.  The repository is one      *)
(* where the jobs run.  No other pull request has the same head commit.    *)
(***************************************************************************)
EXTENDS Naturals, Sequences

CONSTANTS
    Commits,     \* head commits of the pull request
    First,       \* the one it is opened with
    None,        \* nothing yet
    MaxChanges,  \* bound: label changes and pushes
    MaxComments, \* bound: comments
    MaxFailures  \* bound: runs that fail, time out or are cancelled by hand

States == {"success", "pending"}
Events == [label : BOOLEAN, head : Commits]   \* the payload
Runs == [event : Events, step : {"get", "publish"}, label : BOOLEAN,
         head : Commits \cup {None}]
Steps == {"queued", "get", "post", "held", "passed", "skipped", "failed"}
Jobs == [signoff : BOOLEAN, label : BOOLEAN, step : Steps]

ASSUME GateAssumption ==
    /\ MaxChanges \in Nat /\ MaxComments \in Nat /\ MaxFailures \in Nat
    /\ First \in Commits
    /\ None \notin Commits /\ None \notin Events /\ None \notin Runs /\ None \notin States

VARIABLES
    label,       \* the pull request carries pnp-sign-off
    head,        \* its head commit
    toDefault,   \* it targets the default branch
    status,      \* the approval status of every commit
    changes,     \* label changes and pushes so far
    undelivered, \* events that no approval run has been created for; two that
                 \* say the same, which happens when changes undo each other,
                 \* count as one
    active,      \* the approval run that is going on
    waiting,     \* the event whose run waits for it
    broken,      \* events whose run failed and has not been rerun
    endedBadly,  \* the last approval run to end failed
    comments,    \* comments: sign-off or not, the label in the payload, the job
    bot,         \* what the merge bot was told last
    failures,    \* runs that have failed
    endorsed     \* history: commits that were the head while the label was on

pr == <<label, head, toDefault, changes>>
approval == <<status, undelivered, active, waiting, broken, endedBadly>>
signoffs == <<comments, bot>>
vars == <<pr, approval, signoffs, failures, endorsed>>

\* Mutation: the name of the decision is published, which is no status.
StateByName(approved) == IF approved THEN "approved" ELSE "pending"

StateOf(approved) == IF approved THEN "success" ELSE "pending"

Init ==
    /\ label = FALSE
    /\ head = First
    /\ toDefault \in BOOLEAN
    /\ status = [c \in Commits |-> None]
    /\ changes = 0
    /\ undelivered = {[label |-> label, head |-> head]}
    /\ active = None /\ waiting = None
    /\ broken = {} /\ endedBadly = FALSE
    /\ comments = <<>>
    /\ bot = "idle"
    /\ failures = 0
    /\ endorsed = {}

-----------------------------------------------------------------------------
(* The pull request changes, and each change emits its event.              *)

Change(newLabel, newHead) ==
    /\ changes < MaxChanges
    /\ changes' = changes + 1
    /\ label' = newLabel /\ head' = newHead
    /\ undelivered' = undelivered \cup {[label |-> newLabel, head |-> newHead]}
    /\ endorsed' = IF newLabel THEN endorsed \cup {newHead} ELSE endorsed
    /\ UNCHANGED <<toDefault, status, active, waiting, broken, endedBadly,
                   signoffs, failures>>

\* labeled, unlabeled
Relabel == Change(~label, head)

\* synchronize: the branch may also be reset to an earlier commit
Push == \E c \in Commits \ {head} : Change(label, c)

-----------------------------------------------------------------------------
(* signoff-approval-check.yml                                               *)

StartRun(e) == [event |-> e, step |-> "get", label |-> FALSE, head |-> None]

\* Mutation: an event that comes while a run is going on is dropped.
AdmitOrDrop(e) ==
    /\ active' = IF active = None THEN StartRun(e) ELSE active
    /\ waiting' = waiting

\* The concurrency group pnp-approval-<number>: cancel-in-progress is false, so
\* the run that goes on stays and the one that waited is cancelled.
Admit(e) ==
    /\ active' = IF active = None THEN StartRun(e) ELSE active
    /\ waiting' = IF active = None THEN waiting ELSE e

Deliver(e) ==
    /\ e \in undelivered
    /\ undelivered' = undelivered \ {e}
    /\ Admit(e)
    /\ UNCHANGED <<pr, status, broken, endedBadly, signoffs, failures, endorsed>>

\* Mutation: the labels of the event's payload are used.
LabelOfPayload == active.event.label

\* Mutation: the status goes to the head of the event's payload.
HeadOfPayload == active.event.head

\* pulls.get: the live labels ...
LabelRead == label

\* ... and the live head.
HeadRead == head

GetPullRequest ==
    /\ active # None /\ active.step = "get"
    /\ active' = [event |-> active.event, step |-> "publish",
                  label |-> LabelRead, head |-> HeadRead]
    /\ UNCHANGED <<pr, status, undelivered, waiting, broken, endedBadly,
                   signoffs, failures, endorsed>>

\* The group moves on when a run ends.
Leave ==
    /\ active' = IF waiting = None THEN None ELSE StartRun(waiting)
    /\ waiting' = None

\* repos.createCommitStatus replaces the status of the same context.
Publish ==
    /\ active # None /\ active.step = "publish"
    /\ status' = [status EXCEPT ![active.head] = StateOf(active.label)]
    /\ endedBadly' = FALSE
    /\ Leave
    /\ UNCHANGED <<pr, undelivered, broken, signoffs, failures, endorsed>>

\* An error that outlasts the retries, the five minutes, or a cancellation by
\* hand; the status may have been written.
FailApproval ==
    /\ active # None /\ failures < MaxFailures
    /\ failures' = failures + 1
    /\ broken' = broken \cup {active.event}
    /\ endedBadly' = TRUE
    /\ \/ UNCHANGED status
       \/ /\ active.step = "publish"
          /\ status' = [status EXCEPT ![active.head] = StateOf(active.label)]
    /\ Leave
    /\ UNCHANGED <<pr, undelivered, signoffs, endorsed>>

\* Someone reruns a failed run: it has its old payload and joins the group.
RerunApproval(e) ==
    /\ e \in broken
    /\ broken' = broken \ {e}
    /\ Admit(e)
    /\ UNCHANGED <<pr, status, undelivered, endedBadly, signoffs, failures, endorsed>>

-----------------------------------------------------------------------------
(* signoff-review.yml and gate-signoff.js                                   *)

InStep(S) == {k \in DOMAIN comments : comments[k].step \in S}

At(comment, step) ==
    [signoff |-> comment.signoff, label |-> comment.label, step |-> step]

MoveTo(k, step) == comments' = [comments EXCEPT ![k] = At(comments[k], step)]

\* Mutation: a newcomer takes the place of the run that waits, as in a group
\* without queue: max.
WaitsOn == {}

\* The concurrency group signoff-<number> has queue: max: nobody loses a place.
StillQueued == InStep({"queued"})

\* Someone comments.  A sign-off makes the merge bot mark the pull request ready.
Comment(signoff) ==
    /\ Len(comments) < MaxComments
    /\ comments' = Append([i \in DOMAIN comments |->
                                IF comments[i].step = "queued" /\ i \notin StillQueued
                                THEN At(comments[i], "skipped")
                                ELSE comments[i]],
                           [signoff |-> signoff, label |-> label, step |-> "queued"])
    /\ bot' = IF signoff THEN "ready" ELSE bot
    /\ UNCHANGED <<pr, approval, failures, endorsed>>

\* The job's if: a sign-off by a person, without the label in the payload.
Screened(comment) == comment.signoff /\ ~comment.label

\* One run of the group at a time; GitHub does not promise their order.
StartJob(k) ==
    /\ k \in InStep({"queued"})
    /\ InStep({"get", "post"}) = {}
    /\ MoveTo(k, IF Screened(comments[k]) THEN "get" ELSE "skipped")
    /\ UNCHANGED <<pr, approval, bot, failures, endorsed>>

\* pulls.get: another base branch, or an approval by now, ends the job.
Recheck(k) ==
    /\ k \in InStep({"get"})
    /\ MoveTo(k, IF ~toDefault THEN "skipped" ELSE IF label THEN "passed" ELSE "post")
    /\ UNCHANGED <<pr, approval, bot, failures, endorsed>>

\* issues.createComment: the merge bot takes the pull request back.
PostHoldOff(k) ==
    /\ k \in InStep({"post"})
    /\ MoveTo(k, "held")
    /\ bot' = "held"
    /\ UNCHANGED <<pr, approval, failures, endorsed>>

\* core.setFailed, or the job's time is up; the comment may have been posted.
FailJob(k) ==
    /\ k \in InStep({"get", "post"}) /\ failures < MaxFailures
    /\ failures' = failures + 1
    /\ MoveTo(k, "failed")
    /\ \/ UNCHANGED bot
       \/ comments[k].step = "post" /\ bot' = "held"
    /\ UNCHANGED <<pr, approval, endorsed>>

RerunJob(k) ==
    /\ k \in InStep({"failed"})
    /\ MoveTo(k, "queued")
    /\ UNCHANGED <<pr, approval, bot, failures, endorsed>>

-----------------------------------------------------------------------------

Next ==
    \/ Relabel
    \/ Push
    \/ \E e \in Events : Deliver(e)
    \/ GetPullRequest
    \/ Publish
    \/ FailApproval
    \/ \E e \in Events : RerunApproval(e)
    \/ \E signoff \in BOOLEAN : Comment(signoff)
    \/ \E k \in 1..MaxComments : StartJob(k)
    \/ \E k \in 1..MaxComments : Recheck(k)
    \/ \E k \in 1..MaxComments : PostHoldOff(k)
    \/ \E k \in 1..MaxComments : FailJob(k)
    \/ \E k \in 1..MaxComments : RerunJob(k)

Spec == Init /\ [][Next]_vars

\* GitHub delivers events and runs jobs; someone reruns what failed.
Fairness ==
    /\ WF_vars(\E e \in Events : Deliver(e))
    /\ WF_vars(GetPullRequest \/ Publish)
    /\ WF_vars(\E k \in 1..MaxComments : StartJob(k) \/ Recheck(k) \/ PostHoldOff(k))
    /\ WF_vars(\E e \in Events : RerunApproval(e))
    /\ WF_vars(\E k \in 1..MaxComments : RerunJob(k))

FairSpec == Spec /\ Fairness

-----------------------------------------------------------------------------
(* Properties                                                               *)

TypeOK ==
    /\ label \in BOOLEAN /\ head \in Commits /\ toDefault \in BOOLEAN
    /\ status \in [Commits -> States \cup {None}]
    /\ changes \in 0..MaxChanges
    /\ undelivered \subseteq Events
    /\ active \in Runs \cup {None}
    /\ waiting \in Events \cup {None}
    /\ broken \subseteq Events /\ endedBadly \in BOOLEAN
    /\ comments \in Seq(Jobs)
    /\ bot \in {"idle", "ready", "held"}
    /\ failures \in 0..MaxFailures
    /\ endorsed \subseteq Commits

\* Once every event has been delivered, no run goes on or waits, and the last
\* run did not fail, the head carries the status its label stands for: neither
\* a run that read before a change nor the replaced waiting run leaves a stale
\* one behind (signoff-approval-check.yml:23-25, 42-55).
SettledStatusAgrees ==
    (undelivered = {} /\ active = None /\ waiting = None /\ ~endedBadly)
        => status[head] = StateOf(label)

\* A commit that carries "success" was the head of the pull request while the
\* label was on it, whatever was pushed or removed while the run went on: the
\* status goes to the head that was read together with the label.
SuccessWasEarned == \A c \in Commits : status[c] = "success" => c \in endorsed

\* The merge gate catches up with the label and the head for good, once they
\* stop changing, although runs are replaced, fail and are rerun.
StatusCatchesUp == <>[](status[head] = StateOf(label))

\* On a pull request that was never approved a "#sign-off" does not stand: when
\* the comments have been worked off the merge bot was last told to hold off,
\* whatever other comments were queued in between (signoff-review.yml:9-12).
UnapprovedNeverStaysReady ==
    (InStep({"queued", "get", "post", "failed"}) = {} /\ endorsed = {} /\ toDefault)
        => bot # "ready"

\* Every sign-off without approval is answered in the end: held, or let through
\* because the approval has come by then.
SignOffAnswered ==
    <>[](\A k \in DOMAIN comments :
            Screened(comments[k]) /\ toDefault => k \in InStep({"held", "passed"}))

=============================================================================
