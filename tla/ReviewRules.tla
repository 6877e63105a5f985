------------------------------ MODULE ReviewRules ------------------------------
(***************************************************************************)
(* The stage rules of ReviewStageService: which review event is accepted   *)
(* in which state of a submission, the stage it leads to, and the audit    *)
(* record it leaves.  Everything here is a pure operator on a review       *)
(* document, the part of a stored SubmissionState that review progression  *)
(* reads and writes:                                                       *)
(*                                                                         *)
(*   correlated  pullRequestNumber has been recorded                       *)
(*   stage       currentStage                                              *)
(*   resume      reviewState.resumeStage                                   *)
(*   opened      reviewState.openedCommitSha                               *)
(*   history     reviewState.history                                       *)
(*                                                                         *)
(* The actor and the timestamp of a record decide nothing and are left     *)
(* out; so is SHA letter case, which every adapter normalises on reading.  *)
(***************************************************************************)
EXTENDS SubmissionTerms, Naturals, Sequences

CONSTANTS
    Commits,    \* commit SHAs of the pull request's head branch
    EventIds,   \* event identities (GitHub Actions run ids)
    None        \* an undefined optional field

\* The stages review progression sees: "intake" and "withdrawn" are never
\* written by a handler that runs once a submission has been planned.
Stages == {Planned, Drafting, TechnicalReview, ContentReview, EditorialReview,
           Publishing, Complete}

ASSUME NoneAssumption == None \notin Commits \cup EventIds \cup Stages

\* PullRequestOpened never reaches the stage rules: the opened event is handled
\* by PullRequestService.
ReviewActions == {Approved, ChangesRequested, RevisionSubmitted,
                  TechnicalReopened, ContentReopened, Merged}
Reopens       == {TechnicalReopened, ContentReopened}
Decisions     == {Approved, ChangesRequested}

Events == [id : EventIds, action : ReviewActions, commit : Commits,
           maintainer : BOOLEAN]

Transitions == [id : EventIds, action : ReviewActions, from : Stages,
                to : Stages, commit : Commits]

Documents == [correlated : BOOLEAN,
              stage      : Stages,
              resume     : {TechnicalReview, ContentReview, None},
              opened     : Commits \cup {None},
              history    : Seq(Transitions)]

\* SubmissionStateFactory.Create followed by AzureDevOpsStateService.Apply: the
\* document every pull request finds.
InitialDocument ==
    [correlated |-> FALSE, stage |-> Planned, resume |-> None,
     opened |-> None, history |-> <<>>]

\* PullRequestService.SaveMatch on a state without a pull request.
CorrelatedDocument(d, commit) ==
    [correlated |-> TRUE, stage |-> TechnicalReview, resume |-> d.resume,
     opened |-> commit, history |-> d.history]

-----------------------------------------------------------------------------
(* Reading the audit history.                                              *)

RecordedIds(h) == {h[i].id : i \in DOMAIN h}

ApprovesFrom(t, stage) == t.action = Approved /\ t.from = stage

\* Mutation: a content reopen does not clear the seal.
ContentSealedEver(h) == \E i \in DOMAIN h : ApprovesFrom(h[i], ContentReview)

\* ContentSealed: the loop's flag is set by a content approval and cleared by a
\* content reopen, so it ends TRUE iff some approval has no later reopen.
ContentSealed(h) ==
    \E i \in DOMAIN h :
        /\ ApprovesFrom(h[i], ContentReview)
        /\ \A j \in DOMAIN h : j > i => h[j].action # ContentReopened

-----------------------------------------------------------------------------
(* The rules.                                                              *)

CurrentCommit(d, e) == d.opened = e.commit

CanApprove(d) == d.stage \in {TechnicalReview, ContentReview, EditorialReview}
CanDraft(d)   == d.stage \in {TechnicalReview, ContentReview}
CanResume(d)  == d.stage = Drafting /\ d.resume # None
CanMerge(d)   == d.stage = Publishing

\* Mutation: every stage but the requested one can be reopened from.
CanReopenFromAnywhere(d, action) ==
    d.stage # IF action = TechnicalReopened THEN TechnicalReview ELSE ContentReview

CanReopen(d, action) ==
    d.stage \in IF action = TechnicalReopened
                THEN {ContentReview, EditorialReview, Publishing}
                ELSE {EditorialReview, Publishing}

\* CreateTransition's guards: every way it throws is a way this is FALSE.
Accepts(d, e) ==
    \/ e.action = Approved /\ CurrentCommit(d, e) /\ CanApprove(d)
    \/ e.action = ChangesRequested /\ CurrentCommit(d, e) /\ CanDraft(d)
    \/ e.action = RevisionSubmitted /\ CanResume(d)
    \/ e.action \in Reopens /\ e.maintainer /\ CanReopen(d, e.action)
    \/ e.action = Merged /\ CanMerge(d)

\* GetApprovedStage: a sealed content approval lets technical review skip
\* content review.
ApprovedStage(d) ==
    IF d.stage = TechnicalReview /\ ~ContentSealed(d.history) THEN ContentReview
    ELSE IF d.stage = EditorialReview THEN Publishing
    ELSE EditorialReview

NextStage(d, action) ==
    IF action = Approved THEN ApprovedStage(d)
    ELSE IF action = ChangesRequested THEN Drafting
    ELSE IF action = RevisionSubmitted THEN d.resume
    ELSE IF action = TechnicalReopened THEN TechnicalReview
    ELSE IF action = ContentReopened THEN ContentReview
    ELSE Complete

\* Mutation: the stage is read after it has been overwritten.
ResumeStageTooLate(d, action) ==
    IF action = ChangesRequested THEN NextStage(d, action) ELSE None

\* A change request remembers the stage it leaves; every other accepted action
\* clears the memory.
ResumeStage(d, action) == IF action = ChangesRequested THEN d.stage ELSE None

\* Mutation: the record is made after the stage has been overwritten.
TransitionTooLate(d, e) ==
    [id |-> e.id, action |-> e.action, from |-> NextStage(d, e.action),
     to |-> NextStage(d, e.action), commit |-> e.commit]

TransitionOf(d, e) ==
    [id |-> e.id, action |-> e.action, from |-> d.stage,
     to |-> NextStage(d, e.action), commit |-> e.commit]

\* The document ReviewStageService.Apply saves for an accepted event.
AppliedDocument(d, e) ==
    [correlated |-> d.correlated,
     stage      |-> NextStage(d, e.action),
     resume     |-> ResumeStage(d, e.action),
     opened     |-> e.commit,
     history    |-> Append(d.history, TransitionOf(d, e))]

=============================================================================
