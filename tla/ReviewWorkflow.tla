---------------------------- MODULE ReviewWorkflow ----------------------------
(***************************************************************************)
(* What review progression promises, with no runs, no store and no         *)
(* failures: a submission is correlated with its pull request once, each   *)
(* accepted event is applied to the document atomically and at most once,  *)
(* and a handoff message is posted only about something the document       *)
(* already records.  ReviewReceiver is shown to implement this module.     *)
(***************************************************************************)
EXTENDS ReviewRules

CONSTANT OpenKey    \* identifies the handoff message of the opened event

ASSUME OpenKeyAssumption == OpenKey \notin EventIds

VARIABLES
    doc,        \* the review document
    delivered   \* what has been announced: event ids, or OpenKey

vars == <<doc, delivered>>

Init ==
    /\ doc = InitialDocument
    /\ delivered = {}

\* PullRequestService.SaveMatch.
Correlate(commit) ==
    /\ ~doc.correlated
    /\ doc' = CorrelatedDocument(doc, commit)
    /\ UNCHANGED delivered

\* Mutation: a redelivered event is applied again.
AcceptAgain(e) ==
    /\ doc.correlated
    /\ Accepts(doc, e)
    /\ doc' = AppliedDocument(doc, e)
    /\ UNCHANGED delivered

\* ReviewStageService.Apply on an event it has not recorded.
Accept(e) ==
    /\ doc.correlated
    /\ e.id \notin RecordedIds(doc.history)
    /\ Accepts(doc, e)
    /\ doc' = AppliedDocument(doc, e)
    /\ UNCHANGED delivered

\* StageNotificationService.Apply and AnnounceOpen.
Announceable(key) ==
    \/ key \in RecordedIds(doc.history)
    \/ key = OpenKey /\ doc.correlated

Deliver(key) ==
    /\ Announceable(key)
    /\ delivered' = delivered \cup {key}
    /\ UNCHANGED doc

Next ==
    \/ \E commit \in Commits : Correlate(commit)
    \/ \E e \in Events : Accept(e)
    \/ \E key \in EventIds \cup {OpenKey} : Deliver(key)

Spec == Init /\ [][Next]_vars

-----------------------------------------------------------------------------
(* Properties.                                                             *)

TypeOK ==
    /\ doc \in Documents
    /\ delivered \subseteq EventIds \cup {OpenKey}

\* Some approval given in a stage has not been withdrawn by a later reopen.
InForce(h, stage, reopens) ==
    \E i \in DOMAIN h :
        /\ ApprovesFrom(h[i], stage)
        /\ \A j \in DOMAIN h : j > i => h[j].action \notin reopens

\* A submission stands in, or is being redrafted for, a stage after technical
\* review only under a technical approval that no reopen has withdrawn.
TechnicalGate ==
    \/ doc.stage \in {ContentReview, EditorialReview, Publishing, Complete}
    \/ doc.stage = Drafting /\ doc.resume = ContentReview
    => InForce(doc.history, TechnicalReview, {TechnicalReopened})

\* However often stages are reopened, redrafted and skipped, a submission
\* reaches editorial review, publishing and completion only under a content
\* approval that no content reopen has withdrawn, and the last two only under
\* an editorial approval that no reopen of any kind has (GetApprovedStage lets
\* a reopened technical review skip content review, but not editorial review).
PublicationGate ==
    /\ doc.stage \in {EditorialReview, Publishing, Complete}
        => InForce(doc.history, ContentReview, {ContentReopened})
    /\ doc.stage \in {Publishing, Complete}
        => InForce(doc.history, EditorialReview, Reopens)

\* No event is recorded twice, whatever reruns and redeliveries happen
\* (FindEvent in ReviewStageService).
EventsRecordedOnce ==
    \A i, j \in DOMAIN doc.history :
        doc.history[i].id = doc.history[j].id => i = j

\* The audit history is one unbroken walk from technical review to the current
\* stage: no accepted event was ever applied to a stage other than the one the
\* previous record left.
HistoryIsAWalk ==
    LET h == doc.history IN
    /\ h # <<>> => h[1].from = TechnicalReview /\ h[Len(h)].to = doc.stage
    /\ \A i \in 1 .. Len(h) - 1 : h[i].to = h[i + 1].from

\* The audit history tracks the reviewed commit: an approval or a change
\* request is about the commit of the record before it (RequireCurrentCommit),
\* and openedCommitSha is always the commit of the last record.
DecisionsKeepTheCommit ==
    LET h == doc.history IN
    /\ h # <<>> => h[Len(h)].commit = doc.opened
    /\ \A i \in 1 .. Len(h) - 1 :
           h[i + 1].action \in Decisions => h[i + 1].commit = h[i].commit

\* The remembered stage exists exactly while the contributor is drafting, and
\* is the stage the last change request left.
ResumeWhileDrafting ==
    LET h == doc.history IN
    /\ doc.stage = Drafting =>
           h # <<>> /\ doc.resume = h[Len(h)].from /\ doc.resume # None
    /\ doc.stage # Drafting => doc.resume = None

\* Completion is final, and no audit record is ever erased or rewritten.
AuditOnlyGrows ==
    [][/\ doc.stage = Complete => doc' = doc
       /\ Len(doc.history) <= Len(doc'.history)
       /\ \A i \in DOMAIN doc.history : doc'.history[i] = doc.history[i]]_doc

=============================================================================
