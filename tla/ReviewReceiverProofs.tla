------------------------- MODULE ReviewReceiverProofs -------------------------
(***************************************************************************)
(* Safety of the receiver's runs, and that they implement ReviewWorkflow,  *)
(* for any number of runs, commits, intake saves and failures, and for     *)
(* reads that lag or do not.                                               *)
(*                                                                         *)
(* The argument: whatever a run has read is an earlier content of the      *)
(* document, whose history the document's extends; equal revisions mean    *)
(* equal documents, so a save that goes through replaces exactly what its  *)
(* run checked.                                                            *)
(***************************************************************************)
EXTENDS ReviewReceiver, SequenceTheorems, TLAPS

\* History g begins with history h.
Begins(h, g) == \A i \in DOMAIN h : i \in DOMAIN g /\ g[i] = h[i]

\* The document was d at some time before it was e.
Precedes(d, e) ==
    /\ d \in Stored
    /\ d.revision <= e.revision
    /\ d.revision = e.revision => d = e
    /\ d.done \subseteq e.done
    /\ d.review.correlated => e.review.correlated
    /\ Begins(d.review.history, e.review.history)

\* What one write makes of the document.
Succeeds(e, d) ==
    /\ e \in Stored
    /\ e.revision = d.revision + 1
    /\ d.done \subseteq e.done
    /\ d.review.correlated => e.review.correlated
    /\ Begins(d.review.history, e.review.history)

-----------------------------------------------------------------------------
(* The inductive invariant.                                                 *)

OpenSteps   == {"fetch", "match", "correlate", "announce", "sendOpen", "completeOpen"}
NoticeSteps == {"notice", "send", "complete", "reload", "retry", "unlabel"}
ReviewSteps == {"authorize", "find", "apply"} \cup NoticeSteps

GroupOK ==
    /\ active # None => status[active] = "running"
    /\ waiting # None => status[waiting] = "waiting"
    /\ pc = "idle" <=> active = None

Happened(r) == status[r] # "unused"

EventsOK ==
    /\ pull.status # "none" => pull.head \in Commits
    /\ \A r \in EventIds : Happened(r) => event[r] \in Payloads /\ pull.status # "none"

\* Every record is of an event that happened, and records its action.
RecordsOK ==
    \A i \in DOMAIN store.review.history :
        LET t == store.review.history[i] IN
        Happened(t.id) /\ t.action = event[t.id].action

\* A completion key is stored only after its message ...
KeysOK == \A key \in Keys : key \in store.done => sent[key] > 0

\* ... and while a run is at work, nobody else adds keys of the receiver, so that
\* a lagging read misses none.
KeysSeen ==
    active # None /\ pc # "unlabel" =>
        \A key \in Keys : key \in store.done => key \in stale.done

StoreOK ==
    /\ store \in Stored /\ stale \in Stored
    /\ Precedes(InitialStore, store) /\ Precedes(stale, store)
    /\ ~StaleReads => stale = store
    /\ RecordsOK /\ KeysOK

\* What an opened run knows at each of its steps ...
OpenOK ==
    /\ pc \in OpenSteps => event[active].action = PullRequestOpened
    /\ pc \in {"match", "correlate"} => observed \in Commits
    /\ pc = "correlate" => ~loaded.review.correlated
    /\ pc \in {"announce", "sendOpen", "completeOpen"} => store.review.correlated
    /\ pc = "sendOpen" => OpenKey \notin store.done
    /\ pc = "completeOpen" => sent[OpenKey] > 0

\* ... and a review run at each of its.
ReviewOK ==
    /\ pc = "ignore" => event[active].action = Unrelated
    /\ pc \in ReviewSteps => event[active].action \in ReviewActions
    /\ pc = "apply" =>
           /\ loaded.review.correlated
           /\ active \notin RecordedIds(loaded.review.history)
           /\ Accepts(loaded.review, ActiveEvent)
           /\ transition = TransitionOf(loaded.review, ActiveEvent)
    /\ pc \in NoticeSteps =>
           /\ transition.id = active
           /\ \E i \in DOMAIN store.review.history : store.review.history[i] = transition
    /\ pc = "send" => active \notin store.done
    /\ pc \in {"complete", "reload", "retry"} => sent[active] > 0
    /\ pc = "unlabel" => active \in store.done

IInv ==
    /\ TypeOK /\ GroupOK /\ EventsOK
    /\ StoreOK /\ KeysSeen /\ Precedes(loaded, store)
    /\ OpenOK /\ ReviewOK /\ SuccessMeansHandedOff

\* With current reads, one intake save and no failure: a review message is out only
\* once its completion key is stored or its run is still at it, and a run whose save
\* conflicts has seen the one save of another, so that its second attempt succeeds.
OtherSaveSeen == IntakeKeys \subseteq store.done

NoticeOK ==
    /\ \A r \in EventIds :
           sent[r] > 0 => r \in store.done \/ (r = active /\ pc \in {"complete", "reload", "retry"})
    /\ pc \in {"send", "complete"} => loaded = store \/ OtherSaveSeen
    /\ pc \in {"reload", "retry"} => OtherSaveSeen
    /\ pc = "retry" => loaded = store
    /\ \A r \in EventIds : sent[r] <= 1

-----------------------------------------------------------------------------
(* The stage rules, as ReviewWorkflowProofs has proved them.                 *)

Proved == INSTANCE ReviewWorkflowProofs WITH
    doc <- store.review, delivered <- {key \in Keys : sent[key] > 0}

LEMMA SameTerms ==
  /\ Proved!Stages = Stages /\ Proved!ReviewActions = ReviewActions
  /\ Proved!Reopens = Reopens /\ Proved!Events = Events
  /\ Proved!Transitions = Transitions /\ Proved!Documents = Documents
  /\ Proved!InitialDocument = InitialDocument
  /\ Proved!Planned = Planned /\ Proved!Drafting = Drafting
  /\ Proved!TechnicalReview = TechnicalReview /\ Proved!ContentReview = ContentReview
  /\ Proved!EditorialReview = EditorialReview /\ Proved!Publishing = Publishing
  /\ Proved!Complete = Complete
  /\ Proved!Approved = Approved /\ Proved!ChangesRequested = ChangesRequested
  /\ Proved!RevisionSubmitted = RevisionSubmitted
  /\ Proved!TechnicalReopened = TechnicalReopened
  /\ Proved!ContentReopened = ContentReopened /\ Proved!Merged = Merged
  <1>1. /\ Proved!Planned = Planned /\ Proved!Drafting = Drafting
        /\ Proved!TechnicalReview = TechnicalReview /\ Proved!ContentReview = ContentReview
        /\ Proved!EditorialReview = EditorialReview /\ Proved!Publishing = Publishing
        /\ Proved!Complete = Complete
    BY DEF Proved!Planned, Planned, Proved!Drafting, Drafting, Proved!TechnicalReview,
           TechnicalReview, Proved!ContentReview, ContentReview, Proved!EditorialReview,
           EditorialReview, Proved!Publishing, Publishing, Proved!Complete, Complete
  <1>2. /\ Proved!Approved = Approved /\ Proved!ChangesRequested = ChangesRequested
        /\ Proved!RevisionSubmitted = RevisionSubmitted
        /\ Proved!TechnicalReopened = TechnicalReopened
        /\ Proved!ContentReopened = ContentReopened /\ Proved!Merged = Merged
    BY DEF Proved!Approved, Approved, Proved!ChangesRequested, ChangesRequested,
           Proved!RevisionSubmitted, RevisionSubmitted, Proved!TechnicalReopened,
           TechnicalReopened, Proved!ContentReopened, ContentReopened, Proved!Merged, Merged
  <1>3. /\ Proved!Stages = Stages /\ Proved!ReviewActions = ReviewActions
        /\ Proved!Reopens = Reopens
    BY <1>1, <1>2 DEF Proved!Stages, Stages, Proved!ReviewActions, ReviewActions,
       Proved!Reopens, Reopens
  <1>4. Proved!Events = Events /\ Proved!Transitions = Transitions
    BY <1>3 DEF Proved!Events, Events, Proved!Transitions, Transitions
  <1>5. Proved!Documents = Documents /\ Proved!InitialDocument = InitialDocument
    BY <1>1, <1>3, <1>4 DEF Proved!Documents, Documents, Proved!InitialDocument, InitialDocument
  <1> QED BY <1>1, <1>2, <1>3, <1>4, <1>5

LEMMA SameRules ==
  /\ \A d, e : Proved!Accepts(d, e) <=> Accepts(d, e)
  /\ \A d, e : Proved!TransitionOf(d, e) = TransitionOf(d, e)
  /\ \A d, e : Proved!AppliedDocument(d, e) = AppliedDocument(d, e)
  /\ \A d, commit : Proved!CorrelatedDocument(d, commit) = CorrelatedDocument(d, commit)
  /\ \A h : Proved!RecordedIds(h) = RecordedIds(h)
  <1>1. ASSUME NEW h PROVE Proved!ContentSealed(h) <=> ContentSealed(h)
    BY SameTerms DEF Proved!ContentSealed, ContentSealed, Proved!ApprovesFrom, ApprovesFrom
  <1>2. ASSUME NEW d, NEW action PROVE Proved!NextStage(d, action) = NextStage(d, action)
    BY <1>1, SameTerms DEF Proved!NextStage, NextStage, Proved!ApprovedStage, ApprovedStage
  <1>3. ASSUME NEW d, NEW e PROVE Proved!Accepts(d, e) <=> Accepts(d, e)
    BY SameTerms DEF Proved!Accepts, Accepts, Proved!CurrentCommit, CurrentCommit,
       Proved!CanApprove, CanApprove, Proved!CanDraft, CanDraft, Proved!CanResume, CanResume,
       Proved!CanReopen, CanReopen, Proved!CanMerge, CanMerge
  <1>4. ASSUME NEW d, NEW e PROVE Proved!TransitionOf(d, e) = TransitionOf(d, e)
    BY <1>2 DEF Proved!TransitionOf, TransitionOf
  <1>5. ASSUME NEW d, NEW e PROVE Proved!AppliedDocument(d, e) = AppliedDocument(d, e)
    BY <1>2, <1>4, SameTerms DEF Proved!AppliedDocument, AppliedDocument,
       Proved!ResumeStage, ResumeStage
  <1>6. ASSUME NEW d, NEW commit
        PROVE  Proved!CorrelatedDocument(d, commit) = CorrelatedDocument(d, commit)
    BY SameTerms DEF Proved!CorrelatedDocument, CorrelatedDocument
  <1>7. ASSUME NEW h PROVE Proved!RecordedIds(h) = RecordedIds(h)
    BY DEF Proved!RecordedIds, RecordedIds
  <1> QED BY <1>3, <1>4, <1>5, <1>6, <1>7

-----------------------------------------------------------------------------
(* Documents and their versions.                                            *)

LEMMA InitialStoreType == InitialStore \in Stored
  <1>1. InitialDocument \in Documents
    BY Proved!InitialDocumentType, SameTerms, NoneAssumption, ReceiverAssumption
  <1> QED BY <1>1 DEF InitialStore, Stored

LEMMA HistoryDomain ==
  ASSUME NEW d \in Documents
  PROVE  /\ d.history \in Seq(Transitions) /\ Len(d.history) \in Nat
         /\ DOMAIN d.history = 1 .. Len(d.history)
         /\ \A i \in DOMAIN d.history : d.history[i] \in Transitions
  <1>1. d.history \in Seq(Transitions)
    BY DEF Documents
  <1> QED BY <1>1, LenProperties, ElementOfSeq

\* An applied event leaves a document whose history is the old one and one record.
LEMMA Applied ==
  ASSUME NEW d \in Documents, NEW e \in Events, Accepts(d, e)
  PROVE  LET f == AppliedDocument(d, e)
             t == TransitionOf(d, e)
             n == Len(d.history)
         IN  /\ f \in Documents /\ t \in Transitions
             /\ f.correlated = d.correlated
             /\ Begins(d.history, f.history)
             /\ DOMAIN d.history = 1 .. n /\ n \in Nat
             /\ DOMAIN f.history = 1 .. n + 1
             /\ \A i \in DOMAIN d.history : f.history[i] = d.history[i]
             /\ f.history[n + 1] = t
  <1> DEFINE f == AppliedDocument(d, e)
             t == TransitionOf(d, e)
             n == Len(d.history)
  <1>1. f \in Documents /\ t \in Transitions
    BY Proved!AppliedDocumentType, SameTerms, SameRules,
       NoneAssumption, ReceiverAssumption
  <1>2. f.history = Append(d.history, t) /\ f.correlated = d.correlated
    BY DEF AppliedDocument
  <1>3. /\ n \in Nat /\ DOMAIN d.history = 1 .. n
        /\ DOMAIN Append(d.history, t) = 1 .. n + 1
        /\ \A i \in 1 .. n : Append(d.history, t)[i] = d.history[i]
        /\ Append(d.history, t)[n + 1] = t
    BY <1>1, HistoryDomain, Proved!AppendRecord, SameTerms, NoneAssumption,
       ReceiverAssumption
  <1>4. /\ DOMAIN f.history = 1 .. n + 1
        /\ \A i \in DOMAIN d.history : f.history[i] = d.history[i]
        /\ f.history[n + 1] = t
    BY <1>2, <1>3, Zenon
  <1>5. Begins(d.history, f.history)
    <2>1. DOMAIN d.history \subseteq DOMAIN f.history
      BY <1>3, <1>4
    <2> QED BY <2>1, <1>4, Zenon DEF Begins
  <1> QED BY <1>1, <1>2, <1>3, <1>4, <1>5

\* A correlated document keeps its history.
LEMMA Correlated ==
  ASSUME NEW d \in Documents, NEW commit \in Commits
  PROVE  LET f == CorrelatedDocument(d, commit) IN
         f \in Documents /\ f.correlated /\ f.history = d.history
  <1>1. CorrelatedDocument(d, commit) \in Documents
    BY Proved!CorrelatedDocumentType, SameTerms, SameRules,
       NoneAssumption, ReceiverAssumption
  <1> QED BY <1>1 DEF CorrelatedDocument

LEMMA PrecedesItself ==
  ASSUME NEW d \in Stored PROVE Precedes(d, d)
  BY DEF Precedes, Begins, Stored

LEMMA SucceedsPrecedes ==
  ASSUME NEW d \in Stored, NEW e, Succeeds(e, d) PROVE Precedes(d, e)
  BY DEF Precedes, Succeeds, Stored

LEMMA PrecedesStill ==
  ASSUME NEW d, NEW e \in Stored, NEW f, Precedes(d, e), f = e \/ Succeeds(f, e)
  PROVE  Precedes(d, f)
  <1>1. CASE Succeeds(f, e)
    <2>1. /\ d.revision \in Nat /\ e.revision \in Nat
          /\ d.revision <= e.revision /\ f.revision = e.revision + 1
      BY <1>1 DEF Precedes, Succeeds, Stored
    <2>2. Begins(d.review.history, f.review.history)
      BY <1>1 DEF Precedes, Succeeds, Begins
    <2> QED BY <1>1, <2>1, <2>2 DEF Precedes, Succeeds
  <1> QED BY <1>1

\* The records of an earlier content are records of a later one.
LEMMA RecordedStill ==
  ASSUME NEW d, NEW e, Begins(d.review.history, e.review.history)
  PROVE  RecordedIds(d.review.history) \subseteq RecordedIds(e.review.history)
  BY DEF Begins, RecordedIds

-----------------------------------------------------------------------------
(* The kinds of steps.                                                      *)

\* Messages posted, and events that happened, stay.
SentGrows == /\ sent' \in [Keys -> 0 .. MaxSent]
             /\ \A key \in Keys : sent[key] > 0 => sent'[key] > 0
EventsStay == \A r \in EventIds : Happened(r) => Happened(r)' /\ event'[r] = event[r]
StoreGrows == store' = store \/ Succeeds(store', store)

LEMMA RecordsStill ==
  ASSUME TypeOK, RecordsOK, EventsStay, store'.review = store.review
  PROVE  RecordsOK'
  <1> SUFFICES ASSUME NEW i \in DOMAIN store.review.history
               PROVE  LET t == store.review.history[i] IN
                      Happened(t.id)' /\ t.action = event'[t.id].action
    BY DEF RecordsOK
  <1> DEFINE t == store.review.history[i]
  <1>1. store.review \in Documents
    BY DEF TypeOK, Stored
  <1>2. t \in Transitions
    BY <1>1, HistoryDomain
  <1>3. t.id \in EventIds
    BY <1>2 DEF Transitions
  <1>4. Happened(t.id) /\ t.action = event[t.id].action
    BY DEF RecordsOK
  <1> QED BY <1>3, <1>4 DEF EventsStay

LEMMA KeysStill ==
  ASSUME KeysOK, SentGrows, Keys \cap store'.done \subseteq store.done
  PROVE  KeysOK'
  BY DEF KeysOK, SentGrows

LEMMA StoreStays ==
  ASSUME IInv, UNCHANGED storage, SentGrows, EventsStay
  PROVE  StoreOK' /\ StoreGrows
  <1>1. RecordsOK'
    BY RecordsStill DEF IInv, StoreOK, storage
  <1>2. KeysOK'
    BY KeysStill DEF IInv, StoreOK, storage
  <1> QED BY <1>1, <1>2 DEF IInv, StoreOK, StoreGrows, storage

LEMMA WriteKeeps ==
  ASSUME IInv, NEW new, Write(new), Succeeds(store', store), RecordsOK', KeysOK'
  PROVE  StoreOK' /\ StoreGrows
  <1>1. store \in Stored /\ store' \in Stored
    BY DEF IInv, StoreOK, Succeeds
  <1>2. Precedes(InitialStore, store')
    BY <1>1, PrecedesStill DEF IInv, StoreOK
  <1>3. stale' = IF StaleReads THEN store ELSE store'
    BY DEF Write
  <1>4. stale' \in Stored /\ Precedes(stale', store') /\ (~StaleReads => stale' = store')
    BY <1>1, <1>3, PrecedesItself, SucceedsPrecedes
  <1> QED BY <1>1, <1>2, <1>4 DEF StoreOK, StoreGrows

\* A save that goes through is computed from the document it replaces.
LEMMA SavesIs ==
  ASSUME IInv, NEW new, Saves(new) PROVE loaded = store /\ Write(new)
  BY DEF IInv, Precedes, Saves

LEMMA WriteIs ==
  ASSUME store \in Stored
  PROVE  /\ \A key : Write([store EXCEPT !.done = @ \cup {key}]) =>
               store' = [review |-> store.review, done |-> store.done \cup {key},
                         revision |-> store.revision + 1]
         /\ \A review : Write([store EXCEPT !.review = review]) =>
               store' = [review |-> review, done |-> store.done,
                         revision |-> store.revision + 1]
  <1>1. ASSUME NEW key, Write([store EXCEPT !.done = @ \cup {key}])
        PROVE  store' = [review |-> store.review, done |-> store.done \cup {key},
                         revision |-> store.revision + 1]
    <2> DEFINE done == store.done \cup {key}
    <2>1. [store EXCEPT !.done = done] = [review |-> store.review, done |-> done,
                                          revision |-> store.revision]
      BY DEF Stored
    <2> QED BY <1>1, <2>1 DEF Write
  <1>2. ASSUME NEW review, Write([store EXCEPT !.review = review])
        PROVE  store' = [review |-> review, done |-> store.done,
                         revision |-> store.revision + 1]
    <2>1. [store EXCEPT !.review = review] = [review |-> review, done |-> store.done,
                                              revision |-> store.revision]
      BY DEF Stored
    <2> QED BY <1>2, <2>1 DEF Write
  <1> QED BY <1>1, <1>2

\* What a completion key's save changes.
LEMMA KeySaved ==
  ASSUME IInv, NEW key \in Keys \cup IntakeKeys, Write([store EXCEPT !.done = @ \cup {key}]),
         SentGrows, EventsStay, key \in Keys => sent'[key] > 0
  PROVE  /\ store'.review = store.review /\ store'.done = store.done \cup {key}
         /\ StoreOK' /\ StoreGrows
  <1>1. store \in Stored
    BY DEF IInv, StoreOK
  <1>2. store' = [review |-> store.review, done |-> store.done \cup {key},
                  revision |-> store.revision + 1]
    BY <1>1, WriteIs
  <1>3. /\ store' \in Stored /\ store'.review = store.review
        /\ store'.done = store.done \cup {key} /\ store'.revision = store.revision + 1
    BY <1>1, <1>2 DEF Stored
  <1>4. Succeeds(store', store)
    BY <1>3 DEF Succeeds, Begins
  <1>5. RecordsOK'
    BY <1>3, RecordsStill DEF IInv, StoreOK
  <1>6. KeysOK'
    BY <1>3 DEF IInv, StoreOK, KeysOK, SentGrows
  <1> QED BY <1>3, <1>4, <1>5, <1>6, WriteKeeps

\* The end of a run.
LEMMA EndKeeps ==
  ASSUME IInv, active # None, NEW outcome \in {"failed", "succeeded"}, End(outcome),
         UNCHANGED <<pull, event>>, labels' \subseteq Reopens,
         SentGrows, failures' \in 0 .. MaxFailures, StoreOK', StoreGrows,
         outcome = "succeeded" /\ event[active].action \in ReviewActions =>
             /\ active \in RecordedIds(store'.review.history)
             /\ active \in store'.done /\ sent'[active] > 0
  PROVE  IInv'
  <1>1. /\ active \in EventIds /\ status \in [EventIds -> RunStates]
        /\ status' = [status EXCEPT ![active] = outcome] /\ active' = None /\ pc' = "idle"
        /\ loaded' = InitialStore /\ observed' = None /\ authorized' = FALSE
        /\ transition' = None /\ waiting' = waiting
    BY DEF IInv, TypeOK, End
  <1>2. TypeOK'
    BY <1>1, InitialStoreType DEF IInv, TypeOK, StoreOK, SentGrows, RunStates, Steps
  <1>3. GroupOK'
    BY <1>1 DEF IInv, TypeOK, GroupOK
  <1>4. EventsOK'
    BY <1>1 DEF IInv, GroupOK, EventsOK, Happened
  <1>5. KeysSeen' /\ OpenOK' /\ ReviewOK'
    BY <1>1 DEF KeysSeen, OpenOK, ReviewOK, OpenSteps, ReviewSteps, NoticeSteps
  <1>6. Precedes(loaded', store')
    BY <1>1 DEF StoreOK
  <1>7. SuccessMeansHandedOff'
    <2> SUFFICES ASSUME NEW r \in EventIds, status'[r] = "succeeded",
                        event[r].action \in ReviewActions
                 PROVE  /\ r \in RecordedIds(store'.review.history)
                        /\ r \in store'.done /\ sent'[r] > 0
      BY DEF SuccessMeansHandedOff
    <2>1. CASE r = active
      BY <1>1, <2>1
    <2>2. CASE r # active
      <3>1. /\ r \in RecordedIds(store.review.history) /\ r \in store.done /\ sent[r] > 0
        BY <1>1, <2>2 DEF IInv, SuccessMeansHandedOff
      <3>2. store.done \subseteq store'.done /\ Begins(store.review.history, store'.review.history)
        BY DEF StoreGrows, Succeeds, Begins
      <3> QED BY <3>1, <3>2, RecordedStill DEF SentGrows, Keys
    <2> QED BY <2>1, <2>2
  <1> QED BY <1>2, <1>3, <1>4, <1>5, <1>6, <1>7 DEF IInv, StoreOK

\* A step of a run that goes on.
LEMMA GoesOn ==
  ASSUME IInv, active # None, pc' \in Steps \ {"idle"}, UNCHANGED <<github, group, failures>>,
         SentGrows, StoreOK', StoreGrows,
         loaded' \in Stored, observed' \in Commits \cup {None}, authorized' \in BOOLEAN,
         transition' \in Transitions \cup {None},
         Precedes(loaded', store'), KeysSeen', OpenOK', ReviewOK'
  PROVE  IInv'
  <1> USE DEF github, group
  <1>1. TypeOK'
    BY DEF IInv, TypeOK, StoreOK, SentGrows
  <1>2. GroupOK' /\ EventsOK'
    BY DEF IInv, GroupOK, EventsOK, Happened
  <1>3. SuccessMeansHandedOff'
    <2> SUFFICES ASSUME NEW r \in EventIds, status[r] = "succeeded",
                        event[r].action \in ReviewActions
                 PROVE  /\ r \in RecordedIds(store'.review.history)
                        /\ r \in store'.done /\ sent'[r] > 0
      BY DEF SuccessMeansHandedOff
    <2>1. /\ r \in RecordedIds(store.review.history) /\ r \in store.done /\ sent[r] > 0
      BY DEF IInv, SuccessMeansHandedOff
    <2>2. store.done \subseteq store'.done /\ Begins(store.review.history, store'.review.history)
      BY DEF StoreGrows, Succeeds, Begins
    <2> QED BY <2>1, <2>2, RecordedStill DEF SentGrows, Keys
  <1> QED BY <1>1, <1>2, <1>3 DEF IInv

-----------------------------------------------------------------------------
(* What happens around the runs.                                            *)

LEMMA SentStays == ASSUME IInv, UNCHANGED sent PROVE SentGrows
  BY DEF IInv, TypeOK, SentGrows

\* A step that leaves the active run, what it has read and the storage alone.
LEMMA AroundKeeps ==
  ASSUME IInv, UNCHANGED <<storage, active, pc, locals, sent, failures>>,
         TypeOK', GroupOK', EventsOK', EventsStay,
         \A r \in EventIds : status'[r] = "succeeded" => status[r] = "succeeded"
  PROVE  IInv'
  <1> USE DEF storage, locals
  <1>1. StoreOK'
    BY SentStays, StoreStays
  <1>2. KeysSeen' /\ Precedes(loaded', store')
    BY DEF IInv, KeysSeen
  <1>3. active # None => Happened(active) /\ active \in EventIds /\ event'[active] = event[active]
    BY DEF IInv, TypeOK, GroupOK, Happened, EventsStay
  <1>4. pc # "idle" => active # None
    BY DEF IInv, GroupOK
  <1>5. OpenOK'
    BY <1>3, <1>4 DEF IInv, OpenOK, OpenSteps
  <1>6. ReviewOK'
    <2>1. pc # "idle" => ActiveEvent' = ActiveEvent
      BY <1>3, <1>4 DEF ActiveEvent
    <2> QED BY <1>3, <1>4, <2>1 DEF IInv, ReviewOK, ReviewSteps, NoticeSteps
  <1>7. SuccessMeansHandedOff'
    <2>1. ASSUME NEW r \in EventIds, status[r] = "succeeded" PROVE event'[r] = event[r]
      BY <2>1 DEF EventsStay, Happened
    <2> QED BY <2>1 DEF IInv, SuccessMeansHandedOff
  <1> QED BY <1>1, <1>2, <1>5, <1>6, <1>7 DEF IInv

LEMMA EnqueueIs ==
  ASSUME IInv, NEW r \in EventIds, Enqueue(r), UNCHANGED pc,
         status[r] # "running"
  PROVE  /\ waiting' = r /\ status' \in [EventIds -> RunStates] /\ active' = active
         /\ GroupOK'
         /\ \A s \in EventIds : Happened(s)' <=> (Happened(s) \/ s = r)
         /\ \A s \in EventIds : status'[s] = "succeeded" => status[s] = "succeeded"
  <1>1. /\ waiting' = r /\ active' = active
        /\ status' = [s \in EventIds |-> IF s = r THEN "waiting"
                                         ELSE IF s = waiting THEN "cancelled" ELSE status[s]]
    BY DEF Enqueue
  <1>2. status \in [EventIds -> RunStates] /\ active \in EventIds \cup {None}
    BY DEF IInv, TypeOK
  <1>3. status' \in [EventIds -> RunStates]
    BY <1>1, <1>2 DEF RunStates
  <1>4. ASSUME active # None PROVE status'[active] = "running"
    <2>1. active # r /\ active # waiting /\ status[active] = "running"
      BY <1>4 DEF IInv, GroupOK
    <2> QED BY <1>1, <1>2, <1>4, <2>1
  <1>5. GroupOK'
    BY <1>1, <1>4 DEF IInv, GroupOK
  <1>6. \A s \in EventIds : Happened(s)' <=> (Happened(s) \/ s = r)
    BY <1>1, NoneAssumption DEF IInv, GroupOK, Happened
  <1> QED BY <1>1, <1>3, <1>5, <1>6

LEMMA EmitKeeps ==
  ASSUME IInv, NEW r \in EventIds, NEW commit \in Commits,
         NEW action \in ReviewActions \cup {PullRequestOpened, Unrelated},
         Emit(r, action, commit), labels' \subseteq Reopens,
         pull' \in [status : {"open", "merged"}, head : Commits]
  PROVE  IInv'
  <1>1. /\ status[r] = "unused" /\ Enqueue(r)
        /\ event' = [event EXCEPT ![r] = [action |-> action, commit |-> commit]]
        /\ UNCHANGED <<storage, pc, locals, sent, failures>>
    BY DEF Emit
  <1>2. event \in [EventIds -> Payloads \cup {None}]
    BY DEF IInv, TypeOK
  <1>3. [action |-> action, commit |-> commit] \in Payloads
    BY DEF Payloads
  <1>4. TypeOK'
    <2>1. event' \in [EventIds -> Payloads \cup {None}]
      BY <1>1, <1>2, <1>3
    <2> QED BY <1>1, <2>1, EnqueueIs DEF IInv, TypeOK, storage, locals
  <1>5. EventsStay
    BY <1>1, <1>2, EnqueueIs DEF EventsStay, Happened
  <1>6. EventsOK'
    BY <1>1, <1>2, <1>3, EnqueueIs DEF IInv, EventsOK
  <1> QED BY <1>1, <1>4, <1>5, <1>6, EnqueueIs, AroundKeeps

LEMMA ActivityKeeps ==
  ASSUME IInv, NEW r \in EventIds, PullRequestActivity(r) PROVE IInv'
  <1> USE DEF ReviewActions, Decisions, Reopens
  <1>1. /\ pull \in [status : {"none", "open", "merged"}, head : Commits \cup {None}]
        /\ labels \subseteq Reopens /\ (pull.status # "none" => pull.head \in Commits)
    BY DEF IInv, TypeOK, EventsOK
  <1>2. pull.status # "none" => pull \in [status : {"open", "merged"}, head : Commits]
    BY <1>1
  <1>3. ASSUME NEW commit \in Commits, OpenPullRequest(r, commit) PROVE IInv'
    BY <1>1, <1>3, EmitKeeps DEF OpenPullRequest
  <1>4. ASSUME NEW commit \in Commits, Push(r, commit) PROVE IInv'
    BY <1>1, <1>4, EmitKeeps DEF Push
  <1>5. ASSUME NEW decision \in Decisions, Review(r, decision) PROVE IInv'
    BY <1>1, <1>2, <1>5, EmitKeeps DEF Review
  <1>6. ASSUME NEW reopen \in Reopens, AddLabel(r, reopen) PROVE IInv'
    BY <1>1, <1>2, <1>6, EmitKeeps DEF AddLabel
  <1>7. CASE Merge(r)
    <2>1. pull' \in [status : {"open", "merged"}, head : Commits] /\ pull.head \in Commits
      BY <1>1, <1>7 DEF Merge
    <2> QED BY <1>1, <1>7, <2>1, EmitKeeps DEF Merge
  <1>8. CASE Comment(r)
    BY <1>1, <1>2, <1>8, EmitKeeps DEF Comment
  <1> QED BY <1>3, <1>4, <1>5, <1>6, <1>7, <1>8 DEF PullRequestActivity

LEMMA RerunKeeps ==
  ASSUME IInv, NEW r \in EventIds, Rerun(r) PROVE IInv'
  <1>1. /\ status[r] # "running" /\ status[r] # "unused" /\ Enqueue(r)
        /\ UNCHANGED <<github, storage, pc, locals, sent, failures>>
    BY DEF Rerun
  <1>2. TypeOK'
    BY <1>1, EnqueueIs DEF IInv, TypeOK, github, storage, locals
  <1>3. EventsStay /\ EventsOK'
    BY <1>1, EnqueueIs DEF EventsStay, Happened, github, IInv, EventsOK
  <1> QED BY <1>1, <1>2, <1>3, EnqueueIs, AroundKeeps

LEMMA StartKeeps == ASSUME IInv, Start PROVE IInv'
  <1>1. /\ active = None /\ waiting # None /\ stale = store
        /\ active' = waiting /\ waiting' = None
        /\ status' = [status EXCEPT ![waiting] = "running"]
        /\ pc' = FirstStep(event[waiting].action)
        /\ UNCHANGED <<github, storage, locals, sent, failures>>
    BY DEF Start
  <1>2. /\ waiting \in EventIds /\ status \in [EventIds -> RunStates]
        /\ status[waiting] = "waiting" /\ pc = "idle"
    BY <1>1 DEF IInv, TypeOK, GroupOK
  <1>3. event[waiting] \in Payloads
    BY <1>2 DEF IInv, EventsOK, Happened
  <1>4. /\ event[waiting].action \in ReviewActions \cup {PullRequestOpened, Unrelated}
        /\ pc' \in {"fetch", "ignore", "authorize", "find"}
        /\ pc' = "fetch" => event[waiting].action = PullRequestOpened
        /\ pc' = "ignore" => event[waiting].action = Unrelated
        /\ pc' \in {"authorize", "find"} => event[waiting].action \in ReviewActions
    BY <1>1, <1>3 DEF FirstStep, Payloads
  <1>5. TypeOK'
    BY <1>1, <1>2, <1>4 DEF IInv, TypeOK, github, storage, locals, RunStates, Steps
  <1>6. GroupOK'
    BY <1>1, <1>2, <1>4, NoneAssumption DEF GroupOK
  <1>7. EventsOK' /\ EventsStay
    BY <1>1, <1>2 DEF IInv, EventsOK, EventsStay, Happened, github
  <1>8. StoreOK'
    BY <1>1, <1>7, SentStays, StoreStays
  <1>9. KeysSeen' /\ Precedes(loaded', store')
    BY <1>1 DEF IInv, KeysSeen, storage, locals
  <1>10. OpenOK' /\ ReviewOK'
    BY <1>1, <1>4 DEF OpenOK, ReviewOK, OpenSteps, ReviewSteps, NoticeSteps, github
  <1>11. SuccessMeansHandedOff'
    BY <1>1, <1>2 DEF IInv, SuccessMeansHandedOff, github, storage
  <1> QED BY <1>5, <1>6, <1>7, <1>8, <1>9, <1>10, <1>11 DEF IInv

\* A step that changes the storage behind the active run's back.
LEMMA BehindKeeps ==
  ASSUME IInv, UNCHANGED <<github, group, pc, locals, sent, failures>>,
         StoreOK', StoreGrows, KeysSeen', store'.review = store.review,
         Keys \cap store'.done \subseteq store.done
  PROVE  IInv'
  <1> USE DEF github, group, locals
  <1>1. TypeOK' /\ GroupOK' /\ EventsOK'
    BY DEF IInv, TypeOK, GroupOK, EventsOK, Happened, StoreOK
  <1>2. Precedes(loaded', store')
    BY PrecedesStill DEF IInv, StoreOK, StoreGrows
  <1>3. OpenOK'
    BY DEF IInv, OpenOK, Keys
  <1>4. store.done \subseteq store'.done
    BY DEF StoreGrows, Succeeds
  <1>5. active \in EventIds \cup {None} /\ (pc # "idle" => active \in EventIds)
    BY DEF IInv, TypeOK, GroupOK
  <1>6. ReviewOK'
    BY <1>4, <1>5 DEF IInv, ReviewOK, ActiveEvent, Keys, ReviewSteps, NoticeSteps
  <1>7. SuccessMeansHandedOff'
    BY <1>4 DEF IInv, SuccessMeansHandedOff
  <1> QED BY <1>1, <1>2, <1>3, <1>6, <1>7 DEF IInv

LEMMA SettleKeeps == ASSUME IInv, Settle PROVE IInv'
  <1>1. stale' = store /\ UNCHANGED <<github, store, group, pc, locals, sent, failures>>
    BY DEF Settle
  <1>2. RecordsOK' /\ KeysOK'
    BY <1>1 DEF IInv, StoreOK, RecordsOK, KeysOK, Happened, github, group
  <1>3. StoreOK' /\ StoreGrows
    BY <1>1, <1>2, PrecedesItself DEF IInv, StoreOK, StoreGrows
  <1>4. KeysSeen'
    BY <1>1 DEF KeysSeen
  <1> QED BY <1>1, <1>3, <1>4, BehindKeeps

LEMMA IntakeSaveKeeps ==
  ASSUME IInv, NEW key \in IntakeKeys, IntakeSave(key) PROVE IInv'
  <1>1. /\ Write([store EXCEPT !.done = @ \cup {key}]) /\ key \notin Keys
        /\ UNCHANGED <<github, group, pc, locals, sent, failures>>
    BY ReceiverAssumption DEF IntakeSave, Keys
  <1>2. SentGrows /\ EventsStay
    BY <1>1, SentStays DEF EventsStay, Happened, github, group
  <1>3. /\ store'.review = store.review /\ store'.done = store.done \cup {key}
        /\ StoreOK' /\ StoreGrows
    BY <1>1, <1>2, KeySaved
  <1>4. KeysSeen'
    <2>1. stale' \in {store, store'}
      BY <1>1 DEF Write
    <2> QED BY <1>1, <1>3, <2>1 DEF KeysSeen
  <1> QED BY <1>1, <1>3, <1>4, BehindKeeps

-----------------------------------------------------------------------------
(* Steps of the active run.                                                 *)

LEMMA ActiveIs ==
  ASSUME IInv, pc # "idle" \/ active # None
  PROVE  /\ active \in EventIds /\ active # None /\ pc # "idle" /\ status[active] = "running"
         /\ Happened(active) /\ event[active] \in Payloads /\ ActiveEvent.id = active
         /\ event[active].action \in ReviewActions => ActiveEvent \in Events
         /\ ActiveEvent.action = event[active].action
  <1>1. active # None /\ pc # "idle"
    BY DEF IInv, GroupOK
  <1>2. active \in EventIds /\ status[active] = "running" /\ authorized \in BOOLEAN
    BY <1>1 DEF IInv, TypeOK, GroupOK
  <1>3. Happened(active) /\ event[active] \in Payloads
    BY <1>2 DEF IInv, EventsOK, Happened
  <1> QED BY <1>1, <1>2, <1>3 DEF ActiveEvent, Events, Payloads

LEMMA ReadableIs ==
  ASSUME IInv, NEW s \in Readable
  PROVE  /\ s \in Stored /\ s.review \in Documents /\ Precedes(s, store)
         /\ ~StaleReads => s = store
         /\ active # None /\ pc # "unlabel" =>
                \A key \in Keys : key \in store.done => key \in s.done
  BY PrecedesItself DEF IInv, StoreOK, KeysSeen, Readable, Stored

LEMMA Failing ==
  ASSUME IInv, pc # "idle", End("failed"), UNCHANGED <<github, storage, sent>>,
         failures' \in 0 .. MaxFailures
  PROVE  IInv'
  <1>1. SentGrows /\ EventsStay
    BY SentStays, ActiveIs DEF EventsStay, Happened, End, github, IInv, TypeOK
  <1>2. StoreOK' /\ StoreGrows
    BY <1>1, StoreStays
  <1> QED BY <1>1, <1>2, ActiveIs, EndKeeps DEF github, IInv, TypeOK

LEMMA Succeeding ==
  ASSUME IInv, pc # "idle", End("succeeded"), UNCHANGED <<pull, event, storage, sent, failures>>,
         labels' \subseteq Reopens,
         event[active].action \in ReviewActions =>
             pc = "unlabel"
  PROVE  IInv'
  <1>1. SentGrows /\ EventsStay
    BY SentStays, ActiveIs DEF EventsStay, Happened, End, IInv, TypeOK
  <1>2. StoreOK' /\ StoreGrows
    BY <1>1, StoreStays
  <1>3. ASSUME pc = "unlabel"
        PROVE  /\ active \in RecordedIds(store'.review.history)
               /\ active \in store'.done /\ sent'[active] > 0
    <2>1. /\ active \in store.done
          /\ \E i \in DOMAIN store.review.history : store.review.history[i].id = active
      BY <1>3 DEF IInv, ReviewOK, NoticeSteps
    <2>2. active \in Keys
      BY ActiveIs DEF Keys
    <2> QED BY <2>1, <2>2 DEF RecordedIds, IInv, StoreOK, KeysOK, storage
  <1> QED BY <1>1, <1>2, <1>3, ActiveIs, EndKeeps DEF IInv, TypeOK

\* A step that only reads.
LEMMA Reading ==
  ASSUME IInv, pc \notin {"idle", "unlabel"}, pc' \in Steps \ {"idle"},
         UNCHANGED <<github, storage, group, sent, failures>>,
         loaded' \in Stored, Precedes(loaded', store),
         observed' \in Commits \cup {None}, authorized' \in BOOLEAN,
         transition' \in Transitions \cup {None}, OpenOK', ReviewOK'
  PROVE  IInv'
  <1>1. SentGrows /\ EventsStay
    BY SentStays DEF EventsStay, Happened, github, group
  <1>2. StoreOK' /\ StoreGrows
    BY <1>1, StoreStays
  <1>3. KeysSeen'
    BY DEF IInv, KeysSeen, storage, group
  <1> QED BY <1>1, <1>2, <1>3, ActiveIs, GoesOn DEF storage

LEMMA RunFailsKeeps == ASSUME IInv, RunFails PROVE IInv'
  <1>1. failures' \in 0 .. MaxFailures
    BY ReceiverAssumption DEF IInv, TypeOK, RunFails
  <1> QED BY <1>1, Failing, ActiveIs DEF RunFails

LEMMA IgnoreKeeps == ASSUME IInv, Ignore PROVE IInv'
  <1>1. event[active].action \notin ReviewActions
    BY DEF Ignore, IInv, ReviewOK, ReviewActions, Unrelated, Approved, ChangesRequested,
           RevisionSubmitted, TechnicalReopened, ContentReopened, Merged
  <1> QED BY <1>1, Succeeding DEF Ignore, github, IInv, TypeOK

LEMMA OpenedIsNoReview == PullRequestOpened \notin ReviewActions
  BY DEF PullRequestOpened, ReviewActions, Approved, ChangesRequested, RevisionSubmitted,
         TechnicalReopened, ContentReopened, Merged

LEMMA FetchKeeps == ASSUME IInv, FetchPullRequest PROVE IInv'
  <1>1. /\ pc = "fetch" /\ pc' = "match" /\ observed' = pull.head
        /\ UNCHANGED <<github, storage, group, loaded, authorized, transition, sent, failures>>
    BY DEF FetchPullRequest, Goto
  <1>2. pull.head \in Commits
    BY <1>1, ActiveIs DEF IInv, EventsOK
  <1>3. OpenOK'
    BY <1>1, <1>2 DEF IInv, OpenOK, OpenSteps, github, group
  <1>4. ReviewOK'
    BY <1>1 DEF ReviewOK, ReviewSteps, NoticeSteps
  <1> QED BY <1>1, <1>2, <1>3, <1>4, Reading DEF IInv, TypeOK, StoreOK, Steps

LEMMA MatchKeeps == ASSUME IInv, MatchState PROVE IInv'
  <1>1. PICK s \in Readable :
            /\ loaded' = s
            /\ pc' = IF s.review.correlated THEN "announce" ELSE "correlate"
    BY DEF MatchState, Goto
  <1>2. /\ pc = "match"
        /\ UNCHANGED <<github, storage, group, observed, authorized, transition, sent, failures>>
    BY DEF MatchState, Goto
  <1>3. s \in Stored /\ Precedes(s, store)
    BY ReadableIs
  <1>4. OpenOK'
    BY <1>1, <1>2, <1>3 DEF IInv, OpenOK, OpenSteps, github, storage, group, Precedes
  <1>5. ReviewOK'
    BY <1>1 DEF ReviewOK, ReviewSteps, NoticeSteps
  <1> QED BY <1>1, <1>2, <1>3, <1>4, <1>5, Reading DEF IInv, TypeOK, Steps

\* The match a run saves is the one it has not found.
LEMMA MatchSaved ==
  ASSUME IInv, pc = "correlate", NEW new, new = [loaded EXCEPT !.review = CorrelatedDocument(@, observed)],
         Saves(new), UNCHANGED <<github, group, sent, failures>>
  PROVE  /\ loaded = store /\ ~store.review.correlated /\ observed \in Commits
         /\ store'.review = CorrelatedDocument(store.review, observed)
         /\ store'.done = store.done /\ store'.review.correlated
         /\ SentGrows /\ StoreOK' /\ StoreGrows
  <1>1. loaded = store /\ Write(new) /\ store \in Stored
    BY SavesIs DEF IInv, StoreOK
  <1>2. ~store.review.correlated /\ observed \in Commits
    BY <1>1 DEF IInv, OpenOK
  <1> DEFINE review == CorrelatedDocument(store.review, observed)
  <1>3. new = [store EXCEPT !.review = review]
    BY <1>1
  <1>4. store' = [review |-> review, done |-> store.done, revision |-> store.revision + 1]
    BY <1>1, <1>3, WriteIs
  <1>5. review \in Documents /\ review.correlated /\ review.history = store.review.history
    BY <1>1, <1>2, Correlated DEF Stored
  <1>6. Succeeds(store', store)
    <2>1. store' \in Stored
      BY <1>1, <1>4, <1>5 DEF Stored
    <2> QED BY <1>4, <1>5, <2>1 DEF Succeeds, Begins
  <1>7. SentGrows /\ EventsStay
    BY SentStays DEF EventsStay, Happened, github, group
  <1>8. RecordsOK' /\ KeysOK'
    <2>1. RecordsOK'
      BY <1>4, <1>5 DEF IInv, StoreOK, RecordsOK, Happened, github, group
    <2> QED BY <1>4, <1>7, <2>1, KeysStill DEF IInv, StoreOK
  <1>9. StoreOK' /\ StoreGrows
    BY <1>1, <1>6, <1>8, WriteKeeps
  <1> QED BY <1>1, <1>2, <1>4, <1>5, <1>7, <1>9

LEMMA SaveMatchKeeps == ASSUME IInv, SaveMatch PROVE IInv'
  <1>1. pc = "correlate" /\ UNCHANGED <<github, sent, failures>>
    BY DEF SaveMatch
  <1>2. CASE /\ Saves([loaded EXCEPT !.review = CorrelatedDocument(@, observed)])
             /\ Goto("announce")
             /\ UNCHANGED locals
    <2>1. pc' = "announce" /\ UNCHANGED <<group, locals>>
      BY <1>2 DEF Goto
    <2>2. /\ loaded = store /\ store'.review.correlated /\ store'.done = store.done
          /\ SentGrows /\ StoreOK' /\ StoreGrows
      BY <1>1, <1>2, <2>1, MatchSaved
    <2>3. Precedes(loaded', store')
      BY <2>1, <2>2, PrecedesStill DEF IInv, StoreOK, StoreGrows, locals
    <2>4. KeysSeen'
      <3>1. stale' \in {store, store'}
        BY <1>2 DEF Saves, Write
      <3> QED BY <2>2, <3>1 DEF KeysSeen
    <2>5. OpenOK'
      BY <1>1, <2>1, <2>2 DEF IInv, OpenOK, OpenSteps, github, group
    <2>6. ReviewOK'
      BY <2>1 DEF ReviewOK, ReviewSteps, NoticeSteps
    <2> QED BY <1>1, <2>1, <2>2, <2>3, <2>4, <2>5, <2>6, GoesOn, ActiveIs
            DEF IInv, TypeOK, locals, Steps
  <1>3. CASE SaveConflicts /\ End("failed")
    BY <1>1, <1>3, Failing DEF SaveConflicts, IInv, TypeOK
  <1> QED BY <1>2, <1>3 DEF SaveMatch

LEMMA AnnounceKeeps == ASSUME IInv, AnnounceOpen PROVE IInv'
  <1>1. pc = "announce" /\ UNCHANGED <<github, storage, sent, failures>>
    BY DEF AnnounceOpen
  <1>2. event[active].action = PullRequestOpened
    BY <1>1 DEF IInv, OpenOK, OpenSteps
  <1>3. CASE End("failed")
    BY <1>1, <1>3, Failing DEF IInv, TypeOK
  <1>4. CASE End("succeeded")
    BY <1>1, <1>2, <1>4, Succeeding, OpenedIsNoReview DEF github, IInv, TypeOK
  <1>5. ASSUME NEW s \in Readable, OpenKey \notin s.done, loaded' = s, Goto("sendOpen"),
               UNCHANGED <<observed, authorized, transition>>
        PROVE  IInv'
    <2>1. /\ s \in Stored /\ Precedes(s, store) /\ OpenKey \notin store.done
      BY <1>1, <1>5, ReadableIs, ActiveIs DEF Keys
    <2>2. OpenOK'
      BY <1>1, <1>2, <1>5, <2>1 DEF IInv, OpenOK, Goto, github, storage, group
    <2>3. ReviewOK'
      BY <1>5 DEF ReviewOK, ReviewSteps, NoticeSteps, Goto
    <2> QED BY <1>1, <1>5, <2>1, <2>2, <2>3, Reading DEF IInv, TypeOK, Goto, Steps
  <1> QED BY <1>3, <1>4, <1>5 DEF AnnounceOpen

LEMMA PostGrows ==
  ASSUME IInv, NEW key \in Keys, Post(key)
  PROVE  SentGrows /\ sent'[key] > 0 /\ \A other \in Keys : other # key => sent'[other] = sent[other]
  <1>1. sent \in [Keys -> 0 .. MaxSent] /\ MaxSent \in Nat /\ MaxSent >= 1
    BY ReceiverAssumption DEF IInv, TypeOK
  <1>2. sent' = [sent EXCEPT ![key] = IF sent[key] < MaxSent THEN sent[key] + 1 ELSE sent[key]]
    BY DEF Post
  <1>3. sent[key] \in 0 .. MaxSent
    BY <1>1
  <1>4. (IF sent[key] < MaxSent THEN sent[key] + 1 ELSE sent[key]) \in 1 .. MaxSent
    BY <1>1, <1>3
  <1> QED BY <1>1, <1>2, <1>4 DEF SentGrows

LEMMA SendOpenKeeps == ASSUME IInv, SendOpen PROVE IInv'
  <1>1. /\ pc = "sendOpen" /\ pc' = "completeOpen" /\ Post(OpenKey)
        /\ UNCHANGED <<github, storage, group, locals, failures>>
    BY DEF SendOpen, Goto
  <1>2. SentGrows /\ sent'[OpenKey] > 0
    BY <1>1, PostGrows DEF Keys
  <1>3. StoreOK' /\ StoreGrows
    BY <1>1, <1>2, StoreStays DEF EventsStay, Happened, github, group
  <1>4. KeysSeen' /\ Precedes(loaded', store')
    BY <1>1 DEF IInv, KeysSeen, storage, group, locals
  <1>5. OpenOK' /\ ReviewOK'
    BY <1>1, <1>2
       DEF IInv, OpenOK, OpenSteps, ReviewOK, ReviewSteps, NoticeSteps, github, storage, group
  <1> QED BY <1>1, <1>2, <1>3, <1>4, <1>5, ActiveIs, GoesOn DEF IInv, TypeOK, locals, Steps

LEMMA CompleteOpenKeeps == ASSUME IInv, CompleteOpen PROVE IInv'
  <1>1. pc = "completeOpen" /\ UNCHANGED <<github, sent, failures>>
    BY DEF CompleteOpen
  <1>2. event[active].action = PullRequestOpened /\ sent[OpenKey] > 0
    BY <1>1 DEF IInv, OpenOK, OpenSteps
  <1>3. CASE Saves([loaded EXCEPT !.done = @ \cup {OpenKey}]) /\ End("succeeded")
    <2>1. loaded = store /\ Write([store EXCEPT !.done = @ \cup {OpenKey}])
      BY <1>3, SavesIs
    <2>2. SentGrows /\ EventsStay
      BY <1>1, <1>3, SentStays, ActiveIs DEF EventsStay, Happened, End, github, IInv, TypeOK
    <2>3. StoreOK' /\ StoreGrows
      BY <1>1, <1>2, <2>1, <2>2, KeySaved DEF Keys
    <2> QED BY <1>1, <1>2, <1>3, <2>2, <2>3, ActiveIs, EndKeeps, OpenedIsNoReview
            DEF github, IInv, TypeOK
  <1>4. CASE SaveConflicts /\ End("failed")
    BY <1>1, <1>4, Failing DEF SaveConflicts, IInv, TypeOK
  <1> QED BY <1>3, <1>4 DEF CompleteOpen

LEMMA AuthorizeKeeps == ASSUME IInv, Authorize PROVE IInv'
  <1>1. /\ pc = "authorize" /\ pc' = "find" /\ authorized' \in BOOLEAN
        /\ UNCHANGED <<github, storage, group, loaded, observed, transition, sent, failures>>
    BY DEF Authorize, Goto
  <1>2. OpenOK' /\ ReviewOK'
    BY <1>1 DEF IInv, OpenOK, OpenSteps, ReviewOK, ReviewSteps, NoticeSteps, github, group
  <1> QED BY <1>1, <1>2, Reading DEF IInv, TypeOK, Steps

LEMMA FindKeeps == ASSUME IInv, FindState PROVE IInv'
  <1>1. /\ pc = "find" /\ event[active].action \in ReviewActions
        /\ UNCHANGED <<github, storage, sent, failures>>
    BY DEF FindState, IInv, ReviewOK, ReviewSteps
  <1>2. ActiveEvent \in Events /\ ActiveEvent.id = active
    BY <1>1, ActiveIs
  <1>3. ASSUME NEW s \in Readable, NEW i \in DOMAIN s.review.history,
               s.review.history[i].id = active, transition' = s.review.history[i],
               Goto("notice"), UNCHANGED <<loaded, observed, authorized>>
        PROVE  IInv'
    <2>1. s.review \in Documents /\ Precedes(s, store)
      BY ReadableIs
    <2>2. transition' \in Transitions
      BY <1>3, <2>1, HistoryDomain
    <2>3. i \in DOMAIN store.review.history /\ store.review.history[i] = transition'
      BY <1>3, <2>1 DEF Precedes, Begins
    <2>4. OpenOK'
      BY <1>3 DEF OpenOK, OpenSteps, Goto
    <2>5. ReviewOK'
      BY <1>1, <1>3, <2>3 DEF ReviewOK, ReviewSteps, NoticeSteps, Goto, group, github, storage
    <2> QED BY <1>1, <1>3, <2>2, <2>4, <2>5, Reading DEF IInv, TypeOK, Goto, Steps
  <1>4. ASSUME NEW s \in Readable, s.review.correlated,
               active \notin RecordedIds(s.review.history), Accepts(s.review, ActiveEvent),
               transition' = TransitionOf(s.review, ActiveEvent), loaded' = s, Goto("apply"),
               UNCHANGED <<observed, authorized>>
        PROVE  IInv'
    <2>1. s \in Stored /\ s.review \in Documents /\ Precedes(s, store)
      BY ReadableIs
    <2>2. transition' \in Transitions
      BY <1>2, <1>4, <2>1, Applied
    <2>3. OpenOK'
      BY <1>4 DEF OpenOK, OpenSteps, Goto
    <2>4. ActiveEvent' = ActiveEvent
      BY <1>1, <1>4 DEF ActiveEvent, Goto, group, github
    <2>5. ReviewOK'
      BY <1>1, <1>4, <2>4 DEF ReviewOK, ReviewSteps, NoticeSteps, Goto, group, github
    <2> QED BY <1>1, <1>4, <2>1, <2>2, <2>3, <2>5, Reading DEF IInv, TypeOK, Goto, Steps
  <1>5. CASE End("failed")
    BY <1>1, <1>5, Failing DEF IInv, TypeOK
  <1> QED BY <1>3, <1>4, <1>5 DEF FindState

\* The transition a run saves is the one it checked.
LEMMA TransitionSaved ==
  ASSUME IInv, pc = "apply", NEW new, new = [loaded EXCEPT !.review = AppliedDocument(@, ActiveEvent)],
         Saves(new), UNCHANGED <<github, group, sent, failures>>
  PROVE  /\ loaded = store /\ store.review.correlated
         /\ active \notin RecordedIds(store.review.history)
         /\ Accepts(store.review, ActiveEvent) /\ ActiveEvent \in Events
         /\ store'.review = AppliedDocument(store.review, ActiveEvent)
         /\ store'.done = store.done
         /\ \E i \in DOMAIN store'.review.history : store'.review.history[i] = transition
         /\ SentGrows /\ StoreOK' /\ StoreGrows
  <1>1. loaded = store /\ Write(new) /\ store \in Stored /\ store.review \in Documents
    BY SavesIs DEF IInv, StoreOK, Stored
  <1>2. /\ store.review.correlated
        /\ active \notin RecordedIds(store.review.history)
        /\ Accepts(store.review, ActiveEvent)
        /\ transition = TransitionOf(store.review, ActiveEvent)
        /\ event[active].action \in ReviewActions
    BY <1>1 DEF IInv, ReviewOK, ReviewSteps
  <1>3. /\ ActiveEvent \in Events /\ ActiveEvent.id = active /\ Happened(active)
        /\ ActiveEvent.action = event[active].action
    BY <1>2, ActiveIs
  <1> DEFINE review == AppliedDocument(store.review, ActiveEvent)
             n == Len(store.review.history)
  <1>4. new = [store EXCEPT !.review = review]
    BY <1>1
  <1>5. store' = [review |-> review, done |-> store.done, revision |-> store.revision + 1]
    BY <1>1, <1>4, WriteIs
  <1>6. /\ review \in Documents /\ transition \in Transitions
        /\ review.correlated = store.review.correlated
        /\ Begins(store.review.history, review.history)
        /\ n \in Nat /\ DOMAIN store.review.history = 1 .. n
        /\ DOMAIN review.history = 1 .. n + 1
        /\ \A i \in DOMAIN store.review.history : review.history[i] = store.review.history[i]
        /\ review.history[n + 1] = transition
    BY <1>1, <1>2, <1>3, Applied
  <1> HIDE DEF review, n
  <1>7. store' \in Stored /\ Succeeds(store', store)
    <2>1. store' \in Stored
      BY <1>1, <1>5, <1>6 DEF Stored
    <2> QED BY <1>5, <1>6, <2>1 DEF Succeeds
  <1>8. SentGrows /\ EventsStay
    BY SentStays DEF EventsStay, Happened, github, group
  <1>9. RecordsOK'
    <2> SUFFICES ASSUME NEW i \in 1 .. n + 1
                 PROVE  Happened(review.history[i].id) /\ review.history[i].action = event[review.history[i].id].action
      BY <1>5, <1>6 DEF RecordsOK, Happened, github, group
    <2>1. CASE i \in 1 .. n
      BY <1>6, <2>1 DEF IInv, StoreOK, RecordsOK
    <2>2. CASE i = n + 1
      BY <1>2, <1>3, <1>6, <2>2 DEF TransitionOf
    <2> QED BY <1>6, <2>1, <2>2
  <1>10. KeysOK'
    BY <1>5, <1>8, KeysStill DEF IInv, StoreOK
  <1>11. StoreOK' /\ StoreGrows
    BY <1>1, <1>7, <1>9, <1>10, WriteKeeps
  <1>12. n + 1 \in DOMAIN store'.review.history /\ store'.review.history[n + 1] = transition
    BY <1>5, <1>6
  <1> QED BY <1>1, <1>2, <1>3, <1>5, <1>8, <1>11, <1>12 DEF review

LEMMA SaveTransitionKeeps == ASSUME IInv, SaveTransition PROVE IInv'
  <1>1. pc = "apply" /\ UNCHANGED <<github, sent, failures>>
    BY DEF SaveTransition
  <1>2. CASE /\ Saves([loaded EXCEPT !.review = AppliedDocument(@, ActiveEvent)])
             /\ Goto("notice")
             /\ UNCHANGED locals
    <2>1. pc' = "notice" /\ UNCHANGED <<group, locals>>
      BY <1>2 DEF Goto
    <2>2. /\ loaded = store /\ store'.done = store.done
          /\ \E i \in DOMAIN store'.review.history : store'.review.history[i] = transition
          /\ SentGrows /\ StoreOK' /\ StoreGrows
      BY <1>1, <1>2, <2>1, TransitionSaved
    <2>3. Precedes(loaded', store')
      BY <2>1, <2>2, PrecedesStill DEF IInv, StoreOK, StoreGrows, locals
    <2>4. KeysSeen'
      <3>1. stale' \in {store, store'}
        BY <1>2 DEF Saves, Write
      <3> QED BY <2>2, <3>1 DEF KeysSeen
    <2>5. OpenOK'
      BY <2>1 DEF OpenOK, OpenSteps
    <2>6. transition.id = active /\ event[active].action \in ReviewActions
      <3>1. transition = TransitionOf(loaded.review, ActiveEvent)
        BY <1>1 DEF IInv, ReviewOK
      <3> QED BY <1>1, <3>1, ActiveIs DEF TransitionOf, IInv, ReviewOK, ReviewSteps
    <2>7. ReviewOK'
      BY <1>1, <2>1, <2>2, <2>6 DEF ReviewOK, ReviewSteps, NoticeSteps, github, group, locals
    <2> QED BY <1>1, <2>1, <2>2, <2>3, <2>4, <2>5, <2>7, GoesOn, ActiveIs
            DEF IInv, TypeOK, locals, Steps
  <1>3. CASE SaveConflicts /\ End("failed")
    BY <1>1, <1>3, Failing DEF SaveConflicts, IInv, TypeOK
  <1> QED BY <1>2, <1>3 DEF SaveTransition

\* The checks before the message, and those after a conflict.
LEMMA FindNoticeKeeps ==
  ASSUME IInv,
         NEW step, NEW next, <<step, next>> \in {<<"notice", "send">>, <<"reload", "retry">>},
         FindNotice(step, next)
  PROVE  IInv'
  <1>1. /\ pc \in {"notice", "reload"} /\ UNCHANGED <<github, storage, sent, failures>>
        /\ next \in {"send", "retry"} /\ (next = "retry" => pc = "reload")
    BY DEF FindNotice
  <1>2. /\ event[active].action \in ReviewActions /\ transition.id = active
        /\ \E i \in DOMAIN store.review.history : store.review.history[i] = transition
        /\ pc = "reload" => sent[active] > 0
    BY <1>1 DEF IInv, ReviewOK, ReviewSteps, NoticeSteps
  <1>3. active \in Keys /\ active \in EventIds /\ active # None
    BY <1>1, ActiveIs DEF Keys
  <1>4. ASSUME NEW s \in Readable, active \notin s.done, loaded' = s, Goto(next),
               UNCHANGED <<observed, authorized, transition>>
        PROVE  IInv'
    <2>1. s \in Stored /\ Precedes(s, store) /\ active \notin store.done
      BY <1>1, <1>3, <1>4, ReadableIs
    <2>2. OpenOK'
      BY <1>1, <1>4 DEF OpenOK, OpenSteps, Goto
    <2>3. ReviewOK'
      BY <1>1, <1>2, <1>4, <2>1
         DEF ReviewOK, ReviewSteps, NoticeSteps, Goto, group, github, storage
    <2> QED BY <1>1, <1>4, <2>1, <2>2, <2>3, Reading DEF IInv, TypeOK, Goto, Steps
  <1>5. ASSUME NEW s \in Readable, active \in s.done, Goto("unlabel"), UNCHANGED locals
        PROVE  IInv'
    <2>1. active \in store.done
      BY <1>5, ReadableIs DEF Precedes
    <2>2. OpenOK'
      BY <1>5 DEF OpenOK, OpenSteps, Goto
    <2>3. ReviewOK'
      BY <1>2, <1>1, <1>5, <2>1
         DEF ReviewOK, ReviewSteps, NoticeSteps, Goto, group, github, storage, locals
    <2> QED BY <1>1, <1>5, <2>2, <2>3, Reading DEF IInv, TypeOK, Goto, Steps, locals, storage
  <1>6. CASE End("failed")
    BY <1>1, <1>6, Failing DEF IInv, TypeOK
  <1> QED BY <1>4, <1>5, <1>6 DEF FindNotice

LEMMA SendNoticeKeeps == ASSUME IInv, SendNotice PROVE IInv'
  <1>1. /\ pc = "send" /\ pc' = "complete" /\ Post(active)
        /\ UNCHANGED <<github, storage, group, locals, failures>>
    BY DEF SendNotice, Goto
  <1>2. SentGrows /\ sent'[active] > 0
    BY <1>1, ActiveIs, PostGrows DEF Keys
  <1>3. StoreOK' /\ StoreGrows
    BY <1>1, <1>2, StoreStays DEF EventsStay, Happened, github, group
  <1>4. KeysSeen' /\ Precedes(loaded', store')
    BY <1>1 DEF IInv, KeysSeen, storage, group, locals
  <1>5. OpenOK' /\ ReviewOK'
    BY <1>1, <1>2
       DEF IInv, OpenOK, OpenSteps, ReviewOK, ReviewSteps, NoticeSteps, github, storage, group,
           locals
  <1> QED BY <1>1, <1>2, <1>3, <1>4, <1>5, ActiveIs, GoesOn DEF IInv, TypeOK, locals, Steps

\* The completion key's save, at the first attempt or the second.
LEMMA CompletionKeeps ==
  ASSUME IInv, pc \in {"complete", "retry"}, SavesCompletion, Goto("unlabel"),
         UNCHANGED <<github, locals, sent, failures>>
  PROVE  IInv'
  <1>1. /\ pc' = "unlabel" /\ UNCHANGED group
        /\ loaded = store /\ Write([store EXCEPT !.done = @ \cup {active}])
    BY SavesIs DEF SavesCompletion, Goto
  <1>2. /\ event[active].action \in ReviewActions /\ transition.id = active
        /\ \E i \in DOMAIN store.review.history : store.review.history[i] = transition
        /\ sent[active] > 0
    BY DEF IInv, ReviewOK, ReviewSteps, NoticeSteps
  <1>3. SentGrows /\ EventsStay /\ active \in Keys
    BY <1>1, SentStays, ActiveIs DEF EventsStay, Happened, github, group, Keys
  <1>4. /\ store'.review = store.review /\ store'.done = store.done \cup {active}
        /\ StoreOK' /\ StoreGrows
    BY <1>1, <1>2, <1>3, KeySaved
  <1>5. Precedes(loaded', store')
    BY <1>4, PrecedesStill DEF IInv, StoreOK, StoreGrows, locals
  <1>6. KeysSeen' /\ OpenOK'
    BY <1>1 DEF KeysSeen, OpenOK, OpenSteps
  <1>7. ReviewOK'
    BY <1>1, <1>2, <1>4 DEF ReviewOK, ReviewSteps, NoticeSteps, github, group, locals
  <1> QED BY <1>1, <1>3, <1>4, <1>5, <1>6, <1>7, ActiveIs, GoesOn DEF IInv, TypeOK, locals, Steps

LEMMA CompleteKeeps == ASSUME IInv, CompleteNotice PROVE IInv'
  <1>1. pc = "complete" /\ UNCHANGED <<github, locals, sent, failures>>
    BY DEF CompleteNotice
  <1>2. CASE SavesCompletion /\ Goto("unlabel")
    BY <1>1, <1>2, CompletionKeeps
  <1>3. CASE SaveConflicts /\ Goto("reload")
    <2>1. pc' = "reload" /\ UNCHANGED <<group, storage>>
      BY <1>3 DEF Goto, SaveConflicts
    <2>2. OpenOK' /\ ReviewOK'
      BY <1>1, <2>1 DEF IInv, OpenOK, OpenSteps, ReviewOK, ReviewSteps, NoticeSteps, github,
                        storage, group, locals
    <2> QED BY <1>1, <2>1, <2>2, Reading DEF IInv, TypeOK, Steps, locals, storage
  <1> QED BY <1>2, <1>3 DEF CompleteNotice

LEMMA RetryKeeps == ASSUME IInv, RetryNotice PROVE IInv'
  <1>1. pc = "retry" /\ UNCHANGED <<github, sent, failures>>
    BY DEF RetryNotice
  <1>2. CASE SavesCompletion /\ Goto("unlabel") /\ UNCHANGED locals
    BY <1>1, <1>2, CompletionKeeps
  <1>3. CASE SaveConflicts /\ End("failed")
    BY <1>1, <1>3, Failing DEF SaveConflicts, IInv, TypeOK
  <1> QED BY <1>2, <1>3 DEF RetryNotice

LEMMA UnlabelKeeps == ASSUME IInv, Unlabel PROVE IInv'
  BY Succeeding DEF Unlabel, IInv, TypeOK

LEMMA RunStepKeeps == ASSUME IInv, RunStep PROVE IInv'
  <1>1. CASE CheckNotice \/ ReloadNotice
    BY <1>1, FindNoticeKeeps DEF CheckNotice, ReloadNotice
  <1> QED BY <1>1, IgnoreKeeps, FetchKeeps, MatchKeeps, SaveMatchKeeps, AnnounceKeeps,
             SendOpenKeeps, CompleteOpenKeeps, AuthorizeKeeps, FindKeeps, SaveTransitionKeeps,
             SendNoticeKeeps, CompleteKeeps, RetryKeeps, UnlabelKeeps
          DEF RunStep

LEMMA StutterKeeps == ASSUME IInv, UNCHANGED vars PROVE IInv'
  <1> USE DEF vars, github, storage, group, locals
  <1>1. TypeOK' /\ GroupOK' /\ EventsOK'
    BY DEF IInv, TypeOK, GroupOK, EventsOK, Happened
  <1>2. StoreOK' /\ KeysSeen' /\ Precedes(loaded', store')
    BY DEF IInv, StoreOK, RecordsOK, Happened, KeysOK, KeysSeen
  <1>3. OpenOK' /\ ReviewOK' /\ SuccessMeansHandedOff'
    BY DEF IInv, OpenOK, ReviewOK, ActiveEvent, SuccessMeansHandedOff
  <1> QED BY <1>1, <1>2, <1>3 DEF IInv

-----------------------------------------------------------------------------
(* The invariant holds.                                                     *)

LEMMA InitInv == ASSUME Init PROVE IInv
  <1>1. InitialStore \in Stored /\ Precedes(InitialStore, InitialStore)
    BY InitialStoreType, PrecedesItself
  <1>2. DOMAIN InitialStore.review.history = {} /\ InitialStore.done = {}
    BY DEF InitialStore, InitialDocument
  <1>3. TypeOK
    <2>1. /\ event \in [EventIds -> Payloads \cup {None}]
          /\ status \in [EventIds -> RunStates]
          /\ sent \in [Keys -> 0 .. MaxSent]
      BY ReceiverAssumption DEF Init, RunStates
    <2>2. pull \in [status : {"none", "open", "merged"}, head : Commits \cup {None}]
      BY DEF Init
    <2>3. labels \subseteq Reopens /\ authorized \in BOOLEAN
      BY DEF Init
    <2>4. /\ waiting \in EventIds \cup {None} /\ active \in EventIds \cup {None}
          /\ observed \in Commits \cup {None} /\ transition \in Transitions \cup {None}
      BY DEF Init
    <2>5. pc \in Steps /\ failures \in 0 .. MaxFailures
      BY ReceiverAssumption DEF Init, Steps
    <2>6. store \in Stored /\ stale \in Stored /\ loaded \in Stored
      BY <1>1 DEF Init
    <2> QED BY <2>1, <2>2, <2>3, <2>4, <2>5, <2>6 DEF TypeOK
  <1>4. GroupOK /\ EventsOK /\ KeysSeen
    BY <1>2 DEF Init, GroupOK, EventsOK, Happened, KeysSeen
  <1>5. StoreOK /\ Precedes(loaded, store)
    BY <1>1, <1>2 DEF Init, StoreOK, RecordsOK, KeysOK
  <1>6. OpenOK /\ ReviewOK /\ SuccessMeansHandedOff
    BY DEF Init, OpenOK, OpenSteps, ReviewOK, ReviewSteps, NoticeSteps, SuccessMeansHandedOff
  <1> QED BY <1>3, <1>4, <1>5, <1>6 DEF IInv

LEMMA StepInv == ASSUME IInv, [Next]_vars PROVE IInv'
  BY ActivityKeeps, RerunKeeps, StartKeeps, RunStepKeeps, RunFailsKeeps, SettleKeeps,
     IntakeSaveKeeps, StutterKeeps DEF Next

LEMMA InvAlways == Spec => []IInv
  BY InitInv, StepInv, PTL DEF Spec

-----------------------------------------------------------------------------
(* What follows.                                                            *)

\* Whatever runs do, every variable keeps its type: the loaded document is always
\* one that was stored, and the transition to announce a record or nothing.
THEOREM ReceiverTypes == Spec => []TypeOK
  <1>1. IInv => TypeOK
    BY DEF IInv
  <1> QED BY <1>1, InvAlways, PTL

\* A review run that reports success has recorded its event, posted its message
\* and stored the completion key, through conflicts, reruns and lagging reads
\* (StageNotificationService.SaveCompletion).
THEOREM SuccessIsHandedOff == Spec => []SuccessMeansHandedOff
  <1>1. IInv => SuccessMeansHandedOff
    BY DEF IInv
  <1> QED BY <1>1, InvAlways, PTL

-----------------------------------------------------------------------------
(* The steps as ReviewWorkflow sees them.                                   *)

Correlates(commit) ==
    /\ ~store.review.correlated
    /\ store'.review = CorrelatedDocument(store.review, commit)

Applies(e) ==
    /\ store.review.correlated
    /\ e.id \notin RecordedIds(store.review.history)
    /\ Accepts(store.review, e)
    /\ store'.review = AppliedDocument(store.review, e)

Posts(key) ==
    /\ Post(key)
    /\ key \notin store.done
    /\ \/ key \in RecordedIds(store.review.history)
       \/ key = OpenKey /\ store.review.correlated

Silent == store'.review = store.review /\ sent' = sent

Visible ==
    \/ UNCHANGED sent /\ \E commit \in Commits : Correlates(commit)
    \/ UNCHANGED sent /\ \E e \in Events : Applies(e)
    \/ UNCHANGED store /\ \E key \in Keys : Posts(key)

\* A save of a completion key: storage changes, nothing that ReviewWorkflow sees.
LEMMA CompletionIs ==
  ASSUME IInv, NEW key \in Keys, sent[key] > 0, Saves([loaded EXCEPT !.done = @ \cup {key}]),
         UNCHANGED sent, EventsStay
  PROVE  StoreGrows /\ Silent
  <1>1. loaded = store /\ Write([store EXCEPT !.done = @ \cup {key}])
    BY SavesIs
  <1>2. StoreGrows /\ store'.review = store.review
    BY <1>1, SentStays, KeySaved
  <1> QED BY <1>2 DEF Silent

LEMMA RunStepIs == ASSUME IInv, RunStep PROVE StoreGrows /\ (Silent \/ Visible)
  <1>1. ASSUME UNCHANGED <<store, sent>> PROVE StoreGrows /\ Silent
    BY <1>1 DEF StoreGrows, Silent
  <1>2. CASE \/ Ignore \/ FetchPullRequest \/ MatchState \/ AnnounceOpen \/ Authorize
             \/ FindState \/ CheckNotice \/ ReloadNotice \/ Unlabel
    BY <1>1, <1>2 DEF Ignore, FetchPullRequest, MatchState, AnnounceOpen, Authorize, FindState,
       CheckNotice, ReloadNotice, FindNotice, Unlabel, storage
  <1>3. CASE SaveMatch
    <2>1. CASE Saves([loaded EXCEPT !.review = CorrelatedDocument(@, observed)]) /\ Goto("announce")
      BY <1>3, <2>1, MatchSaved DEF SaveMatch, Goto, Visible, Correlates
    <2>2. CASE SaveConflicts
      BY <1>1, <1>3, <2>2 DEF SaveMatch, SaveConflicts, storage
    <2> QED BY <1>3, <2>1, <2>2 DEF SaveMatch
  <1>4. CASE SaveTransition
    <2>1. CASE Saves([loaded EXCEPT !.review = AppliedDocument(@, ActiveEvent)]) /\ Goto("notice")
      <3>1. /\ store.review.correlated /\ Accepts(store.review, ActiveEvent)
            /\ active \notin RecordedIds(store.review.history) /\ ActiveEvent \in Events
            /\ store'.review = AppliedDocument(store.review, ActiveEvent)
            /\ StoreGrows /\ UNCHANGED sent
        BY <1>4, <2>1, TransitionSaved DEF SaveTransition, Goto
      <3>2. ActiveEvent.id = active
        BY DEF ActiveEvent
      <3>3. Applies(ActiveEvent)
        BY <3>1, <3>2 DEF Applies
      <3> QED BY <3>1, <3>3 DEF Visible
    <2>2. CASE SaveConflicts
      BY <1>1, <1>4, <2>2 DEF SaveTransition, SaveConflicts, storage
    <2> QED BY <1>4, <2>1, <2>2 DEF SaveTransition
  <1>5. CASE SendOpen
    <2>1. store.review.correlated /\ OpenKey \notin store.done
      BY <1>5 DEF SendOpen, IInv, OpenOK
    <2> QED BY <1>5, <2>1 DEF SendOpen, Visible, Posts, Keys, StoreGrows, storage
  <1>6. CASE SendNotice
    <2>1. active \in RecordedIds(store.review.history) /\ active \notin store.done
      BY <1>6 DEF SendNotice, IInv, ReviewOK, NoticeSteps, RecordedIds
    <2>2. active \in Keys
      BY <1>6, ActiveIs DEF SendNotice, Keys
    <2> QED BY <1>6, <2>1, <2>2 DEF SendNotice, Visible, Posts, StoreGrows, storage
  <1>7. CASE CompleteOpen \/ CompleteNotice \/ RetryNotice
    <2>1. CASE SaveConflicts
      BY <1>1, <1>7, <2>1 DEF CompleteOpen, CompleteNotice, RetryNotice, SaveConflicts, storage
    <2>2. /\ UNCHANGED <<sent, event>> /\ EventsStay
          /\ pc = "completeOpen" => sent[OpenKey] > 0 /\ OpenKey \in Keys
          /\ pc \in {"complete", "retry"} => sent[active] > 0 /\ active \in Keys
      <3>1. UNCHANGED <<sent, event>> /\ pc # "idle"
        BY <1>7 DEF CompleteOpen, CompleteNotice, RetryNotice, github
      <3>2. EventsStay
        BY <1>7, <3>1, ActiveIs DEF CompleteOpen, CompleteNotice, RetryNotice, EventsStay,
           Happened, End, Goto, group, IInv, TypeOK
      <3> QED BY <3>1, <3>2, ActiveIs DEF IInv, OpenOK, ReviewOK, Keys
    <2>3. CASE ~SaveConflicts
      BY <1>7, <2>2, <2>3, CompletionIs
         DEF CompleteOpen, CompleteNotice, RetryNotice, SavesCompletion
    <2> QED BY <2>1, <2>3
  <1> QED BY <1>2, <1>3, <1>4, <1>5, <1>6, <1>7 DEF RunStep

LEMMA StepIs == ASSUME IInv, [Next]_vars PROVE StoreGrows /\ (Silent \/ Visible)
  <1>1. ASSUME UNCHANGED <<store, sent>> PROVE StoreGrows /\ Silent
    BY <1>1 DEF StoreGrows, Silent
  <1>2. ASSUME NEW r \in EventIds, PullRequestActivity(r) \/ Rerun(r) PROVE StoreGrows /\ Silent
    BY <1>1, <1>2 DEF PullRequestActivity, OpenPullRequest, Push, Review, AddLabel, Merge, Comment,
       Emit, Rerun, storage
  <1>3. CASE Start \/ RunFails \/ Settle \/ UNCHANGED vars
    BY <1>1, <1>3 DEF Start, RunFails, Settle, vars, storage
  <1>4. ASSUME NEW key \in IntakeKeys, IntakeSave(key) PROVE StoreGrows /\ Silent
    <2>1. /\ Write([store EXCEPT !.done = @ \cup {key}]) /\ key \notin Keys
          /\ UNCHANGED <<github, group, sent>>
      BY <1>4, ReceiverAssumption DEF IntakeSave, Keys
    <2>2. SentGrows /\ EventsStay
      BY <2>1, SentStays DEF EventsStay, Happened, github, group
    <2>3. StoreGrows /\ store'.review = store.review
      BY <2>1, <2>2, KeySaved
    <2> QED BY <2>1, <2>3 DEF Silent
  <1> QED BY <1>2, <1>3, <1>4, RunStepIs DEF Next

\* Runs that save to the same document never undo one another, whatever each of
\* them had read: a stored completion key stays, and every write is one revision
\* (GitHubSubmissionStore's check of the expected revision).
THEOREM SavedIsNotLost == Spec => NothingSavedIsLost
  <1> DEFINE Kept == /\ store.done \subseteq store'.done
                     /\ store'.revision = store.revision + 1
  <1>1. IInv /\ [Next]_vars => [Kept]_store
    BY StepIs DEF StoreGrows, Succeeds
  <1> QED BY <1>1, InvAlways, PTL DEF Spec, NothingSavedIsLost

\* Once a message's completion key is stored nothing posts it again, however
\* stale the state that a rerun reads.
THEOREM RecordedNotResent == Spec => RecordedNoticeNeverResent
  <1> DEFINE Quiet == \A key \in Keys : key \in store.done => sent'[key] = sent[key]
  <1>1. IInv /\ [Next]_vars => Quiet
    <2> SUFFICES ASSUME IInv, [Next]_vars PROVE Quiet
      OBVIOUS
    <2>1. CASE sent' = sent
      BY <2>1
    <2>2. ASSUME NEW key \in Keys, Posts(key) PROVE Quiet
      BY <2>2, PostGrows DEF Posts
    <2> QED BY <2>1, <2>2, StepIs DEF Silent, Visible
  <1>2. IInv /\ [Next]_vars => [Quiet]_vars
    BY <1>1
  <1> QED BY <1>2, InvAlways, PTL DEF Spec, RecordedNoticeNeverResent

\* A reopen label leaves the pull request only in a run whose own transition, of
\* that very command, is in the stored history, announced and completed.
THEOREM LabelsConsumed == Spec => LabelRemovedOnlyWhenConsumed
  <1> DEFINE Consumed(reopen) ==
                 \E i \in DOMAIN store.review.history :
                     /\ store.review.history[i].id = active
                     /\ store.review.history[i].action = reopen
             Only == \A reopen \in labels \ labels' :
                         /\ active \in store.done
                         /\ sent[active] > 0
                         /\ Consumed(reopen)
  <1>1. IInv /\ [Next]_vars => Only
    <2> SUFFICES ASSUME IInv, [Next]_vars PROVE Only
      OBVIOUS
    <2>1. ASSUME labels \subseteq labels' PROVE Only
      BY <2>1
    <2>2. CASE Unlabel
      <3>1. /\ labels \ labels' \subseteq {event[active].action}
            /\ transition.id = active
            /\ \E i \in DOMAIN store.review.history : store.review.history[i] = transition
            /\ active \in store.done
        BY <2>2 DEF Unlabel, IInv, ReviewOK, NoticeSteps
      <3>2. PICK i \in DOMAIN store.review.history : store.review.history[i] = transition
        BY <3>1
      <3>3. store.review.history[i].action = event[active].action
        BY <3>1, <3>2 DEF IInv, StoreOK, RecordsOK
      <3>4. active \in Keys
        BY <2>2, ActiveIs DEF Unlabel, Keys
      <3>5. sent[active] > 0
        BY <3>1, <3>4 DEF IInv, StoreOK, KeysOK
      <3> QED BY <3>1, <3>2, <3>3, <3>5
    <2>3. CASE \E r \in EventIds : PullRequestActivity(r) \/ Rerun(r)
      BY <2>1, <2>3 DEF PullRequestActivity, OpenPullRequest, Push, Review, AddLabel, Merge,
         Comment, Rerun, github
    <2>4. CASE Start \/ RunFails \/ Settle \/ UNCHANGED vars \/ \E key \in IntakeKeys : IntakeSave(key)
      BY <2>1, <2>4 DEF Start, RunFails, Settle, IntakeSave, vars, github
    <2>5. CASE RunStep /\ ~Unlabel
      <3>1. UNCHANGED labels
        BY <2>5 DEF RunStep, Ignore, FetchPullRequest, MatchState, SaveMatch, AnnounceOpen,
           SendOpen, CompleteOpen, Authorize, FindState, SaveTransition, CheckNotice, SendNotice,
           CompleteNotice, ReloadNotice, RetryNotice, FindNotice, github
      <3> QED BY <2>1, <3>1
    <2> QED BY <2>2, <2>3, <2>4, <2>5 DEF Next
  <1>2. IInv /\ [Next]_vars => [Only]_vars
    BY <1>1
  <1> QED BY <1>2, InvAlways, PTL DEF Spec, LabelRemovedOnlyWhenConsumed

-----------------------------------------------------------------------------
(* The refinement.                                                          *)

LEMMA ReceiverIsProved == Spec => Proved!Spec
  <1>1. Init => Proved!Init
    <2> SUFFICES ASSUME Init PROVE Proved!Init
      OBVIOUS
    <2>1. store.review = InitialDocument /\ \A key \in Keys : sent[key] = 0
      BY DEF Init, InitialStore
    <2>2. {key \in Keys : sent[key] > 0} = {}
      BY <2>1
    <2> QED BY <2>1, <2>2, SameTerms DEF Proved!Init
  <1>2. IInv /\ [Next]_vars => [Proved!Next]_(Proved!vars)
    <2> SUFFICES ASSUME IInv, [Next]_vars PROVE [Proved!Next]_(Proved!vars)
      OBVIOUS
    <2> DEFINE delivered == {key \in Keys : sent[key] > 0}
    <2>1. ASSUME UNCHANGED sent PROVE delivered' = delivered
      BY <2>1
    <2>2. CASE Silent
      BY <2>1, <2>2 DEF Silent, Proved!vars
    <2>3. ASSUME NEW commit \in Commits, UNCHANGED sent, Correlates(commit)
          PROVE  Proved!Correlate(commit)
      BY <2>1, <2>3, SameRules DEF Correlates, Proved!Correlate
    <2>4. ASSUME NEW e \in Events, UNCHANGED sent, Applies(e) PROVE Proved!Accept(e)
      BY <2>1, <2>4, SameRules DEF Applies, Proved!Accept
    <2>5. ASSUME NEW key \in Keys, UNCHANGED store, Posts(key) PROVE Proved!Deliver(key)
      <3>1. Proved!Announceable(key)
        BY <2>5, SameRules DEF Posts, Proved!Announceable
      <3>2. delivered' = delivered \cup {key}
        <4>1. /\ sent'[key] > 0
              /\ \A other \in Keys : other # key => sent'[other] = sent[other]
          BY <2>5, PostGrows DEF Posts
        <4> QED BY <4>1
      <3> QED BY <2>5, <3>1, <3>2 DEF Proved!Deliver
    <2> QED BY <2>2, <2>3, <2>4, <2>5, StepIs, SameTerms DEF Visible, Proved!Next, Keys
  <1> QED BY <1>1, <1>2, InvAlways, PTL DEF Spec, Proved!Spec

\* Whatever runs interleave, die, are rerun or read old content, the stored
\* document takes the atomic steps of ReviewWorkflow only: every accepted event is
\* applied once to the document it was checked against, and every message posted
\* is about something that was stored before.
THEOREM ReceiverRefines == Spec => ImplementsWorkflow
  <1>1. Proved!Init => Workflow!Init
    BY DEF Workflow!Planned, Workflow!InitialDocument, Workflow!Init,
           Proved!Planned, Proved!InitialDocument, Proved!Init
  <1>2. [Proved!Next]_(Proved!vars) => [Workflow!Next]_(Workflow!vars)
    BY DEF Workflow!Planned, Workflow!Drafting, Workflow!TechnicalReview,
           Workflow!ContentReview, Workflow!EditorialReview,
           Workflow!Publishing, Workflow!Complete, Workflow!Approved,
           Workflow!ChangesRequested, Workflow!RevisionSubmitted,
           Workflow!TechnicalReopened, Workflow!ContentReopened,
           Workflow!Merged, Workflow!ReviewActions, Workflow!Reopens,
           Workflow!Events, Workflow!InitialDocument,
           Workflow!CorrelatedDocument, Workflow!RecordedIds,
           Workflow!ApprovesFrom, Workflow!ContentSealed,
           Workflow!CurrentCommit, Workflow!CanApprove,
           Workflow!CanDraft, Workflow!CanResume, Workflow!CanReopen,
           Workflow!CanMerge, Workflow!Accepts, Workflow!ApprovedStage,
           Workflow!NextStage, Workflow!ResumeStage,
           Workflow!TransitionOf, Workflow!AppliedDocument,
           Workflow!Init, Workflow!Correlate, Workflow!Accept,
           Workflow!Announceable, Workflow!Deliver, Workflow!Next,
           Workflow!vars, Proved!Planned, Proved!Drafting,
           Proved!TechnicalReview, Proved!ContentReview,
           Proved!EditorialReview, Proved!Publishing, Proved!Complete,
           Proved!Approved, Proved!ChangesRequested,
           Proved!RevisionSubmitted, Proved!TechnicalReopened,
           Proved!ContentReopened, Proved!Merged, Proved!ReviewActions,
           Proved!Reopens, Proved!Events, Proved!InitialDocument,
           Proved!CorrelatedDocument, Proved!RecordedIds,
           Proved!ApprovesFrom, Proved!ContentSealed,
           Proved!CurrentCommit, Proved!CanApprove, Proved!CanDraft,
           Proved!CanResume, Proved!CanReopen, Proved!CanMerge,
           Proved!Accepts, Proved!ApprovedStage, Proved!NextStage,
           Proved!ResumeStage, Proved!TransitionOf,
           Proved!AppliedDocument, Proved!Init, Proved!Correlate,
           Proved!Accept, Proved!Announceable, Proved!Deliver,
           Proved!Next, Proved!vars
  <1> QED BY <1>1, <1>2, ReceiverIsProved, PTL DEF ImplementsWorkflow, Workflow!Spec, Proved!Spec

\* The stage gates hold of the document that concurrent, failing and rerun jobs
\* leave on the state branch: no submission passes a review stage without an
\* approval that is still in force.
THEOREM StoredGatesHold == Spec => [](Proved!TechnicalGate /\ Proved!PublicationGate)
  <1>1. Proved!Spec => [](Proved!TechnicalGate /\ Proved!PublicationGate)
    BY Proved!GatesHold, NoneAssumption, ReceiverAssumption, SameTerms
  <1> QED BY <1>1, ReceiverIsProved, PTL

\* The audit history that those jobs leave records each run's event once, as one
\* unbroken walk to the current stage, with every decision on the commit before it.
THEOREM StoredHistoryHolds ==
  Spec => [](Proved!EventsRecordedOnce /\ Proved!HistoryIsAWalk /\ Proved!DecisionsKeepTheCommit)
  <1>1. Proved!Spec => []Proved!EventsRecordedOnce
    BY Proved!RecordedOnce, NoneAssumption, ReceiverAssumption, SameTerms
  <1>2. Proved!Spec => [](Proved!HistoryIsAWalk /\ Proved!DecisionsKeepTheCommit)
    BY Proved!WalkHolds, NoneAssumption, ReceiverAssumption, SameTerms
  <1> QED BY <1>1, <1>2, ReceiverIsProved, PTL

-----------------------------------------------------------------------------
(* What holds only while reads are current.                                 *)

\* The steps that may end a run with success.
Reports == Ignore \/ AnnounceOpen \/ CompleteOpen \/ Unlabel

LEMMA RunStepReports ==
  ASSUME IInv, RunStep
  PROVE  /\ EventsStay /\ UNCHANGED <<event, failures>> /\ active \in EventIds
         /\ \A r \in EventIds : status'[r] = "succeeded" =>
                status[r] = "succeeded" \/ (r = active /\ Reports)
  <1>1. pc # "idle" /\ UNCHANGED <<event, failures>>
    BY DEF RunStep, Ignore, FetchPullRequest, MatchState, SaveMatch, AnnounceOpen, SendOpen,
       CompleteOpen, Authorize, FindState, SaveTransition, CheckNotice, SendNotice,
       CompleteNotice, ReloadNotice, RetryNotice, FindNotice, Unlabel, github
  <1>2. active \in EventIds /\ status[active] = "running" /\ status \in [EventIds -> RunStates]
    BY <1>1, ActiveIs DEF IInv, TypeOK
  <1>3. \/ status' = status
        \/ status' = [status EXCEPT ![active] = "failed"]
        \/ status' = [status EXCEPT ![active] = "succeeded"] /\ Reports
    BY DEF RunStep, Reports, Ignore, FetchPullRequest, MatchState, SaveMatch, AnnounceOpen,
       SendOpen, CompleteOpen, Authorize, FindState, SaveTransition, CheckNotice, SendNotice,
       CompleteNotice, ReloadNotice, RetryNotice, FindNotice, Unlabel, End, Goto, group
  <1> QED BY <1>1, <1>2, <1>3 DEF EventsStay, Happened

LEMMA StepReports ==
  ASSUME IInv, [Next]_vars
  PROVE  /\ EventsStay
         /\ \A r \in EventIds : status'[r] = "succeeded" =>
                status[r] = "succeeded" \/ (r = active /\ Reports)
  <1>1. status \in [EventIds -> RunStates] /\ event \in [EventIds -> Payloads \cup {None}]
    BY DEF IInv, TypeOK
  <1>2. ASSUME NEW r \in EventIds, PullRequestActivity(r)
        PROVE  EventsStay /\ \A s \in EventIds : status'[s] = "succeeded" => status[s] = "succeeded"
    <2>1. status[r] = "unused" /\ Enqueue(r) /\ UNCHANGED pc
      BY <1>2 DEF PullRequestActivity, OpenPullRequest, Push, Review, AddLabel, Merge, Comment, Emit
    <2>2. \A s \in EventIds : s # r => event'[s] = event[s]
      BY <1>1, <1>2
         DEF PullRequestActivity, OpenPullRequest, Push, Review, AddLabel, Merge, Comment, Emit
    <2> QED BY <2>1, <2>2, EnqueueIs DEF EventsStay, Happened
  <1>3. ASSUME NEW r \in EventIds, Rerun(r)
        PROVE  EventsStay /\ \A s \in EventIds : status'[s] = "succeeded" => status[s] = "succeeded"
    BY <1>3, EnqueueIs DEF Rerun, EventsStay, Happened, github
  <1>4. CASE Start
    BY <1>1, <1>4 DEF Start, EventsStay, Happened, github, IInv, TypeOK
  <1>5. CASE RunFails
    BY <1>1, <1>5, ActiveIs DEF RunFails, End, EventsStay, Happened, github
  <1>6. CASE Settle \/ UNCHANGED vars \/ \E key \in IntakeKeys : IntakeSave(key)
    BY <1>6 DEF Settle, IntakeSave, EventsStay, Happened, vars, github, group
  <1> QED BY <1>2, <1>3, <1>4, <1>5, <1>6, RunStepReports DEF Next

LEMMA StepSends == ASSUME IInv, [Next]_vars PROVE SentGrows
  <1>1. ASSUME NEW key \in Keys, Posts(key) PROVE SentGrows
    BY <1>1, PostGrows DEF Posts
  <1> QED BY <1>1, SentStays, StepIs DEF Silent, Visible

LEMMA OpenStep ==
  ASSUME ~StaleReads, IInv, OpenSuccessMeansAnnounced, [Next]_vars
  PROVE  OpenSuccessMeansAnnounced'
  <1> SUFFICES ASSUME NEW r \in EventIds, status'[r] = "succeeded",
                      event'[r].action = PullRequestOpened
               PROVE  store'.review.correlated /\ sent'[OpenKey] > 0
    BY DEF OpenSuccessMeansAnnounced
  <1>1. SUFFICES store.review.correlated /\ sent[OpenKey] > 0
    BY <1>1, StepIs, StepSends DEF StoreGrows, Succeeds, SentGrows, Keys
  <1>2. CASE status[r] = "succeeded"
    BY <1>2, StepReports DEF EventsStay, Happened, OpenSuccessMeansAnnounced
  <1>3. ASSUME r = active, Reports PROVE store.review.correlated /\ sent[OpenKey] > 0
    <2>1. event[active].action = PullRequestOpened
      BY <1>3 DEF Reports, Ignore, AnnounceOpen, CompleteOpen, Unlabel, github
    <2>2. CASE Ignore \/ Unlabel
      BY <2>1, <2>2, OpenedIsNoReview DEF Ignore, Unlabel, IInv, ReviewOK, ReviewSteps,
         NoticeSteps, PullRequestOpened, Unrelated
    <2>3. CASE CompleteOpen
      BY <2>3 DEF CompleteOpen, IInv, OpenOK
    <2>4. CASE AnnounceOpen
      <3>1. store.review.correlated /\ active \in EventIds /\ status \in [EventIds -> RunStates]
        BY <2>4, ActiveIs DEF AnnounceOpen, IInv, OpenOK, TypeOK
      <3>2. \A s \in Readable : s = store
        BY ReadableIs
      <3>3. status[active] = "running"
        BY <2>4, ActiveIs DEF AnnounceOpen
      <3>4. OpenKey \in store.done
        BY <1>3, <2>4, <3>1, <3>2, <3>3 DEF AnnounceOpen, End, Goto, group
      <3> QED BY <3>1, <3>4 DEF IInv, StoreOK, KeysOK, Keys
    <2> QED BY <1>3, <2>2, <2>3, <2>4 DEF Reports
  <1> QED BY <1>2, <1>3, StepReports

\* While content reads return the last write, an opened run that reports success
\* has correlated the pull request and announced it: AnnounceOpen's quiet return on
\* an uncorrelated state is then never taken.
THEOREM OpenIsAnnounced ==
  ASSUME ~StaleReads
  PROVE  Spec => []OpenSuccessMeansAnnounced
  <1>1. Init => OpenSuccessMeansAnnounced
    BY DEF Init, OpenSuccessMeansAnnounced
  <1>2. IInv /\ OpenSuccessMeansAnnounced /\ [Next]_vars => OpenSuccessMeansAnnounced'
    BY OpenStep
  <1> QED BY <1>1, <1>2, InvAlways, PTL DEF Spec

\* A review document with records has been correlated.
RecordsCorrelated == store.review.history # <<>> => store.review.correlated

LEMMA RecordsCorrelatedAlways == Spec => []RecordsCorrelated
  <1>1. Proved!Spec => []Proved!UncorrelatedIsInitial
    BY Proved!CorrelationStartsFresh, NoneAssumption, ReceiverAssumption, SameTerms
  <1>2. Proved!UncorrelatedIsInitial => RecordsCorrelated
    BY SameTerms DEF Proved!UncorrelatedIsInitial, RecordsCorrelated, InitialDocument
  <1> QED BY <1>1, <1>2, ReceiverIsProved, PTL

\* The steps of a run around its message.
NoticeRun == CheckNotice \/ SendNotice \/ CompleteNotice \/ ReloadNotice \/ RetryNotice

\* The other steps of a run leave the review messages alone.
LEMMA OtherStepsQuiet ==
  ASSUME IInv, RunStep, ~NoticeRun
  PROVE  /\ pc \notin {"send", "complete", "reload", "retry"}
         /\ pc' \notin {"send", "complete", "reload", "retry"}
         /\ UNCHANGED failures /\ \A r \in EventIds : sent'[r] = sent[r]
  <1>1. CASE SendOpen
    <2>1. \A r \in EventIds : r \in Keys /\ r # OpenKey
      BY ReceiverAssumption DEF Keys
    <2>2. OpenKey \in Keys
      BY DEF Keys
    <2> QED BY <1>1, <2>1, <2>2, PostGrows DEF SendOpen, Goto
  <1>2. CASE ~SendOpen
    BY <1>2 DEF RunStep, NoticeRun, Ignore, FetchPullRequest, MatchState, SaveMatch, AnnounceOpen,
       CompleteOpen, Authorize, FindState, SaveTransition, Unlabel, End, Goto
  <1> QED BY <1>1, <1>2

\* With current reads a run finds its transition, and its second save succeeds.
LEMMA TransitionFound ==
  ASSUME ~StaleReads, IInv, RecordsCorrelated, pc \in NoticeSteps, NEW s \in Readable
  PROVE  s = store /\ HasTransition(s)
  <1>1. s = store
    BY ReadableIs
  <1>2. PICK i \in DOMAIN store.review.history : store.review.history[i] = transition
    BY DEF IInv, ReviewOK
  <1>3. store.review.history # <<>>
    BY <1>2
  <1> QED BY <1>1, <1>2, <1>3 DEF HasTransition, RecordsCorrelated

LEMMA NoticeRunKeeps ==
  ASSUME ~StaleReads, IInv, RecordsCorrelated, NoticeOK, NoticeRun
  PROVE  NoticeOK'
  <1>1. stale = store /\ store \in Stored /\ sent \in [Keys -> 0 .. MaxSent]
    BY DEF IInv, StoreOK, TypeOK
  <1>2. pc \in NoticeSteps /\ pc # "idle" /\ active \in EventIds /\ EventIds \subseteq Keys
    BY ActiveIs DEF NoticeRun, CheckNotice, ReloadNotice, FindNotice, SendNotice, CompleteNotice,
       RetryNotice, NoticeSteps, Keys
  <1>3. ASSUME NEW step, NEW next, FindNotice(step, next),
               <<step, next>> \in {<<"notice", "send">>, <<"reload", "retry">>}
        PROVE  NoticeOK'
    <2>1. /\ pc = step /\ UNCHANGED <<storage, sent>>
          /\ \/ active \notin store.done /\ loaded' = store /\ Goto(next)
             \/ active \in store.done /\ Goto("unlabel")
      BY <1>2, <1>3, TransitionFound DEF FindNotice
    <2>2. step = "notice" => \A r \in EventIds : sent[r] > 0 => r \in store.done
      BY <2>1 DEF NoticeOK
    <2> QED BY <1>3, <2>1, <2>2 DEF NoticeOK, OtherSaveSeen, Goto, group, storage
  <1>4. CASE SendNotice
    <2>1. /\ pc = "send" /\ pc' = "complete" /\ Post(active)
          /\ UNCHANGED <<storage, group, locals>>
      BY <1>4 DEF SendNotice, Goto
    <2>2. sent[active] = 0
      BY <1>1, <1>2, <2>1 DEF NoticeOK, IInv, ReviewOK
    <2>3. /\ sent'[active] <= 1
          /\ \A r \in EventIds : r # active => sent'[r] = sent[r]
      BY <1>1, <1>2, <2>1, <2>2, ReceiverAssumption DEF Post
    <2> QED BY <2>1, <2>3 DEF NoticeOK, OtherSaveSeen, storage, group, locals
  <1>5. CASE CompleteNotice \/ RetryNotice
    <2>1. pc \in {"complete", "retry"} /\ UNCHANGED sent
      BY <1>5 DEF CompleteNotice, RetryNotice
    <2>2. CASE SavesCompletion /\ Goto("unlabel")
      <3>1. loaded = store /\ Write([store EXCEPT !.done = @ \cup {active}])
        BY <2>2, SavesIs DEF SavesCompletion
      <3>2. store'.done = store.done \cup {active}
        BY <1>1, <3>1, WriteIs
      <3> QED BY <2>1, <2>2, <3>2 DEF NoticeOK, Goto, group
    <2>3. CASE SaveConflicts
      <3>1. loaded # store /\ UNCHANGED store
        BY <1>1, <2>3 DEF SaveConflicts, storage
      <3>2. pc = "complete" /\ OtherSaveSeen
        BY <2>1, <3>1 DEF NoticeOK
      <3>3. pc' = "reload" /\ active' = active
        BY <1>5, <2>3, <3>1, <3>2, SavesIs DEF CompleteNotice, RetryNotice, SavesCompletion, Goto, group
      <3> QED BY <2>1, <3>1, <3>2, <3>3 DEF NoticeOK, OtherSaveSeen
    <2> QED BY <1>5, <2>2, <2>3 DEF CompleteNotice, RetryNotice
  <1> QED BY <1>3, <1>4, <1>5 DEF NoticeRun, CheckNotice, ReloadNotice

LEMMA NoticeStep ==
  ASSUME ~StaleReads, \A k, l \in IntakeKeys : k = l,
         IInv, RecordsCorrelated, failures = 0 => NoticeOK, [Next]_vars
  PROVE  failures' = 0 => NoticeOK'
  <1>1. failures \in Nat
    BY DEF IInv, TypeOK
  <1>2. CASE RunFails
    BY <1>1, <1>2 DEF RunFails
  <1>3. CASE RunStep
    <2>1. CASE NoticeRun
      <3>1. UNCHANGED failures
        BY <2>1 DEF NoticeRun, CheckNotice, ReloadNotice, FindNotice, SendNotice, CompleteNotice,
           RetryNotice
      <3> QED BY <2>1, <3>1, NoticeRunKeeps
    <2>2. CASE ~NoticeRun
      <3>1. store.done \subseteq store'.done
        BY <1>3, RunStepIs DEF StoreGrows, Succeeds
      <3> QED BY <1>3, <2>2, <3>1, OtherStepsQuiet DEF NoticeOK
    <2> QED BY <2>1, <2>2
  <1>4. CASE Start
    <2>1. pc = "idle" /\ pc' \in {"fetch", "ignore", "authorize", "find"}
          /\ UNCHANGED <<store, sent, failures>>
      BY <1>4 DEF Start, FirstStep, storage, IInv, GroupOK
    <2> QED BY <2>1 DEF NoticeOK
  <1>5. ASSUME NEW key \in IntakeKeys, IntakeSave(key) PROVE failures' = 0 => NoticeOK'
    <2>1. /\ store'.done = store.done \cup {key} /\ key \notin store.done
          /\ UNCHANGED <<active, pc, loaded, sent, failures>>
      <3>1. /\ Write([store EXCEPT !.done = @ \cup {key}]) /\ key \notin store.done
            /\ UNCHANGED <<active, pc, loaded, sent, failures>>
        BY <1>5 DEF IntakeSave, group, locals
      <3>2. store \in Stored
        BY DEF IInv, StoreOK
      <3>3. store'.done = store.done \cup {key}
        BY <3>1, <3>2, WriteIs
      <3> QED BY <3>1, <3>3
    <2>2. ~OtherSaveSeen /\ OtherSaveSeen'
      BY <2>1 DEF OtherSaveSeen
    <2> QED BY <2>1, <2>2 DEF NoticeOK
  <1>6. ASSUME UNCHANGED <<store, active, pc, loaded, sent, failures>>
        PROVE  failures' = 0 => NoticeOK'
    BY <1>6 DEF NoticeOK, OtherSaveSeen
  <1>7. CASE \E r \in EventIds : PullRequestActivity(r) \/ Rerun(r)
    BY <1>6, <1>7 DEF PullRequestActivity, OpenPullRequest, Push, Review, AddLabel, Merge, Comment,
       Emit, Rerun, Enqueue, storage, locals
  <1>8. CASE Settle \/ UNCHANGED vars
    BY <1>6, <1>8 DEF Settle, vars, storage, group, locals
  <1> QED BY <1>2, <1>3, <1>4, <1>5, <1>7, <1>8 DEF Next

\* Losing the completion save to an intake run's does not post a review message
\* twice: with current reads and one such save, SaveCompletion's second attempt
\* succeeds, and every later rerun is quiet, as long as no run dies in between.
THEOREM NoticeIsOnce ==
  ASSUME ~StaleReads, \A k, l \in IntakeKeys : k = l
  PROVE  Spec => []ReviewNoticeOnce
  <1> DEFINE Held == failures = 0 => NoticeOK
  <1>1. Init => Held
    <2> SUFFICES ASSUME Init PROVE NoticeOK
      OBVIOUS
    <2>1. \A r \in EventIds : sent[r] = 0
      BY DEF Init, Keys
    <2> QED BY <2>1 DEF Init, NoticeOK
  <1>2. IInv /\ RecordsCorrelated /\ Held /\ [Next]_vars => Held'
    BY NoticeStep
  <1>3. Held => ReviewNoticeOnce
    BY DEF NoticeOK, ReviewNoticeOnce
  <1> HIDE DEF Held
  <1> QED BY <1>1, <1>2, <1>3, InvAlways, RecordsCorrelatedAlways, PTL DEF Spec

=============================================================================
