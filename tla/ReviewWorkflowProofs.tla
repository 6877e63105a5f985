-------------------------- MODULE ReviewWorkflowProofs --------------------------
(***************************************************************************)
(* Proofs about ReviewWorkflow, for any set of events and of commits.  The *)
(* documents of Correlate and Accept are built by operators of ReviewRules *)
(* on one record, so the work is in lemmas about those operators; the      *)
(* invariance proofs then only split Next.                                 *)
(***************************************************************************)
EXTENDS ReviewWorkflow, SequenceTheorems, TLAPS

-----------------------------------------------------------------------------
(* The rules produce documents and records of the declared shapes.           *)

\* The stage an accepted event leads to, and the one it remembers.
LEMMA NextStageType ==
    ASSUME NEW d \in Documents, NEW e \in Events, Accepts(d, e)
    PROVE  /\ NextStage(d, e.action) \in Stages
           /\ ResumeStage(d, e.action) \in {TechnicalReview, ContentReview, None}
  BY DEF Documents, Events, ReviewActions, Reopens, Accepts, CanApprove, CanDraft, CanResume,
         NextStage, ApprovedStage, ResumeStage, Stages, Planned, Drafting, TechnicalReview,
         ContentReview, EditorialReview, Publishing, Complete, Approved,
         ChangesRequested, RevisionSubmitted, TechnicalReopened,
         ContentReopened, Merged

\* What appending a record does to an audit history.
LEMMA AppendRecord ==
    ASSUME NEW h \in Seq(Transitions), NEW t \in Transitions
    PROVE  /\ Len(h) \in Nat
           /\ DOMAIN h = 1 .. Len(h)
           /\ Append(h, t) \in Seq(Transitions)
           /\ Append(h, t) # <<>>
           /\ Len(Append(h, t)) = Len(h) + 1
           /\ DOMAIN Append(h, t) = 1 .. Len(h) + 1
           /\ \A i \in 1 .. Len(h) : Append(h, t)[i] = h[i]
           /\ Append(h, t)[Len(h) + 1] = t
  <1>1. /\ Append(h, t) \in Seq(Transitions)
        /\ Append(h, t) # <<>>
        /\ Len(Append(h, t)) = Len(h) + 1
        /\ \A i \in 1 .. Len(h) : Append(h, t)[i] = h[i]
        /\ Append(h, t)[Len(h) + 1] = t
    BY AppendProperties
  <1>2. Len(h) \in Nat /\ DOMAIN h = 1 .. Len(h)
    BY LenProperties
  <1>3. DOMAIN Append(h, t) = 1 .. Len(Append(h, t))
    BY <1>1, LenProperties
  <1> QED
    BY <1>1, <1>2, <1>3

\* An accepted event leaves a well-formed document, whose new record is one step
\* from the stage before to the stage after.
LEMMA AppliedDocumentType ==
    ASSUME NEW d \in Documents, NEW e \in Events, Accepts(d, e)
    PROVE  /\ TransitionOf(d, e) \in Transitions
           /\ AppliedDocument(d, e) \in Documents
  <1>1. TransitionOf(d, e) \in Transitions
    BY NextStageType DEF TransitionOf, Transitions, Events, Documents
  <1>2. Append(d.history, TransitionOf(d, e)) \in Seq(Transitions)
    BY <1>1, AppendRecord DEF Documents
  <1> QED
    BY <1>1, <1>2, NextStageType DEF AppliedDocument, Documents, Events

-----------------------------------------------------------------------------
(* Type correctness.                                                        *)

\* Correlation starts from the document intake left.
UncorrelatedIsInitial == ~doc.correlated => doc = InitialDocument

LEMMA InitialDocumentType == InitialDocument \in Documents
  BY EmptySeq DEF InitialDocument, Documents, Stages

LEMMA CorrelatedDocumentType ==
    ASSUME NEW d \in Documents, NEW c \in Commits
    PROVE  CorrelatedDocument(d, c) \in Documents
  BY DEF CorrelatedDocument, Documents, Stages

\* Every reachable document and announcement is well formed.
THEOREM TypeCorrect == Spec => []TypeOK
  <1>1. Init => TypeOK
    BY InitialDocumentType DEF Init, TypeOK
  <1>2. TypeOK /\ [Next]_vars => TypeOK'
    <2> SUFFICES ASSUME TypeOK, [Next]_vars
                 PROVE  TypeOK'
      OBVIOUS
    <2>1. ASSUME NEW c \in Commits, Correlate(c)
          PROVE  TypeOK'
      BY <2>1, CorrelatedDocumentType DEF TypeOK, Correlate
    <2>2. ASSUME NEW e \in Events, Accept(e)
          PROVE  TypeOK'
      BY <2>2, AppliedDocumentType DEF TypeOK, Accept
    <2>3. ASSUME NEW key \in EventIds \cup {OpenKey}, Deliver(key)
          PROVE  TypeOK'
      BY <2>3 DEF TypeOK, Deliver
    <2>4. CASE UNCHANGED vars
      BY <2>4 DEF TypeOK, vars
    <2> QED
      BY <2>1, <2>2, <2>3, <2>4 DEF Next
  <1> QED
    BY <1>1, <1>2, PTL DEF Spec

\* Until it is correlated, the document is the one intake left.
LEMMA CorrelationStartsFresh == Spec => []UncorrelatedIsInitial
  <1>1. Init => UncorrelatedIsInitial
    BY DEF Init, UncorrelatedIsInitial
  <1>2. TypeOK /\ UncorrelatedIsInitial /\ [Next]_vars => UncorrelatedIsInitial'
    <2> SUFFICES ASSUME TypeOK, UncorrelatedIsInitial, [Next]_vars
                 PROVE  UncorrelatedIsInitial'
      OBVIOUS
    <2>1. ASSUME NEW c \in Commits, Correlate(c)
          PROVE  UncorrelatedIsInitial'
      BY <2>1 DEF UncorrelatedIsInitial, Correlate, CorrelatedDocument, TypeOK, Documents
    <2>2. ASSUME NEW e \in Events, Accept(e)
          PROVE  UncorrelatedIsInitial'
      <3>1. doc'.correlated
        BY <2>2, Zenon DEF Accept, AppliedDocument
      <3> QED
        BY <3>1 DEF UncorrelatedIsInitial
    <2>3. CASE UNCHANGED doc
      BY <2>3 DEF UncorrelatedIsInitial
    <2> QED
      BY <2>1, <2>2, <2>3 DEF Next, Deliver, vars
  <1> QED
    BY <1>1, <1>2, TypeCorrect, PTL DEF Spec

-----------------------------------------------------------------------------
(* Approvals in force.                                                      *)

\* Only a reopen withdraws an approval.
LEMMA InForceKept ==
    ASSUME NEW h \in Seq(Transitions), NEW t \in Transitions,
           NEW stage, NEW reopens,
           InForce(h, stage, reopens), t.action \notin reopens
    PROVE  InForce(Append(h, t), stage, reopens)
  <1> DEFINE g == Append(h, t)
  <1>1. PICK i \in DOMAIN h :
            /\ ApprovesFrom(h[i], stage)
            /\ \A j \in DOMAIN h : j > i => h[j].action \notin reopens
    BY DEF InForce
  <1>2. /\ Len(h) \in Nat
        /\ DOMAIN h = 1 .. Len(h)
        /\ DOMAIN g = 1 .. Len(h) + 1
        /\ \A j \in 1 .. Len(h) : g[j] = h[j]
        /\ g[Len(h) + 1] = t
    BY AppendRecord
  <1> HIDE DEF g
  <1>3. i \in DOMAIN g /\ ApprovesFrom(g[i], stage)
    BY <1>1, <1>2
  <1>4. ASSUME NEW j \in DOMAIN g, j > i
        PROVE  g[j].action \notin reopens
    <2>1. CASE j \in DOMAIN h
      BY <1>1, <1>2, <1>4, <2>1
    <2>2. CASE j = Len(h) + 1
      BY <1>2, <2>2
    <2> QED
      BY <1>2, <2>1, <2>2
  <1>5. InForce(g, stage, reopens)
    BY <1>3, <1>4 DEF InForce
  <1> QED
    BY <1>5 DEF g

\* The approval just given is in force.
LEMMA InForceGained ==
    ASSUME NEW h \in Seq(Transitions), NEW t \in Transitions,
           NEW stage, NEW reopens, ApprovesFrom(t, stage)
    PROVE  InForce(Append(h, t), stage, reopens)
  <1> DEFINE g == Append(h, t)
  <1>1. /\ Len(h) \in Nat
        /\ DOMAIN g = 1 .. Len(h) + 1
        /\ g[Len(h) + 1] = t
    BY AppendRecord
  <1> HIDE DEF g
  <1>2. \A j \in DOMAIN g : ~(j > Len(h) + 1)
    BY <1>1
  <1>3. Len(h) + 1 \in DOMAIN g
    BY <1>1
  <1>4. InForce(g, stage, reopens)
    BY <1>1, <1>2, <1>3 DEF InForce
  <1> QED
    BY <1>4 DEF g

\* An accepted event keeps both gates shut: this is where the stage rules
\* themselves are used.
LEMMA AcceptKeepsGates ==
    ASSUME TypeOK, TechnicalGate, PublicationGate,
           NEW e \in Events, Accept(e)
    PROVE  TechnicalGate' /\ PublicationGate'
  <1> DEFINE t == TransitionOf(doc, e)
             Technical(h) == InForce(h, TechnicalReview, {TechnicalReopened})
             Content(h)   == InForce(h, ContentReview, {ContentReopened})
             Editorial(h) == InForce(h, EditorialReview, Reopens)
  <1>1. /\ doc \in Documents /\ doc.history \in Seq(Transitions)
        /\ t \in Transitions
        /\ Accepts(doc, e)
        /\ doc'.stage = NextStage(doc, e.action)
        /\ doc'.resume = ResumeStage(doc, e.action)
        /\ doc'.history = Append(doc.history, t)
    BY AppliedDocumentType DEF TypeOK, Accept, AppliedDocument, Documents
  <1>2. t.action = e.action /\ t.from = doc.stage
    BY DEF TransitionOf
  <1> HIDE DEF t
  <1>3. /\ t.action # TechnicalReopened /\ Technical(doc.history) => Technical(doc'.history)
        /\ t.action # ContentReopened /\ Content(doc.history) => Content(doc'.history)
        /\ t.action \notin Reopens /\ Editorial(doc.history) => Editorial(doc'.history)
    BY <1>1, InForceKept
  <1>4. t.action = Approved =>
            /\ doc.stage = TechnicalReview => Technical(doc'.history)
            /\ doc.stage = ContentReview => Content(doc'.history)
            /\ doc.stage = EditorialReview => Editorial(doc'.history)
    BY <1>1, <1>2, InForceGained DEF ApprovesFrom
  <1>5. ContentSealed(doc.history) => Content(doc.history)
    BY DEF ContentSealed, InForce
  <1>6. /\ \/ doc.stage \in {ContentReview, EditorialReview, Publishing, Complete}
           \/ doc.stage = Drafting /\ doc.resume = ContentReview
           => Technical(doc.history)
        /\ doc.stage \in {EditorialReview, Publishing, Complete} => Content(doc.history)
        /\ doc.stage \in {Publishing, Complete} => Editorial(doc.history)
    BY DEF TechnicalGate, PublicationGate
  <1> HIDE DEF Technical, Content, Editorial
  <1> DEFINE GatesAfter ==
                /\ \/ doc'.stage \in {ContentReview, EditorialReview, Publishing, Complete}
                   \/ doc'.stage = Drafting /\ doc'.resume = ContentReview
                   => Technical(doc'.history)
                /\ doc'.stage \in {EditorialReview, Publishing, Complete}
                    => Content(doc'.history)
                /\ doc'.stage \in {Publishing, Complete} => Editorial(doc'.history)
  <1> SUFFICES GatesAfter
    BY DEF TechnicalGate, PublicationGate, Technical, Content, Editorial
  <1>7. CASE e.action = Approved
    <2>1. /\ doc.stage \in {TechnicalReview, ContentReview, EditorialReview}
          /\ doc'.stage = ApprovedStage(doc)
      BY <1>1, <1>7 DEF Accepts, CanApprove, NextStage, Approved, ChangesRequested,
                        RevisionSubmitted, Reopens, TechnicalReopened,
                        ContentReopened, Merged
    <2>2. /\ Technical(doc.history) => Technical(doc'.history)
          /\ Content(doc.history) => Content(doc'.history)
      BY <1>2, <1>3, <1>7 DEF Approved, TechnicalReopened, ContentReopened
    <2>3. CASE doc.stage = TechnicalReview
      BY <1>2, <1>4, <1>5, <1>7, <2>1, <2>2, <2>3
         DEF ApprovedStage, Planned, Drafting, TechnicalReview, ContentReview,
                 EditorialReview, Publishing, Complete
    <2>4. CASE doc.stage = ContentReview
      BY <1>2, <1>4, <1>6, <1>7, <2>1, <2>2, <2>4
         DEF ApprovedStage, Planned, Drafting, TechnicalReview, ContentReview,
                 EditorialReview, Publishing, Complete
    <2>5. CASE doc.stage = EditorialReview
      BY <1>2, <1>4, <1>6, <1>7, <2>1, <2>2, <2>5
         DEF ApprovedStage, Planned, Drafting, TechnicalReview, ContentReview,
                 EditorialReview, Publishing, Complete
    <2> QED
      BY <2>1, <2>3, <2>4, <2>5
  <1>8. CASE e.action = ChangesRequested
    <2>1. /\ doc'.stage = Drafting
          /\ doc'.resume = doc.stage
          /\ Technical(doc.history) => Technical(doc'.history)
      BY <1>1, <1>2, <1>3, <1>8 DEF NextStage, ResumeStage, Approved,
                                    ChangesRequested, TechnicalReopened
    <2> QED
      BY <1>6, <2>1 DEF Planned, Drafting, TechnicalReview, ContentReview,
                 EditorialReview, Publishing, Complete
  <1>9. CASE e.action = RevisionSubmitted
    <2>1. /\ doc.stage = Drafting /\ doc.resume \in {TechnicalReview, ContentReview}
          /\ doc'.stage = doc.resume
          /\ Technical(doc.history) => Technical(doc'.history)
      BY <1>1, <1>2, <1>3, <1>9
         DEF Documents, Accepts, CanResume, NextStage, Approved, ChangesRequested,
             RevisionSubmitted, Reopens, TechnicalReopened, ContentReopened, Merged
    <2> QED
      BY <1>6, <2>1 DEF Planned, Drafting, TechnicalReview, ContentReview,
                 EditorialReview, Publishing, Complete
  <1>10. CASE e.action = TechnicalReopened
    <2>1. doc'.stage = TechnicalReview
      BY <1>1, <1>10 DEF NextStage, Approved, ChangesRequested, RevisionSubmitted,
                         TechnicalReopened
    <2> QED
      BY <2>1 DEF Planned, Drafting, TechnicalReview, ContentReview,
                 EditorialReview, Publishing, Complete
  <1>11. CASE e.action = ContentReopened
    <2>1. /\ doc.stage \in {EditorialReview, Publishing}
          /\ doc'.stage = ContentReview
          /\ Technical(doc.history) => Technical(doc'.history)
      BY <1>1, <1>2, <1>3, <1>11
         DEF Accepts, CanReopen, NextStage, Approved, ChangesRequested,
             RevisionSubmitted, Reopens, TechnicalReopened, ContentReopened, Merged
    <2> QED
      BY <1>6, <2>1 DEF Planned, Drafting, TechnicalReview, ContentReview,
                 EditorialReview, Publishing, Complete
  <1>12. CASE e.action = Merged
    <2>1. /\ doc.stage = Publishing
          /\ doc'.stage = Complete
          /\ Technical(doc.history) => Technical(doc'.history)
          /\ Content(doc.history) => Content(doc'.history)
          /\ Editorial(doc.history) => Editorial(doc'.history)
      BY <1>1, <1>2, <1>3, <1>12
         DEF Accepts, CanMerge, NextStage, Approved, ChangesRequested,
             RevisionSubmitted, Reopens, TechnicalReopened, ContentReopened, Merged
    <2> QED
      BY <1>6, <2>1 DEF Planned, Drafting, TechnicalReview, ContentReview,
                 EditorialReview, Publishing, Complete
  <1> QED
    BY <1>7, <1>8, <1>9, <1>10, <1>11, <1>12 DEF Events, ReviewActions

\* No stage after technical review, and no publishing, without the approvals
\* that guard it, however stages are reopened, redrafted and skipped.
THEOREM GatesHold == Spec => [](TechnicalGate /\ PublicationGate)
  <1>1. Init => TechnicalGate /\ PublicationGate
    BY DEF Init, InitialDocument, TechnicalGate, PublicationGate, Planned, Drafting,
           ContentReview, EditorialReview, Publishing, Complete
  <1>2. TypeOK /\ TechnicalGate /\ PublicationGate /\ [Next]_vars
            => TechnicalGate' /\ PublicationGate'
    <2> SUFFICES ASSUME TypeOK, TechnicalGate, PublicationGate, [Next]_vars
                 PROVE  TechnicalGate' /\ PublicationGate'
      OBVIOUS
    <2>1. ASSUME NEW c \in Commits, Correlate(c)
          PROVE  TechnicalGate' /\ PublicationGate'
      BY <2>1 DEF Correlate, CorrelatedDocument, TechnicalGate, PublicationGate,
                  Drafting, TechnicalReview, ContentReview, EditorialReview,
                  Publishing, Complete
    <2>2. ASSUME NEW e \in Events, Accept(e)
          PROVE  TechnicalGate' /\ PublicationGate'
      BY <2>2, AcceptKeepsGates
    <2>3. CASE UNCHANGED doc
      BY <2>3 DEF TechnicalGate, PublicationGate
    <2> QED
      BY <2>1, <2>2, <2>3 DEF Next, Deliver, vars
  <1> QED
    BY <1>1, <1>2, TypeCorrect, PTL DEF Spec

\* In particular, nothing stands behind technical review, or is redrafted for a
\* stage behind it, without a technical approval in force.
THEOREM TechnicalGateHolds == Spec => []TechnicalGate
  BY GatesHold, PTL

-----------------------------------------------------------------------------
(* The audit history.                                                       *)

\* What Accept does to the document, in the terms the audit invariants use.
LEMMA AcceptEffect ==
    ASSUME TypeOK, NEW e \in Events, Accept(e)
    PROVE  LET h == doc.history
               n == Len(h)
               t == TransitionOf(doc, e)
           IN  /\ n \in Nat
               /\ DOMAIN h = 1 .. n
               /\ DOMAIN doc'.history = 1 .. n + 1
               /\ Len(doc'.history) = n + 1
               /\ doc'.history # <<>>
               /\ \A i \in 1 .. n : doc'.history[i] = h[i]
               /\ doc'.history[n + 1] = t
  <1>1. doc.history \in Seq(Transitions) /\ TransitionOf(doc, e) \in Transitions
    BY AppliedDocumentType DEF TypeOK, Accept, Documents
  <1>2. doc'.history = Append(doc.history, TransitionOf(doc, e))
    BY DEF Accept, AppliedDocument
  <1> QED
    BY <1>1, <1>2, AppendRecord

\* No event is recorded twice.
THEOREM RecordedOnce == Spec => []EventsRecordedOnce
  <1>1. Init => EventsRecordedOnce
    BY DEF Init, InitialDocument, EventsRecordedOnce
  <1>2. TypeOK /\ UncorrelatedIsInitial /\ EventsRecordedOnce /\ [Next]_vars
            => EventsRecordedOnce'
    <2> SUFFICES ASSUME TypeOK, UncorrelatedIsInitial, EventsRecordedOnce, [Next]_vars
                 PROVE  EventsRecordedOnce'
      OBVIOUS
    <2>1. ASSUME NEW c \in Commits, Correlate(c)
          PROVE  EventsRecordedOnce'
      BY <2>1 DEF Correlate, CorrelatedDocument, EventsRecordedOnce
    <2>2. ASSUME NEW e \in Events, Accept(e)
          PROVE  EventsRecordedOnce'
      <3> DEFINE h == doc.history
                 n == Len(h)
                 g == doc'.history
      <3>1. /\ n \in Nat
            /\ DOMAIN h = 1 .. n
            /\ DOMAIN g = 1 .. n + 1
            /\ \A i \in 1 .. n : g[i] = h[i]
            /\ g[n + 1] = TransitionOf(doc, e)
        BY <2>2, AcceptEffect
      <3>2. g[n + 1].id = e.id
        BY <3>1 DEF TransitionOf
      <3>3. \A i \in 1 .. n : h[i].id # e.id
        BY <2>2, <3>1 DEF Accept, RecordedIds
      <3>4. \A i, j \in 1 .. n : h[i].id = h[j].id => i = j
        BY <3>1 DEF EventsRecordedOnce
      <3> HIDE DEF h, n, g
      <3>5. \A i, j \in DOMAIN g : g[i].id = g[j].id => i = j
        BY <3>1, <3>2, <3>3, <3>4
      <3> QED
        BY <3>5 DEF EventsRecordedOnce, g
    <2>3. CASE UNCHANGED doc
      BY <2>3 DEF EventsRecordedOnce
    <2> QED
      BY <2>1, <2>2, <2>3 DEF Next, Deliver, vars
  <1> QED
    BY <1>1, <1>2, TypeCorrect, CorrelationStartsFresh, PTL DEF Spec

\* Before its first record, a correlated document is in technical review.
FirstStage == doc.correlated /\ doc.history = <<>> => doc.stage = TechnicalReview

\* The walk and the reviewed commit, extended by one record.
LEMMA AcceptExtendsWalk ==
    ASSUME TypeOK, FirstStage, HistoryIsAWalk, DecisionsKeepTheCommit,
           NEW e \in Events, Accept(e)
    PROVE  FirstStage' /\ HistoryIsAWalk' /\ DecisionsKeepTheCommit'
  <1> DEFINE h == doc.history
             n == Len(h)
             g == doc'.history
             t == TransitionOf(doc, e)
  <1>1. /\ n \in Nat
        /\ Len(g) = n + 1
        /\ g # <<>>
        /\ \A i \in 1 .. n : g[i] = h[i]
        /\ g[n + 1] = t
    BY AcceptEffect
  <1>2. /\ doc'.stage = t.to /\ doc'.opened = t.commit
        /\ t.from = doc.stage
        /\ t.action \in Decisions => doc.opened = t.commit
    BY DEF Accept, AppliedDocument, TransitionOf, Accepts, CurrentCommit, Decisions,
           Approved, ChangesRequested, RevisionSubmitted, Reopens,
           TechnicalReopened, ContentReopened, Merged
  <1>3. n = 0 => h = <<>> /\ doc.stage = TechnicalReview
    <2>1. h \in Seq(Transitions)
      BY DEF TypeOK, Documents
    <2>2. n = 0 => h = <<>>
      BY <2>1, EmptySeq
    <2> QED
      BY <2>2 DEF FirstStage, Accept
  <1>4. /\ n > 0 => /\ h[1].from = TechnicalReview /\ h[n].to = doc.stage
                    /\ h[n].commit = doc.opened
        /\ \A i \in 1 .. n - 1 : /\ h[i].to = h[i + 1].from
                                 /\ h[i + 1].action \in Decisions
                                    => h[i + 1].commit = h[i].commit
    <2>1. n > 0 => h # <<>>
      BY EmptySeq
    <2> QED
      BY <2>1 DEF HistoryIsAWalk, DecisionsKeepTheCommit
  <1> HIDE DEF h, n, g, t
  <1>5. g[1].from = TechnicalReview
    BY <1>1, <1>2, <1>3, <1>4
  <1>6. ASSUME NEW i \in 1 .. n
        PROVE  /\ g[i].to = g[i + 1].from
               /\ g[i + 1].action \in Decisions => g[i + 1].commit = g[i].commit
    <2>1. CASE i = n
      BY <1>1, <1>2, <1>4, <2>1
    <2>2. CASE i \in 1 .. n - 1
      BY <1>1, <1>4, <2>2
    <2> QED
      BY <1>1, <2>1, <2>2
  <1>7. FirstStage'
    BY <1>1 DEF FirstStage, g
  <1>8. HistoryIsAWalk'
    <2>1. g[Len(g)].to = doc'.stage
      BY <1>1, <1>2
    <2>2. \A i \in 1 .. Len(g) - 1 : g[i].to = g[i + 1].from
      BY <1>1, <1>6
    <2> QED
      BY <1>5, <2>1, <2>2 DEF HistoryIsAWalk, g
  <1>9. DecisionsKeepTheCommit'
    <2>1. g[Len(g)].commit = doc'.opened
      BY <1>1, <1>2
    <2>2. \A i \in 1 .. Len(g) - 1 :
              g[i + 1].action \in Decisions => g[i + 1].commit = g[i].commit
      BY <1>1, <1>6
    <2> QED
      BY <2>1, <2>2 DEF DecisionsKeepTheCommit, g
  <1> QED
    BY <1>7, <1>8, <1>9

\* The audit history is an unbroken walk from technical review to the current
\* stage, and its decisions follow the reviewed commit.
THEOREM WalkHolds == Spec => [](HistoryIsAWalk /\ DecisionsKeepTheCommit)
  <1> DEFINE IInv == FirstStage /\ HistoryIsAWalk /\ DecisionsKeepTheCommit
  <1>1. Init => IInv
    BY DEF Init, InitialDocument, FirstStage, HistoryIsAWalk, DecisionsKeepTheCommit
  <1>2. TypeOK /\ UncorrelatedIsInitial /\ IInv /\ [Next]_vars => IInv'
    <2> SUFFICES ASSUME TypeOK, UncorrelatedIsInitial, IInv, [Next]_vars
                 PROVE  IInv'
      OBVIOUS
    <2>1. ASSUME NEW c \in Commits, Correlate(c)
          PROVE  IInv'
      <3>1. doc'.history = <<>> /\ doc'.stage = TechnicalReview
        BY <2>1 DEF Correlate, CorrelatedDocument, UncorrelatedIsInitial, InitialDocument
      <3> QED
        BY <3>1 DEF FirstStage, HistoryIsAWalk, DecisionsKeepTheCommit
    <2>2. ASSUME NEW e \in Events, Accept(e)
          PROVE  IInv'
      BY <2>2, AcceptExtendsWalk
    <2>3. CASE UNCHANGED doc
      BY <2>3 DEF FirstStage, HistoryIsAWalk, DecisionsKeepTheCommit
    <2> QED
      BY <2>1, <2>2, <2>3 DEF Next, Deliver, vars
  <1> QED
    BY <1>1, <1>2, TypeCorrect, CorrelationStartsFresh, PTL DEF Spec

\* The stage to resume is remembered exactly while the contributor drafts.
THEOREM ResumeHolds == Spec => []ResumeWhileDrafting
  <1>1. Init => ResumeWhileDrafting
    BY DEF Init, InitialDocument, ResumeWhileDrafting, Planned, Drafting
  <1>2. TypeOK /\ UncorrelatedIsInitial /\ ResumeWhileDrafting /\ [Next]_vars
            => ResumeWhileDrafting'
    <2> SUFFICES ASSUME TypeOK, UncorrelatedIsInitial, ResumeWhileDrafting, [Next]_vars
                 PROVE  ResumeWhileDrafting'
      OBVIOUS
    <2>1. ASSUME NEW c \in Commits, Correlate(c)
          PROVE  ResumeWhileDrafting'
      <3>1. doc'.stage = TechnicalReview /\ doc'.resume = None
        BY <2>1 DEF Correlate, CorrelatedDocument, UncorrelatedIsInitial, InitialDocument
      <3> QED
        BY <3>1 DEF ResumeWhileDrafting, TechnicalReview, Drafting
    <2>2. ASSUME NEW e \in Events, Accept(e)
          PROVE  ResumeWhileDrafting'
      <3>1. /\ doc'.history # <<>>
            /\ doc'.history[Len(doc'.history)].from = doc.stage
        <4>1. /\ doc'.history # <<>>
              /\ doc'.history[Len(doc'.history)] = TransitionOf(doc, e)
          BY <2>2, AcceptEffect
        <4> QED
          BY <4>1 DEF TransitionOf
      <3>2. /\ doc \in Documents /\ Accepts(doc, e)
            /\ doc'.stage = NextStage(doc, e.action)
            /\ doc'.resume = ResumeStage(doc, e.action)
        BY <2>2 DEF TypeOK, Accept, AppliedDocument
      <3>3. CASE e.action = ChangesRequested
        <4>1. doc.stage \in {TechnicalReview, ContentReview}
          BY <3>2, <3>3 DEF Accepts, CanDraft, Approved, ChangesRequested,
                            RevisionSubmitted, Reopens, TechnicalReopened,
                            ContentReopened, Merged
        <4>2. doc.stage # None
          BY <4>1, NoneAssumption DEF Stages
        <4>3. doc'.stage = Drafting /\ doc'.resume = doc.stage
          BY <3>2, <3>3 DEF NextStage, ResumeStage, Approved, ChangesRequested
        <4> QED
          BY <3>1, <4>2, <4>3 DEF ResumeWhileDrafting
      <3>4. CASE e.action # ChangesRequested
        <4>1. doc'.resume = None
          BY <3>2, <3>4 DEF ResumeStage
        <4>2. doc'.stage # Drafting
          BY <3>2, <3>4
             DEF Documents, Accepts, CanResume, NextStage, ApprovedStage, Approved,
                 ChangesRequested, RevisionSubmitted, Reopens,
                 TechnicalReopened, ContentReopened, Merged, Drafting,
                 TechnicalReview, ContentReview, EditorialReview, Publishing, Complete
        <4> QED
          BY <4>1, <4>2 DEF ResumeWhileDrafting
      <3> QED
        BY <3>3, <3>4
    <2>3. CASE UNCHANGED doc
      BY <2>3 DEF ResumeWhileDrafting
    <2> QED
      BY <2>1, <2>2, <2>3 DEF Next, Deliver, vars
  <1> QED
    BY <1>1, <1>2, TypeCorrect, CorrelationStartsFresh, PTL DEF Spec

\* Completion is final and the audit history only grows.
THEOREM AuditGrows == Spec => AuditOnlyGrows
  <1> DEFINE Grows == /\ doc.stage = Complete => doc' = doc
                      /\ Len(doc.history) <= Len(doc'.history)
                      /\ \A i \in DOMAIN doc.history : doc'.history[i] = doc.history[i]
  <1>1. TypeOK /\ UncorrelatedIsInitial /\ [Next]_vars => [Grows]_doc
    <2> SUFFICES ASSUME TypeOK, UncorrelatedIsInitial, [Next]_vars, doc' # doc
                 PROVE  Grows
      OBVIOUS
    <2>1. Len(doc.history) \in Nat
      BY LenProperties DEF TypeOK, Documents
    <2>2. ASSUME NEW c \in Commits, Correlate(c)
          PROVE  Grows
      <3>1. doc.stage = Planned
        BY <2>2 DEF Correlate, UncorrelatedIsInitial, InitialDocument
      <3>2. doc'.history = doc.history
        BY <2>2 DEF Correlate, CorrelatedDocument
      <3> QED
        BY <2>1, <3>1, <3>2 DEF Planned, Complete
    <2>3. ASSUME NEW e \in Events, Accept(e)
          PROVE  Grows
      <3>1. doc.stage # Complete
        BY <2>3 DEF Accept, Accepts, CanApprove, CanDraft, CanResume, CanReopen,
                    CanMerge, Drafting, TechnicalReview, ContentReview,
                    EditorialReview, Publishing, Complete
      <3> QED
        BY <2>3, <3>1, AcceptEffect
    <2> QED
      BY <2>2, <2>3 DEF Next, Deliver, vars
  <1> QED
    BY <1>1, TypeCorrect, CorrelationStartsFresh, PTL DEF Spec, AuditOnlyGrows

=============================================================================
