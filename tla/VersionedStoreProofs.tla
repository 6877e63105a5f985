------------------------ MODULE VersionedStoreProofs ------------------------
(***************************************************************************)
(* The safety properties of VersionedStore, for any callers and actions.   *)
(* All of them rest on one fact: the stored document has the largest       *)
(* revision, so a caller whose revision matches holds the stored document. *)
(***************************************************************************)
EXTENDS VersionedStore, FiniteSetTheorems, TLAPS

\* The stored document is the newest version, and contains what any other has.
StoredIsNewest ==
    \A a \in versions :
        /\ a # None => /\ document # None
                       /\ a.revision <= document.revision
        /\ RevisionOf(a) = RevisionOf(document) => a = document
        /\ DoneIn(a) \subseteq DoneIn(document)

\* Callers work on versions, and only on versions that lack their action.
LoadedHasWork ==
    /\ loaded \in [Callers -> versions \cup {None}]
    /\ \A c \in pending : loaded[c] \in versions /\ HasWork(c, loaded[c])

DoneIsFinite == document # None => IsFiniteSet(document.done)

StoreInv ==
    /\ TypeOK
    /\ StoredIsNewest
    /\ LoadedHasWork
    /\ RevisionsAreUnique
    /\ NothingSavedIsLost
    /\ DoneIsFinite
    /\ AppliedOnce

\* What a caller saves is a document, one revision after what it loaded, with
\* one more action.
LEMMA SuccessorType ==
    ASSUME NEW c \in Callers, NEW content \in Contents
    PROVE  /\ Successor(c, content) \in Documents
           /\ Successor(c, content) # None
           /\ DoneIn(Successor(c, content)) = DoneIn(content) \cup {Adds[c]}
           /\ content # None =>
                 Successor(c, content).revision = content.revision + 1
           /\ content = None => Successor(c, content).revision = 1
<1>1. Adds[c] \in Actions
  BY DocumentAssumption
<1>2. DoneIn(content) \in SUBSET Actions
  BY DEF DoneIn, Contents, Documents
<1>3. NextRevision(RevisionOf(content)) \in Nat
  BY DocumentAssumption DEF NextRevision, RevisionOf, Contents, Documents
<1>4. Successor(c, content) \in Documents
  BY <1>1, <1>2, <1>3 DEF Successor, Documents
<1>5. Successor(c, content) # None
  BY <1>4, DocumentAssumption
<1>6. DoneIn(Successor(c, content)) = DoneIn(content) \cup {Adds[c]}
  BY <1>5 DEF Successor, DoneIn
<1>7. content # None => Successor(c, content).revision = content.revision + 1
  BY DocumentAssumption DEF Successor, NextRevision, RevisionOf, Contents, Documents
<1>8. content = None => Successor(c, content).revision = 1
  BY DEF Successor, NextRevision, RevisionOf
<1> QED
  BY <1>4, <1>5, <1>6, <1>7, <1>8

\* A save that goes through replaces the very document its caller loaded.
LEMMA SaveReplacesLoaded ==
    ASSUME StoreInv, NEW c \in Callers, NEW told \in BOOLEAN, Save(c, told)
    PROVE  /\ c \in pending
           /\ loaded[c] = document
           /\ document' = Successor(c, document)
           /\ Adds[c] \notin DoneIn(document)
<1>1. c \in pending /\ RevisionOf(loaded[c]) = RevisionOf(document)
  BY DEF Save, Finish
<1>2. loaded[c] \in versions /\ HasWork(c, loaded[c])
  BY <1>1 DEF StoreInv, LoadedHasWork
<1>3. loaded[c] = document
  BY <1>1, <1>2 DEF StoreInv, StoredIsNewest
<1> QED
  BY <1>1, <1>2, <1>3 DEF Save, HasWork

LEMMA InitEstablishes == Init => StoreInv
<1> SUFFICES ASSUME Init PROVE StoreInv
  OBVIOUS
<1>1. None \in Contents
  BY DEF Contents
<1>2. TypeOK
  BY <1>1 DEF Init, TypeOK
<1>3. StoredIsNewest /\ RevisionsAreUnique
  BY DEF Init, StoredIsNewest, RevisionsAreUnique
<1>4. LoadedHasWork
  BY DEF Init, LoadedHasWork
<1>5. NothingSavedIsLost /\ DoneIsFinite /\ AppliedOnce
  BY DEF Init, NothingSavedIsLost, DoneIsFinite, AppliedOnce
<1> QED
  BY <1>2, <1>3, <1>4, <1>5 DEF StoreInv

LEMMA SaveKeeps ==
    ASSUME StoreInv, NEW c \in Callers, NEW told \in BOOLEAN, Save(c, told)
    PROVE  StoreInv'
<1> DEFINE new == Successor(c, document)
<1>1. /\ c \in pending
      /\ document' = new
      /\ Adds[c] \notin DoneIn(document)
  BY SaveReplacesLoaded
<1>2. document \in Contents /\ document \in versions /\ versions \subseteq Contents
  BY DEF StoreInv, TypeOK
<1>3. /\ new \in Documents
      /\ new # None
      /\ DoneIn(new) = DoneIn(document) \cup {Adds[c]}
      /\ document # None => new.revision = document.revision + 1
      /\ document = None => new.revision = 1
  BY <1>2, SuccessorType
<1>4. /\ versions' = versions \cup {new}
      /\ saved' \subseteq saved \cup {c}
      /\ pending' = pending \ {c}
      /\ loaded' = [loaded EXCEPT ![c] = None]
  BY <1>1 DEF Save, Finish
<1> HIDE DEF new
<1>5. TypeOK'
  <2>1. document' \in Contents /\ versions' \subseteq Contents /\ document' \in versions'
    BY <1>1, <1>2, <1>3, <1>4 DEF Contents
  <2>2. loaded' \in [Callers -> Contents]
    BY <1>4 DEF StoreInv, TypeOK, Contents
  <2> QED
    BY <1>4, <2>1, <2>2 DEF StoreInv, TypeOK
\* Every older version stays below the new revision.
<1>6. \A a \in versions : a # None => a.revision < new.revision
  <2> SUFFICES ASSUME NEW a \in versions, a # None
               PROVE  a.revision < new.revision
    OBVIOUS
  <2>1. document # None /\ a.revision <= document.revision
    BY DEF StoreInv, StoredIsNewest
  <2>2. a \in Documents /\ document \in Documents
    BY <1>2, <2>1 DEF Contents
  <2>3. a.revision \in Nat /\ document.revision \in Nat
    BY <2>2 DEF Documents
  <2> QED
    BY <1>3, <2>1, <2>3
<1>7. new.revision \in Nat
  BY <1>3 DEF Documents
<1>8. \A a \in versions : RevisionOf(a) # RevisionOf(new)
  <2> SUFFICES ASSUME NEW a \in versions
               PROVE  RevisionOf(a) # RevisionOf(new)
    OBVIOUS
  <2>1. CASE a = None
    BY <1>3, <1>7, <2>1, DocumentAssumption DEF RevisionOf
  <2>2. CASE a # None
    <3>1. a.revision < new.revision
      BY <1>6, <2>2
    <3>2. a.revision \in Nat
      BY <1>2, <2>2 DEF Contents, Documents
    <3>3. a.revision # new.revision
      BY <1>7, <3>1, <3>2
    <3> QED
      BY <1>3, <2>2, <3>3 DEF RevisionOf
  <2> QED
    BY <2>1, <2>2
<1>9. StoredIsNewest'
  <2>1. \A a \in versions : DoneIn(a) \subseteq DoneIn(new)
    BY <1>3 DEF StoreInv, StoredIsNewest
  <2>2. \A a \in versions : a # None => a.revision <= new.revision
    <3> SUFFICES ASSUME NEW a \in versions, a # None
                 PROVE  a.revision <= new.revision
      OBVIOUS
    <3>1. a.revision < new.revision
      BY <1>6
    <3>2. a.revision \in Nat
      BY <1>2 DEF Contents, Documents
    <3> QED
      BY <1>7, <3>1, <3>2
  <2>3. new.revision <= new.revision
    BY <1>7
  <2>4. \A a \in versions \cup {new} :
            /\ a # None => /\ new # None
                           /\ a.revision <= new.revision
            /\ RevisionOf(a) = RevisionOf(new) => a = new
            /\ DoneIn(a) \subseteq DoneIn(new)
    BY <1>3, <1>8, <2>1, <2>2, <2>3
  <2> QED
    BY <1>1, <1>4, <2>4 DEF StoredIsNewest, RevisionOf, DoneIn
<1>10. RevisionsAreUnique'
  <2>1. \A a, b \in versions \cup {new} : RevisionOf(a) = RevisionOf(b) => a = b
    BY <1>8 DEF StoreInv, RevisionsAreUnique
  <2> QED
    BY <1>4, <2>1 DEF RevisionsAreUnique, RevisionOf
<1>11. LoadedHasWork'
  <2>1. loaded' \in [Callers -> versions' \cup {None}]
    BY <1>4 DEF StoreInv, LoadedHasWork
  <2>2. ASSUME NEW d \in pending'
        PROVE  loaded'[d] \in versions' /\ HasWork(d, loaded'[d])
    <3>1. d \in pending /\ d # c /\ d \in Callers
      BY <1>4 DEF StoreInv, TypeOK
    <3>2. loaded'[d] = loaded[d]
      BY <1>4, <3>1 DEF StoreInv, TypeOK
    <3>3. loaded[d] \in versions /\ HasWork(d, loaded[d])
      BY <3>1 DEF StoreInv, LoadedHasWork
    <3> QED
      BY <1>4, <3>2, <3>3
  <2> QED
    BY <2>1, <2>2 DEF LoadedHasWork, HasWork, DoneIn
<1>12. NothingSavedIsLost'
  <2>1. \A d \in saved \cup {c} : Adds[d] \in DoneIn(new)
    BY <1>3 DEF StoreInv, NothingSavedIsLost
  <2> QED
    BY <1>1, <1>4, <2>1 DEF NothingSavedIsLost, DoneIn
\* One action more, one revision more.
<1>13. DoneIsFinite' /\ AppliedOnce'
  <2>1. IsFiniteSet(DoneIn(document))
    BY FS_EmptySet DEF StoreInv, DoneIsFinite, DoneIn
  <2>2. /\ IsFiniteSet(DoneIn(new))
        /\ Cardinality(DoneIn(new)) = Cardinality(DoneIn(document)) + 1
    <3> DEFINE before == DoneIn(document)
    <3>1. IsFiniteSet(before) /\ Adds[c] \notin before
      BY <1>1, <2>1
    <3> HIDE DEF before
    <3>2. /\ IsFiniteSet(before \cup {Adds[c]})
          /\ Cardinality(before \cup {Adds[c]}) = Cardinality(before) + 1
      BY <3>1, FS_AddElement
    <3>3. DoneIn(new) = before \cup {Adds[c]}
      BY <1>3 DEF before
    <3> QED
      BY <3>2, <3>3 DEF before
  <2>3. new.revision = Cardinality(DoneIn(new))
    <3>1. CASE document = None
      <4>1. Cardinality(DoneIn(document)) = 0
        BY <3>1, FS_EmptySet DEF DoneIn
      <4> QED
        BY <1>3, <2>2, <3>1, <4>1
    <3>2. CASE document # None
      BY <1>3, <2>2, <3>2 DEF StoreInv, AppliedOnce, DoneIn
    <3> QED
      BY <3>1, <3>2
  <2>4. DoneIn(new) = new.done
    BY <1>3 DEF DoneIn
  <2> QED
    BY <1>1, <2>2, <2>3, <2>4 DEF DoneIsFinite, AppliedOnce
<1> QED
  BY <1>5, <1>9, <1>10, <1>11, <1>12, <1>13 DEF StoreInv

LEMMA NextKeeps == StoreInv /\ [Next]_vars => StoreInv'
<1> SUFFICES ASSUME StoreInv, [Next]_vars PROVE StoreInv'
  OBVIOUS
<1> USE DEF StoreInv
<1>1. ASSUME NEW c \in Callers, NEW content \in versions, Load(c, content)
      PROVE  StoreInv'
  <2>1. /\ UNCHANGED <<document, versions, saved>>
        /\ pending' = pending \cup {c}
        /\ loaded' = [loaded EXCEPT ![c] = content]
        /\ HasWork(c, content)
    BY <1>1 DEF Load
  <2>2. TypeOK'
    BY <2>1 DEF TypeOK
  <2>3. LoadedHasWork'
    <3>1. loaded' \in [Callers -> versions' \cup {None}]
      BY <2>1 DEF LoadedHasWork
    <3>2. ASSUME NEW d \in pending'
          PROVE  loaded'[d] \in versions /\ HasWork(d, loaded'[d])
      <4>1. CASE d = c
        BY <2>1, <4>1 DEF TypeOK
      <4>2. CASE d # c
        BY <2>1, <4>2 DEF TypeOK, LoadedHasWork
      <4> QED
        BY <4>1, <4>2
    <3> QED
      BY <2>1, <3>1, <3>2 DEF LoadedHasWork, HasWork, DoneIn
  <2>4. StoredIsNewest' /\ RevisionsAreUnique' /\ NothingSavedIsLost'
        /\ DoneIsFinite' /\ AppliedOnce'
    BY <2>1 DEF StoredIsNewest, RevisionsAreUnique, NothingSavedIsLost,
                DoneIsFinite, AppliedOnce, RevisionOf, DoneIn
  <2> QED
    BY <2>2, <2>3, <2>4
<1>2. ASSUME NEW c \in Callers, NEW told \in BOOLEAN, Save(c, told)
      PROVE  StoreInv'
  BY <1>2, SaveKeeps
<1>3. ASSUME NEW c \in Callers, GiveUp(c)
      PROVE  StoreInv'
  <2>1. /\ UNCHANGED <<document, versions, saved>>
        /\ pending' = pending \ {c}
        /\ loaded' = [loaded EXCEPT ![c] = None]
    BY <1>3 DEF GiveUp, Finish
  <2>2. TypeOK'
    BY <2>1 DEF TypeOK, Contents
  <2>3. LoadedHasWork'
    <3>1. loaded' \in [Callers -> versions' \cup {None}]
      BY <2>1 DEF LoadedHasWork
    <3>2. ASSUME NEW d \in pending'
          PROVE  loaded'[d] \in versions /\ HasWork(d, loaded'[d])
      BY <2>1 DEF TypeOK, LoadedHasWork
    <3> QED
      BY <2>1, <3>1, <3>2 DEF LoadedHasWork, HasWork, DoneIn
  <2>4. StoredIsNewest' /\ RevisionsAreUnique' /\ NothingSavedIsLost'
        /\ DoneIsFinite' /\ AppliedOnce'
    BY <2>1 DEF StoredIsNewest, RevisionsAreUnique, NothingSavedIsLost,
                DoneIsFinite, AppliedOnce, RevisionOf, DoneIn
  <2> QED
    BY <2>2, <2>3, <2>4
<1>4. CASE UNCHANGED vars
  BY <1>4 DEF vars, TypeOK, StoredIsNewest, LoadedHasWork, RevisionsAreUnique,
              NothingSavedIsLost, DoneIsFinite, AppliedOnce
<1> QED
  BY <1>1, <1>2, <1>3, <1>4 DEF Next

\* The inductive invariant holds in every reachable state.
THEOREM StoreInvariant == Spec => []StoreInv
<1> QED
  BY InitEstablishes, NextKeeps, PTL DEF Spec

\* Versions, loaded documents and answers are well formed.
THEOREM StoreTypes == Spec => []TypeOK
<1>1. StoreInv => TypeOK
  BY DEF StoreInv
<1> QED
  BY <1>1, StoreInvariant, PTL

\* A revision number identifies one document for ever: comparing numbers, as
\* Save does, is comparing documents.
THEOREM RevisionsIdentify == Spec => []RevisionsAreUnique
<1>1. StoreInv => RevisionsAreUnique
  BY DEF StoreInv
<1> QED
  BY <1>1, StoreInvariant, PTL

\* What a caller has been told is saved stays in the document.
THEOREM SavedIsKept == Spec => []NothingSavedIsLost
<1>1. StoreInv => NothingSavedIsLost
  BY DEF StoreInv
<1> QED
  BY <1>1, StoreInvariant, PTL

\* The document has been saved once per completed action, however often callers
\* retried.
THEOREM OneSavePerAction == Spec => []AppliedOnce
<1>1. StoreInv => AppliedOnce
  BY DEF StoreInv
<1> QED
  BY <1>1, StoreInvariant, PTL

\* Every stored document was computed from the one it replaces.
THEOREM NoSaveSkipsAnother == Spec => ReplacesWhatWasLoaded
<1> DEFINE Replaces ==
        document' # document =>
            \E c \in pending : loaded[c] = document /\ document' = Successor(c, document)
<1>1. StoreInv /\ [Next]_vars => [Replaces]_vars
  <2> SUFFICES ASSUME StoreInv, [Next]_vars, document' # document PROVE Replaces
    OBVIOUS
  <2>1. PICK c \in Callers, told \in BOOLEAN : Save(c, told)
    BY DEF Next, Load, GiveUp, vars
  <2> QED
    BY <2>1, SaveReplacesLoaded
<1> QED
  BY <1>1, StoreInvariant, PTL DEF Spec, ReplacesWhatWasLoaded

=============================================================================
