-------------------------- MODULE GitHubStoreProofs --------------------------
(***************************************************************************)
(* GitHubStore implements VersionedStore, for any callers, actions, lagging *)
(* reads and failures; so every theorem about VersionedStore is one about  *)
(* it.                                                                     *)
(***************************************************************************)
EXTENDS GitHubStore, TLAPS

Steps == {"load", "save", "write"}

\* A caller about to write has seen its expected revision in its second read.
RevisionCompared ==
    \A c \in Callers : pc[c] = "write" =>
        RevisionOf(existing[c]) = RevisionOf(loaded[c])

GitHubInv == TypeOK /\ RevisionCompared

LEMMA SuccessorIsDocument ==
    ASSUME NEW c \in Callers, NEW content \in Contents
    PROVE  Successor(c, content) \in Documents
<1>1. Adds[c] \in Actions
  BY DocumentAssumption
<1>2. DoneIn(content) \in SUBSET Actions
  BY DEF DoneIn, Contents, Documents
<1>3. NextRevision(RevisionOf(content)) \in Nat
  BY DocumentAssumption DEF NextRevision, RevisionOf, Contents, Documents
<1> QED
  BY <1>1, <1>2, <1>3 DEF Successor, Documents

\* The end of a Save, whatever its outcome, leaves nothing half compared.
LEMMA FinishKeeps ==
    ASSUME GitHubInv, NEW c \in Callers, Finish(c),
           versions \subseteq versions', None \in versions
    PROVE  /\ pc' \in [Callers -> Steps]
           /\ loaded' \in [Callers -> versions']
           /\ existing' \in [Callers -> versions']
           /\ RevisionCompared'
<1>1. /\ pc' = [pc EXCEPT ![c] = "load"]
      /\ loaded' = [loaded EXCEPT ![c] = None]
      /\ existing' = [existing EXCEPT ![c] = None]
  BY DEF Finish
<1>2. pc' \in [Callers -> Steps]
  BY <1>1 DEF GitHubInv, TypeOK, Steps
<1>3. loaded' \in [Callers -> versions'] /\ existing' \in [Callers -> versions']
  BY <1>1 DEF GitHubInv, TypeOK
<1>4. RevisionCompared'
  <2> SUFFICES ASSUME NEW d \in Callers, pc'[d] = "write"
               PROVE  RevisionOf(existing'[d]) = RevisionOf(loaded'[d])
    BY DEF RevisionCompared, RevisionOf
  <2>1. d # c
    BY <1>1 DEF GitHubInv, TypeOK
  <2>2. pc[d] = "write" /\ existing'[d] = existing[d] /\ loaded'[d] = loaded[d]
    BY <1>1, <2>1 DEF GitHubInv, TypeOK
  <2> QED
    BY <2>2 DEF GitHubInv, RevisionCompared
<1> QED
  BY <1>2, <1>3, <1>4

\* TypeOK of the code's own state, and the comparison, are kept by every step.
LEMMA GitHubInvKept == GitHubInv /\ None \in versions /\ [Next]_vars
                          => GitHubInv' /\ (None \in versions)'
<1> SUFFICES ASSUME GitHubInv, None \in versions, [Next]_vars
             PROVE  GitHubInv' /\ None \in versions'
  OBVIOUS
<1>1. ASSUME NEW c \in Callers, Load(c)
      PROVE  GitHubInv' /\ None \in versions'
  <2>1. PICK content \in versions : loaded' = [loaded EXCEPT ![c] = content]
    BY <1>1 DEF Load
  <2>2. /\ pc' = [pc EXCEPT ![c] = "save"]
        /\ UNCHANGED <<document, versions, existing, saved>>
    BY <1>1 DEF Load
  <2>3. TypeOK'
    BY <2>1, <2>2 DEF GitHubInv, TypeOK
  <2>4. RevisionCompared'
    <3> SUFFICES ASSUME NEW d \in Callers, pc'[d] = "write"
                 PROVE  RevisionOf(existing'[d]) = RevisionOf(loaded'[d])
      BY DEF RevisionCompared, RevisionOf
    <3>1. d # c /\ pc[d] = "write" /\ loaded'[d] = loaded[d]
      BY <2>1, <2>2 DEF GitHubInv, TypeOK
    <3> QED
      BY <2>2, <3>1 DEF GitHubInv, RevisionCompared
  <2> QED
    BY <2>2, <2>3, <2>4 DEF GitHubInv
<1>2. ASSUME NEW c \in Callers, SaveMatches(c)
      PROVE  GitHubInv' /\ None \in versions'
  <2>1. PICK content \in versions :
            /\ RevisionOf(content) = RevisionOf(loaded[c])
            /\ existing' = [existing EXCEPT ![c] = content]
    BY <1>2 DEF SaveMatches
  <2>2. /\ pc' = [pc EXCEPT ![c] = "write"]
        /\ UNCHANGED <<document, versions, loaded, saved>>
    BY <1>2 DEF SaveMatches
  <2>3. TypeOK'
    BY <2>1, <2>2 DEF GitHubInv, TypeOK
  <2>4. RevisionCompared'
    <3> SUFFICES ASSUME NEW d \in Callers, pc'[d] = "write"
                 PROVE  RevisionOf(existing'[d]) = RevisionOf(loaded'[d])
      BY DEF RevisionCompared, RevisionOf
    <3>1. CASE d = c
      BY <2>1, <2>2, <3>1 DEF GitHubInv, TypeOK
    <3>2. CASE d # c
      <4>1. pc[d] = "write" /\ existing'[d] = existing[d]
        BY <2>1, <2>2, <3>2 DEF GitHubInv, TypeOK
      <4> QED
        BY <2>2, <4>1 DEF GitHubInv, RevisionCompared
    <3> QED
      BY <3>1, <3>2
  <2> QED
    BY <2>2, <2>3, <2>4 DEF GitHubInv
<1>3. ASSUME NEW c \in Callers, Finish(c), Unchanged
      PROVE  GitHubInv' /\ None \in versions'
  <2>1. UNCHANGED <<document, versions, saved>>
    BY <1>3 DEF Unchanged
  <2>2. /\ pc' \in [Callers -> Steps]
        /\ loaded' \in [Callers -> versions']
        /\ existing' \in [Callers -> versions']
        /\ RevisionCompared'
    BY <1>3, <2>1, FinishKeeps
  <2>3. TypeOK'
    BY <2>1, <2>2 DEF GitHubInv, TypeOK, Steps
  <2> QED
    BY <2>1, <2>2, <2>3 DEF GitHubInv
<1>4. ASSUME NEW c \in Callers, NEW told \in BOOLEAN, Write(c, told)
      PROVE  GitHubInv' /\ None \in versions'
  <2>1. /\ document' = Successor(c, loaded[c])
        /\ versions' = versions \cup {document'}
        /\ saved' \subseteq saved \cup {c}
        /\ Finish(c)
    BY <1>4 DEF Write
  <2>2. loaded[c] \in Contents
    BY DEF GitHubInv, TypeOK
  <2>3. document' \in Contents
    BY <2>1, <2>2, SuccessorIsDocument DEF Contents
  <2>4. /\ pc' \in [Callers -> Steps]
        /\ loaded' \in [Callers -> versions']
        /\ existing' \in [Callers -> versions']
        /\ RevisionCompared'
    BY <2>1, FinishKeeps
  <2>5. TypeOK'
    BY <2>1, <2>3, <2>4 DEF GitHubInv, TypeOK, Steps
  <2> QED
    BY <2>1, <2>4, <2>5 DEF GitHubInv
<1>5. CASE UNCHANGED vars
  BY <1>5 DEF vars, GitHubInv, TypeOK, RevisionCompared
<1> QED
  BY <1>1, <1>2, <1>3, <1>4, <1>5
     DEF Next, SaveConflicts, WriteConflicts, Fails

LEMMA GitHubInvariant == Spec => [](GitHubInv /\ None \in versions)
<1>1. Init => GitHubInv /\ None \in versions
  BY DEF Init, GitHubInv, TypeOK, RevisionCompared, Contents
<1> QED
  BY <1>1, GitHubInvKept, PTL DEF Spec

\* Versions, loaded documents and the callers' steps are well formed.
THEOREM GitHubTypes == Spec => []TypeOK
<1>1. GitHubInv => TypeOK
  BY DEF GitHubInv
<1> QED
  BY <1>1, GitHubInvariant, PTL

-----------------------------------------------------------------------------

Pending == {c \in Callers : pc[c] # "load"}

\* A save that ends is the end of the abstract save.
LEMMA FinishFinishes ==
    ASSUME GitHubInv, NEW c \in Callers, pc[c] # "load", Finish(c)
    PROVE  Promise!Finish(c)
<1>1. /\ pc' = [pc EXCEPT ![c] = "load"]
      /\ loaded' = [loaded EXCEPT ![c] = None]
  BY DEF Finish
<1>2. Pending' = Pending \ {c} /\ c \in Pending
  BY <1>1 DEF Pending, GitHubInv, TypeOK
<1> QED
  BY <1>1, <1>2 DEF Promise!Finish, Pending

\* Every step of a store over GitHub is a step of the abstract store, or none.
LEMMA StepSimulates ==
    GitHubInv /\ [Next]_vars => [Promise!Next]_(Promise!vars)
<1> SUFFICES ASSUME GitHubInv, [Next]_vars
             PROVE  Promise!Next \/ UNCHANGED Promise!vars
  OBVIOUS
<1>1. ASSUME NEW c \in Callers, Load(c)
      PROVE  Promise!Next
  <2>1. PICK content \in versions :
            HasWork(c, content) /\ loaded' = [loaded EXCEPT ![c] = content]
    BY <1>1 DEF Load
  <2>2. /\ pc[c] = "load" /\ pc' = [pc EXCEPT ![c] = "save"]
        /\ UNCHANGED <<document, versions, saved>>
    BY <1>1 DEF Load
  <2>3. Pending' = Pending \cup {c} /\ c \notin Pending
    BY <2>2 DEF Pending, GitHubInv, TypeOK
  <2>4. Promise!HasWork(c, content)
    BY <2>1 DEF HasWork, DoneIn, Promise!HasWork, Promise!DoneIn
  <2>5. Promise!Load(c, content)
    BY <2>1, <2>2, <2>3, <2>4 DEF Promise!Load, Pending
  <2> QED
    BY <2>5 DEF Promise!Next
<1>2. ASSUME NEW c \in Callers, SaveMatches(c)
      PROVE  UNCHANGED Promise!vars
  <2>1. /\ pc[c] = "save" /\ pc' = [pc EXCEPT ![c] = "write"]
        /\ UNCHANGED <<document, versions, loaded, saved>>
    BY <1>2 DEF SaveMatches
  <2>2. Pending' = Pending
    BY <2>1 DEF Pending, GitHubInv, TypeOK
  <2> QED
    BY <2>1, <2>2 DEF Promise!vars, Pending
<1>3. ASSUME NEW c \in Callers, pc[c] # "load", Finish(c), Unchanged
      PROVE  Promise!Next
  <2>1. Promise!GiveUp(c)
    BY <1>3, FinishFinishes DEF Unchanged, Promise!GiveUp
  <2> QED
    BY <2>1 DEF Promise!Next
<1>4. ASSUME NEW c \in Callers, NEW told \in BOOLEAN, Write(c, told)
      PROVE  Promise!Next
  <2>1. /\ pc[c] = "write" /\ document = existing[c] /\ Finish(c)
        /\ document' = Successor(c, loaded[c])
        /\ versions' = versions \cup {document'}
        /\ saved' = IF told THEN saved \cup {c} ELSE saved
    BY <1>4 DEF Write
  <2>2. RevisionOf(document) = RevisionOf(loaded[c])
    BY <2>1 DEF GitHubInv, RevisionCompared
  <2>3. Promise!Finish(c)
    BY <2>1, FinishFinishes
  <2>4. Promise!Save(c, told)
    BY <2>1, <2>2, <2>3
       DEF Promise!Save, RevisionOf, Promise!RevisionOf, Successor,
           Promise!Successor, DoneIn, Promise!DoneIn, NextRevision,
           Promise!NextRevision
  <2> QED
    BY <2>4 DEF Promise!Next
<1>5. CASE UNCHANGED vars
  BY <1>5 DEF vars, Promise!vars
<1> QED
  BY <1>1, <1>2, <1>3, <1>4, <1>5
     DEF Next, SaveConflicts, WriteConflicts, Fails

\* Save over several awaits, with other callers writing in between and reads
\* that lag, is the conditional step that ports/SubmissionStore.ts promises.
THEOREM StoreRefinement == Spec => ImplementsVersionedStore
<1>1. Init => Promise!Init
  BY DEF Init, Promise!Init
<1> QED
  BY <1>1, GitHubInvariant, StepSimulates, PTL
     DEF Spec, ImplementsVersionedStore, Promise!Spec

-----------------------------------------------------------------------------
(* VersionedStore's theorems, for the state that GitHubStore maps to it.     *)

Proved == INSTANCE VersionedStoreProofs
              WITH pending <- {c \in Callers : pc[c] # "load"}

\* Promise and Proved are instances of one specification.
LEMMA StoreIsProved == Spec => Proved!Spec
<1>1. Promise!Init => Proved!Init
  BY DEF Promise!Init, Proved!Init
<1>2. [Promise!Next]_(Promise!vars) => [Proved!Next]_(Proved!vars)
  BY DEF Promise!Next, Promise!vars, Promise!Load, Promise!Save, Promise!GiveUp,
         Promise!Finish, Promise!HasWork, Promise!Successor, Promise!RevisionOf,
         Promise!NextRevision, Promise!DoneIn,
         Proved!Next, Proved!vars, Proved!Load, Proved!Save, Proved!GiveUp,
         Proved!Finish, Proved!HasWork, Proved!Successor, Proved!RevisionOf,
         Proved!NextRevision, Proved!DoneIn
<1> QED
  BY <1>1, <1>2, StoreRefinement, PTL
     DEF ImplementsVersionedStore, Promise!Spec, Proved!Spec

\* Whoever is about to write has read, twice, the same document; without the
\* revisions being unique, equal revisions would not show that.
THEOREM WritesLoaded == Spec => []WritesWhatWasLoaded
<1>1. Proved!Spec => []Proved!RevisionsAreUnique
  BY Proved!RevisionsIdentify, DocumentAssumption, PTL
     DEF Documents, Proved!Documents
<1>2. GitHubInv /\ Proved!RevisionsAreUnique => WritesWhatWasLoaded
  BY DEF GitHubInv, TypeOK, RevisionCompared, WritesWhatWasLoaded,
         Proved!RevisionsAreUnique, RevisionOf, Proved!RevisionOf
<1>3. GitHubInv /\ None \in versions => GitHubInv
  OBVIOUS
<1> QED
  BY <1>1, <1>2, <1>3, StoreIsProved, GitHubInvariant, PTL

\* What Save has returned to a caller stays in the document: GitHub's SHA check
\* and the revision check let no other write drop it.
THEOREM SavedStays == Spec => []NothingSavedIsLost
<1>1. Proved!Spec => []Proved!NothingSavedIsLost
  BY Proved!SavedIsKept, DocumentAssumption, PTL
     DEF Documents, Proved!Documents
<1>2. Proved!NothingSavedIsLost => NothingSavedIsLost
  BY DEF NothingSavedIsLost, Promise!NothingSavedIsLost, Promise!DoneIn,
         Proved!NothingSavedIsLost, Proved!DoneIn
<1> QED
  BY <1>1, <1>2, StoreIsProved, PTL

\* There are as many saves as completed actions, however often answers were lost
\* and writes retried.
THEOREM SavedOnce == Spec => []AppliedOnce
<1>1. Proved!Spec => []Proved!AppliedOnce
  BY Proved!OneSavePerAction, DocumentAssumption, PTL
     DEF Documents, Proved!Documents
<1>2. Proved!AppliedOnce => AppliedOnce
  BY DEF AppliedOnce, Promise!AppliedOnce, Proved!AppliedOnce,
         Promise!Cardinality, Proved!Cardinality, Promise!IsFiniteSet,
         Proved!IsFiniteSet
<1> QED
  BY <1>1, <1>2, StoreIsProved, PTL

\* Every write replaces the document that its caller loaded, and no other.
THEOREM NoWriteSkipsAnother == Spec => ReplacesWhatWasLoaded
<1>1. Proved!Spec => Proved!ReplacesWhatWasLoaded
  BY Proved!NoSaveSkipsAnother, DocumentAssumption, PTL
     DEF Documents, Proved!Documents
<1>2. Proved!ReplacesWhatWasLoaded => ReplacesWhatWasLoaded
  BY DEF ReplacesWhatWasLoaded, Promise!ReplacesWhatWasLoaded, Promise!vars,
         Promise!Successor, Promise!DoneIn, Promise!NextRevision,
         Promise!RevisionOf, Proved!ReplacesWhatWasLoaded, Proved!vars,
         Proved!Successor, Proved!DoneIn, Proved!NextRevision, Proved!RevisionOf
<1> QED
  BY <1>1, <1>2, StoreIsProved, PTL

=============================================================================
