---------------------------- MODULE VersionedStore ----------------------------
(***************************************************************************)
(* What a SubmissionStore promises: Save replaces the document exactly     *)
(* when its revision is still the one the caller loaded, in one step.      *)
(* MemorySubmissionStore is this specification, with loads that always     *)
(* return the newest version; the stores that reach their storage over     *)
(* several awaits have to implement it.                                    *)
(***************************************************************************)
EXTENDS StateDocuments

VARIABLES
    document,  \* the stored document, or None
    versions,  \* everything that has ever been stored, None included
    pending,   \* callers between Load and the end of their Save
    loaded,    \* what they loaded
    saved      \* callers whose Save has returned a document

vars == <<document, versions, pending, loaded, saved>>

Init ==
    /\ document = None
    /\ versions = {None}
    /\ pending = {}
    /\ loaded = [c \in Callers |-> None]
    /\ saved = {}

\* A load may return an older version: GitHub's reads lag.
Load(c, content) ==
    /\ c \notin pending
    /\ HasWork(c, content)
    /\ pending' = pending \cup {c}
    /\ loaded' = [loaded EXCEPT ![c] = content]
    /\ UNCHANGED <<document, versions, saved>>

Finish(c) ==
    /\ c \in pending
    /\ pending' = pending \ {c}
    /\ loaded' = [loaded EXCEPT ![c] = None]

\* The save goes through; told is FALSE when the caller dies or its answer is
\* lost on the way back.
Save(c, told) ==
    /\ Finish(c)
    /\ RevisionOf(document) = RevisionOf(loaded[c])
    /\ document' = Successor(c, loaded[c])
    /\ versions' = versions \cup {document'}
    /\ saved' = IF told THEN saved \cup {c} ELSE saved

\* A conflict, an error or the end of the run: nothing is stored.
GiveUp(c) ==
    /\ Finish(c)
    /\ UNCHANGED <<document, versions, saved>>

Next ==
    \E c \in Callers :
        \/ \E content \in versions : Load(c, content)
        \/ \E told \in BOOLEAN : Save(c, told)
        \/ GiveUp(c)

Spec == Init /\ [][Next]_vars

-----------------------------------------------------------------------------
(* Properties                                                               *)

TypeOK ==
    /\ document \in Contents
    /\ versions \subseteq Contents /\ document \in versions
    /\ pending \subseteq Callers
    /\ loaded \in [Callers -> Contents]
    /\ saved \subseteq Callers

\* A revision number identifies one document for ever, so comparing numbers
\* (GitHubSubmissionStore.ts:77) is as good as comparing documents.
RevisionsAreUnique ==
    \A a, b \in versions : RevisionOf(a) = RevisionOf(b) => a = b

\* Whatever is stored was computed from exactly the document it replaces, by a
\* caller that loaded all of it: no save skips over another's.
ReplacesWhatWasLoaded ==
    [][document' # document =>
          \E c \in pending : loaded[c] = document /\ document' = Successor(c, document)]_vars

\* An action whose save was reported is in the document for good, whoever
\* saves after it.
NothingSavedIsLost == \A c \in saved : Adds[c] \in DoneIn(document)

\* A caller that retries a save whose answer it never got, or a second caller
\* with the same action, does not store the action a second time: there are as
\* many saves as completed actions.
AppliedOnce ==
    document # None => document.revision = Cardinality(document.done)

=============================================================================
