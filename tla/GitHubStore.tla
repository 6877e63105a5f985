------------------------------ MODULE GitHubStore ------------------------------
(***************************************************************************)
(* GitHubSubmissionStore over the GitHub contents API.  Save reads the     *)
(* document again, compares its revision with the caller's, and writes     *)
(* under the content SHA of that second read.  Other callers write in      *)
(* between, both reads may return content that is out of date by any       *)
(* number of writes, and a run can die at every await.                     *)
(*                                                                         *)
(* A content SHA is a hash of the content: two documents have the same SHA *)
(* exactly when they are equal, so the SHA is the document itself here.    *)
(***************************************************************************)
EXTENDS StateDocuments

VARIABLES
    document,  \* the content of the state branch
    versions,  \* every content the branch has had
    pc,        \* the next step of every caller
    loaded,    \* what its Load returned
    existing,  \* the content, and SHA, that its Save has read
    saved      \* callers whose Save has returned a document

vars == <<document, versions, pc, loaded, existing, saved>>

Init ==
    /\ document = None
    /\ versions = {None}
    /\ pc = [c \in Callers |-> "load"]
    /\ loaded = [c \in Callers |-> None]
    /\ existing = [c \in Callers |-> None]
    /\ saved = {}

Load(c) ==
    /\ pc[c] = "load"
    /\ \E content \in versions :
          /\ HasWork(c, content)
          /\ loaded' = [loaded EXCEPT ![c] = content]
    /\ pc' = [pc EXCEPT ![c] = "save"]
    /\ UNCHANGED <<document, versions, existing, saved>>

Finish(c) ==
    /\ pc' = [pc EXCEPT ![c] = "load"]
    /\ loaded' = [loaded EXCEPT ![c] = None]
    /\ existing' = [existing EXCEPT ![c] = None]

Unchanged == UNCHANGED <<document, versions, saved>>

\* Save reads the document, and its revision is the expected one ...
SaveMatches(c) ==
    /\ pc[c] = "save"
    /\ \E content \in versions :
          /\ RevisionOf(content) = RevisionOf(loaded[c])
          /\ existing' = [existing EXCEPT ![c] = content]
    /\ pc' = [pc EXCEPT ![c] = "write"]
    /\ UNCHANGED <<document, versions, loaded, saved>>

\* ... or it is not: StateConflictError.
SaveConflicts(c) ==
    /\ pc[c] = "save"
    /\ \E content \in versions : RevisionOf(content) # RevisionOf(loaded[c])
    /\ Finish(c) /\ Unchanged

\* Mutation: the SHA is read again just before the PUT, so that the write replaces
\* whatever is there by then.
WriteWithFreshSha(c, told) ==
    /\ pc[c] = "write"
    /\ document' = Successor(c, loaded[c])
    /\ versions' = versions \cup {document'}
    /\ saved' = IF told THEN saved \cup {c} ELSE saved
    /\ Finish(c)

\* GitHub accepts the write when the SHA is that of the stored content, and a
\* write without SHA when there is none.  told is FALSE when the answer never
\* reaches the caller.
Write(c, told) ==
    /\ pc[c] = "write"
    /\ document = existing[c]
    /\ document' = Successor(c, loaded[c])
    /\ versions' = versions \cup {document'}
    /\ saved' = IF told THEN saved \cup {c} ELSE saved
    /\ Finish(c)

\* HTTP 409 or 422: ContentConflictError, passed on as StateConflictError.
WriteConflicts(c) ==
    /\ pc[c] = "write"
    /\ document # existing[c]
    /\ Finish(c) /\ Unchanged

\* Any other HTTP error, a timeout, or the end of the run.
Fails(c) ==
    /\ pc[c] # "load"
    /\ Finish(c) /\ Unchanged

Next ==
    \E c \in Callers :
        \/ Load(c)
        \/ SaveMatches(c) \/ SaveConflicts(c)
        \/ (\E told \in BOOLEAN : Write(c, told)) \/ WriteConflicts(c)
        \/ Fails(c)

Spec == Init /\ [][Next]_vars

-----------------------------------------------------------------------------
(* Properties                                                               *)

TypeOK ==
    /\ document \in Contents
    /\ versions \subseteq Contents /\ document \in versions
    /\ pc \in [Callers -> {"load", "save", "write"}]
    /\ loaded \in [Callers -> versions]
    /\ existing \in [Callers -> versions]
    /\ saved \subseteq Callers

\* A caller about to write holds in existing what it loaded: the two reads of a
\* Load and its Save, however late, agree as soon as their revisions do.
WritesWhatWasLoaded ==
    \A c \in Callers : pc[c] = "write" => existing[c] = loaded[c]

\* The SHA check of GitHub and the revision check of Save together make a save
\* of several awaits the single conditional step of VersionedStore, whatever
\* the reads return and wherever a run dies.
Promise == INSTANCE VersionedStore
               WITH pending <- {c \in Callers : pc[c] # "load"}

ImplementsVersionedStore == Promise!Spec

\* Whatever is written was computed from exactly the document it replaces, by a
\* caller that loaded all of it: no save skips over another's.
ReplacesWhatWasLoaded == Promise!ReplacesWhatWasLoaded

\* An action whose save was reported is in the document for good, whoever
\* writes after it.
NothingSavedIsLost == Promise!NothingSavedIsLost

\* A retry of a write whose answer was lost, or a second run of the same stage,
\* does not save its action a second time.
AppliedOnce == Promise!AppliedOnce

=============================================================================
