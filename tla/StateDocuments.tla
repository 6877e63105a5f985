---------------------------- MODULE StateDocuments ----------------------------
(***************************************************************************)
(* The state document of one submission as its writers see it.  Callers    *)
(* are program runs; each loads the document, completes an action of its   *)
(* own (an Azure DevOps story, a branch, a message) and saves the document *)
(* with that action's key added.  A rerun, or a second run of the same     *)
(* stage, is another caller with the same action.                          *)
(***************************************************************************)
EXTENDS Naturals, FiniteSets

CONSTANTS
    Callers,   \* runs that save the document
    Actions,   \* action keys
    Adds,      \* Adds[c]: the action caller c completes
    Creators,  \* callers that create a missing document: the first intake stage
    None       \* no document; undefined

Documents == [done : SUBSET Actions, revision : Nat]
Contents == Documents \cup {None}

ASSUME DocumentAssumption ==
    /\ Adds \in [Callers -> Actions]
    /\ Creators \subseteq Callers
    /\ None \notin Documents
    /\ None \notin Nat

RevisionOf(content) == IF content = None THEN None ELSE content.revision
DoneIn(content) == IF content = None THEN {} ELSE content.done

\* Mutation: the revision the caller expected is stored as it is.
UnassignedRevision(expected) == expected

\* Mutation: the saved document keeps the revision it was loaded with.
SameRevision(expected) == IF expected = None THEN 1 ELSE expected

NextRevision(expected) == IF expected = None THEN 1 ELSE expected + 1

\* What c saves after it has loaded content.
Successor(c, content) ==
    [done |-> DoneIn(content) \cup {Adds[c]},
     revision |-> NextRevision(RevisionOf(content))]

\* Mutation: the completed actions are not looked at.
WorksAgain(c, content) == content = None => c \in Creators

\* c goes on to save: its action is not completed, and there is a document or c
\* may create one.
HasWork(c, content) ==
    /\ Adds[c] \notin DoneIn(content)
    /\ content = None => c \in Creators

=============================================================================
