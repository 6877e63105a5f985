------------------------------ MODULE WorkItems ------------------------------
(***************************************************************************)
(* The work items of Azure DevOps as the two clients see them: the mock    *)
(* keeps them in one document of the state branch, the Entra client asks   *)
(* the service.  A board has the items and the number of the next one.     *)
(*                                                                         *)
(* A place stands for organization, project, parent feature and prefix.    *)
(***************************************************************************)
EXTENDS Naturals, FiniteSets

CONSTANTS
    Submissions,     \* submission ids
    Contains,        \* <<a, b>>: the text of a contains the text of b, as
                     \* HACK-10000 contains HACK-1000
    Places,          \* destinations a configuration can name, and where else items are
    Parentless,      \* those of an item that is no child of any other
    Pinned,          \* the one main.ts compiles in
    CandidateLimit   \* the number of candidates the Entra client verifies

ASSUME WorkItemsAssumption ==
    /\ Contains \subseteq Submissions \X Submissions
    /\ \A s \in Submissions : <<s, s>> \in Contains
    /\ Pinned \in Places /\ Parentless \subseteq Places \ {Pinned}
    /\ CandidateLimit \in Nat

Modes == {"mock", "entra"}

WorkItem == [id : Nat, submission : Submissions, place : Places]

\* AzureDevOpsSafety.Validate: nothing is looked up or created elsewhere.
Safe(place) == place = Pinned

\* MockAzureDevOpsClient.Find.
MockFind(board, s, place) ==
    {w.id : w \in {v \in board.items : v.submission = s /\ v.place = place}}

\* QueryCandidates: a WIQL query of the project, by a text the tags contain.
QueryCandidates(board, s) ==
    {w \in board.items : <<w.submission, s>> \in Contains}

\* Mutation: the query's answer is believed.
FilterNothing(candidates, s, place) == {w.id : w \in candidates}

\* FilterCandidates: the batch read keeps the items with the complete tag and
\* the configured parent.  It cannot read one without a parent: see FindFails.
FilterCandidates(candidates, s, place) ==
    {w.id : w \in {v \in candidates : v.submission = s /\ v.place = place}}

\* The Entra client gives up when the query returns more than it can verify, or
\* any item at all without a parent: FilterCandidates reads System.Parent of every
\* candidate before it compares the tags, and throws where there is none.
FindFails(mode, board, s) ==
    /\ mode = "entra"
    /\ LET candidates == QueryCandidates(board, s) IN
       \/ Cardinality(candidates) > CandidateLimit
       \/ \E w \in candidates : w.place \in Parentless

Find(mode, board, s, place) ==
    IF mode = "mock" THEN MockFind(board, s, place)
    ELSE FilterCandidates(QueryCandidates(board, s), s, place)

\* Create: the request WorkItemFactory builds carries the submission's tag and
\* the configured parent; the next number is taken.
WithNewItem(board, s, place) ==
    [next |-> board.next + 1,
     items |-> board.items \cup {[id |-> board.next, submission |-> s, place |-> place]}]

=============================================================================
