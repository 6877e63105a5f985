--------------------------- MODULE SubmissionFacts ---------------------------
(***************************************************************************)
(* The state document of one submission as intake knows it, and the change *)
(* each service makes to the document it has loaded.                       *)
(***************************************************************************)
EXTENDS SubmissionTerms, Naturals

CONSTANTS
    Targets,   \* what a submission is for: its repository and article path
    Users,     \* GitHub user ids
    Commits,   \* commits of the base branch
    Pulls,     \* pull requests
    None

ASSUME FactsAssumption ==
    /\ None \notin Targets \cup Users \cup Commits \cup Pulls
    /\ None \notin Nat

\* The completed actions of intake.
StoryCreated  == "ado:create-user-story"
BranchCreated == "github:create-contributor-branch"
PackageMade   == "github:create-start-package"
MessageSent   == "teams:start-work"
IntakeActions == {StoryCreated, BranchCreated, PackageMade, MessageSent}

\* branchName is the one name a submission's branch can have, or undefined.
Document ==
    [target : Targets, azureDevOpsId : Nat \cup {None}, githubUserId : Users \cup {None},
     branchNamed : BOOLEAN, initialCommitSha : Commits \cup {None},
     pullRequestNumber : Pulls \cup {None}, currentStage : SubmissionStage,
     completedActions : SUBSET IntakeActions, revision : Nat]

ASSUME NoneIsNoDocument == None \notin Document

\* SubmissionStateFactory.Create.
NewDocument(target) ==
    [target |-> target, azureDevOpsId |-> None, githubUserId |-> None,
     branchNamed |-> FALSE, initialCommitSha |-> None, pullRequestNumber |-> None,
     currentStage |-> Intake, completedActions |-> {}, revision |-> 0]

\* The in-memory changes of the services, each on the document it loaded.
Completed(d, action) == [d EXCEPT !.completedActions = @ \cup {action}]
InStage(d, stage) == [d EXCEPT !.currentStage = stage]
Named(d) == [d EXCEPT !.branchNamed = TRUE]

WithItem(d, item) ==
    InStage(Completed([d EXCEPT !.azureDevOpsId = item], StoryCreated), Planned)
WithUser(d, user) == [d EXCEPT !.githubUserId = user]
WithIntent(d, sha) == Named([d EXCEPT !.initialCommitSha = sha])
WithBranch(d) == Completed(d, BranchCreated)
WithPackage(d) == Completed(Named(d), PackageMade)
WithMessage(d) == Completed(d, MessageSent)
WithPull(d, pull) == InStage([d EXCEPT !.pullRequestNumber = pull], TechnicalReview)

\* SubmissionStore.Save assigns the next revision.
Saved(d) == [d EXCEPT !.revision = @ + 1]

\* Records start-package stages left before branches were created for
\* contributors (ContributorBranchService.ts:118): a branch name without a commit.
OldRecord(target, item) == Saved(WithPackage(WithItem(NewDocument(target), item)))

\* An absent document has no revision to expect.
RevisionOf(document) == IF document = None THEN 0 ELSE document.revision

=============================================================================
