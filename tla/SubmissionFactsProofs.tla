------------------------ MODULE SubmissionFactsProofs ------------------------
(***************************************************************************)
(* What the services' changes do to a document, for any targets, users,    *)
(* commits and pulls: each adds its fact and keeps the others.             *)
(***************************************************************************)
EXTENDS SubmissionFacts, TLAPS

\* A document that a run may have found: no fact is there before the facts it
\* needs.
Good(d) ==
    /\ d \in Document /\ d.revision # 0
    /\ d.azureDevOpsId # None /\ StoryCreated \in d.completedActions
    /\ d.initialCommitSha # None => d.branchNamed /\ d.githubUserId # None
    /\ BranchCreated \in d.completedActions => d.initialCommitSha # None
    /\ PackageMade \in d.completedActions => d.branchNamed
    /\ MessageSent \in d.completedActions =>
           BranchCreated \in d.completedActions /\ PackageMade \in d.completedActions

\* Every fact of the one document is a fact of the other.
Keeps(d, e) ==
    /\ e.target = d.target
    /\ d.azureDevOpsId # None => e.azureDevOpsId = d.azureDevOpsId
    /\ d.githubUserId # None => e.githubUserId = d.githubUserId
    /\ d.initialCommitSha # None => e.initialCommitSha = d.initialCommitSha
    /\ d.pullRequestNumber # None => e.pullRequestNumber = d.pullRequestNumber
    /\ d.completedActions \subseteq e.completedActions
    /\ d.currentStage = TechnicalReview => e.currentStage = TechnicalReview

Follows(d, e) == Good(e) /\ Keeps(d, e) /\ e.revision = d.revision + 1

-----------------------------------------------------------------------------
(* What the changes of the services do to a document.                       *)

LEMMA ActionsAreIntakes ==
    /\ {StoryCreated, BranchCreated, PackageMade, MessageSent} \subseteq IntakeActions
    /\ StoryCreated # BranchCreated /\ StoryCreated # PackageMade
    /\ StoryCreated # MessageSent /\ BranchCreated # PackageMade
    /\ BranchCreated # MessageSent /\ PackageMade # MessageSent
  BY DEF StoryCreated, BranchCreated, PackageMade, MessageSent, IntakeActions

LEMMA SavedIs ==
  ASSUME NEW d \in Document
  PROVE  LET e == Saved(d) IN
          /\ e \in Document
          /\ e.target = d.target /\ e.azureDevOpsId = d.azureDevOpsId
          /\ e.githubUserId = d.githubUserId /\ e.branchNamed = d.branchNamed
          /\ e.initialCommitSha = d.initialCommitSha /\ e.pullRequestNumber = d.pullRequestNumber
          /\ e.currentStage = d.currentStage /\ e.completedActions = d.completedActions
          /\ e.revision = d.revision + 1
  BY FactsAssumption DEF Document, Saved

LEMMA CompletedIs ==
  ASSUME NEW d \in Document, NEW action \in IntakeActions
  PROVE  LET e == Completed(d, action) IN
          /\ e \in Document
          /\ e.target = d.target /\ e.azureDevOpsId = d.azureDevOpsId
          /\ e.githubUserId = d.githubUserId /\ e.branchNamed = d.branchNamed
          /\ e.initialCommitSha = d.initialCommitSha /\ e.pullRequestNumber = d.pullRequestNumber
          /\ e.currentStage = d.currentStage /\ e.completedActions = d.completedActions \cup {action}
          /\ e.revision = d.revision
  BY FactsAssumption DEF Document, Completed

LEMMA InStageIs ==
  ASSUME NEW d \in Document, NEW stage \in SubmissionStage
  PROVE  LET e == InStage(d, stage) IN
          /\ e \in Document
          /\ e.target = d.target /\ e.azureDevOpsId = d.azureDevOpsId
          /\ e.githubUserId = d.githubUserId /\ e.branchNamed = d.branchNamed
          /\ e.initialCommitSha = d.initialCommitSha /\ e.pullRequestNumber = d.pullRequestNumber
          /\ e.currentStage = stage /\ e.completedActions = d.completedActions
          /\ e.revision = d.revision
  BY FactsAssumption DEF Document, InStage

LEMMA NamedIs ==
  ASSUME NEW d \in Document
  PROVE  LET e == Named(d) IN
          /\ e \in Document
          /\ e.target = d.target /\ e.azureDevOpsId = d.azureDevOpsId
          /\ e.githubUserId = d.githubUserId /\ e.branchNamed = TRUE
          /\ e.initialCommitSha = d.initialCommitSha /\ e.pullRequestNumber = d.pullRequestNumber
          /\ e.currentStage = d.currentStage /\ e.completedActions = d.completedActions
          /\ e.revision = d.revision
  BY FactsAssumption DEF Document, Named

LEMMA FirstItemIs ==
  ASSUME NEW target \in Targets, NEW item \in Nat
  PROVE  LET d == WithItem(NewDocument(target), item) IN
          /\ d \in Document /\ d.target = target /\ d.azureDevOpsId = item
          /\ d.initialCommitSha = None /\ d.completedActions = {StoryCreated}
          /\ d.revision = 0
  <1> DEFINE d0 == NewDocument(target)
             d1 == [d0 EXCEPT !.azureDevOpsId = item]
             d2 == Completed(d1, StoryCreated)
  <1>1. Planned \in SubmissionStage /\ Intake \in SubmissionStage
    BY DEF SubmissionStage
  <1>2. d0 = [target |-> target, azureDevOpsId |-> None, githubUserId |-> None,
              branchNamed |-> FALSE, initialCommitSha |-> None, pullRequestNumber |-> None,
              currentStage |-> Intake, completedActions |-> {}, revision |-> 0]
    BY DEF NewDocument
  <1> HIDE DEF d0
  <1>3. d0 \in Document
    BY <1>1, <1>2 DEF Document
  <1>4. /\ d1 \in Document /\ d1.target = target /\ d1.azureDevOpsId = item
        /\ d1.initialCommitSha = None /\ d1.completedActions = {} /\ d1.revision = 0
    BY <1>2, <1>3 DEF Document
  <1> HIDE DEF d1
  <1>5. /\ d2 \in Document /\ d2.target = target /\ d2.azureDevOpsId = item
        /\ d2.initialCommitSha = None /\ d2.completedActions = {StoryCreated} /\ d2.revision = 0
    BY <1>4, CompletedIs, ActionsAreIntakes
  <1> HIDE DEF d2
  <1>6. /\ InStage(d2, Planned) \in Document /\ InStage(d2, Planned).target = target
        /\ InStage(d2, Planned).azureDevOpsId = item
        /\ InStage(d2, Planned).initialCommitSha = None
        /\ InStage(d2, Planned).completedActions = {StoryCreated}
        /\ InStage(d2, Planned).revision = 0
    BY <1>1, <1>5, InStageIs
  <1>7. WithItem(NewDocument(target), item) = InStage(d2, Planned)
    BY DEF d0, d1, d2, WithItem
  <1> QED BY <1>6, <1>7

LEMMA FirstItemIsGood ==
  ASSUME NEW target \in Targets, NEW item \in Nat
  PROVE  LET d == Saved(WithItem(NewDocument(target), item)) IN
             Good(d) /\ d.target = target /\ d.azureDevOpsId = item
                /\ d.initialCommitSha = None /\ d.completedActions = {StoryCreated}
  <1> DEFINE d == WithItem(NewDocument(target), item)
  <1>1. /\ d \in Document /\ d.target = target /\ d.azureDevOpsId = item
        /\ d.initialCommitSha = None /\ d.completedActions = {StoryCreated}
        /\ d.revision = 0
    BY FirstItemIs
  <1> HIDE DEF d
  <1>2. Good(Saved(d)) /\ Saved(d).target = target /\ Saved(d).azureDevOpsId = item
            /\ Saved(d).initialCommitSha = None /\ Saved(d).completedActions = {StoryCreated}
    BY <1>1, SavedIs, ActionsAreIntakes, FactsAssumption DEF Good
  <1> QED BY <1>2 DEF d

LEMMA UserFollows ==
  ASSUME NEW d, Good(d), d.githubUserId = None, NEW user \in Users
  PROVE  LET f == Saved(WithUser(d, user)) IN
             /\ Follows(d, f) /\ f.initialCommitSha = d.initialCommitSha
             /\ f.completedActions = d.completedActions
  <1> DEFINE e == WithUser(d, user)
  <1>1. /\ e \in Document
        /\ e.target = d.target /\ e.azureDevOpsId = d.azureDevOpsId
        /\ e.githubUserId = user /\ e.branchNamed = d.branchNamed
        /\ e.initialCommitSha = d.initialCommitSha /\ e.pullRequestNumber = d.pullRequestNumber
        /\ e.currentStage = d.currentStage /\ e.completedActions = d.completedActions
        /\ e.revision = d.revision
    BY DEF Good, Document, WithUser
  <1> HIDE DEF e
  <1>2. d.initialCommitSha = None
    BY DEF Good
  <1>3. /\ Follows(d, Saved(e)) /\ Saved(e).initialCommitSha = d.initialCommitSha
        /\ Saved(e).completedActions = d.completedActions
    BY <1>1, <1>2, SavedIs DEF Follows, Good, Keeps, Document
  <1> QED BY <1>3 DEF e

LEMMA IntentFollows ==
  ASSUME NEW d, Good(d), d.githubUserId # None, d.initialCommitSha = None, NEW sha \in Commits
  PROVE  LET f == Saved(WithIntent(d, sha)) IN
             /\ Follows(d, f) /\ f.initialCommitSha = sha
             /\ f.completedActions = d.completedActions
  <1> DEFINE c == [d EXCEPT !.initialCommitSha = sha]
             e == Named(c)
  <1>1. /\ c \in Document
        /\ c.target = d.target /\ c.azureDevOpsId = d.azureDevOpsId
        /\ c.githubUserId = d.githubUserId /\ c.branchNamed = d.branchNamed
        /\ c.initialCommitSha = sha /\ c.pullRequestNumber = d.pullRequestNumber
        /\ c.currentStage = d.currentStage /\ c.completedActions = d.completedActions
        /\ c.revision = d.revision
    BY DEF Good, Document
  <1> HIDE DEF c
  <1>2. /\ e \in Document
        /\ e.target = d.target /\ e.azureDevOpsId = d.azureDevOpsId
        /\ e.githubUserId = d.githubUserId /\ e.branchNamed = TRUE
        /\ e.initialCommitSha = sha /\ e.pullRequestNumber = d.pullRequestNumber
        /\ e.currentStage = d.currentStage /\ e.completedActions = d.completedActions
        /\ e.revision = d.revision
    BY <1>1, NamedIs
  <1>3. e = WithIntent(d, sha)
    BY DEF c, WithIntent
  <1> HIDE DEF e
  <1>4. /\ Follows(d, Saved(e)) /\ Saved(e).initialCommitSha = sha
        /\ Saved(e).completedActions = d.completedActions
    BY <1>2, SavedIs, FactsAssumption DEF Follows, Good, Keeps, Document
  <1> QED BY <1>3, <1>4

LEMMA BranchFollows ==
  ASSUME NEW d, Good(d), d.initialCommitSha # None
  PROVE  LET f == Saved(WithBranch(d)) IN
             /\ Follows(d, f) /\ f.initialCommitSha = d.initialCommitSha
             /\ f.completedActions = d.completedActions \cup {BranchCreated}
  <1> DEFINE e == WithBranch(d)
  <1>1. /\ e \in Document
        /\ e.target = d.target /\ e.azureDevOpsId = d.azureDevOpsId
        /\ e.githubUserId = d.githubUserId /\ e.branchNamed = d.branchNamed
        /\ e.initialCommitSha = d.initialCommitSha /\ e.pullRequestNumber = d.pullRequestNumber
        /\ e.currentStage = d.currentStage /\ e.completedActions = d.completedActions \cup {BranchCreated}
        /\ e.revision = d.revision
    BY CompletedIs, ActionsAreIntakes DEF Good, WithBranch
  <1> HIDE DEF e
  <1>2. /\ Follows(d, Saved(e)) /\ Saved(e).initialCommitSha = d.initialCommitSha
        /\ Saved(e).completedActions = d.completedActions \cup {BranchCreated}
    BY <1>1, SavedIs, ActionsAreIntakes DEF Follows, Good, Keeps, Document
  <1> QED BY <1>2 DEF e

LEMMA PackageFollows ==
  ASSUME NEW d, Good(d)
  PROVE  LET f == Saved(WithPackage(d)) IN
             /\ Follows(d, f) /\ f.initialCommitSha = d.initialCommitSha
             /\ f.completedActions = d.completedActions \cup {PackageMade}
  <1> DEFINE c == Named(d)
             e == Completed(c, PackageMade)
  <1>1. /\ c \in Document
        /\ c.target = d.target /\ c.azureDevOpsId = d.azureDevOpsId
        /\ c.githubUserId = d.githubUserId /\ c.branchNamed = TRUE
        /\ c.initialCommitSha = d.initialCommitSha /\ c.pullRequestNumber = d.pullRequestNumber
        /\ c.currentStage = d.currentStage /\ c.completedActions = d.completedActions
        /\ c.revision = d.revision
    BY NamedIs DEF Good
  <1> HIDE DEF c
  <1>2. /\ e \in Document
        /\ e.target = d.target /\ e.azureDevOpsId = d.azureDevOpsId
        /\ e.githubUserId = d.githubUserId /\ e.branchNamed = TRUE
        /\ e.initialCommitSha = d.initialCommitSha /\ e.pullRequestNumber = d.pullRequestNumber
        /\ e.currentStage = d.currentStage /\ e.completedActions = d.completedActions \cup {PackageMade}
        /\ e.revision = d.revision
    BY <1>1, CompletedIs, ActionsAreIntakes
  <1>3. e = WithPackage(d)
    BY DEF c, WithPackage
  <1> HIDE DEF e
  <1>4. /\ Follows(d, Saved(e)) /\ Saved(e).initialCommitSha = d.initialCommitSha
        /\ Saved(e).completedActions = d.completedActions \cup {PackageMade}
    BY <1>2, SavedIs, ActionsAreIntakes DEF Follows, Good, Keeps, Document
  <1> QED BY <1>3, <1>4

LEMMA MessageFollows ==
  ASSUME NEW d, Good(d), BranchCreated \in d.completedActions, PackageMade \in d.completedActions
  PROVE  LET f == Saved(WithMessage(d)) IN
             /\ Follows(d, f) /\ f.initialCommitSha = d.initialCommitSha
             /\ f.completedActions = d.completedActions \cup {MessageSent}
  <1> DEFINE e == WithMessage(d)
  <1>1. /\ e \in Document
        /\ e.target = d.target /\ e.azureDevOpsId = d.azureDevOpsId
        /\ e.githubUserId = d.githubUserId /\ e.branchNamed = d.branchNamed
        /\ e.initialCommitSha = d.initialCommitSha /\ e.pullRequestNumber = d.pullRequestNumber
        /\ e.currentStage = d.currentStage /\ e.completedActions = d.completedActions \cup {MessageSent}
        /\ e.revision = d.revision
    BY CompletedIs, ActionsAreIntakes DEF Good, WithMessage
  <1> HIDE DEF e
  <1>2. /\ Follows(d, Saved(e)) /\ Saved(e).initialCommitSha = d.initialCommitSha
        /\ Saved(e).completedActions = d.completedActions \cup {MessageSent}
    BY <1>1, SavedIs, ActionsAreIntakes DEF Follows, Good, Keeps, Document
  <1> QED BY <1>2 DEF e

LEMMA PullFollows ==
  ASSUME NEW d, Good(d), d.pullRequestNumber = None, NEW pull \in Pulls
  PROVE  LET f == Saved(WithPull(d, pull)) IN
             /\ Follows(d, f) /\ f.initialCommitSha = d.initialCommitSha
             /\ f.completedActions = d.completedActions
  <1> DEFINE c == [d EXCEPT !.pullRequestNumber = pull]
             e == InStage(c, TechnicalReview)
  <1>1. /\ c \in Document
        /\ c.target = d.target /\ c.azureDevOpsId = d.azureDevOpsId
        /\ c.githubUserId = d.githubUserId /\ c.branchNamed = d.branchNamed
        /\ c.initialCommitSha = d.initialCommitSha /\ c.pullRequestNumber = pull
        /\ c.currentStage = d.currentStage /\ c.completedActions = d.completedActions
        /\ c.revision = d.revision
    BY DEF Good, Document
  <1> HIDE DEF c
  <1>2. TechnicalReview \in SubmissionStage
    BY DEF SubmissionStage
  <1>3. /\ e \in Document
        /\ e.target = d.target /\ e.azureDevOpsId = d.azureDevOpsId
        /\ e.githubUserId = d.githubUserId /\ e.branchNamed = d.branchNamed
        /\ e.initialCommitSha = d.initialCommitSha /\ e.pullRequestNumber = pull
        /\ e.currentStage = TechnicalReview /\ e.completedActions = d.completedActions
        /\ e.revision = d.revision
    BY <1>1, <1>2, InStageIs
  <1>4. e = WithPull(d, pull)
    BY DEF c, WithPull
  <1> HIDE DEF e
  <1>5. /\ Follows(d, Saved(e)) /\ Saved(e).initialCommitSha = d.initialCommitSha
        /\ Saved(e).completedActions = d.completedActions
    BY <1>3, SavedIs DEF Follows, Good, Keeps, Document
  <1> QED BY <1>4, <1>5

LEMMA ReviewFollows ==
  ASSUME NEW d, Good(d)
  PROVE  LET f == Saved(d) IN
             /\ Follows(d, f) /\ f.initialCommitSha = d.initialCommitSha
             /\ f.completedActions = d.completedActions
  BY SavedIs DEF Follows, Good, Keeps, Document

\* A record from before branches were created for contributors is good as well.
LEMMA OldRecordIsGood ==
  ASSUME NEW target \in Targets, NEW item \in Nat
  PROVE  LET d == OldRecord(target, item) IN
             Good(d) /\ d.target = target /\ d.azureDevOpsId = item /\ d.initialCommitSha = None
                /\ d.completedActions = {StoryCreated, PackageMade}
  <1> DEFINE d == WithItem(NewDocument(target), item)
             c == Named(d)
             e == Completed(c, PackageMade)
  <1>1. /\ d \in Document /\ d.target = target /\ d.azureDevOpsId = item
        /\ d.initialCommitSha = None /\ d.completedActions = {StoryCreated}
        /\ d.revision = 0
    BY FirstItemIs
  <1> HIDE DEF d
  <1>2. /\ c \in Document /\ c.target = target /\ c.azureDevOpsId = item
        /\ c.initialCommitSha = None /\ c.completedActions = {StoryCreated}
        /\ c.revision = 0 /\ c.branchNamed = TRUE
    BY <1>1, NamedIs
  <1> HIDE DEF c
  <1>3. /\ e \in Document /\ e.target = target /\ e.azureDevOpsId = item
        /\ e.initialCommitSha = None /\ e.revision = 0 /\ e.branchNamed = TRUE
        /\ e.completedActions = {StoryCreated, PackageMade}
    <2>1. PackageMade \in IntakeActions
      BY ActionsAreIntakes
    <2>2. e.completedActions = c.completedActions \cup {PackageMade}
      BY <1>2, <2>1, CompletedIs
    <2>3. e.branchNamed = c.branchNamed
      BY <1>2, <2>1, CompletedIs
    <2>4. /\ e \in Document /\ e.target = c.target /\ e.azureDevOpsId = c.azureDevOpsId
          /\ e.initialCommitSha = c.initialCommitSha /\ e.revision = c.revision
      BY <1>2, <2>1, CompletedIs
    <2> QED BY <1>2, <2>2, <2>3, <2>4
  <1> HIDE DEF e
  <1>4. Good(Saved(e)) /\ Saved(e).target = target /\ Saved(e).azureDevOpsId = item
            /\ Saved(e).initialCommitSha = None
            /\ Saved(e).completedActions = {StoryCreated, PackageMade}
    BY <1>3, SavedIs, ActionsAreIntakes, FactsAssumption DEF Good
  <1>5. OldRecord(target, item) = Saved(e)
    BY DEF OldRecord, WithPackage, c, d, e
  <1> QED BY <1>4, <1>5

=============================================================================
