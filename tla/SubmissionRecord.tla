--------------------------- MODULE SubmissionRecord ---------------------------
(***************************************************************************)
(* What the record of one submission promises whoever works on it: it      *)
(* collects facts, each of them once, in the order the work is done, and a *)
(* fact is never replaced or taken back, although intake runs, reruns and  *)
(* pull-request runs each write the whole document from what they loaded.  *)
(***************************************************************************)
EXTENDS SubmissionFacts

VARIABLE record  \* the state document, None before there is one

Init ==
    \/ record = None
    \/ /\ record \in Document /\ record.azureDevOpsId # None
       /\ record = OldRecord(record.target, record.azureDevOpsId)

RecordItem ==
    /\ record = None
    /\ record' \in Document /\ record'.azureDevOpsId # None
    /\ record' = Saved(WithItem(NewDocument(record'.target), record'.azureDevOpsId))

RecordUser ==
    /\ record # None /\ record.githubUserId = None
    /\ \E user \in Users : record' = Saved(WithUser(record, user))

RecordIntent ==
    /\ record # None /\ record.githubUserId # None /\ record.initialCommitSha = None
    /\ \E sha \in Commits : record' = Saved(WithIntent(record, sha))

RecordBranch ==
    /\ record # None /\ record.initialCommitSha # None
    /\ BranchCreated \notin record.completedActions
    /\ record' = Saved(WithBranch(record))

RecordPackage ==
    /\ record # None /\ BranchCreated \in record.completedActions
    /\ PackageMade \notin record.completedActions
    /\ record' = Saved(WithPackage(record))

RecordMessage ==
    /\ record # None /\ {BranchCreated, PackageMade} \subseteq record.completedActions
    /\ MessageSent \notin record.completedActions
    /\ record' = Saved(WithMessage(record))

RecordPull ==
    /\ record # None /\ record.pullRequestNumber = None
    /\ \E pull \in Pulls : record' = Saved(WithPull(record, pull))

\* A later pull-request run: nothing intake knows of changes.
RecordReview == record # None /\ record' = Saved(record)

Next ==
    \/ RecordItem \/ RecordUser \/ RecordIntent \/ RecordBranch \/ RecordPackage
    \/ RecordMessage \/ RecordPull \/ RecordReview

Spec == Init /\ [][Next]_record

-----------------------------------------------------------------------------
(* Properties                                                               *)

TypeOK == record \in Document \cup {None}

\* The message that work can start is recorded only with everything it speaks
\* of: the work item, the contributor, and the branch with its commit, whichever
\* runs recorded them.
ReadyIsBacked ==
    record # None /\ MessageSent \in record.completedActions =>
        /\ IntakeActions \subseteq record.completedActions
        /\ record.azureDevOpsId # None /\ record.githubUserId # None
        /\ record.branchNamed /\ record.initialCommitSha # None

\* A recorded fact stays as it is for the life of the submission.
FactsAreKept ==
    [][record # None =>
          /\ record' # None /\ record'.target = record.target
          /\ record.azureDevOpsId # None => record'.azureDevOpsId = record.azureDevOpsId
          /\ record.githubUserId # None => record'.githubUserId = record.githubUserId
          /\ record.initialCommitSha # None => record'.initialCommitSha = record.initialCommitSha
          /\ record.pullRequestNumber # None => record'.pullRequestNumber = record.pullRequestNumber
          /\ record.completedActions \subseteq record'.completedActions
          /\ record.currentStage = TechnicalReview => record'.currentStage = TechnicalReview]_record

=============================================================================
