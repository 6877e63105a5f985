---------------------------- MODULE IntakePipeline ----------------------------
(***************************************************************************)
(* Apply runs of the intake workflow for one submission: PipelineApplica-  *)
(* tion and the five services it calls, one action per await.  A run finds *)
(* or creates the work item, checks the contributor, creates the branch,   *)
(* writes the start package and sends the start message, and saves each    *)
(* result in the submission's record before it goes on.                    *)
(*                                                                         *)
(* Runs die, outside calls fail, reads of the state branch lag one write   *)
(* behind, and people change what a run relies on; each of these is a      *)
(* disturbance, and a behaviour has at most MaxDisturbances of them.  A    *)
(* Save is one conditional step: module GitHubStore shows that it acts as  *)
(* one.                                                                    *)
(***************************************************************************)
EXTENDS IntakeRules, WorkItems, SubmissionFacts, Sequences

CONSTANTS
    Runs,             \* apply runs of the submission
    Submission,       \* its id
    Checkouts,        \* what the submission file and the configurations may say
    FirstCheckout, FirstUser, FirstBase,
                      \* the files, the contributor and the base at first
    Boards,           \* the work items there may be before the first run
    MaxDisturbances   \* bound

\* A branch: where it starts, who made it, and whether it was there before the
\* automation had begun anything.
Branches == [sha : Commits, by : {"automation", "others"}, unrelated : BOOLEAN]

ASSUME IntakeAssumption ==
    /\ Submission \in Submissions
    /\ \A c \in Checkouts : Accepts(c) =>
           TargetOf(c.submission) \in Targets /\ PlaceOf(c.azureDevOpsConfig) \in Places
    /\ FirstCheckout \in Checkouts /\ Accepts(FirstCheckout)
    /\ FirstUser \in Users /\ FirstBase \in Commits
    /\ None \notin Branches
    /\ Boards \subseteq [next : Nat, items : SUBSET WorkItem]
    /\ MaxDisturbances \in Nat

VARIABLES
    mode,         \* AZURE_DEVOPS_MODE
    checkout,     \* the submission file and the configurations, as checked in now
    account,      \* who holds the contributor's login, and whether they may write
    record,       \* the state document, None before there is one
    priorRecord,  \* what it was before its last write
    board,        \* the work items
    priorBoard,   \* what they were before the last write
    base,         \* the base branch's head
    branch,       \* the contributor branch, None before there is one
    sent,         \* the start messages: the work item each one names
    run,          \* the apply runs
    disturbed,    \* how often each disturbance has happened
    left          \* how many more there may be

world == <<mode, checkout, account, base>>
vars == <<world, record, priorRecord, board, priorBoard, branch, sent, run, disturbed, left>>

Record == INSTANCE SubmissionRecord

Disturbances == {"fail", "overlap", "lag", "edit", "access", "base", "branch",
                 "neighbour", "receiver"}

Steps == {"loadItem", "findItem", "createItem", "writeItem", "saveItem",
          "verify", "checkPermission", "loadIdentity", "saveIdentity",
          "loadBranch", "findBranch", "readBase", "saveIntent", "createBranch",
          "completeBranch", "reloadBranch", "retryBranch",
          "loadPackage", "writePackage", "savePackage",
          "loadMessage", "sendMessage", "completeMessage", "reloadMessage", "retryMessage"}

\* What the services use of the files, and whether the start-package
\* configuration, which is read last, is accepted.
Inputs == [target : Targets, place : Places, startConfig : BOOLEAN]
InputOf(c) ==
    [target |-> TargetOf(c.submission), place |-> PlaceOf(c.azureDevOpsConfig),
     startConfig |-> AcceptsStartConfig(c.startConfig)]
Accounts == [user : Users \cup {None}, maintains : BOOLEAN]

\* A run: what it read when it started, and the document, the database and the
\* answers it holds.
NewRun == [pc |-> "idle", input |-> None, loaded |-> None, item |-> None,
           database |-> None, user |-> None, sha |-> None]
Ended(outcome) == [NewRun EXCEPT !.pc = outcome]
Given(step, input) == [Ended(step) EXCEPT !.input = input]

Init ==
    /\ mode \in Modes
    /\ checkout = FirstCheckout
    /\ account = [user |-> FirstUser, maintains |-> TRUE]
    /\ base = FirstBase
    /\ board \in Boards
    /\ record = None \/ \E w \in board.items :
                            /\ w.submission = Submission /\ w.place = Pinned
                            /\ record = OldRecord(TargetOf(checkout.submission), w.id)
    /\ priorRecord = record /\ priorBoard = board
    /\ branch = None
    /\ sent = <<>>
    /\ run = [r \in Runs |-> NewRun]
    /\ disturbed = [d \in Disturbances |-> 0]
    /\ left = MaxDisturbances

Disturb(d) ==
    /\ left > 0
    /\ left' = left - 1
    /\ disturbed' = [disturbed EXCEPT ![d] = @ + 1]

Undisturbed == UNCHANGED <<disturbed, left>>

-----------------------------------------------------------------------------
(* What happens around the runs.                                            *)

Active(r) == run[r].pc \in Steps

\* A run has seen that there is no branch and has not created it yet.
PreparesBranch(r) == run[r].pc \in {"readBase", "saveIntent", "createBranch"}

EditFiles ==
    /\ Disturb("edit")
    /\ \E new \in Checkouts \ {checkout} : checkout' = new
    /\ UNCHANGED <<mode, account, base, record, priorRecord, board, priorBoard, branch, sent, run>>

ChangeAccess ==
    /\ Disturb("access")
    /\ \E new \in Accounts \ {account} : account' = new
    /\ UNCHANGED <<mode, checkout, base, record, priorRecord, board, priorBoard, branch, sent, run>>

AdvanceBase ==
    /\ Disturb("base")
    /\ \E new \in Commits \ {base} : base' = new
    /\ UNCHANGED <<mode, checkout, account, record, priorRecord, board, priorBoard, branch, sent, run>>

\* Somebody else creates a branch of the contributor branch's name.
ForeignBranch ==
    /\ branch = None /\ Disturb("branch")
    /\ branch' = [sha |-> base, by |-> "others",
                  unrelated |-> /\ record = None \/ record.initialCommitSha = None
                                /\ \A r \in Runs : ~PreparesBranch(r)]
    /\ UNCHANGED <<world, record, priorRecord, board, priorBoard, sent, run>>

\* Another submission's run creates its work item, or somebody makes an item with
\* that submission's tag in the project and gives it no parent.
NeighbourItem ==
    /\ Disturb("neighbour")
    /\ \E s \in Submissions \ {Submission}, place \in {Pinned} \cup Parentless :
           /\ place = Pinned \/ mode = "entra"
           /\ board' = WithNewItem(board, s, place)
    /\ priorBoard' = board
    /\ UNCHANGED <<world, record, priorRecord, branch, sent, run>>

\* A pull-request run saves the match, or a later one its review.
ReceiverWrites ==
    /\ record # None /\ Disturb("receiver")
    /\ IF record.pullRequestNumber = None
       THEN \E pull \in Pulls : record' = Saved(WithPull(record, pull))
       ELSE record' = Saved(record)
    /\ priorRecord' = record
    /\ UNCHANGED <<world, board, priorBoard, branch, sent, run>>

-----------------------------------------------------------------------------
(* The life of a run.                                                       *)

At(r, step) == run[r].pc = step
MoveTo(r, new) == run' = [run EXCEPT ![r] = new]
Fail(r) == MoveTo(r, Ended("failed"))
On(r, step) == [run[r] EXCEPT !.pc = step]
Holding(r, step, document) == [On(r, step) EXCEPT !.loaded = document]
Numbered(r, item) == [On(r, "saveItem") EXCEPT !.item = item]

\* A service is done: what it held is gone, but for the document it passes on.
Onward(r, step) == Given(step, run[r].input)
Passing(r, step, document) == [Onward(r, step) EXCEPT !.loaded = document]

\* The workflow is dispatched, or a run that has ended is run again: the files
\* are checked out, read and judged.  Runs of one concurrency group follow each other;
\* the group is named by what the operator types (intake.yml:68), so runs of
\* one submission can overlap.
Start(r) ==
    /\ ~Active(r)
    /\ IF Accepts(checkout)
       THEN MoveTo(r, Given("loadItem", InputOf(checkout)))
       ELSE Fail(r)
    /\ IF \E q \in Runs : Active(q) THEN Disturb("overlap") ELSE Undisturbed
    /\ UNCHANGED <<world, record, priorRecord, board, priorBoard, branch, sent>>

\* The runner is lost, or the outside call a step is waiting for fails, before
\* or after it took effect.
RunFails(r) ==
    /\ Active(r) /\ Disturb("fail")
    /\ Fail(r)
    /\ UNCHANGED <<world, record, priorRecord, board, priorBoard, branch, sent>>

Calls == <<world, record, priorRecord, board, priorBoard, branch, sent>>

\* SubmissionStore.Load returns the document, or the one before it.
Loads(document) ==
    \/ document = record /\ Undisturbed
    \/ document = priorRecord /\ document # record /\ Disturb("lag")

\* The same for the mock's database.
Reads(database) ==
    \/ database = board /\ Undisturbed
    \/ mode = "mock" /\ database = priorBoard /\ database # board /\ Disturb("lag")

\* Mutation: the revision is not compared.
SavesAnyRevision(r, new, saved, conflict) ==
    /\ record' = Saved(new) /\ priorRecord' = record
    /\ MoveTo(r, saved)
    /\ Undisturbed

\* SubmissionStore.Save of a document computed from the loaded one.  A conflict
\* is met when the revision has moved on, or when the store's own read lags.
Saves(r, new, saved, conflict) ==
    \/ /\ RevisionOf(record) = RevisionOf(run[r].loaded)
       /\ record' = Saved(new) /\ priorRecord' = record
       /\ MoveTo(r, saved)
       /\ Undisturbed
    \/ /\ RevisionOf(record) # RevisionOf(run[r].loaded)
       /\ MoveTo(r, conflict)
       /\ Undisturbed /\ UNCHANGED <<record, priorRecord>>
    \/ /\ RevisionOf(priorRecord) # RevisionOf(run[r].loaded)
       /\ MoveTo(r, conflict)
       /\ Disturb("lag") /\ UNCHANGED <<record, priorRecord>>

-----------------------------------------------------------------------------
(* AzureDevOpsStateService and AzureDevOpsService: the work item.           *)

\* The document is about what the run's submission file says.
Correlates(r, document) == document.target = run[r].input.target

StateOf(r) ==
    IF run[r].loaded = None THEN NewDocument(run[r].input.target) ELSE run[r].loaded

LoadItem(r) ==
    /\ At(r, "loadItem")
    /\ \E document \in {record, priorRecord} :
           /\ Loads(document)
           /\ MoveTo(r,
                IF document # None /\ ~Correlates(r, document) THEN Ended("failed")
                ELSE IF document # None /\ document.azureDevOpsId # None
                THEN IF StoryCreated \in document.completedActions THEN Onward(r, "verify")
                     ELSE [Numbered(r, document.azureDevOpsId) EXCEPT !.loaded = document]
                ELSE IF ~Safe(run[r].input.place) THEN Ended("failed")
                ELSE Holding(r, "findItem", document))
    /\ UNCHANGED Calls

\* Mutation: a submission that is not recorded is taken to have no item.
FindNothing(r) ==
    /\ At(r, "findItem")
    /\ MoveTo(r, On(r, "createItem"))
    /\ Undisturbed /\ UNCHANGED Calls

\* One item of the submission's is used, several are an error.
FindItem(r) ==
    /\ At(r, "findItem")
    /\ \E database \in {board, priorBoard} :
           /\ Reads(database)
           /\ LET found == Find(mode, database, Submission, run[r].input.place) IN
              MoveTo(r,
                IF FindFails(mode, database, Submission) \/ Cardinality(found) > 1
                THEN Ended("failed")
                ELSE IF found = {} THEN On(r, "createItem")
                ELSE Numbered(r, CHOOSE id \in found : TRUE))
    /\ UNCHANGED Calls

\* The service creates the item in one request; the mock reads its database ...
CreateItem(r) ==
    /\ At(r, "createItem")
    /\ \/ /\ mode = "entra"
          /\ board' = WithNewItem(board, Submission, run[r].input.place)
          /\ priorBoard' = board
          /\ MoveTo(r, Numbered(r, board.next))
          /\ Undisturbed
       \/ /\ mode = "mock"
          /\ \E database \in {board, priorBoard} :
                 /\ Reads(database)
                 /\ MoveTo(r, [On(r, "writeItem") EXCEPT !.database = database])
          /\ UNCHANGED <<board, priorBoard>>
    /\ UNCHANGED <<world, record, priorRecord, branch, sent>>

\* ... and writes it, if it is still what was read.
WriteItem(r) ==
    /\ At(r, "writeItem")
    /\ IF board = run[r].database
       THEN /\ board' = WithNewItem(board, Submission, run[r].input.place)
            /\ priorBoard' = board
            /\ MoveTo(r, [Numbered(r, board.next) EXCEPT !.database = None])
       ELSE Fail(r) /\ UNCHANGED <<board, priorBoard>>
    /\ Undisturbed
    /\ UNCHANGED <<world, record, priorRecord, branch, sent>>

SaveItem(r) ==
    /\ At(r, "saveItem")
    /\ Saves(r, WithItem(StateOf(r), run[r].item), Onward(r, "verify"), Ended("failed"))
    /\ UNCHANGED <<world, board, priorBoard, branch, sent>>

-----------------------------------------------------------------------------
(* ContributorAccessService and GitHubContributorVerifier.                  *)

\* ResolveUser: the login is looked up; an unknown one is not eligible.
ResolveUser(r) ==
    /\ At(r, "verify")
    /\ IF account.user = None THEN Fail(r)
       ELSE MoveTo(r, [On(r, "checkPermission") EXCEPT !.user = account.user])
    /\ Undisturbed /\ UNCHANGED Calls

\* CheckPermission asks by the login once more.
CheckPermission(r) ==
    /\ At(r, "checkPermission")
    /\ IF account.user # None /\ account.maintains THEN MoveTo(r, On(r, "loadIdentity"))
       ELSE Fail(r)
    /\ Undisturbed /\ UNCHANGED Calls

LoadIdentity(r) ==
    /\ At(r, "loadIdentity")
    /\ \E document \in {record, priorRecord} :
           /\ Loads(document)
           /\ MoveTo(r,
                IF document = None THEN On(r, "saveIdentity")
                ELSE IF ~Correlates(r, document) THEN Ended("failed")
                ELSE IF document.githubUserId = None
                THEN Holding(r, "saveIdentity", document)
                ELSE IF document.githubUserId = run[r].user THEN Onward(r, "loadBranch")
                ELSE Ended("failed"))
    /\ UNCHANGED Calls

SaveIdentity(r) ==
    /\ At(r, "saveIdentity")
    /\ Saves(r, WithUser(StateOf(r), run[r].user), Onward(r, "loadBranch"), Ended("failed"))
    /\ UNCHANGED <<world, board, priorBoard, branch, sent>>

-----------------------------------------------------------------------------
(* ContributorBranchService.                                                *)

LoadBranch(r) ==
    /\ At(r, "loadBranch")
    /\ \E document \in {record, priorRecord} :
           /\ Loads(document)
           /\ MoveTo(r,
                IF document = None \/ ~Correlates(r, document) THEN Ended("failed")
                ELSE Holding(r, "findBranch", document))
    /\ UNCHANGED Calls

\* Mutation: the branch name alone proves that the branch is the automation's.
ProvenByName(document) == document.branchNamed

\* Mutation: only a branch recorded as complete is taken over.
ProvenWhenComplete(document) == BranchCreated \in document.completedActions

\* RequireProof: an existing branch is taken for the automation's own only if
\* the name and the commit are recorded.
Proven(document) == document.branchNamed /\ document.initialCommitSha # None

\* SaveComplete saves nothing when the branch is recorded as complete.
Completing(r, document) ==
    IF BranchCreated \in document.completedActions THEN Onward(r, "loadPackage")
    ELSE Passing(r, "completeBranch", document)

\* Mutation: the intent is saved before the base is known.
IntentWithoutBase(r, document) ==
    IF document.initialCommitSha = None THEN On(r, "saveIntent") ELSE On(r, "createBranch")

\* SaveIntent: a commit that is recorded is used again.
Intending(r, document) ==
    IF document.initialCommitSha = None THEN On(r, "readBase")
    ELSE IF document.branchNamed THEN On(r, "createBranch")
    ELSE [On(r, "saveIntent") EXCEPT !.sha = document.initialCommitSha]

FindBranch(r) ==
    /\ At(r, "findBranch")
    /\ MoveTo(r,
         IF branch = None THEN Intending(r, run[r].loaded)
         ELSE IF Proven(run[r].loaded) THEN Completing(r, run[r].loaded)
         ELSE Ended("failed"))
    /\ Undisturbed /\ UNCHANGED Calls

ReadBase(r) ==
    /\ At(r, "readBase")
    /\ MoveTo(r, [On(r, "saveIntent") EXCEPT !.sha = base])
    /\ Undisturbed /\ UNCHANGED Calls

SaveIntent(r) ==
    /\ At(r, "saveIntent")
    /\ LET new == WithIntent(run[r].loaded, run[r].sha) IN
           Saves(r, new, Passing(r, "createBranch", Saved(new)),
                 Ended("failed"))
    /\ UNCHANGED <<world, board, priorBoard, branch, sent>>

\* Mutation: the branch starts at the base's head as it is by now.
CreateBranchAtBase(r) ==
    /\ At(r, "createBranch")
    /\ IF branch = None
       THEN /\ branch' = [sha |-> base, by |-> "automation", unrelated |-> FALSE]
            /\ MoveTo(r, Completing(r, run[r].loaded))
       ELSE Fail(r) /\ UNCHANGED branch
    /\ Undisturbed
    /\ UNCHANGED <<world, record, priorRecord, board, priorBoard, sent>>

\* GitHub refuses to create a branch that exists.
CreateBranch(r) ==
    /\ At(r, "createBranch")
    /\ IF branch = None
       THEN /\ branch' = [sha |-> run[r].loaded.initialCommitSha, by |-> "automation",
                          unrelated |-> FALSE]
            /\ MoveTo(r, Completing(r, run[r].loaded))
       ELSE Fail(r) /\ UNCHANGED branch
    /\ Undisturbed
    /\ UNCHANGED <<world, record, priorRecord, board, priorBoard, sent>>

CompleteBranch(r) ==
    /\ At(r, "completeBranch")
    /\ Saves(r, WithBranch(run[r].loaded), Onward(r, "loadPackage"), Onward(r, "reloadBranch"))
    /\ UNCHANGED <<world, board, priorBoard, branch, sent>>

ReloadBranch(r) ==
    /\ At(r, "reloadBranch")
    /\ \E document \in {record, priorRecord} :
           /\ Loads(document)
           /\ MoveTo(r,
                IF document = None \/ ~Correlates(r, document) \/ ~Proven(document)
                THEN Ended("failed")
                ELSE IF BranchCreated \in document.completedActions THEN Onward(r, "loadPackage")
                ELSE Holding(r, "retryBranch", document))
    /\ UNCHANGED Calls

RetryBranch(r) ==
    /\ At(r, "retryBranch")
    /\ Saves(r, WithBranch(run[r].loaded), Onward(r, "loadPackage"), Ended("failed"))
    /\ UNCHANGED <<world, board, priorBoard, branch, sent>>

-----------------------------------------------------------------------------
(* StartPackageService.                                                     *)

LoadPackage(r) ==
    /\ At(r, "loadPackage")
    /\ \E document \in {record, priorRecord} :
           /\ Loads(document)
           /\ MoveTo(r,
                IF \/ ~run[r].input.startConfig
                   \/ document = None \/ document.azureDevOpsId = None
                   \/ ~Correlates(r, document)
                THEN Ended("failed")
                ELSE Holding(r, "writePackage", document))
    /\ UNCHANGED Calls

\* The artifact goes to the runner's disk; a rerun writes it anew.
WritePackage(r) ==
    /\ At(r, "writePackage")
    /\ MoveTo(r, IF PackageMade \in run[r].loaded.completedActions /\ run[r].loaded.branchNamed
                 THEN Onward(r, "loadMessage") ELSE On(r, "savePackage"))
    /\ Undisturbed /\ UNCHANGED Calls

SavePackage(r) ==
    /\ At(r, "savePackage")
    /\ Saves(r, WithPackage(run[r].loaded), Onward(r, "loadMessage"), Ended("failed"))
    /\ UNCHANGED <<world, board, priorBoard, branch, sent>>

-----------------------------------------------------------------------------
(* StartNotificationService.                                                *)

\* ValidateState: everything the message speaks of is recorded.
ReadyFor(r, document) ==
    /\ document # None /\ Correlates(r, document)
    /\ Proven(document) /\ document.githubUserId # None
    /\ BranchCreated \in document.completedActions

LoadMessage(r) ==
    /\ At(r, "loadMessage")
    /\ \E document \in {record, priorRecord} :
           /\ Loads(document)
           /\ MoveTo(r,
                IF ~ReadyFor(r, document) THEN Ended("failed")
                ELSE IF MessageSent \in document.completedActions THEN Ended("succeeded")
                ELSE IF document.azureDevOpsId = None THEN Ended("failed")
                ELSE Holding(r, "sendMessage", document))
    /\ UNCHANGED Calls

SendMessage(r) ==
    /\ At(r, "sendMessage")
    /\ sent' = Append(sent, run[r].loaded.azureDevOpsId)
    /\ MoveTo(r, On(r, "completeMessage"))
    /\ Undisturbed
    /\ UNCHANGED <<world, record, priorRecord, board, priorBoard, branch>>

\* Mutation: the first conflict ends the run.
AfterConflictFailed(r) == Ended("failed")

\* Mutation: a conflict is taken for another run's completion.
AfterConflictDone(r) == Ended("succeeded")

\* SaveCompletion reloads after one conflict; the message is not sent again.
AfterConflict(r) == Onward(r, "reloadMessage")

CompleteMessage(r) ==
    /\ At(r, "completeMessage")
    /\ Saves(r, WithMessage(run[r].loaded), Ended("succeeded"), AfterConflict(r))
    /\ UNCHANGED <<world, board, priorBoard, branch, sent>>

ReloadMessage(r) ==
    /\ At(r, "reloadMessage")
    /\ \E document \in {record, priorRecord} :
           /\ Loads(document)
           /\ MoveTo(r,
                IF ~ReadyFor(r, document) THEN Ended("failed")
                ELSE IF MessageSent \in document.completedActions THEN Ended("succeeded")
                ELSE Holding(r, "retryMessage", document))
    /\ UNCHANGED Calls

RetryMessage(r) ==
    /\ At(r, "retryMessage")
    /\ Saves(r, WithMessage(run[r].loaded), Ended("succeeded"), Ended("failed"))
    /\ UNCHANGED <<world, board, priorBoard, branch, sent>>

-----------------------------------------------------------------------------

RunStep(r) ==
    \/ LoadItem(r) \/ FindItem(r) \/ CreateItem(r) \/ WriteItem(r) \/ SaveItem(r)
    \/ ResolveUser(r) \/ CheckPermission(r) \/ LoadIdentity(r) \/ SaveIdentity(r)
    \/ LoadBranch(r) \/ FindBranch(r) \/ ReadBase(r) \/ SaveIntent(r) \/ CreateBranch(r)
    \/ CompleteBranch(r) \/ ReloadBranch(r) \/ RetryBranch(r)
    \/ LoadPackage(r) \/ WritePackage(r) \/ SavePackage(r)
    \/ LoadMessage(r) \/ SendMessage(r) \/ CompleteMessage(r)
    \/ ReloadMessage(r) \/ RetryMessage(r)

World ==
    \/ EditFiles \/ ChangeAccess \/ AdvanceBase
    \/ ForeignBranch \/ NeighbourItem \/ ReceiverWrites

Next == World \/ \E r \in Runs : Start(r) \/ RunFails(r) \/ RunStep(r)

Spec == Init /\ [][Next]_vars

\* The runner executes what it has started, and a failed run is run again.
RerunFailed(r) == run[r].pc = "failed" /\ Start(r)

FairSpec ==
    /\ Spec
    /\ \A r \in Runs : WF_vars(RunStep(r) \/ RerunFailed(r))

-----------------------------------------------------------------------------
(* Properties                                                               *)

Never(d) == disturbed[d] = 0

RunState ==
    [pc : Steps \cup {"idle", "succeeded", "failed"}, input : Inputs \cup {None},
     loaded : Document \cup {None}, item : Nat \cup {None},
     database : [next : Nat, items : SUBSET WorkItem] \cup {None},
     user : Users \cup {None}, sha : Commits \cup {None}]

TypeOK ==
    /\ mode \in Modes /\ checkout \in Checkouts /\ account \in Accounts /\ base \in Commits
    /\ {record, priorRecord} \subseteq Document \cup {None}
    /\ \A b \in {board, priorBoard} : b.next \in Nat /\ b.items \subseteq WorkItem
    /\ branch \in Branches \cup {None}
    /\ \A k \in DOMAIN sent : sent[k] \in Nat
    /\ run \in [Runs -> RunState]
    /\ disturbed \in [Disturbances -> Nat] /\ left \in 0..MaxDisturbances

\* The runs implement the promise of the record.
ImplementsRecord == Record!Spec

Own == {w \in board.items : w.submission = Submission /\ w.place = Pinned}

\* The record and every message name a work item of this very submission in the
\* project the program is pinned to, whatever else the query returns.
NamesItsOwnItem ==
    LET own == {w.id : w \in Own} IN
    /\ record # None => record.azureDevOpsId \in own
    /\ \A k \in DOMAIN sent : sent[k] \in own

\* "Finds an existing correlated User Story or creates exactly one new item"
\* (AzureDevOpsService.ts:37): however often runs die between creating the item
\* and saving its number, there is one item, as long as runs do not overlap and
\* the mock's database is read as it was written.
OneItemWhenSerial ==
    Never("overlap") /\ Never("lag") => Cardinality(Own) <= 1

\* A branch the automation made starts at the commit the record names, although
\* the base branch advances and other runs save intents of their own.
BranchStartsWhereRecorded ==
    branch # None /\ branch.by = "automation" =>
        record # None /\ record.initialCommitSha = branch.sha

\* "Unrelated existing branches are never adopted" (ContributorBranchService.ts:18)
\* when they were there before the automation had recorded or begun anything.
UnrelatedIsNotAdopted ==
    branch # None /\ branch.unrelated =>
        record = None \/ BranchCreated \notin record.completedActions

\* "Retries only the state save" (StartNotificationService.ts:90): a pull-request
\* run that saves while the message is out costs no second message, and neither do
\* reruns.  A death, an overlap, a lagging read or a second conflict does.
MessageOnce ==
    Never("fail") /\ Never("overlap") /\ Never("lag") /\ disturbed["receiver"] <= 1
        => Len(sent) <= 1

\* A run that reports success leaves everything done, by itself or by others, and
\* the branch and the message are really there.
SuccessMeansReady ==
    (\E r \in Runs : run[r].pc = "succeeded") =>
        /\ record # None /\ IntakeActions \subseteq record.completedActions
        /\ branch # None /\ sent # <<>>

\* What a run cannot do without: files that are accepted and about what the record
\* is about, the recorded contributor with access, a branch name nobody else took,
\* and, until the item is recorded, a lookup that neither meets two items of the
\* submission's own, nor a candidate without a parent, nor too many candidates.
Finishable ==
    /\ Accepts(checkout)
    /\ LET input == InputOf(checkout) IN
       /\ Safe(input.place) /\ input.startConfig
       /\ record # None => record.target = input.target
    /\ account.user # None /\ account.maintains
    /\ record # None => record.githubUserId \in {None, account.user}
    /\ Never("branch")
    /\ record = None => Cardinality(Own) <= 1 /\ ~FindFails(mode, board, Submission)

\* Intake comes to its end through deaths, lost answers, lagging reads, conflicts,
\* edits and changes of access that were put right again, and whatever is on the
\* board once the item is recorded.
IntakeFinishes ==
    <>[](\/ \A r \in Runs : run[r].pc = "idle"
         \/ ~Finishable
         \/ record # None /\ IntakeActions \subseteq record.completedActions)

(* A claim of the source that the code does not keep.                       *)

\* ContributorBranchService.ts:18: "unrelated existing branches are never adopted".
ForeignIsNotAdopted ==
    branch # None /\ branch.by = "others" =>
        record = None \/ BranchCreated \notin record.completedActions

=============================================================================
