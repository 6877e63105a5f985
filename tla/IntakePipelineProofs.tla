------------------------- MODULE IntakePipelineProofs -------------------------
(***************************************************************************)
(* Safety of the intake runs, and that they implement the record, for any  *)
(* number of runs and disturbances and any sets of the other constants.    *)
(*                                                                         *)
(* The argument: a run's document is an earlier version of the record, and *)
(* a save goes through only if it is the record itself.  So what a run     *)
(* checked of its document holds for the record when it writes, and what   *)
(* it skipped because it was recorded is recorded for good.                *)
(***************************************************************************)
EXTENDS IntakePipeline, SubmissionFactsProofs, FiniteSetTheorems

\* Document d was read from the record that is e by now.
Held(d, e) ==
    d # None =>
        /\ Good(d) /\ e # None /\ Keeps(d, e)
        /\ d.revision <= e.revision
        /\ d.revision = e.revision => d = e

\* What a record becomes.
Grows(d, e) ==
    \/ e = d
    \/ d = None /\ e # None
    \/ d # None /\ e # None /\ Follows(d, e)

\* The steps at which the record exists, names the contributor, has the branch
\* and has the package.
MessageSteps == {"loadMessage", "sendMessage", "completeMessage", "reloadMessage",
                 "retryMessage", "succeeded"}
PackageSteps == {"loadPackage", "writePackage", "savePackage"} \cup MessageSteps
BranchSteps  == {"loadBranch", "findBranch", "readBase", "saveIntent", "createBranch",
                 "completeBranch", "reloadBranch", "retryBranch"} \cup PackageSteps
UserSteps    == {"verify", "checkPermission", "loadIdentity", "saveIdentity"} \cup BranchSteps

ItemFits(s, own) ==
    /\ s.pc \in {"findItem", "createItem", "writeItem", "saveItem"} =>
           s.loaded = None /\ s.input.place = Pinned
    /\ s.pc = "saveItem" => s.item \in own

UserFits(s, e) ==
    /\ s.pc \in UserSteps => e # None
    /\ s.pc \in {"verify", "checkPermission", "loadIdentity"} => s.loaded = None
    /\ s.pc \in {"checkPermission", "loadIdentity", "saveIdentity"} => s.user # None
    /\ s.pc = "saveIdentity" /\ s.loaded # None => s.loaded.githubUserId = None

BranchFits(s, e, made) ==
    /\ s.pc \in BranchSteps => e.githubUserId # None
    /\ s.pc \in {"findBranch", "readBase", "saveIntent", "createBranch", "completeBranch",
                 "retryBranch"} => s.loaded # None
    /\ s.pc \in {"readBase", "saveIntent"} => s.loaded.initialCommitSha = None
    /\ s.pc = "saveIntent" => s.sha # None
    /\ s.pc \in {"createBranch", "completeBranch", "retryBranch"} =>
           s.loaded.initialCommitSha # None
    /\ s.pc \in {"completeBranch", "retryBranch"} =>
           BranchCreated \notin s.loaded.completedActions
    /\ s.pc \in {"completeBranch", "reloadBranch", "retryBranch"} => made # None

PackageFits(s, e) ==
    /\ s.pc \in PackageSteps => BranchCreated \in e.completedActions
    /\ s.pc \in {"writePackage", "savePackage"} => s.loaded # None
    /\ s.pc = "savePackage" => PackageMade \notin s.loaded.completedActions

MessageFits(s, e, messages) ==
    /\ s.pc \in MessageSteps => PackageMade \in e.completedActions
    /\ s.pc \in {"sendMessage", "completeMessage", "retryMessage"} =>
           s.loaded # None /\ MessageSent \notin s.loaded.completedActions
    /\ s.pc \in {"completeMessage", "reloadMessage", "retryMessage"} => messages # <<>>
    /\ s.pc = "succeeded" => MessageSent \in e.completedActions

\* A run state s makes sense with the record e, the submission's own items, the
\* branch and the messages.
Fits(s, e, own, made, messages) ==
    /\ s \in RunState /\ Held(s.loaded, e)
    /\ s.pc \in Steps => s.input \in Inputs
    /\ ItemFits(s, own) /\ UserFits(s, e) /\ BranchFits(s, e, made)
    /\ PackageFits(s, e) /\ MessageFits(s, e, messages)

LEMMA HeldItself ==
  ASSUME NEW e, e # None => Good(e) PROVE Held(e, e)
  BY DEF Held, Keeps, Good, Document

LEMMA HeldStays ==
  ASSUME NEW d, NEW e, NEW f, Held(d, e), e # None => Good(e), Grows(e, f)
  PROVE  Held(d, f)
  <1>1. CASE d = None \/ e = f
    BY <1>1 DEF Held
  <1>2. CASE d # None /\ e # None /\ f # None /\ Follows(e, f)
    <2>1. d.revision \in Nat /\ e.revision \in Nat /\ f.revision = e.revision + 1
      BY <1>2 DEF Held, Good, Follows, Document
    <2>2. Keeps(d, f)
      BY <1>2 DEF Held, Follows, Keeps
    <2> QED BY <1>2, <2>1, <2>2 DEF Held
  <1> QED BY <1>1, <1>2 DEF Grows, Held

LEMMA FitsStays ==
  ASSUME NEW s, NEW e, NEW own, NEW made, NEW messages, Fits(s, e, own, made, messages),
         NEW f, e # None => Good(e), Grows(e, f),
         NEW own2, own \subseteq own2,
         NEW made2, made # None => made2 # None,
         NEW messages2, messages # <<>> => messages2 # <<>>
  PROVE  Fits(s, f, own2, made2, messages2)
  <1>1. Held(s.loaded, f)
    BY HeldStays DEF Fits
  <1>2. ItemFits(s, own2)
    BY DEF Fits, ItemFits
  <1>3. UserFits(s, f)
    BY DEF Fits, UserFits, Grows
  <1>4. BranchFits(s, f, made2)
    <2>1. s.pc \in BranchSteps => e # None /\ e.githubUserId # None
      BY DEF Fits, UserFits, UserSteps, BranchFits
    <2>2. s.pc \in BranchSteps => f.githubUserId # None
      BY <2>1 DEF Grows, Follows, Keeps
    <2>3. BranchFits(s, e, made)
      BY DEF Fits
    <2>4. s.pc \in {"completeBranch", "reloadBranch", "retryBranch"} => made2 # None
      BY <2>3 DEF BranchFits
    <2> QED BY <2>2, <2>3, <2>4 DEF BranchFits
  <1>5. PackageFits(s, f)
    <2>1. s.pc \in PackageSteps => e # None /\ BranchCreated \in e.completedActions
      BY DEF Fits, UserFits, UserSteps, BranchSteps, PackageFits
    <2>2. s.pc \in PackageSteps => BranchCreated \in f.completedActions
      BY <2>1 DEF Grows, Follows, Keeps
    <2> QED BY <2>2 DEF Fits, PackageFits
  <1>6. MessageFits(s, f, messages2)
    <2>1. MessageFits(s, e, messages)
      BY DEF Fits
    <2>2. s.pc \in MessageSteps => e # None
      BY DEF Fits, UserFits, UserSteps, BranchSteps, PackageSteps
    <2>3. s.pc \in MessageSteps => PackageMade \in f.completedActions
      BY <2>1, <2>2 DEF MessageFits, Grows, Follows, Keeps
    <2>4. s.pc = "succeeded" => MessageSent \in f.completedActions
      <3>1. s.pc = "succeeded" => e # None /\ MessageSent \in e.completedActions
        BY <2>1, <2>2 DEF MessageFits, MessageSteps
      <3> QED BY <3>1 DEF Grows, Follows, Keeps
    <2>5. s.pc \in {"completeMessage", "reloadMessage", "retryMessage"} => messages2 # <<>>
      BY <2>1 DEF MessageFits
    <2> QED BY <2>1, <2>3, <2>4, <2>5 DEF MessageFits
  <1> QED BY <1>1, <1>2, <1>3, <1>4, <1>5, <1>6 DEF Fits

-----------------------------------------------------------------------------
(* The inductive invariant.                                                 *)

OwnIds == {w.id : w \in Own}

WorldOK ==
    /\ mode \in Modes /\ checkout \in Checkouts /\ account \in Accounts /\ base \in Commits
    /\ {board, priorBoard} \subseteq [next : Nat, items : SUBSET WorkItem]
    /\ priorBoard.items \subseteq board.items
    /\ branch \in Branches \cup {None}

CountsOK == disturbed \in [Disturbances -> Nat] /\ left \in 0..MaxDisturbances

RecordOK ==
    /\ record # None =>
           /\ Good(record) /\ record.azureDevOpsId \in OwnIds
           /\ BranchCreated \in record.completedActions => branch # None
           /\ MessageSent \in record.completedActions => sent # <<>>
    /\ Held(priorRecord, record)

MessagesOK == sent \in Seq(Nat) /\ \A k \in DOMAIN sent : sent[k] \in OwnIds

RunsOK ==
    /\ run \in [Runs -> RunState]
    /\ \A r \in Runs : Fits(run[r], record, OwnIds, branch, sent)

\* No run goes on to make or record a branch once an unrelated one is there.
UnrelatedOK ==
    branch # None /\ branch.unrelated =>
        /\ record # None => record.initialCommitSha = None
        /\ \A r \in Runs : ~PreparesBranch(r)

IInv ==
    /\ WorldOK /\ CountsOK /\ RecordOK /\ MessagesOK /\ RunsOK
    /\ BranchStartsWhereRecorded /\ UnrelatedOK

-----------------------------------------------------------------------------
(* The kinds of steps.                                                      *)

LEMMA Counting ==
  ASSUME CountsOK, Undisturbed \/ \E d \in Disturbances : Disturb(d)
  PROVE  CountsOK'
  BY IntakeAssumption DEF CountsOK, Undisturbed, Disturb

LEMMA RunMoves ==
  ASSUME RunsOK, record # None => Good(record), NEW r \in Runs, NEW new, MoveTo(r, new),
         Grows(record, record'), OwnIds \subseteq OwnIds',
         branch # None => branch' # None, sent # <<>> => sent' # <<>>,
         Fits(new, record', OwnIds', branch', sent')
  PROVE  RunsOK'
  <1>1. run' = [run EXCEPT ![r] = new] /\ new \in RunState
    BY DEF MoveTo, Fits
  <1>2. run' \in [Runs -> RunState]
    BY <1>1 DEF RunsOK
  <1>3. ASSUME NEW q \in Runs PROVE Fits(run'[q], record', OwnIds', branch', sent')
    <2>1. CASE q = r
      BY <1>1, <2>1 DEF RunsOK
    <2>2. CASE q # r
      <3>1. run'[q] = run[q] /\ Fits(run[q], record, OwnIds, branch, sent)
        BY <1>1, <2>2 DEF RunsOK
      <3> QED BY <3>1, FitsStays
    <2> QED BY <2>1, <2>2
  <1> QED BY <1>2, <1>3 DEF RunsOK

LEMMA CallMoves ==
  ASSUME IInv, NEW r \in Runs, NEW new, MoveTo(r, new), UNCHANGED Calls, CountsOK',
         Fits(new, record, OwnIds, branch, sent),
         new.pc \in {"readBase", "saveIntent", "createBranch"} =>
             branch = None \/ PreparesBranch(r)
  PROVE  IInv'
  <1> USE DEF Calls, world
  <1>1. OwnIds' = OwnIds
    BY DEF OwnIds, Own
  <1>2. WorldOK' /\ RecordOK' /\ MessagesOK' /\ BranchStartsWhereRecorded'
    BY <1>1 DEF IInv, WorldOK, RecordOK, MessagesOK, BranchStartsWhereRecorded
  <1>3. RunsOK'
    BY <1>1, RunMoves DEF IInv, RecordOK, Grows
  <1>4. UnrelatedOK'
    <2>1. run \in [Runs -> RunState] /\ run' = [run EXCEPT ![r] = new]
      BY DEF IInv, RunsOK, MoveTo
    <2> QED BY <2>1 DEF IInv, UnrelatedOK, PreparesBranch
  <1> QED BY <1>2, <1>3, <1>4 DEF IInv

LEMMA SaveIs ==
  ASSUME IInv, NEW r \in Runs, NEW new, NEW saved, NEW conflict, Saves(r, new, saved, conflict)
  PROVE  /\ CountsOK'
         /\ \/ /\ record = run[r].loaded /\ record' = Saved(new) /\ priorRecord' = record
               /\ MoveTo(r, saved)
            \/ /\ UNCHANGED <<record, priorRecord>> /\ MoveTo(r, conflict)
  <1>1. CountsOK'
    BY Counting DEF IInv, Saves, Disturbances
  <1>2. ASSUME RevisionOf(record) = RevisionOf(run[r].loaded) PROVE record = run[r].loaded
    <2>1. Held(run[r].loaded, record) /\ (record # None => Good(record))
      BY DEF IInv, RecordOK, RunsOK, Fits
    <2> QED BY <1>2, <2>1 DEF RevisionOf, Held, Good
  <1> QED BY <1>1, <1>2 DEF Saves

LEMMA SaveMoves ==
  ASSUME IInv, NEW r \in Runs, NEW new, NEW saved, NEW conflict,
         Saves(r, new, saved, conflict), UNCHANGED <<world, board, priorBoard, branch, sent>>,
         Fits(conflict, record, OwnIds, branch, sent),
         conflict.pc \notin {"readBase", "saveIntent", "createBranch"},
         record = run[r].loaded =>
             LET e == Saved(new) IN
             /\ Good(e) /\ e # None /\ Grows(record, e) /\ e.azureDevOpsId \in OwnIds
             /\ BranchCreated \in e.completedActions => branch # None
             /\ MessageSent \in e.completedActions => sent # <<>>
             /\ e.initialCommitSha # None =>
                    (record # None /\ record.initialCommitSha # None) \/ PreparesBranch(r)
             /\ saved.pc \in {"readBase", "saveIntent", "createBranch"} => PreparesBranch(r)
             /\ Fits(saved, e, OwnIds, branch, sent)
  PROVE  IInv'
  <1> USE DEF world
  <1>1. OwnIds' = OwnIds
    BY DEF OwnIds, Own
  <1>2. WorldOK' /\ MessagesOK' /\ CountsOK'
    BY <1>1, SaveIs DEF IInv, WorldOK, MessagesOK
  <1>3. CASE UNCHANGED <<record, priorRecord>> /\ MoveTo(r, conflict)
    BY <1>2, <1>3, CallMoves DEF Calls
  <1>4. CASE /\ record = run[r].loaded /\ record' = Saved(new) /\ priorRecord' = record
             /\ MoveTo(r, saved)
    <2> DEFINE e == Saved(new)
    <2>1. /\ Good(e) /\ e # None /\ Grows(record, e) /\ e.azureDevOpsId \in OwnIds
          /\ BranchCreated \in e.completedActions => branch # None
          /\ MessageSent \in e.completedActions => sent # <<>>
          /\ e.initialCommitSha # None =>
                 (record # None /\ record.initialCommitSha # None) \/ PreparesBranch(r)
          /\ saved.pc \in {"readBase", "saveIntent", "createBranch"} => PreparesBranch(r)
          /\ Fits(saved, e, OwnIds, branch, sent)
      BY <1>4
    <2> HIDE DEF e
    <2>2. record' = e /\ priorRecord' = record /\ MoveTo(r, saved)
      BY <1>4 DEF e
    <2>3. RecordOK'
      <3>1. Held(record, e)
        BY <2>1, HeldItself, HeldStays DEF IInv, RecordOK
      <3> QED BY <1>1, <2>1, <2>2, <3>1 DEF RecordOK
    <2>4. RunsOK'
      BY <1>1, <2>1, <2>2, RunMoves DEF IInv, RecordOK
    <2>5. BranchStartsWhereRecorded'
      <3>1. branch # None => branch.sha # None
        BY FactsAssumption DEF IInv, WorldOK, Branches
      <3> QED BY <2>1, <2>2, <3>1 DEF IInv, BranchStartsWhereRecorded, Grows, Follows, Keeps
    <2>6. UnrelatedOK'
      <3>1. run \in [Runs -> RunState] /\ run' = [run EXCEPT ![r] = saved]
        BY <2>2 DEF IInv, RunsOK, MoveTo
      <3> QED BY <2>1, <2>2, <3>1 DEF IInv, UnrelatedOK, PreparesBranch
    <2> QED BY <1>2, <2>3, <2>4, <2>5, <2>6 DEF IInv
  <1> QED BY <1>3, <1>4, SaveIs

-----------------------------------------------------------------------------
(* The states a run moves to.                                               *)

Parts(s, pc, input, loaded) ==
    /\ s \in RunState /\ s.pc = pc /\ s.input = input /\ s.loaded = loaded

LEMMA EndedIs ==
  ASSUME NEW pc \in Steps \cup {"idle", "succeeded", "failed"}
  PROVE  Parts(Ended(pc), pc, None, None)
  <1>1. NewRun \in RunState /\ NewRun.input = None /\ NewRun.loaded = None
    BY DEF NewRun, RunState
  <1> QED BY <1>1 DEF Ended, Parts, RunState

LEMMA GivenIs ==
  ASSUME NEW pc \in Steps, NEW input \in Inputs \cup {None}
  PROVE  Parts(Given(pc, input), pc, input, None)
  BY EndedIs DEF Given, Parts, RunState

LEMMA OnIs ==
  ASSUME RunsOK, NEW r \in Runs, NEW pc \in Steps
  PROVE  /\ Parts(On(r, pc), pc, run[r].input, run[r].loaded)
         /\ On(r, pc).item = run[r].item /\ On(r, pc).user = run[r].user
         /\ On(r, pc).sha = run[r].sha
  <1>1. run[r] \in RunState
    BY DEF RunsOK
  <1> QED BY <1>1 DEF On, Parts, RunState

LEMMA HoldingIs ==
  ASSUME RunsOK, NEW r \in Runs, NEW pc \in Steps, NEW d \in Document \cup {None}
  PROVE  /\ Parts(Holding(r, pc, d), pc, run[r].input, d)
         /\ Holding(r, pc, d).user = run[r].user
  BY OnIs DEF Holding, Parts, RunState

LEMMA NumberedIs ==
  ASSUME RunsOK, NEW r \in Runs, NEW item \in Nat
  PROVE  /\ Parts(Numbered(r, item), "saveItem", run[r].input, run[r].loaded)
         /\ Numbered(r, item).item = item
  <1>1. Parts(On(r, "saveItem"), "saveItem", run[r].input, run[r].loaded)
    BY OnIs DEF Steps
  <1> QED BY <1>1 DEF Numbered, Parts, RunState

LEMMA OnwardIs ==
  ASSUME RunsOK, NEW r \in Runs, NEW pc \in Steps
  PROVE  Parts(Onward(r, pc), pc, run[r].input, None)
  BY GivenIs DEF Onward, RunsOK, RunState

LEMMA PassingIs ==
  ASSUME RunsOK, NEW r \in Runs, NEW pc \in Steps, NEW d \in Document \cup {None}
  PROVE  Parts(Passing(r, pc, d), pc, run[r].input, d)
  BY OnwardIs DEF Passing, Parts, RunState

\* A run that ends without success fits anything.
LEMMA FailedFits ==
  ASSUME NEW e, NEW own, NEW made, NEW messages
  PROVE  Fits(Ended("failed"), e, own, made, messages) /\ Ended("failed").pc = "failed"
  BY EndedIs
  DEF Parts, Fits, Held, ItemFits, UserFits, BranchFits, PackageFits, MessageFits, Steps,
      UserSteps, BranchSteps, PackageSteps, MessageSteps

LEMMA LoadIs ==
  ASSUME IInv, NEW document, Loads(document)
  PROVE  CountsOK' /\ Held(document, record) /\ document \in Document \cup {None}
  <1>1. CountsOK'
    BY Counting DEF IInv, Loads, Disturbances
  <1>2. Held(document, record)
    BY HeldItself DEF IInv, RecordOK, Loads
  <1> QED BY <1>1, <1>2 DEF Held, Good

\* What a run that is at a step knows.
LEMMA AtStep ==
  ASSUME IInv, NEW r \in Runs
  PROVE  /\ RunsOK /\ Fits(run[r], record, OwnIds, branch, sent)
         /\ run[r].pc \in Steps => run[r].input \in Inputs
  BY DEF IInv, RunsOK, Fits, RunState

\* A call that fails leaves the invariant alone.
LEMMA CallFails ==
  ASSUME IInv, NEW r \in Runs, Fail(r), UNCHANGED Calls, CountsOK'
  PROVE  IInv'
  BY FailedFits, CallMoves DEF Fail

-----------------------------------------------------------------------------
(* The work item.                                                           *)

LEMMA StartKeeps == IInv /\ (\E r \in Runs : Start(r)) => IInv'
  <1> SUFFICES ASSUME IInv, NEW r \in Runs, Start(r) PROVE IInv'
    OBVIOUS
  <1>1. CountsOK' /\ UNCHANGED Calls
    BY Counting DEF IInv, Start, Disturbances, Calls
  <1>2. CASE ~Accepts(checkout)
    BY <1>1, <1>2, CallFails DEF Start
  <1>3. CASE Accepts(checkout)
    <2> DEFINE new == Given("loadItem", InputOf(checkout))
    <2>1. InputOf(checkout) \in Inputs
      BY <1>3, IntakeAssumption DEF IInv, WorldOK, InputOf, Inputs, AcceptsStartConfig
    <2>2. Parts(new, "loadItem", InputOf(checkout), None)
      BY <2>1, GivenIs DEF Steps
    <2>3. MoveTo(r, new)
      BY <1>3 DEF Start
    <2> HIDE DEF new
    <2>4. Fits(new, record, OwnIds, branch, sent) /\ new.pc = "loadItem"
      BY <2>1, <2>2
      DEF Parts, Fits, Held, ItemFits, UserFits, BranchFits, PackageFits, MessageFits,
          UserSteps, BranchSteps, PackageSteps, MessageSteps
    <2> QED BY <1>1, <2>3, <2>4, CallMoves
  <1> QED BY <1>2, <1>3

LEMMA RunFailsKeeps == IInv /\ (\E r \in Runs : RunFails(r)) => IInv'
  <1> SUFFICES ASSUME IInv, NEW r \in Runs, RunFails(r) PROVE IInv'
    OBVIOUS
  <1>1. CountsOK' /\ UNCHANGED Calls /\ Fail(r)
    BY Counting DEF IInv, RunFails, Disturbances, Calls
  <1> QED BY <1>1, CallFails

LEMMA LoadItemKeeps ==
  ASSUME IInv, NEW r \in Runs, LoadItem(r) PROVE IInv'
  <1>1. PICK document \in {record, priorRecord} :
          /\ Loads(document)
          /\ MoveTo(r,
               IF document # None /\ ~Correlates(r, document) THEN Ended("failed")
               ELSE IF document # None /\ document.azureDevOpsId # None
               THEN IF StoryCreated \in document.completedActions THEN Onward(r, "verify")
                    ELSE [Numbered(r, document.azureDevOpsId) EXCEPT !.loaded = document]
               ELSE IF ~Safe(run[r].input.place) THEN Ended("failed")
               ELSE Holding(r, "findItem", document))
    BY DEF LoadItem
  <1>2. UNCHANGED Calls /\ run[r].pc = "loadItem"
    BY DEF LoadItem, At
  <1>3. CountsOK' /\ Held(document, record) /\ document \in Document \cup {None}
    BY <1>1, LoadIs
  <1>4. RunsOK /\ run[r].input \in Inputs
    BY <1>2, AtStep DEF Steps
  <1>5. document # None =>
            /\ record # None /\ document.azureDevOpsId # None
            /\ StoryCreated \in document.completedActions
    BY <1>3 DEF Held, Good
  <1>6. CASE MoveTo(r, Ended("failed"))
    BY <1>2, <1>3, <1>6, CallFails DEF Fail
  <1>7. CASE document # None /\ MoveTo(r, Onward(r, "verify"))
    <2> DEFINE new == Onward(r, "verify")
    <2>1. Parts(new, "verify", run[r].input, None)
      BY <1>4, OnwardIs DEF Steps
    <2> HIDE DEF new
    <2>2. Fits(new, record, OwnIds, branch, sent) /\ new.pc = "verify"
      BY <1>4, <1>5, <1>7, <2>1
      DEF Parts, Fits, Held, ItemFits, UserFits, BranchFits, PackageFits, MessageFits,
          BranchSteps, PackageSteps, MessageSteps
    <2> QED BY <1>2, <1>3, <1>7, <2>2, CallMoves DEF new
  <1>8. CASE document = None /\ Safe(run[r].input.place) /\ MoveTo(r, Holding(r, "findItem", document))
    <2> DEFINE new == Holding(r, "findItem", document)
    <2>1. Parts(new, "findItem", run[r].input, None)
      BY <1>4, <1>8, HoldingIs DEF Steps
    <2> HIDE DEF new
    <2>2. Fits(new, record, OwnIds, branch, sent) /\ new.pc = "findItem"
      BY <1>4, <1>8, <2>1
      DEF Parts, Fits, Held, ItemFits, UserFits, BranchFits, PackageFits, MessageFits, Safe,
          UserSteps, BranchSteps, PackageSteps, MessageSteps
    <2> QED BY <1>2, <1>3, <1>8, <2>2, CallMoves DEF new
  <1> QED BY <1>1, <1>5, <1>6, <1>7, <1>8

LEMMA OwnIdsAreNumbers ==
  ASSUME WorldOK PROVE OwnIds \subseteq Nat
  BY DEF WorldOK, OwnIds, Own, WorkItem

\* Whichever client looks, what it finds is the submission's own.
LEMMA FoundIsOwn ==
  ASSUME WorldOK, NEW database, database = board \/ database = priorBoard
  PROVE  Find(mode, database, Submission, Pinned) \subseteq OwnIds
  <1>1. database.items \subseteq board.items
    BY DEF WorldOK
  <1> QED BY <1>1 DEF Find, MockFind, FilterCandidates, QueryCandidates, OwnIds, Own

LEMMA FindItemKeeps ==
  ASSUME IInv, NEW r \in Runs, FindItem(r) PROVE IInv'
  <1>1. PICK database \in {board, priorBoard} :
          /\ Reads(database)
          /\ LET found == Find(mode, database, Submission, run[r].input.place) IN
             MoveTo(r,
               IF FindFails(mode, database, Submission) \/ Cardinality(found) > 1
               THEN Ended("failed")
               ELSE IF found = {} THEN On(r, "createItem")
               ELSE Numbered(r, CHOOSE id \in found : TRUE))
    BY DEF FindItem
  <1>2. UNCHANGED Calls /\ run[r].pc = "findItem"
    BY DEF FindItem, At
  <1>3. CountsOK'
    BY <1>1, Counting DEF IInv, Reads, Disturbances
  <1>4. /\ RunsOK /\ run[r].input \in Inputs /\ run[r].loaded = None
        /\ run[r].input.place = Pinned
    BY <1>2, AtStep DEF Steps, Fits, ItemFits
  <1>5. CASE MoveTo(r, Ended("failed"))
    BY <1>2, <1>3, <1>5, CallFails DEF Fail
  <1>6. CASE MoveTo(r, On(r, "createItem"))
    <2> DEFINE new == On(r, "createItem")
    <2>1. Parts(new, "createItem", run[r].input, None)
      BY <1>4, OnIs DEF Steps
    <2> HIDE DEF new
    <2>2. Fits(new, record, OwnIds, branch, sent) /\ new.pc = "createItem"
      BY <1>4, <2>1
      DEF Parts, Fits, Held, ItemFits, UserFits, BranchFits, PackageFits, MessageFits,
          UserSteps, BranchSteps, PackageSteps, MessageSteps
    <2> QED BY <1>2, <1>3, <1>6, <2>2, CallMoves DEF new
  <1>7. ASSUME NEW id \in OwnIds, MoveTo(r, Numbered(r, id)) PROVE IInv'
    <2> DEFINE new == Numbered(r, id)
    <2>1. Parts(new, "saveItem", run[r].input, None) /\ new.item = id
      BY <1>4, NumberedIs, OwnIdsAreNumbers DEF IInv
    <2> HIDE DEF new
    <2>2. Fits(new, record, OwnIds, branch, sent) /\ new.pc = "saveItem"
      BY <1>4, <2>1
      DEF Parts, Fits, Held, ItemFits, UserFits, BranchFits, PackageFits, MessageFits,
          UserSteps, BranchSteps, PackageSteps, MessageSteps
    <2> QED BY <1>2, <1>3, <1>7, <2>2, CallMoves DEF new
  <1> DEFINE found == Find(mode, database, Submission, run[r].input.place)
  <1>8. found \subseteq OwnIds
    BY <1>4, FoundIsOwn DEF IInv
  <1> HIDE DEF found
  <1>9. CASE found # {} /\ MoveTo(r, Numbered(r, CHOOSE id \in found : TRUE))
    <2>1. (CHOOSE id \in found : TRUE) \in OwnIds
      BY <1>8, <1>9
    <2> QED BY <1>7, <1>9, <2>1
  <1> QED BY <1>1, <1>5, <1>6, <1>9 DEF found

\* A new item takes nothing away, and one of the submission's is its own.
LEMMA ItemMade ==
  ASSUME WorldOK, NEW s \in Submissions, NEW place \in Places,
         board' = WithNewItem(board, s, place), priorBoard' = board, UNCHANGED <<world, branch>>
  PROVE  /\ WorldOK' /\ OwnIds \subseteq OwnIds'
         /\ s = Submission /\ place = Pinned => board.next \in OwnIds'
  <1> DEFINE w == [id |-> board.next, submission |-> s, place |-> place]
  <1>1. w \in WorkItem
    BY WorkItemsAssumption DEF WorldOK, WorkItem
  <1>2. board' = [next |-> board.next + 1, items |-> board.items \cup {w}]
    BY DEF WithNewItem
  <1>3. w.id = board.next /\ w.submission = s /\ w.place = place
    OBVIOUS
  <1> HIDE DEF w
  <1>4. WorldOK'
    BY <1>1, <1>2 DEF WorldOK, world
  <1>5. OwnIds \subseteq OwnIds'
    BY <1>2 DEF OwnIds, Own
  <1>6. ASSUME s = Submission, place = Pinned PROVE board.next \in OwnIds'
    <2>1. w \in Own'
      BY <1>2, <1>3, <1>6 DEF Own
    <2> QED BY <1>3, <2>1 DEF OwnIds
  <1> QED BY <1>4, <1>5, <1>6

LEMMA BoardKeeps ==
  ASSUME IInv, WorldOK', OwnIds \subseteq OwnIds', UNCHANGED <<record, priorRecord, branch, sent>>
  PROVE  RecordOK' /\ MessagesOK' /\ BranchStartsWhereRecorded'
  BY DEF IInv, RecordOK, MessagesOK, BranchStartsWhereRecorded

LEMMA BoardMoves ==
  ASSUME IInv, NEW r \in Runs, NEW new, MoveTo(r, new), CountsOK',
         board' = WithNewItem(board, Submission, Pinned), priorBoard' = board,
         UNCHANGED <<world, record, priorRecord, branch, sent>>,
         board.next \in OwnIds' => Fits(new, record, OwnIds', branch, sent),
         new.pc = "saveItem"
  PROVE  IInv'
  <1>1. WorldOK' /\ OwnIds \subseteq OwnIds' /\ board.next \in OwnIds'
    BY ItemMade, IntakeAssumption, WorkItemsAssumption DEF IInv
  <1>2. RecordOK' /\ MessagesOK' /\ BranchStartsWhereRecorded'
    BY <1>1, BoardKeeps
  <1>3. RunsOK'
    <2>1. Fits(new, record', OwnIds', branch', sent')
      BY <1>1
    <2> QED BY <1>1, <2>1, RunMoves DEF IInv, RecordOK, Grows
  <1>4. UnrelatedOK'
    <2>1. run \in [Runs -> RunState] /\ run' = [run EXCEPT ![r] = new]
      BY DEF IInv, RunsOK, MoveTo
    <2> QED BY <2>1 DEF IInv, UnrelatedOK, PreparesBranch
  <1> QED BY <1>1, <1>2, <1>3, <1>4 DEF IInv

LEMMA CreateItemKeeps ==
  ASSUME IInv, NEW r \in Runs, CreateItem(r) PROVE IInv'
  <1>1. run[r].pc = "createItem" /\ UNCHANGED <<world, record, priorRecord, branch, sent>>
    BY DEF CreateItem, At
  <1>2. /\ RunsOK /\ run[r].input \in Inputs /\ run[r].loaded = None
        /\ run[r].input.place = Pinned
    BY <1>1, AtStep DEF Steps, Fits, ItemFits
  <1>3. board.next \in Nat
    BY DEF IInv, WorldOK
  <1>4. CASE /\ board' = WithNewItem(board, Submission, run[r].input.place)
             /\ priorBoard' = board
             /\ MoveTo(r, Numbered(r, board.next)) /\ Undisturbed
    <2> DEFINE new == Numbered(r, board.next)
    <2>1. CountsOK'
      BY <1>4, Counting DEF IInv
    <2>2. Parts(new, "saveItem", run[r].input, None) /\ new.item = board.next
      BY <1>2, <1>3, NumberedIs
    <2> HIDE DEF new
    <2>3. /\ board.next \in OwnIds' => Fits(new, record, OwnIds', branch, sent)
          /\ new.pc = "saveItem"
      BY <1>2, <2>2
      DEF Parts, Fits, Held, ItemFits, UserFits, BranchFits, PackageFits, MessageFits,
          UserSteps, BranchSteps, PackageSteps, MessageSteps
    <2> QED BY <1>1, <1>2, <1>4, <2>1, <2>3, BoardMoves DEF new
  <1>5. ASSUME NEW database \in {board, priorBoard}, Reads(database),
               MoveTo(r, [On(r, "writeItem") EXCEPT !.database = database]),
               UNCHANGED <<board, priorBoard>>
        PROVE  IInv'
    <2> DEFINE new == [On(r, "writeItem") EXCEPT !.database = database]
    <2>1. CountsOK'
      BY <1>5, Counting DEF IInv, Reads, Disturbances
    <2>2. database \in [next : Nat, items : SUBSET WorkItem] \cup {None}
      BY <1>5 DEF IInv, WorldOK
    <2>3. Parts(On(r, "writeItem"), "writeItem", run[r].input, None)
      BY <1>2, OnIs DEF Steps
    <2>4. Parts(new, "writeItem", run[r].input, None)
      BY <2>2, <2>3 DEF Parts, RunState
    <2> HIDE DEF new
    <2>5. Fits(new, record, OwnIds, branch, sent) /\ new.pc = "writeItem"
      BY <1>2, <2>4
      DEF Parts, Fits, Held, ItemFits, UserFits, BranchFits, PackageFits, MessageFits,
          UserSteps, BranchSteps, PackageSteps, MessageSteps
    <2> QED BY <1>1, <1>5, <2>1, <2>5, CallMoves DEF new, Calls
  <1> QED BY <1>4, <1>5 DEF CreateItem

LEMMA WriteItemKeeps ==
  ASSUME IInv, NEW r \in Runs, WriteItem(r) PROVE IInv'
  <1>1. /\ run[r].pc = "writeItem" /\ UNCHANGED <<world, record, priorRecord, branch, sent>>
        /\ Undisturbed
    BY DEF WriteItem, At
  <1>2. /\ RunsOK /\ run[r].input \in Inputs /\ run[r].loaded = None
        /\ run[r].input.place = Pinned
    BY <1>1, AtStep DEF Steps, Fits, ItemFits
  <1>3. CountsOK'
    BY <1>1, Counting DEF IInv
  <1>4. CASE Fail(r) /\ UNCHANGED <<board, priorBoard>>
    BY <1>1, <1>3, <1>4, CallFails DEF Calls
  <1>5. CASE /\ board' = WithNewItem(board, Submission, run[r].input.place)
             /\ priorBoard' = board
             /\ MoveTo(r, [Numbered(r, board.next) EXCEPT !.database = None])
    <2> DEFINE new == [Numbered(r, board.next) EXCEPT !.database = None]
    <2>1. board.next \in Nat
      BY DEF IInv, WorldOK
    <2>2. /\ Parts(Numbered(r, board.next), "saveItem", run[r].input, None)
          /\ Numbered(r, board.next).item = board.next
      BY <1>2, <2>1, NumberedIs
    <2>3. Parts(new, "saveItem", run[r].input, None) /\ new.item = board.next
      BY <2>2 DEF Parts, RunState
    <2> HIDE DEF new
    <2>4. /\ board.next \in OwnIds' => Fits(new, record, OwnIds', branch, sent)
          /\ new.pc = "saveItem"
      BY <1>2, <2>3
      DEF Parts, Fits, Held, ItemFits, UserFits, BranchFits, PackageFits, MessageFits,
          UserSteps, BranchSteps, PackageSteps, MessageSteps
    <2> QED BY <1>1, <1>2, <1>3, <1>5, <2>4, BoardMoves DEF new
  <1> QED BY <1>4, <1>5 DEF WriteItem

LEMMA SaveItemKeeps ==
  ASSUME IInv, NEW r \in Runs, SaveItem(r) PROVE IInv'
  <1> DEFINE target == run[r].input.target
             new == WithItem(StateOf(r), run[r].item)
             e == Saved(new)
             saved == Onward(r, "verify")
  <1>1. /\ run[r].pc = "saveItem" /\ UNCHANGED <<world, board, priorBoard, branch, sent>>
        /\ Saves(r, new, saved, Ended("failed"))
    BY DEF SaveItem, At
  <1>2. /\ RunsOK /\ run[r].input \in Inputs /\ run[r].loaded = None
        /\ run[r].item \in OwnIds
    BY <1>1, AtStep DEF Steps, Fits, ItemFits
  <1>3. target \in Targets /\ run[r].item \in Nat
    BY <1>2, OwnIdsAreNumbers DEF IInv, Inputs
  <1>4. /\ Good(e) /\ e.azureDevOpsId = run[r].item /\ e.initialCommitSha = None
        /\ e.completedActions = {StoryCreated}
    BY <1>2, <1>3, FirstItemIsGood DEF StateOf
  <1>5. Parts(saved, "verify", run[r].input, None)
    BY <1>2, OnwardIs DEF Steps
  <1> HIDE DEF new, e, saved
  <1>6. e # None
    BY <1>4, NoneIsNoDocument DEF Good
  <1>7. saved.pc = "verify" /\ Fits(saved, e, OwnIds, branch, sent)
    BY <1>2, <1>5, <1>6
    DEF Parts, Fits, Held, ItemFits, UserFits, BranchFits, PackageFits, MessageFits,
        BranchSteps, PackageSteps, MessageSteps
  <1>8. record = run[r].loaded => Grows(record, e)
    BY <1>2, <1>6 DEF Grows
  <1> QED BY <1>1, <1>2, <1>4, <1>6, <1>7, <1>8, ActionsAreIntakes, FailedFits, SaveMoves DEF e

-----------------------------------------------------------------------------
(* The contributor.                                                         *)

LEMMA ResolveUserKeeps ==
  ASSUME IInv, NEW r \in Runs, ResolveUser(r) PROVE IInv'
  <1>1. UNCHANGED Calls /\ run[r].pc = "verify" /\ CountsOK'
    BY Counting DEF IInv, ResolveUser, At
  <1>2. RunsOK /\ run[r].input \in Inputs /\ run[r].loaded = None /\ record # None
    BY <1>1, AtStep DEF Steps, Fits, UserFits, UserSteps
  <1>3. CASE Fail(r)
    BY <1>1, <1>3, CallFails
  <1>4. CASE /\ account.user # None
             /\ MoveTo(r, [On(r, "checkPermission") EXCEPT !.user = account.user])
    <2> DEFINE new == [On(r, "checkPermission") EXCEPT !.user = account.user]
    <2>1. account.user \in Users
      BY <1>4 DEF IInv, WorldOK, Accounts
    <2>2. Parts(On(r, "checkPermission"), "checkPermission", run[r].input, None)
      BY <1>2, OnIs DEF Steps
    <2>3. Parts(new, "checkPermission", run[r].input, None) /\ new.user # None
      BY <1>4, <2>1, <2>2 DEF Parts, RunState
    <2> HIDE DEF new
    <2>4. Fits(new, record, OwnIds, branch, sent) /\ new.pc = "checkPermission"
      BY <1>2, <2>3
      DEF Parts, Fits, Held, ItemFits, UserFits, BranchFits, PackageFits, MessageFits,
          BranchSteps, PackageSteps, MessageSteps
    <2> QED BY <1>1, <1>4, <2>4, CallMoves DEF new
  <1> QED BY <1>3, <1>4 DEF ResolveUser

LEMMA CheckPermissionKeeps ==
  ASSUME IInv, NEW r \in Runs, CheckPermission(r) PROVE IInv'
  <1>1. UNCHANGED Calls /\ run[r].pc = "checkPermission" /\ CountsOK'
    BY Counting DEF IInv, CheckPermission, At
  <1>2. /\ RunsOK /\ run[r].input \in Inputs /\ run[r].loaded = None /\ run[r].user # None
        /\ record # None
    BY <1>1, AtStep DEF Steps, Fits, UserFits, UserSteps
  <1>3. CASE Fail(r)
    BY <1>1, <1>3, CallFails
  <1>4. CASE MoveTo(r, On(r, "loadIdentity"))
    <2> DEFINE new == On(r, "loadIdentity")
    <2>1. Parts(new, "loadIdentity", run[r].input, None) /\ new.user # None
      BY <1>2, OnIs DEF Steps
    <2> HIDE DEF new
    <2>2. Fits(new, record, OwnIds, branch, sent) /\ new.pc = "loadIdentity"
      BY <1>2, <2>1
      DEF Parts, Fits, Held, ItemFits, UserFits, BranchFits, PackageFits, MessageFits,
          BranchSteps, PackageSteps, MessageSteps
    <2> QED BY <1>1, <1>4, <2>2, CallMoves DEF new
  <1> QED BY <1>3, <1>4 DEF CheckPermission

LEMMA LoadIdentityKeeps ==
  ASSUME IInv, NEW r \in Runs, LoadIdentity(r) PROVE IInv'
  <1>1. PICK document \in {record, priorRecord} :
          /\ Loads(document)
          /\ MoveTo(r,
               IF document = None THEN On(r, "saveIdentity")
               ELSE IF ~Correlates(r, document) THEN Ended("failed")
               ELSE IF document.githubUserId = None
               THEN Holding(r, "saveIdentity", document)
               ELSE IF document.githubUserId = run[r].user THEN Onward(r, "loadBranch")
               ELSE Ended("failed"))
    BY DEF LoadIdentity
  <1>2. UNCHANGED Calls /\ run[r].pc = "loadIdentity"
    BY DEF LoadIdentity, At
  <1>3. CountsOK' /\ Held(document, record) /\ document \in Document \cup {None}
    BY <1>1, LoadIs
  <1>4. /\ RunsOK /\ run[r].input \in Inputs /\ run[r].loaded = None /\ run[r].user # None
        /\ record # None
    BY <1>2, AtStep DEF Steps, Fits, UserFits, UserSteps
  <1>5. CASE MoveTo(r, Ended("failed"))
    BY <1>2, <1>3, <1>5, CallFails DEF Fail
  <1>6. CASE document = None /\ MoveTo(r, On(r, "saveIdentity"))
    <2> DEFINE new == On(r, "saveIdentity")
    <2>1. Parts(new, "saveIdentity", run[r].input, None) /\ new.user # None
      BY <1>4, OnIs DEF Steps
    <2> HIDE DEF new
    <2>2. Fits(new, record, OwnIds, branch, sent) /\ new.pc = "saveIdentity"
      BY <1>4, <2>1
      DEF Parts, Fits, Held, ItemFits, UserFits, BranchFits, PackageFits, MessageFits,
          BranchSteps, PackageSteps, MessageSteps
    <2> QED BY <1>2, <1>3, <1>6, <2>2, CallMoves DEF new
  <1>7. CASE document.githubUserId = None /\ MoveTo(r, Holding(r, "saveIdentity", document))
    <2> DEFINE new == Holding(r, "saveIdentity", document)
    <2>1. Parts(new, "saveIdentity", run[r].input, document) /\ new.user # None
      BY <1>3, <1>4, HoldingIs DEF Steps
    <2> HIDE DEF new
    <2>2. Fits(new, record, OwnIds, branch, sent) /\ new.pc = "saveIdentity"
      BY <1>3, <1>4, <1>7, <2>1
      DEF Parts, Fits, ItemFits, UserFits, BranchFits, PackageFits, MessageFits,
          BranchSteps, PackageSteps, MessageSteps
    <2> QED BY <1>2, <1>3, <1>7, <2>2, CallMoves DEF new
  <1>8. CASE document # None /\ document.githubUserId # None /\ MoveTo(r, Onward(r, "loadBranch"))
    <2> DEFINE new == Onward(r, "loadBranch")
    <2>1. Parts(new, "loadBranch", run[r].input, None)
      BY <1>4, OnwardIs DEF Steps
    <2>2. record.githubUserId # None
      BY <1>3, <1>8 DEF Held, Keeps
    <2> HIDE DEF new
    <2>3. Fits(new, record, OwnIds, branch, sent) /\ new.pc = "loadBranch"
      BY <1>4, <2>1, <2>2
      DEF Parts, Fits, Held, ItemFits, UserFits, BranchFits, PackageFits, MessageFits,
          PackageSteps, MessageSteps
    <2> QED BY <1>2, <1>3, <1>8, <2>3, CallMoves DEF new
  <1> QED BY <1>1, <1>5, <1>6, <1>7, <1>8

LEMMA SaveIdentityKeeps ==
  ASSUME IInv, NEW r \in Runs, SaveIdentity(r) PROVE IInv'
  <1> DEFINE new == WithUser(StateOf(r), run[r].user)
             e == Saved(new)
             saved == Onward(r, "loadBranch")
  <1>1. /\ run[r].pc = "saveIdentity" /\ UNCHANGED <<world, board, priorBoard, branch, sent>>
        /\ Saves(r, new, saved, Ended("failed"))
    BY DEF SaveIdentity, At
  <1>2. /\ RunsOK /\ run[r].input \in Inputs /\ run[r].user \in Users /\ record # None
        /\ run[r].loaded # None => run[r].loaded.githubUserId = None
    BY <1>1, AtStep DEF Steps, Fits, UserFits, UserSteps, RunState
  <1>3. Parts(saved, "loadBranch", run[r].input, None)
    BY <1>2, OnwardIs DEF Steps
  <1>4. ASSUME record = run[r].loaded
        PROVE  /\ Follows(record, e) /\ e.initialCommitSha = record.initialCommitSha
               /\ e.completedActions = record.completedActions /\ e.githubUserId # None
    <2>1. Good(record) /\ StateOf(r) = record
      BY <1>2, <1>4 DEF IInv, RecordOK, StateOf
    <2>2. /\ Follows(record, e) /\ e.initialCommitSha = record.initialCommitSha
          /\ e.completedActions = record.completedActions
      BY <1>2, <1>4, <2>1, UserFollows
    <2>3. WithUser(record, run[r].user) \in Document /\ WithUser(record, run[r].user).githubUserId = run[r].user
      BY <1>2, <2>1 DEF WithUser, Good, Document
    <2>4. e.githubUserId # None
      BY <1>2, <2>1, <2>3, SavedIs, FactsAssumption
    <2> QED BY <2>2, <2>4
  <1> HIDE DEF new, e, saved
  <1>5. ASSUME record = run[r].loaded
        PROVE  saved.pc = "loadBranch" /\ Fits(saved, e, OwnIds, branch, sent) /\ e # None
    <2>1. e # None
      BY <1>4, <1>5, NoneIsNoDocument DEF Follows, Good
    <2> QED
      BY <1>2, <1>3, <1>4, <1>5, <2>1
      DEF Parts, Fits, Held, ItemFits, UserFits, BranchFits, PackageFits, MessageFits,
          PackageSteps, MessageSteps
  <1>6. ASSUME record = run[r].loaded
        PROVE  /\ Good(e) /\ Grows(record, e) /\ e.azureDevOpsId \in OwnIds
               /\ BranchCreated \in e.completedActions => branch # None
               /\ MessageSent \in e.completedActions => sent # <<>>
    BY <1>2, <1>4, <1>5, <1>6 DEF IInv, RecordOK, Follows, Keeps, Grows, Good
  <1> QED BY <1>1, <1>2, <1>4, <1>5, <1>6, FailedFits, SaveMoves DEF e

-----------------------------------------------------------------------------
(* The branch.                                                              *)

LEMMA LoadBranchKeeps ==
  ASSUME IInv, NEW r \in Runs, LoadBranch(r) PROVE IInv'
  <1>1. PICK document \in {record, priorRecord} :
          /\ Loads(document)
          /\ MoveTo(r,
               IF document = None \/ ~Correlates(r, document) THEN Ended("failed")
               ELSE Holding(r, "findBranch", document))
    BY DEF LoadBranch
  <1>2. UNCHANGED Calls /\ run[r].pc = "loadBranch"
    BY DEF LoadBranch, At
  <1>3. CountsOK' /\ Held(document, record) /\ document \in Document \cup {None}
    BY <1>1, LoadIs
  <1>4. /\ RunsOK /\ run[r].input \in Inputs /\ record # None /\ record.githubUserId # None
    BY <1>2, AtStep DEF Steps, Fits, UserFits, UserSteps, BranchFits, BranchSteps
  <1>5. CASE MoveTo(r, Ended("failed"))
    BY <1>2, <1>3, <1>5, CallFails DEF Fail
  <1>6. CASE document # None /\ MoveTo(r, Holding(r, "findBranch", document))
    <2> DEFINE new == Holding(r, "findBranch", document)
    <2>1. Parts(new, "findBranch", run[r].input, document)
      BY <1>3, <1>4, HoldingIs DEF Steps
    <2> HIDE DEF new
    <2>2. Fits(new, record, OwnIds, branch, sent) /\ new.pc = "findBranch"
      BY <1>3, <1>4, <1>6, <2>1
      DEF Parts, Fits, ItemFits, UserFits, BranchFits, PackageFits, MessageFits,
          PackageSteps, MessageSteps
    <2> QED BY <1>2, <1>3, <1>6, <2>2, CallMoves DEF new
  <1> QED BY <1>1, <1>5, <1>6

\* What a run knows of the record and of its document at the branch's steps.
BranchKnown(r) ==
    /\ RunsOK /\ run[r].input \in Inputs /\ record # None /\ record.githubUserId # None
    /\ run[r].loaded # None /\ Held(run[r].loaded, record)
    /\ run[r].loaded \in Document /\ Good(run[r].loaded)

LEMMA BranchStep ==
  ASSUME IInv, NEW r \in Runs,
         run[r].pc \in {"findBranch", "readBase", "saveIntent", "createBranch",
                        "completeBranch", "retryBranch"}
  PROVE  BranchKnown(r)
  <1>1. RunsOK /\ run[r].input \in Inputs /\ Fits(run[r], record, OwnIds, branch, sent)
    BY AtStep DEF Steps
  <1>2. record # None /\ record.githubUserId # None /\ run[r].loaded # None
    BY <1>1 DEF Fits, UserFits, UserSteps, BranchFits, BranchSteps
  <1> QED BY <1>1, <1>2 DEF BranchKnown, Fits, Held, Good

\* What follows once the branch is there, whether it is recorded already or not.
LEMMA CompletingFits ==
  ASSUME IInv, NEW r \in Runs, BranchKnown(r), run[r].loaded.initialCommitSha # None,
         NEW made, made # None
  PROVE  /\ Fits(Completing(r, run[r].loaded), record, OwnIds, made, sent)
         /\ Completing(r, run[r].loaded).pc \in {"loadPackage", "completeBranch"}
  <1> DEFINE d == run[r].loaded
  <1> USE DEF BranchKnown
  <1>1. CASE BranchCreated \in d.completedActions
    <2> DEFINE new == Onward(r, "loadPackage")
    <2>1. Parts(new, "loadPackage", run[r].input, None)
      BY OnwardIs DEF Steps
    <2>2. BranchCreated \in record.completedActions
      BY <1>1 DEF Held, Keeps
    <2>3. Completing(r, d) = new
      BY <1>1 DEF Completing
    <2> HIDE DEF new
    <2>4. Fits(new, record, OwnIds, made, sent) /\ new.pc = "loadPackage"
      BY <2>1, <2>2
      DEF Parts, Fits, Held, ItemFits, UserFits, BranchFits, PackageFits, MessageFits,
          MessageSteps
    <2> QED BY <2>3, <2>4
  <1>2. CASE BranchCreated \notin d.completedActions
    <2> DEFINE new == Passing(r, "completeBranch", d)
    <2>1. Parts(new, "completeBranch", run[r].input, d)
      BY PassingIs DEF Steps
    <2>2. Completing(r, d) = new
      BY <1>2 DEF Completing
    <2> HIDE DEF new
    <2>3. Fits(new, record, OwnIds, made, sent) /\ new.pc = "completeBranch"
      BY <1>2, <2>1
      DEF Parts, Fits, ItemFits, UserFits, BranchFits, PackageFits, MessageFits,
          PackageSteps, MessageSteps
    <2> QED BY <2>2, <2>3
  <1> QED BY <1>1, <1>2

LEMMA FindBranchKeeps ==
  ASSUME IInv, NEW r \in Runs, FindBranch(r) PROVE IInv'
  <1> DEFINE d == run[r].loaded
  <1>1. UNCHANGED Calls /\ run[r].pc = "findBranch" /\ CountsOK'
    BY Counting DEF IInv, FindBranch, At
  <1>2. BranchKnown(r)
    BY <1>1, BranchStep
  <1>3. CASE MoveTo(r, Ended("failed"))
    BY <1>1, <1>3, CallFails DEF Fail
  <1>4. CASE branch # None /\ Proven(d) /\ MoveTo(r, Completing(r, d))
    <2>1. d.initialCommitSha # None
      BY <1>4 DEF Proven
    <2> QED BY <1>1, <1>2, <1>4, <2>1, CompletingFits, CallMoves
  <1>5. ASSUME NEW pc \in {"readBase", "createBranch"}, branch = None, MoveTo(r, On(r, pc)),
               pc = "readBase" => d.initialCommitSha = None,
               pc = "createBranch" => d.initialCommitSha # None
        PROVE  IInv'
    <2> DEFINE new == On(r, pc)
    <2>1. Parts(new, pc, run[r].input, d)
      BY <1>2, OnIs DEF Steps, BranchKnown
    <2> HIDE DEF new
    <2>2. Fits(new, record, OwnIds, branch, sent)
      BY <1>2, <1>5, <2>1
      DEF Parts, Fits, ItemFits, UserFits, BranchFits, PackageFits, MessageFits, BranchKnown,
          Steps, PackageSteps, MessageSteps
    <2> QED BY <1>1, <1>5, <2>2, CallMoves DEF new
  <1>6. CASE branch = None /\ MoveTo(r, Intending(r, d))
    <2>1. CASE d.initialCommitSha = None
      BY <1>5, <1>6, <2>1 DEF Intending
    <2>2. CASE d.initialCommitSha # None
      <3>1. d.branchNamed
        BY <1>2, <2>2 DEF BranchKnown, Good
      <3> QED BY <1>5, <1>6, <2>2, <3>1 DEF Intending
    <2> QED BY <2>1, <2>2
  <1> QED BY <1>3, <1>4, <1>6 DEF FindBranch

LEMMA ReadBaseKeeps ==
  ASSUME IInv, NEW r \in Runs, ReadBase(r) PROVE IInv'
  <1> DEFINE new == [On(r, "saveIntent") EXCEPT !.sha = base]
  <1>1. /\ UNCHANGED Calls /\ run[r].pc = "readBase" /\ CountsOK' /\ MoveTo(r, new)
    BY Counting DEF IInv, ReadBase, At
  <1>2. BranchKnown(r) /\ run[r].loaded.initialCommitSha = None
    BY <1>1, BranchStep, AtStep DEF Fits, BranchFits
  <1>3. base \in Commits /\ base # None
    BY FactsAssumption DEF IInv, WorldOK
  <1>4. Parts(On(r, "saveIntent"), "saveIntent", run[r].input, run[r].loaded)
    BY <1>2, OnIs DEF Steps, BranchKnown
  <1>5. Parts(new, "saveIntent", run[r].input, run[r].loaded) /\ new.sha # None
    BY <1>3, <1>4 DEF Parts, RunState
  <1> HIDE DEF new
  <1>6. Fits(new, record, OwnIds, branch, sent) /\ new.pc = "saveIntent"
    BY <1>2, <1>5
    DEF Parts, Fits, ItemFits, UserFits, BranchFits, PackageFits, MessageFits, BranchKnown,
        PackageSteps, MessageSteps
  <1> QED BY <1>1, <1>6, CallMoves DEF PreparesBranch

LEMMA FollowingIs ==
  ASSUME IInv, record # None, NEW e, Follows(record, e)
  PROVE  Good(e) /\ e # None /\ Grows(record, e) /\ e.azureDevOpsId \in OwnIds
  <1>1. e # None
    BY NoneIsNoDocument DEF Follows, Good
  <1> QED BY <1>1 DEF IInv, RecordOK, Follows, Keeps, Grows, Good

LEMMA SaveIntentKeeps ==
  ASSUME IInv, NEW r \in Runs, SaveIntent(r) PROVE IInv'
  <1> DEFINE d == run[r].loaded
             e == Saved(WithIntent(d, run[r].sha))
             saved == Passing(r, "createBranch", e)
  <1>1. /\ run[r].pc = "saveIntent" /\ UNCHANGED <<world, board, priorBoard, branch, sent>>
        /\ Saves(r, WithIntent(d, run[r].sha), saved, Ended("failed"))
    BY DEF SaveIntent, At
  <1>2. /\ BranchKnown(r) /\ d.initialCommitSha = None
        /\ run[r].sha \in Commits /\ run[r].sha # None
    BY <1>1, BranchStep, AtStep DEF Fits, BranchFits, RunState
  <1>3. ASSUME record = d
        PROVE  /\ Follows(record, e) /\ e.initialCommitSha = run[r].sha
               /\ e.completedActions = record.completedActions
    BY <1>2, <1>3, IntentFollows DEF BranchKnown
  <1>4. ASSUME record = d
        PROVE  /\ saved.pc = "createBranch" /\ Fits(saved, e, OwnIds, branch, sent)
    <2>1. Good(e) /\ e # None /\ e \in Document /\ Held(e, e)
      BY <1>2, <1>3, <1>4, FollowingIs, HeldItself DEF BranchKnown, Good
    <2>2. Parts(saved, "createBranch", run[r].input, e)
      BY <1>2, <2>1, PassingIs DEF Steps, BranchKnown
    <2>3. e.githubUserId # None /\ e.initialCommitSha # None
      BY <1>2, <1>3, <1>4 DEF BranchKnown, Follows, Keeps
    <2> HIDE DEF saved, e
    <2> QED
      BY <1>2, <2>1, <2>2, <2>3
      DEF Parts, Fits, ItemFits, UserFits, BranchFits, PackageFits, MessageFits,
          BranchKnown, PackageSteps, MessageSteps
  <1> HIDE DEF saved
  <1>5. ASSUME record = d
        PROVE  /\ Good(e) /\ e # None /\ Grows(record, e) /\ e.azureDevOpsId \in OwnIds
               /\ BranchCreated \in e.completedActions => branch # None
               /\ MessageSent \in e.completedActions => sent # <<>>
    BY <1>2, <1>3, <1>5, FollowingIs DEF IInv, RecordOK, BranchKnown
  <1> QED BY <1>1, <1>4, <1>5, FailedFits, SaveMoves DEF PreparesBranch

LEMMA CreateBranchKeeps ==
  ASSUME IInv, NEW r \in Runs, CreateBranch(r) PROVE IInv'
  <1> DEFINE d == run[r].loaded
             new == Completing(r, d)
             made == [sha |-> d.initialCommitSha, by |-> "automation", unrelated |-> FALSE]
  <1>1. /\ run[r].pc = "createBranch" /\ CountsOK'
        /\ UNCHANGED <<world, record, priorRecord, board, priorBoard, sent>>
    BY Counting DEF IInv, CreateBranch, At
  <1>2. BranchKnown(r) /\ d.initialCommitSha # None
    BY <1>1, BranchStep, AtStep DEF Fits, BranchFits
  <1>3. CASE Fail(r) /\ UNCHANGED branch
    BY <1>1, <1>3, CallFails DEF Calls
  <1>4. CASE branch = None /\ branch' = made /\ MoveTo(r, new)
    <2>1. made \in Branches
      BY <1>2 DEF BranchKnown, Document, Branches
    <2>2. made # None
      BY <2>1, IntakeAssumption
    <2>3. Fits(new, record, OwnIds, made, sent) /\ new.pc \in {"loadPackage", "completeBranch"}
      BY <1>2, <2>2, CompletingFits
    <2>4. OwnIds' = OwnIds
      BY <1>1 DEF OwnIds, Own
    <2>5. made.sha = record.initialCommitSha /\ made.unrelated = FALSE
      BY <1>2 DEF BranchKnown, Held, Keeps
    <2> HIDE DEF new, made
    <2>6. RunsOK'
      BY <1>1, <1>4, <2>2, <2>3, <2>4, RunMoves DEF IInv, RecordOK, Grows
    <2>7. WorldOK' /\ MessagesOK'
      BY <1>1, <1>4, <2>1, <2>4 DEF IInv, WorldOK, MessagesOK, world
    <2>8. RecordOK'
      BY <1>1, <1>4, <2>2, <2>4 DEF IInv, RecordOK
    <2>9. BranchStartsWhereRecorded' /\ UnrelatedOK'
      BY <1>1, <1>2, <1>4, <2>5 DEF BranchStartsWhereRecorded, UnrelatedOK, BranchKnown
    <2> QED BY <1>1, <2>6, <2>7, <2>8, <2>9 DEF IInv
  <1> QED BY <1>3, <1>4 DEF CreateBranch

\* Both saves of the completed branch.
LEMMA BranchRecorded ==
  ASSUME IInv, NEW r \in Runs, NEW conflict,
         run[r].pc \in {"completeBranch", "retryBranch"},
         UNCHANGED <<world, board, priorBoard, branch, sent>>,
         Saves(r, WithBranch(run[r].loaded), Onward(r, "loadPackage"), conflict),
         Fits(conflict, record, OwnIds, branch, sent),
         conflict.pc \notin {"readBase", "saveIntent", "createBranch"}
  PROVE  IInv'
  <1> DEFINE d == run[r].loaded
             e == Saved(WithBranch(d))
             saved == Onward(r, "loadPackage")
  <1>1. BranchKnown(r) /\ d.initialCommitSha # None /\ branch # None
    BY BranchStep, AtStep DEF Fits, BranchFits
  <1>2. Parts(saved, "loadPackage", run[r].input, None)
    BY <1>1, OnwardIs DEF Steps, BranchKnown
  <1>3. ASSUME record = d
        PROVE  /\ Follows(record, e) /\ e.initialCommitSha = record.initialCommitSha
               /\ e.completedActions = record.completedActions \cup {BranchCreated}
    BY <1>1, <1>3, BranchFollows DEF BranchKnown
  <1> HIDE DEF e, saved
  <1>4. ASSUME record = d
        PROVE  /\ Good(e) /\ e # None /\ Grows(record, e) /\ e.azureDevOpsId \in OwnIds
               /\ MessageSent \in e.completedActions => sent # <<>>
               /\ BranchCreated \in e.completedActions /\ e.githubUserId # None
    BY <1>1, <1>3, <1>4, FollowingIs, ActionsAreIntakes
    DEF IInv, RecordOK, BranchKnown, Follows, Keeps
  <1>5. ASSUME record = d
        PROVE  saved.pc = "loadPackage" /\ Fits(saved, e, OwnIds, branch, sent)
    BY <1>1, <1>2, <1>4, <1>5
    DEF Parts, Fits, Held, ItemFits, UserFits, BranchFits, PackageFits, MessageFits,
        BranchKnown, MessageSteps
  <1>6. record = d => e.initialCommitSha = record.initialCommitSha /\ record # None
    BY <1>1, <1>3 DEF BranchKnown
  <1> QED BY <1>1, <1>4, <1>5, <1>6, SaveMoves DEF e, saved

LEMMA CompleteBranchKeeps ==
  ASSUME IInv, NEW r \in Runs, CompleteBranch(r) PROVE IInv'
  <1> DEFINE conflict == Onward(r, "reloadBranch")
  <1>1. /\ run[r].pc = "completeBranch" /\ UNCHANGED <<world, board, priorBoard, branch, sent>>
        /\ Saves(r, WithBranch(run[r].loaded), Onward(r, "loadPackage"), conflict)
    BY DEF CompleteBranch, At
  <1>2. BranchKnown(r) /\ branch # None
    BY <1>1, BranchStep, AtStep DEF Fits, BranchFits
  <1>3. Parts(conflict, "reloadBranch", run[r].input, None)
    BY <1>2, OnwardIs DEF Steps, BranchKnown
  <1> HIDE DEF conflict
  <1>4. conflict.pc = "reloadBranch" /\ Fits(conflict, record, OwnIds, branch, sent)
    BY <1>2, <1>3
    DEF Parts, Fits, Held, ItemFits, UserFits, BranchFits, PackageFits, MessageFits,
        BranchKnown, PackageSteps, MessageSteps
  <1> QED BY <1>1, <1>4, BranchRecorded

LEMMA RetryBranchKeeps ==
  ASSUME IInv, NEW r \in Runs, RetryBranch(r) PROVE IInv'
  BY FailedFits, BranchRecorded DEF RetryBranch, At

LEMMA ReloadBranchKeeps ==
  ASSUME IInv, NEW r \in Runs, ReloadBranch(r) PROVE IInv'
  <1>1. PICK document \in {record, priorRecord} :
          /\ Loads(document)
          /\ MoveTo(r,
               IF document = None \/ ~Correlates(r, document) \/ ~Proven(document)
               THEN Ended("failed")
               ELSE IF BranchCreated \in document.completedActions THEN Onward(r, "loadPackage")
               ELSE Holding(r, "retryBranch", document))
    BY DEF ReloadBranch
  <1>2. UNCHANGED Calls /\ run[r].pc = "reloadBranch"
    BY DEF ReloadBranch, At
  <1>3. CountsOK' /\ Held(document, record) /\ document \in Document \cup {None}
    BY <1>1, LoadIs
  <1>4. /\ RunsOK /\ run[r].input \in Inputs /\ record # None /\ record.githubUserId # None
        /\ branch # None
    BY <1>2, AtStep DEF Steps, Fits, UserFits, UserSteps, BranchFits, BranchSteps
  <1>5. CASE MoveTo(r, Ended("failed"))
    BY <1>2, <1>3, <1>5, CallFails DEF Fail
  <1>6. CASE /\ document # None /\ BranchCreated \in document.completedActions
             /\ MoveTo(r, Onward(r, "loadPackage"))
    <2> DEFINE new == Onward(r, "loadPackage")
    <2>1. Parts(new, "loadPackage", run[r].input, None)
      BY <1>4, OnwardIs DEF Steps
    <2>2. BranchCreated \in record.completedActions
      BY <1>3, <1>6 DEF Held, Keeps
    <2> HIDE DEF new
    <2>3. Fits(new, record, OwnIds, branch, sent) /\ new.pc = "loadPackage"
      BY <1>4, <2>1, <2>2
      DEF Parts, Fits, Held, ItemFits, UserFits, BranchFits, PackageFits, MessageFits,
          MessageSteps
    <2> QED BY <1>2, <1>3, <1>6, <2>3, CallMoves DEF new
  <1>7. CASE /\ document # None /\ Proven(document)
             /\ BranchCreated \notin document.completedActions
             /\ MoveTo(r, Holding(r, "retryBranch", document))
    <2> DEFINE new == Holding(r, "retryBranch", document)
    <2>1. Parts(new, "retryBranch", run[r].input, document)
      BY <1>3, <1>4, HoldingIs DEF Steps
    <2>2. document.initialCommitSha # None
      BY <1>7 DEF Proven
    <2> HIDE DEF new
    <2>3. Fits(new, record, OwnIds, branch, sent) /\ new.pc = "retryBranch"
      BY <1>3, <1>4, <1>7, <2>1, <2>2
      DEF Parts, Fits, ItemFits, UserFits, BranchFits, PackageFits, MessageFits,
          PackageSteps, MessageSteps
    <2> QED BY <1>2, <1>3, <1>7, <2>3, CallMoves DEF new
  <1> QED BY <1>1, <1>5, <1>6, <1>7

-----------------------------------------------------------------------------
(* The package.                                                             *)

\* What is recorded when a run gets to the package, and to the message.
PackageKnown(r) ==
    /\ RunsOK /\ run[r].input \in Inputs /\ record # None /\ Good(record)
    /\ record.githubUserId # None /\ BranchCreated \in record.completedActions

MessageKnown(r) == PackageKnown(r) /\ PackageMade \in record.completedActions

LEMMA PackageStep ==
  ASSUME IInv, NEW r \in Runs,
         run[r].pc \in {"loadPackage", "writePackage", "savePackage"} \cup (MessageSteps \ {"succeeded"})
  PROVE  PackageKnown(r) /\ (run[r].pc \in MessageSteps => MessageKnown(r))
  <1>1. RunsOK /\ run[r].input \in Inputs /\ Fits(run[r], record, OwnIds, branch, sent)
    BY AtStep DEF Steps, MessageSteps
  <1>2. run[r].pc \in PackageSteps
    BY DEF PackageSteps
  <1>3. record # None /\ record.githubUserId # None /\ BranchCreated \in record.completedActions
    BY <1>1, <1>2 DEF Fits, UserFits, UserSteps, BranchFits, BranchSteps, PackageFits
  <1>4. run[r].pc \in MessageSteps => PackageMade \in record.completedActions
    BY <1>1 DEF Fits, MessageFits
  <1> QED BY <1>1, <1>3, <1>4 DEF PackageKnown, MessageKnown, IInv, RecordOK

LEMMA LoadPackageKeeps ==
  ASSUME IInv, NEW r \in Runs, LoadPackage(r) PROVE IInv'
  <1>1. PICK document \in {record, priorRecord} :
          /\ Loads(document)
          /\ MoveTo(r,
               IF \/ ~run[r].input.startConfig
                  \/ document = None \/ document.azureDevOpsId = None
                  \/ ~Correlates(r, document)
               THEN Ended("failed")
               ELSE Holding(r, "writePackage", document))
    BY DEF LoadPackage
  <1>2. UNCHANGED Calls /\ run[r].pc = "loadPackage"
    BY DEF LoadPackage, At
  <1>3. CountsOK' /\ Held(document, record) /\ document \in Document \cup {None}
    BY <1>1, LoadIs
  <1>4. PackageKnown(r)
    BY <1>2, PackageStep
  <1>5. CASE MoveTo(r, Ended("failed"))
    BY <1>2, <1>3, <1>5, CallFails DEF Fail
  <1>6. CASE document # None /\ MoveTo(r, Holding(r, "writePackage", document))
    <2> DEFINE new == Holding(r, "writePackage", document)
    <2>1. Parts(new, "writePackage", run[r].input, document)
      BY <1>3, <1>4, HoldingIs DEF Steps, PackageKnown
    <2> HIDE DEF new
    <2>2. Fits(new, record, OwnIds, branch, sent) /\ new.pc = "writePackage"
      BY <1>3, <1>4, <1>6, <2>1
      DEF Parts, Fits, ItemFits, UserFits, BranchFits, PackageFits, MessageFits,
          PackageKnown, MessageSteps
    <2> QED BY <1>2, <1>3, <1>6, <2>2, CallMoves DEF new
  <1> QED BY <1>1, <1>5, <1>6

\* A run whose document or record has the package goes on to the message.
LEMMA MessageNext ==
  ASSUME NEW r \in Runs, RunsOK, run[r].input \in Inputs, NEW e, Good(e), e # None,
         e.githubUserId # None, BranchCreated \in e.completedActions,
         PackageMade \in e.completedActions
  PROVE  /\ Fits(Onward(r, "loadMessage"), e, OwnIds, branch, sent)
         /\ Onward(r, "loadMessage").pc = "loadMessage"
  <1>1. Parts(Onward(r, "loadMessage"), "loadMessage", run[r].input, None)
    BY OnwardIs DEF Steps
  <1> QED BY <1>1
    DEF Parts, Fits, Held, ItemFits, UserFits, BranchFits, PackageFits, MessageFits

LEMMA WritePackageKeeps ==
  ASSUME IInv, NEW r \in Runs, WritePackage(r) PROVE IInv'
  <1> DEFINE d == run[r].loaded
  <1>1. /\ UNCHANGED Calls /\ run[r].pc = "writePackage" /\ CountsOK'
        /\ MoveTo(r, IF PackageMade \in d.completedActions /\ d.branchNamed
                     THEN Onward(r, "loadMessage") ELSE On(r, "savePackage"))
    BY Counting DEF IInv, WritePackage, At
  <1>2. PackageKnown(r)
    BY <1>1, PackageStep
  <1>3. d # None /\ Held(d, record) /\ Good(d)
    BY <1>1, AtStep DEF Fits, PackageFits, Held
  <1>4. CASE PackageMade \in d.completedActions
    <2>1. MoveTo(r, Onward(r, "loadMessage")) /\ PackageMade \in record.completedActions
      BY <1>1, <1>3, <1>4 DEF Good, Held, Keeps
    <2>2. /\ Fits(Onward(r, "loadMessage"), record, OwnIds, branch, sent)
          /\ Onward(r, "loadMessage").pc = "loadMessage"
      BY <1>2, <2>1, MessageNext DEF PackageKnown
    <2> QED BY <1>1, <2>1, <2>2, CallMoves
  <1>5. CASE PackageMade \notin d.completedActions
    <2> DEFINE new == On(r, "savePackage")
    <2>1. MoveTo(r, new)
      BY <1>1, <1>5
    <2>2. Parts(new, "savePackage", run[r].input, d)
      BY <1>2, OnIs DEF Steps, PackageKnown
    <2> HIDE DEF new
    <2>3. Fits(new, record, OwnIds, branch, sent) /\ new.pc = "savePackage"
      BY <1>2, <1>3, <1>5, <2>2
      DEF Parts, Fits, ItemFits, UserFits, BranchFits, PackageFits, MessageFits,
          PackageKnown, MessageSteps
    <2> QED BY <1>1, <2>1, <2>3, CallMoves
  <1> QED BY <1>4, <1>5

LEMMA SavePackageKeeps ==
  ASSUME IInv, NEW r \in Runs, SavePackage(r) PROVE IInv'
  <1> DEFINE d == run[r].loaded
             e == Saved(WithPackage(d))
             saved == Onward(r, "loadMessage")
  <1>1. /\ run[r].pc = "savePackage" /\ UNCHANGED <<world, board, priorBoard, branch, sent>>
        /\ Saves(r, WithPackage(d), saved, Ended("failed"))
    BY DEF SavePackage, At
  <1>2. PackageKnown(r)
    BY <1>1, PackageStep
  <1>3. ASSUME record = d
        PROVE  /\ Follows(record, e) /\ e.initialCommitSha = record.initialCommitSha
               /\ e.completedActions = record.completedActions \cup {PackageMade}
    BY <1>2, <1>3, PackageFollows DEF PackageKnown
  <1> HIDE DEF e
  <1>4. ASSUME record = d
        PROVE  /\ Good(e) /\ e # None /\ Grows(record, e) /\ e.azureDevOpsId \in OwnIds
               /\ BranchCreated \in e.completedActions /\ PackageMade \in e.completedActions
               /\ branch # None
               /\ MessageSent \in e.completedActions => sent # <<>>
               /\ e.githubUserId # None
    BY <1>2, <1>3, <1>4, FollowingIs, ActionsAreIntakes
    DEF IInv, RecordOK, PackageKnown, Follows, Keeps
  <1>5. record = d => saved.pc = "loadMessage" /\ Fits(saved, e, OwnIds, branch, sent)
    BY <1>2, <1>4, MessageNext DEF PackageKnown
  <1> HIDE DEF saved
  <1> QED BY <1>1, <1>2, <1>3, <1>4, <1>5, FailedFits, SaveMoves DEF e, PackageKnown

-----------------------------------------------------------------------------
(* The message.                                                             *)

LEMMA SucceededFits ==
  ASSUME NEW e, Good(e), e # None, e.githubUserId # None,
         {BranchCreated, PackageMade, MessageSent} \subseteq e.completedActions
  PROVE  /\ Fits(Ended("succeeded"), e, OwnIds, branch, sent)
         /\ Ended("succeeded").pc = "succeeded"
  <1>1. Parts(Ended("succeeded"), "succeeded", None, None)
    BY EndedIs
  <1> QED BY <1>1
    DEF Parts, Fits, Held, ItemFits, UserFits, BranchFits, PackageFits, MessageFits, Steps

\* A run that finds the message recorded is done.
LEMMA AlreadySent ==
  ASSUME IInv, NEW r \in Runs, MessageKnown(r), NEW document, document # None,
         Held(document, record), MessageSent \in document.completedActions,
         MoveTo(r, Ended("succeeded")), UNCHANGED Calls, CountsOK'
  PROVE  IInv'
  <1>1. MessageSent \in record.completedActions
    BY DEF Held, Keeps
  <1>2. /\ Fits(Ended("succeeded"), record, OwnIds, branch, sent)
        /\ Ended("succeeded").pc = "succeeded"
    BY <1>1, SucceededFits DEF MessageKnown, PackageKnown
  <1> QED BY <1>2, CallMoves

LEMMA LoadMessageKeeps ==
  ASSUME IInv, NEW r \in Runs, LoadMessage(r) PROVE IInv'
  <1>1. PICK document \in {record, priorRecord} :
          /\ Loads(document)
          /\ MoveTo(r,
               IF ~ReadyFor(r, document) THEN Ended("failed")
               ELSE IF MessageSent \in document.completedActions THEN Ended("succeeded")
               ELSE IF document.azureDevOpsId = None THEN Ended("failed")
               ELSE Holding(r, "sendMessage", document))
    BY DEF LoadMessage
  <1>2. UNCHANGED Calls /\ run[r].pc = "loadMessage"
    BY DEF LoadMessage, At
  <1>3. CountsOK' /\ Held(document, record) /\ document \in Document \cup {None}
    BY <1>1, LoadIs
  <1>4. MessageKnown(r)
    BY <1>2, PackageStep DEF MessageSteps
  <1>5. CASE MoveTo(r, Ended("failed"))
    BY <1>2, <1>3, <1>5, CallFails DEF Fail
  <1>6. CASE /\ document # None /\ MessageSent \in document.completedActions
             /\ MoveTo(r, Ended("succeeded"))
    BY <1>2, <1>3, <1>4, <1>6, AlreadySent
  <1>7. CASE /\ document # None /\ MessageSent \notin document.completedActions
             /\ MoveTo(r, Holding(r, "sendMessage", document))
    <2> DEFINE new == Holding(r, "sendMessage", document)
    <2>1. Parts(new, "sendMessage", run[r].input, document)
      BY <1>3, <1>4, HoldingIs DEF Steps, MessageKnown, PackageKnown
    <2> HIDE DEF new
    <2>2. Fits(new, record, OwnIds, branch, sent) /\ new.pc = "sendMessage"
      BY <1>3, <1>4, <1>7, <2>1
      DEF Parts, Fits, ItemFits, UserFits, BranchFits, PackageFits, MessageFits,
          MessageKnown, PackageKnown
    <2> QED BY <1>2, <1>3, <1>7, <2>2, CallMoves DEF new
  <1> QED BY <1>1, <1>5, <1>6, <1>7 DEF ReadyFor

LEMMA SendMessageKeeps ==
  ASSUME IInv, NEW r \in Runs, SendMessage(r) PROVE IInv'
  <1> DEFINE d == run[r].loaded
             new == On(r, "completeMessage")
  <1>1. /\ run[r].pc = "sendMessage" /\ CountsOK' /\ MoveTo(r, new)
        /\ sent' = Append(sent, d.azureDevOpsId)
        /\ UNCHANGED <<world, record, priorRecord, board, priorBoard, branch>>
    BY Counting DEF IInv, SendMessage, At
  <1>2. MessageKnown(r)
    BY <1>1, PackageStep DEF MessageSteps
  <1>3. d # None /\ Held(d, record) /\ Good(d) /\ MessageSent \notin d.completedActions
    BY <1>1, AtStep DEF Fits, MessageFits, Held
  <1>4. d.azureDevOpsId \in OwnIds /\ d.azureDevOpsId \in Nat
    BY <1>3, OwnIdsAreNumbers DEF IInv, RecordOK, Held, Keeps, Good
  <1>5. OwnIds' = OwnIds
    BY <1>1 DEF OwnIds, Own
  <1>6. sent' # <<>> /\ MessagesOK'
    BY <1>1, <1>4, <1>5 DEF IInv, MessagesOK
  <1>7. Parts(new, "completeMessage", run[r].input, d)
    BY <1>2, OnIs DEF Steps, MessageKnown, PackageKnown
  <1> HIDE DEF new
  <1>8. Fits(new, record, OwnIds, branch, sent') /\ new.pc = "completeMessage"
    BY <1>2, <1>3, <1>6, <1>7
    DEF Parts, Fits, ItemFits, UserFits, BranchFits, PackageFits, MessageFits,
        MessageKnown, PackageKnown
  <1>9. RunsOK'
    BY <1>1, <1>5, <1>6, <1>8, RunMoves DEF IInv, RecordOK, Grows
  <1>10. WorldOK' /\ RecordOK' /\ BranchStartsWhereRecorded'
    BY <1>1, <1>5, <1>6 DEF IInv, WorldOK, RecordOK, BranchStartsWhereRecorded, world
  <1>11. UnrelatedOK'
    <2>1. run \in [Runs -> RunState] /\ run' = [run EXCEPT ![r] = new]
      BY <1>1 DEF IInv, RunsOK, MoveTo
    <2> QED BY <1>1, <1>8, <2>1 DEF IInv, UnrelatedOK, PreparesBranch
  <1> QED BY <1>1, <1>6, <1>9, <1>10, <1>11 DEF IInv

\* Both saves of the sent message.
LEMMA MessageRecorded ==
  ASSUME IInv, NEW r \in Runs, NEW conflict, run[r].pc \in {"completeMessage", "retryMessage"},
         UNCHANGED <<world, board, priorBoard, branch, sent>>,
         Saves(r, WithMessage(run[r].loaded), Ended("succeeded"), conflict),
         Fits(conflict, record, OwnIds, branch, sent),
         conflict.pc \notin {"readBase", "saveIntent", "createBranch"}
  PROVE  IInv'
  <1> DEFINE d == run[r].loaded
             e == Saved(WithMessage(d))
  <1>1. MessageKnown(r) /\ sent # <<>>
    BY PackageStep, AtStep DEF MessageSteps, Fits, MessageFits
  <1>2. ASSUME record = d
        PROVE  /\ Follows(record, e) /\ e.initialCommitSha = record.initialCommitSha
               /\ e.completedActions = record.completedActions \cup {MessageSent}
    BY <1>1, <1>2, MessageFollows DEF MessageKnown, PackageKnown
  <1> HIDE DEF e
  <1>3. ASSUME record = d
        PROVE  /\ Good(e) /\ e # None /\ Grows(record, e) /\ e.azureDevOpsId \in OwnIds
               /\ {BranchCreated, PackageMade, MessageSent} \subseteq e.completedActions
               /\ branch # None /\ e.githubUserId # None
    BY <1>1, <1>2, <1>3, FollowingIs
    DEF IInv, RecordOK, MessageKnown, PackageKnown, Follows, Keeps
  <1>4. ASSUME record = d
        PROVE  /\ Fits(Ended("succeeded"), e, OwnIds, branch, sent)
               /\ Ended("succeeded").pc = "succeeded"
    BY <1>3, <1>4, SucceededFits
  <1>5. record = d => e.initialCommitSha = record.initialCommitSha /\ record # None
    BY <1>1, <1>2 DEF MessageKnown, PackageKnown
  <1> QED BY <1>1, <1>3, <1>4, <1>5, SaveMoves DEF e

LEMMA CompleteMessageKeeps ==
  ASSUME IInv, NEW r \in Runs, CompleteMessage(r) PROVE IInv'
  <1> DEFINE conflict == AfterConflict(r)
  <1>1. /\ run[r].pc = "completeMessage" /\ UNCHANGED <<world, board, priorBoard, branch, sent>>
        /\ Saves(r, WithMessage(run[r].loaded), Ended("succeeded"), conflict)
    BY DEF CompleteMessage, At
  <1>2. MessageKnown(r) /\ sent # <<>>
    BY <1>1, PackageStep, AtStep DEF MessageSteps, Fits, MessageFits
  <1>3. Parts(conflict, "reloadMessage", run[r].input, None)
    BY <1>2, OnwardIs DEF Steps, MessageKnown, PackageKnown, AfterConflict
  <1> HIDE DEF conflict
  <1>4. conflict.pc = "reloadMessage" /\ Fits(conflict, record, OwnIds, branch, sent)
    BY <1>2, <1>3
    DEF Parts, Fits, Held, ItemFits, UserFits, BranchFits, PackageFits, MessageFits,
        MessageKnown, PackageKnown
  <1> QED BY <1>1, <1>4, MessageRecorded

LEMMA RetryMessageKeeps ==
  ASSUME IInv, NEW r \in Runs, RetryMessage(r) PROVE IInv'
  BY FailedFits, MessageRecorded DEF RetryMessage, At

LEMMA ReloadMessageKeeps ==
  ASSUME IInv, NEW r \in Runs, ReloadMessage(r) PROVE IInv'
  <1>1. PICK document \in {record, priorRecord} :
          /\ Loads(document)
          /\ MoveTo(r,
               IF ~ReadyFor(r, document) THEN Ended("failed")
               ELSE IF MessageSent \in document.completedActions THEN Ended("succeeded")
               ELSE Holding(r, "retryMessage", document))
    BY DEF ReloadMessage
  <1>2. UNCHANGED Calls /\ run[r].pc = "reloadMessage"
    BY DEF ReloadMessage, At
  <1>3. CountsOK' /\ Held(document, record) /\ document \in Document \cup {None}
    BY <1>1, LoadIs
  <1>4. MessageKnown(r) /\ sent # <<>>
    BY <1>2, PackageStep, AtStep DEF MessageSteps, Fits, MessageFits
  <1>5. CASE MoveTo(r, Ended("failed"))
    BY <1>2, <1>3, <1>5, CallFails DEF Fail
  <1>6. CASE /\ document # None /\ MessageSent \in document.completedActions
             /\ MoveTo(r, Ended("succeeded"))
    BY <1>2, <1>3, <1>4, <1>6, AlreadySent
  <1>7. CASE /\ document # None /\ MessageSent \notin document.completedActions
             /\ MoveTo(r, Holding(r, "retryMessage", document))
    <2> DEFINE new == Holding(r, "retryMessage", document)
    <2>1. Parts(new, "retryMessage", run[r].input, document)
      BY <1>3, <1>4, HoldingIs DEF Steps, MessageKnown, PackageKnown
    <2> HIDE DEF new
    <2>2. Fits(new, record, OwnIds, branch, sent) /\ new.pc = "retryMessage"
      BY <1>3, <1>4, <1>7, <2>1
      DEF Parts, Fits, ItemFits, UserFits, BranchFits, PackageFits, MessageFits,
          MessageKnown, PackageKnown
    <2> QED BY <1>2, <1>3, <1>7, <2>2, CallMoves DEF new
  <1> QED BY <1>1, <1>5, <1>6, <1>7 DEF ReadyFor

-----------------------------------------------------------------------------
(* What happens around the runs.                                            *)

\* The runs stay as they are while the world around them grows.
LEMMA RunsStay ==
  ASSUME RunsOK, record # None => Good(record), UNCHANGED run, Grows(record, record'),
         OwnIds \subseteq OwnIds', branch # None => branch' # None, UNCHANGED sent
  PROVE  RunsOK'
  <1>1. ASSUME NEW r \in Runs PROVE Fits(run[r], record', OwnIds', branch', sent')
    <2>1. Fits(run[r], record, OwnIds, branch, sent)
      BY DEF RunsOK
    <2> QED BY <2>1, FitsStays
  <1> QED BY <1>1 DEF RunsOK

LEMMA FilesKeep == IInv /\ (EditFiles \/ ChangeAccess \/ AdvanceBase) => IInv'
  <1> SUFFICES ASSUME IInv, EditFiles \/ ChangeAccess \/ AdvanceBase PROVE IInv'
    OBVIOUS
  <1>1. UNCHANGED <<mode, record, priorRecord, board, priorBoard, branch, sent, run>> /\ CountsOK'
    BY Counting DEF IInv, EditFiles, ChangeAccess, AdvanceBase, Disturbances
  <1>2. (checkout \in Checkouts /\ account \in Accounts /\ base \in Commits)'
    BY DEF IInv, WorldOK, EditFiles, ChangeAccess, AdvanceBase
  <1>3. OwnIds' = OwnIds
    BY <1>1 DEF OwnIds, Own
  <1>4. WorldOK' /\ RecordOK' /\ MessagesOK' /\ BranchStartsWhereRecorded' /\ UnrelatedOK'
    BY <1>1, <1>2, <1>3
    DEF IInv, WorldOK, RecordOK, MessagesOK, BranchStartsWhereRecorded, UnrelatedOK,
        PreparesBranch
  <1>5. RunsOK'
    BY <1>1, <1>3, RunsStay DEF IInv, RecordOK, Grows
  <1> QED BY <1>1, <1>4, <1>5 DEF IInv

LEMMA ForeignBranchKeeps == IInv /\ ForeignBranch => IInv'
  <1> SUFFICES ASSUME IInv, ForeignBranch PROVE IInv'
    OBVIOUS
  <1> DEFINE began == ~(/\ record = None \/ record.initialCommitSha = None
                        /\ \A r \in Runs : ~PreparesBranch(r))
  <1>1. PICK b \in BOOLEAN : b <=> ~began
    OBVIOUS
  <1>2. /\ UNCHANGED <<mode, checkout, account, base>>
        /\ UNCHANGED <<record, priorRecord, board, priorBoard, sent, run>>
        /\ CountsOK' /\ branch = None
    BY Counting DEF IInv, ForeignBranch, Disturbances, world
  <1>3. branch' = [sha |-> base, by |-> "others", unrelated |-> b]
    <2>1. branch' = [sha |-> base, by |-> "others",
                     unrelated |-> /\ record = None \/ record.initialCommitSha = None
                                   /\ \A r \in Runs : ~PreparesBranch(r)]
      BY DEF ForeignBranch
    <2>2. (/\ record = None \/ record.initialCommitSha = None
           /\ \A r \in Runs : ~PreparesBranch(r)) = b
      BY <1>1, Zenon
    <2> QED BY <2>1, <2>2, Zenon
  <1>4. branch' \in Branches /\ branch' # None
    BY <1>1, <1>3, IntakeAssumption DEF IInv, WorldOK, Branches
  <1>5. OwnIds' = OwnIds
    BY <1>2 DEF OwnIds, Own
  <1>6. WorldOK' /\ RecordOK' /\ MessagesOK'
    BY <1>2, <1>4, <1>5 DEF IInv, WorldOK, RecordOK, MessagesOK
  <1>7. RunsOK'
    BY <1>2, <1>4, <1>5, RunsStay DEF IInv, RecordOK, Grows
  <1>8. BranchStartsWhereRecorded'
    BY <1>3 DEF BranchStartsWhereRecorded
  <1>9. UnrelatedOK'
    <2>1. branch'.unrelated = b
      BY <1>3
    <2> SUFFICES ASSUME branch'.unrelated
                 PROVE  (/\ record # None => record.initialCommitSha = None
                         /\ \A r \in Runs : ~PreparesBranch(r))'
      BY DEF UnrelatedOK
    <2>2. ~began
      BY <1>1, <2>1, Zenon
    <2> QED BY <1>2, <2>2 DEF PreparesBranch
  <1> QED BY <1>2, <1>6, <1>7, <1>8, <1>9 DEF IInv

LEMMA NeighbourItemKeeps == IInv /\ NeighbourItem => IInv'
  <1> SUFFICES ASSUME IInv, NeighbourItem PROVE IInv'
    OBVIOUS
  <1>1. PICK s \in Submissions, place \in Places : board' = WithNewItem(board, s, place)
    BY WorkItemsAssumption DEF NeighbourItem
  <1>2. /\ UNCHANGED <<world, record, priorRecord, branch, sent, run>> /\ priorBoard' = board
        /\ CountsOK'
    BY Counting DEF IInv, NeighbourItem, Disturbances
  <1>3. WorldOK' /\ OwnIds \subseteq OwnIds'
    BY <1>1, <1>2, ItemMade DEF IInv
  <1>4. RecordOK' /\ MessagesOK' /\ BranchStartsWhereRecorded'
    BY <1>2, <1>3, BoardKeeps
  <1>5. RunsOK'
    BY <1>2, <1>3, RunsStay DEF IInv, RecordOK, Grows
  <1>6. UnrelatedOK'
    BY <1>2 DEF IInv, UnrelatedOK, PreparesBranch
  <1> QED BY <1>2, <1>3, <1>4, <1>5, <1>6 DEF IInv

LEMMA ReceiverWritesKeeps == IInv /\ ReceiverWrites => IInv'
  <1> SUFFICES ASSUME IInv, ReceiverWrites PROVE IInv'
    OBVIOUS
  <1>1. /\ UNCHANGED <<world, board, priorBoard, branch, sent, run>> /\ priorRecord' = record
        /\ CountsOK' /\ record # None /\ Good(record)
    BY Counting DEF IInv, RecordOK, ReceiverWrites, Disturbances
  <1>2. /\ Follows(record, record') /\ record'.initialCommitSha = record.initialCommitSha
        /\ record'.completedActions = record.completedActions
    BY <1>1, PullFollows, ReviewFollows DEF ReceiverWrites
  <1>3. /\ Good(record') /\ record' # None /\ Grows(record, record')
        /\ record'.azureDevOpsId \in OwnIds
    BY <1>1, <1>2, FollowingIs
  <1>4. OwnIds' = OwnIds
    BY <1>1 DEF OwnIds, Own
  <1>5. WorldOK' /\ MessagesOK'
    BY <1>1, <1>4 DEF IInv, WorldOK, MessagesOK, world
  <1>6. RecordOK'
    <2>1. Held(record, record')
      BY <1>1, <1>3, HeldItself, HeldStays
    <2> QED BY <1>1, <1>2, <1>3, <1>4, <2>1 DEF IInv, RecordOK
  <1>7. RunsOK'
    BY <1>1, <1>3, <1>4, RunsStay DEF IInv
  <1>8. BranchStartsWhereRecorded'
    BY <1>1, <1>2, <1>3 DEF IInv, BranchStartsWhereRecorded
  <1>9. UnrelatedOK'
    BY <1>1, <1>2 DEF IInv, UnrelatedOK, PreparesBranch
  <1> QED BY <1>1, <1>5, <1>6, <1>7, <1>8, <1>9 DEF IInv
-----------------------------------------------------------------------------

LEMMA InitInv == Init => IInv
  <1> SUFFICES ASSUME Init PROVE IInv
    OBVIOUS
  <1>1. WorldOK
    <2>1. account \in Accounts
      BY IntakeAssumption DEF Init, Accounts
    <2>2. board \in [next : Nat, items : SUBSET WorkItem]
      BY IntakeAssumption DEF Init
    <2> QED BY <2>1, <2>2, IntakeAssumption DEF Init, WorldOK
  <1>2. CountsOK
    BY IntakeAssumption DEF Init, CountsOK
  <1>3. ASSUME record # None
        PROVE  /\ Good(record) /\ record.azureDevOpsId \in OwnIds
               /\ record.completedActions = {StoryCreated, PackageMade}
    <2> DEFINE target == TargetOf(checkout.submission)
    <2>1. PICK w \in board.items : /\ w.submission = Submission /\ w.place = Pinned
                                   /\ record = OldRecord(target, w.id)
      BY <1>3 DEF Init
    <2>2. target \in Targets
      BY IntakeAssumption DEF Init
    <2>3. w.id \in OwnIds /\ w.id \in Nat
      BY <1>1, <2>1, OwnIdsAreNumbers DEF OwnIds, Own
    <2> HIDE DEF target
    <2> QED BY <2>1, <2>2, <2>3, OldRecordIsGood
  <1>4. RecordOK
    BY <1>3, HeldItself, ActionsAreIntakes DEF Init, RecordOK
  <1>5. MessagesOK /\ BranchStartsWhereRecorded /\ UnrelatedOK
    BY DEF Init, MessagesOK, BranchStartsWhereRecorded, UnrelatedOK
  <1>6. RunsOK
    <2>1. NewRun \in RunState /\ NewRun.pc = "idle" /\ NewRun.loaded = None
      BY DEF NewRun, RunState
    <2>2. Fits(NewRun, record, OwnIds, branch, sent)
      BY <2>1
      DEF Fits, Held, ItemFits, UserFits, BranchFits, PackageFits, MessageFits, Steps,
          UserSteps, BranchSteps, PackageSteps, MessageSteps
    <2>3. run = [r \in Runs |-> NewRun]
      BY DEF Init
    <2> QED BY <2>1, <2>2, <2>3 DEF RunsOK
  <1> QED BY <1>1, <1>2, <1>4, <1>5, <1>6 DEF IInv

LEMMA RunStepKeeps ==
  ASSUME IInv, NEW r \in Runs, RunStep(r) PROVE IInv'
  BY LoadItemKeeps, FindItemKeeps, CreateItemKeeps, WriteItemKeeps, SaveItemKeeps,
     ResolveUserKeeps, CheckPermissionKeeps, LoadIdentityKeeps, SaveIdentityKeeps,
     LoadBranchKeeps, FindBranchKeeps, ReadBaseKeeps, SaveIntentKeeps, CreateBranchKeeps,
     CompleteBranchKeeps, ReloadBranchKeeps, RetryBranchKeeps,
     LoadPackageKeeps, WritePackageKeeps, SavePackageKeeps,
     LoadMessageKeeps, SendMessageKeeps, CompleteMessageKeeps, ReloadMessageKeeps,
     RetryMessageKeeps
  DEF RunStep

LEMMA StepInv == IInv /\ [Next]_vars => IInv'
  <1> SUFFICES ASSUME IInv, [Next]_vars PROVE IInv'
    OBVIOUS
  <1>1. CASE UNCHANGED vars
    <2>1. OwnIds' = OwnIds
      BY <1>1 DEF OwnIds, Own, vars
    <2> QED BY <1>1, <2>1
      DEF IInv, WorldOK, CountsOK, RecordOK, MessagesOK, RunsOK, BranchStartsWhereRecorded,
          UnrelatedOK, PreparesBranch, vars, world
  <1>2. CASE World
    BY <1>2, FilesKeep, ForeignBranchKeeps, NeighbourItemKeeps, ReceiverWritesKeeps DEF World
  <1>3. CASE \E r \in Runs : Start(r)
    BY <1>3, StartKeeps
  <1>4. CASE \E r \in Runs : RunFails(r)
    BY <1>4, RunFailsKeeps
  <1>5. CASE \E r \in Runs : RunStep(r)
    BY <1>5, RunStepKeeps
  <1> QED BY <1>1, <1>2, <1>3, <1>4, <1>5 DEF Next

-----------------------------------------------------------------------------
(* What the invariant says.                                                 *)

LEMMA InvAlways == Spec => []IInv
  BY InitInv, StepInv, PTL DEF Spec

\* Every variable of the intake runs keeps its type.
THEOREM PipelineTypes == Spec => []TypeOK
  <1>1. IInv => TypeOK
    <2> SUFFICES ASSUME IInv PROVE TypeOK
      OBVIOUS
    <2>1. {record, priorRecord} \subseteq Document \cup {None}
      BY DEF IInv, RecordOK, Held, Good
    <2>2. \A b \in {board, priorBoard} : b.next \in Nat /\ b.items \subseteq WorkItem
      BY DEF IInv, WorldOK
    <2>3. \A k \in DOMAIN sent : sent[k] \in Nat
      BY DEF IInv, MessagesOK
    <2> QED BY <2>1, <2>2, <2>3 DEF IInv, WorldOK, CountsOK, RunsOK, TypeOK
  <1> QED BY <1>1, InvAlways, PTL

\* The record and the messages name an item of this submission in the pinned
\* project, whatever either client's query returns (AzureDevOpsService.Execute).
THEOREM ItemsAreOwn == Spec => []NamesItsOwnItem
  <1>1. IInv => NamesItsOwnItem
    BY DEF IInv, RecordOK, MessagesOK, NamesItsOwnItem, OwnIds
  <1> QED BY <1>1, InvAlways, PTL

\* A branch of the automation's starts at the recorded commit, although the base
\* branch moves (ContributorBranchService.Prepare).
THEOREM BranchStarts == Spec => []BranchStartsWhereRecorded
  <1>1. IInv => BranchStartsWhereRecorded
    BY DEF IInv
  <1> QED BY <1>1, InvAlways, PTL

\* A branch that was there before any run began one of its own is never taken over
\* (ContributorBranchService.RequireProof).
THEOREM UnrelatedStays == Spec => []UnrelatedIsNotAdopted
  <1>1. IInv => UnrelatedIsNotAdopted
    BY DEF IInv, UnrelatedOK, RecordOK, Good, UnrelatedIsNotAdopted
  <1> QED BY <1>1, InvAlways, PTL

\* A run that reports success leaves every action recorded and done
\* (PipelineApplication.Run).
THEOREM SuccessIsReady == Spec => []SuccessMeansReady
  <1>1. IInv => SuccessMeansReady
    <2> SUFFICES ASSUME IInv, NEW r \in Runs, run[r].pc = "succeeded"
                 PROVE  /\ record # None /\ IntakeActions \subseteq record.completedActions
                        /\ branch # None /\ sent # <<>>
      BY DEF SuccessMeansReady
    <2>1. Fits(run[r], record, OwnIds, branch, sent)
      BY DEF IInv, RunsOK
    <2>2. /\ record # None /\ BranchCreated \in record.completedActions
          /\ PackageMade \in record.completedActions /\ MessageSent \in record.completedActions
      BY <2>1
      DEF Fits, UserFits, UserSteps, BranchSteps, PackageFits, PackageSteps, MessageFits,
          MessageSteps
    <2> QED BY <2>2 DEF IInv, RecordOK, Good, IntakeActions
  <1> QED BY <1>1, InvAlways, PTL

-----------------------------------------------------------------------------
(* The refinement: every save is one of the record's own steps.             *)

\* The record's specification speaks of the same documents as the pipeline.
LEMMA SameTerms ==
  /\ Record!StoryCreated = StoryCreated /\ Record!BranchCreated = BranchCreated
  /\ Record!PackageMade = PackageMade /\ Record!MessageSent = MessageSent
  /\ Record!IntakeActions = IntakeActions /\ Record!SubmissionStage = SubmissionStage
  /\ Record!Intake = Intake /\ Record!Planned = Planned
  /\ Record!TechnicalReview = TechnicalReview
  <1>1. /\ Record!StoryCreated = StoryCreated /\ Record!BranchCreated = BranchCreated
        /\ Record!PackageMade = PackageMade /\ Record!MessageSent = MessageSent
    BY DEF Record!StoryCreated, StoryCreated, Record!BranchCreated, BranchCreated,
           Record!PackageMade, PackageMade, Record!MessageSent, MessageSent
  <1>2. /\ Record!Intake = Intake /\ Record!Planned = Planned
        /\ Record!TechnicalReview = TechnicalReview
    BY DEF Record!Intake, Intake, Record!Planned, Planned, Record!TechnicalReview,
           TechnicalReview
  <1>3. Record!IntakeActions = IntakeActions
    BY <1>1 DEF Record!IntakeActions, IntakeActions
  <1>4. Record!SubmissionStage = SubmissionStage
    BY DEF Record!SubmissionStage, SubmissionStage, Record!Intake, Intake, Record!Planned, Planned,
           Record!Drafting, Drafting, Record!TechnicalReview, TechnicalReview,
           Record!ContentReview, ContentReview, Record!EditorialReview, EditorialReview,
           Record!Publishing, Publishing, Record!Complete, Complete, Record!Withdrawn, Withdrawn
  <1> QED BY <1>1, <1>2, <1>3, <1>4

LEMMA SameDocuments ==
  /\ Record!Document = Document
  /\ \A d : Record!Saved(d) = Saved(d)
  /\ \A d, action : Record!Completed(d, action) = Completed(d, action)
  /\ \A d, stage : Record!InStage(d, stage) = InStage(d, stage)
  /\ \A d : Record!Named(d) = Named(d)
  /\ \A target : Record!NewDocument(target) = NewDocument(target)
  <1>1. Record!Document = Document
    BY SameTerms DEF Record!Document, Document
  <1>2. \A target : Record!NewDocument(target) = NewDocument(target)
    BY SameTerms DEF Record!NewDocument, NewDocument
  <1> QED BY <1>1, <1>2
      DEF Record!Saved, Saved, Record!Completed, Completed, Record!InStage, InStage,
          Record!Named, Named

LEMMA SameChanges ==
  /\ \A d, item : Record!WithItem(d, item) = WithItem(d, item)
  /\ \A d, user : Record!WithUser(d, user) = WithUser(d, user)
  /\ \A d, sha : Record!WithIntent(d, sha) = WithIntent(d, sha)
  /\ \A d : Record!WithBranch(d) = WithBranch(d)
  /\ \A d : Record!WithPackage(d) = WithPackage(d)
  /\ \A d : Record!WithMessage(d) = WithMessage(d)
  /\ \A d, pull : Record!WithPull(d, pull) = WithPull(d, pull)
  BY SameTerms, SameDocuments
  DEF Record!WithItem, WithItem, Record!WithUser, WithUser, Record!WithIntent, WithIntent,
      Record!WithBranch, WithBranch, Record!WithPackage, WithPackage, Record!WithMessage,
      WithMessage, Record!WithPull, WithPull

LEMMA SaveItemRefines ==
  ASSUME IInv, NEW r \in Runs, SaveItem(r) PROVE [Record!Next]_record
  <1> DEFINE target == run[r].input.target
             new == WithItem(StateOf(r), run[r].item)
  <1>1. /\ run[r].pc = "saveItem" /\ Saves(r, new, Onward(r, "verify"), Ended("failed"))
    BY DEF SaveItem, At
  <1>2. /\ run[r].input \in Inputs /\ run[r].loaded = None /\ run[r].item \in OwnIds
    BY <1>1, AtStep DEF Steps, Fits, ItemFits
  <1>3. target \in Targets /\ run[r].item \in Nat
    BY <1>2, OwnIdsAreNumbers DEF IInv, Inputs
  <1>4. new = WithItem(NewDocument(target), run[r].item)
    BY <1>2 DEF StateOf
  <1>5. CASE record = run[r].loaded /\ record' = Saved(new)
    <2>1. /\ record' \in Document /\ record'.target = target
          /\ record'.azureDevOpsId = run[r].item /\ record'.azureDevOpsId # None
      BY <1>3, <1>4, <1>5, FirstItemIsGood DEF Good
    <2> HIDE DEF new, target
    <2> QED BY <1>2, <1>4, <1>5, <2>1, SameTerms, SameDocuments, SameChanges
        DEF Record!Next, Record!RecordItem
  <1> HIDE DEF new
  <1> QED BY <1>1, <1>5, SaveIs

LEMMA SaveIdentityRefines ==
  ASSUME IInv, NEW r \in Runs, SaveIdentity(r) PROVE [Record!Next]_record
  <1> DEFINE new == WithUser(StateOf(r), run[r].user)
  <1>1. /\ run[r].pc = "saveIdentity" /\ Saves(r, new, Onward(r, "loadBranch"), Ended("failed"))
    BY DEF SaveIdentity, At
  <1>2. /\ run[r].user \in Users /\ record # None
        /\ run[r].loaded # None => run[r].loaded.githubUserId = None
    BY <1>1, AtStep DEF Steps, Fits, UserFits, UserSteps, RunState
  <1>3. CASE record = run[r].loaded /\ record' = Saved(new)
    BY <1>2, <1>3, SameTerms, SameDocuments, SameChanges
    DEF StateOf, Record!Next, Record!RecordUser
  <1> HIDE DEF new
  <1> QED BY <1>1, <1>3, SaveIs

LEMMA SaveIntentRefines ==
  ASSUME IInv, NEW r \in Runs, SaveIntent(r) PROVE [Record!Next]_record
  <1> DEFINE d == run[r].loaded
             new == WithIntent(d, run[r].sha)
             saved == Passing(r, "createBranch", Saved(new))
  <1>1. /\ run[r].pc = "saveIntent" /\ Saves(r, new, saved, Ended("failed"))
    BY DEF SaveIntent, At
  <1>2. BranchKnown(r) /\ d.initialCommitSha = None /\ run[r].sha \in Commits
    BY <1>1, BranchStep, AtStep DEF Fits, BranchFits, RunState
  <1>3. CASE record = d /\ record' = Saved(new)
    BY <1>2, <1>3, SameTerms, SameDocuments, SameChanges
    DEF BranchKnown, Record!Next, Record!RecordIntent
  <1> HIDE DEF new, saved
  <1> QED BY <1>1, <1>3, SaveIs

LEMMA SaveBranchRefines ==
  ASSUME IInv, NEW r \in Runs, CompleteBranch(r) \/ RetryBranch(r) PROVE [Record!Next]_record
  <1> DEFINE d == run[r].loaded
             new == WithBranch(d)
  <1>1. /\ run[r].pc \in {"completeBranch", "retryBranch"}
        /\ \E conflict : Saves(r, new, Onward(r, "loadPackage"), conflict)
    BY DEF CompleteBranch, RetryBranch, At
  <1>2. /\ BranchKnown(r) /\ d.initialCommitSha # None
        /\ BranchCreated \notin d.completedActions
    BY <1>1, BranchStep, AtStep DEF Fits, BranchFits
  <1>3. CASE record = d /\ record' = Saved(new)
    BY <1>2, <1>3, SameTerms, SameDocuments, SameChanges
    DEF BranchKnown, Record!Next, Record!RecordBranch
  <1> HIDE DEF new
  <1> QED BY <1>1, <1>3, SaveIs

LEMMA SavePackageRefines ==
  ASSUME IInv, NEW r \in Runs, SavePackage(r) PROVE [Record!Next]_record
  <1> DEFINE d == run[r].loaded
             new == WithPackage(d)
  <1>1. /\ run[r].pc = "savePackage" /\ Saves(r, new, Onward(r, "loadMessage"), Ended("failed"))
    BY DEF SavePackage, At
  <1>2. PackageKnown(r) /\ PackageMade \notin d.completedActions
    BY <1>1, PackageStep, AtStep DEF Fits, PackageFits
  <1>3. CASE record = d /\ record' = Saved(new)
    BY <1>2, <1>3, SameTerms, SameDocuments, SameChanges
    DEF PackageKnown, Record!Next, Record!RecordPackage
  <1> HIDE DEF new
  <1> QED BY <1>1, <1>3, SaveIs

LEMMA SaveMessageRefines ==
  ASSUME IInv, NEW r \in Runs, CompleteMessage(r) \/ RetryMessage(r)
  PROVE  [Record!Next]_record
  <1> DEFINE d == run[r].loaded
             new == WithMessage(d)
  <1>1. /\ run[r].pc \in {"completeMessage", "retryMessage"}
        /\ \E conflict : Saves(r, new, Ended("succeeded"), conflict)
    BY DEF CompleteMessage, RetryMessage, At
  <1>2. MessageKnown(r) /\ MessageSent \notin d.completedActions
    BY <1>1, PackageStep, AtStep DEF MessageSteps, Fits, MessageFits
  <1>3. CASE record = d /\ record' = Saved(new)
    BY <1>2, <1>3, SameTerms, SameDocuments, SameChanges
    DEF MessageKnown, PackageKnown, Record!Next, Record!RecordMessage
  <1> HIDE DEF new
  <1> QED BY <1>1, <1>3, SaveIs

LEMMA OthersRefine ==
  ASSUME NEW r \in Runs, RunStep(r)
  PROVE  \/ SaveItem(r) \/ SaveIdentity(r) \/ SaveIntent(r) \/ CompleteBranch(r)
         \/ RetryBranch(r) \/ SavePackage(r) \/ CompleteMessage(r) \/ RetryMessage(r)
         \/ UNCHANGED record
  BY DEF RunStep, LoadItem, FindItem, CreateItem, WriteItem, ResolveUser, CheckPermission,
         LoadIdentity, LoadBranch, FindBranch, ReadBase, CreateBranch, ReloadBranch,
         LoadPackage, WritePackage, LoadMessage, SendMessage, ReloadMessage, Calls

LEMMA InitRefines == Init => Record!Init
  <1> SUFFICES ASSUME Init, record # None PROVE Record!Init
    BY DEF Record!Init
  <1>1. PICK w \in board.items : record = OldRecord(TargetOf(checkout.submission), w.id)
    BY DEF Init
  <1>2. TargetOf(checkout.submission) \in Targets /\ w.id \in Nat
    BY IntakeAssumption DEF Init, WorkItem
  <1>3. /\ record \in Document /\ record.azureDevOpsId # None
        /\ record.target = TargetOf(checkout.submission) /\ record.azureDevOpsId = w.id
    BY <1>1, <1>2, OldRecordIsGood DEF Good
  <1>4. Record!OldRecord(record.target, record.azureDevOpsId)
        = OldRecord(record.target, record.azureDevOpsId)
    BY SameTerms, SameDocuments, SameChanges DEF Record!OldRecord, OldRecord
  <1> QED BY <1>1, <1>3, <1>4, SameDocuments DEF Record!Init

LEMMA StepRefines == IInv /\ [Next]_vars => [Record!Next]_record
  <1> SUFFICES ASSUME IInv, [Next]_vars PROVE [Record!Next]_record
    OBVIOUS
  <1>1. CASE UNCHANGED vars
    BY <1>1 DEF vars
  <1>2. CASE ReceiverWrites
    BY <1>2, SameTerms, SameDocuments, SameChanges
    DEF ReceiverWrites, Record!Next, Record!RecordPull, Record!RecordReview
  <1>3. CASE World /\ ~ReceiverWrites
    BY <1>3 DEF World, EditFiles, ChangeAccess, AdvanceBase, ForeignBranch, NeighbourItem
  <1>4. CASE \E r \in Runs : Start(r) \/ RunFails(r)
    BY <1>4 DEF Start, RunFails
  <1>5. ASSUME NEW r \in Runs, RunStep(r) PROVE [Record!Next]_record
    BY <1>5, OthersRefine, SaveItemRefines, SaveIdentityRefines, SaveIntentRefines,
       SaveBranchRefines, SavePackageRefines, SaveMessageRefines
  <1> QED BY <1>1, <1>2, <1>3, <1>4, <1>5 DEF Next

\* Apply runs that die, overlap, read late and race with pull-request runs do to
\* the record only what the record's specification promises (the saves of the
\* five intake services).
THEOREM PipelineRefines == Spec => ImplementsRecord
  BY InvAlways, InitRefines, StepRefines, PTL DEF Spec, ImplementsRecord, Record!Spec

-----------------------------------------------------------------------------
(* What holds as long as certain disturbances do not happen.                *)

LEMMA Disturbed ==
  ASSUME CountsOK, NEW d \in Disturbances, Disturb(d)
  PROVE  /\ disturbed'[d] = disturbed[d] + 1 /\ disturbed'[d] # 0
         /\ \A e \in Disturbances : disturbed[e] <= disturbed'[e]
  BY DEF CountsOK, Disturb

\* A run that meets no lag reads the record itself.
LEMMA LoadsRecord ==
  ASSUME CountsOK, NEW document, Loads(document), Never("lag")'
  PROVE  document = record
  BY Disturbed DEF Loads, Disturbances, Never

\* A disturbance is counted for good.
LEMMA CountsGrow ==
  ASSUME IInv, [Next]_vars
  PROVE  \A d \in Disturbances : disturbed[d] <= disturbed'[d]
  <1>1. CountsOK
    BY DEF IInv
  <1>2. ASSUME Undisturbed PROVE \A d \in Disturbances : disturbed[d] <= disturbed'[d]
    BY <1>1, <1>2 DEF Undisturbed, CountsOK
  <1>3. ASSUME NEW d \in Disturbances, Disturb(d)
        PROVE  \A e \in Disturbances : disturbed[e] <= disturbed'[e]
    BY <1>1, <1>3, Disturbed
  <1>4. CASE World
    BY <1>3, <1>4 DEF World, EditFiles, ChangeAccess, AdvanceBase, ForeignBranch, NeighbourItem,
       ReceiverWrites, Disturbances
  <1>5. ASSUME NEW r \in Runs, Start(r) \/ RunFails(r)
        PROVE  \A d \in Disturbances : disturbed[d] <= disturbed'[d]
    BY <1>2, <1>3, <1>5 DEF Start, RunFails, Disturbances
  <1>6. ASSUME NEW r \in Runs, RunStep(r) PROVE Undisturbed \/ Disturb("lag")
    BY <1>6 DEF RunStep, LoadItem, FindItem, CreateItem, WriteItem, SaveItem, ResolveUser,
       CheckPermission, LoadIdentity, SaveIdentity, LoadBranch, FindBranch, ReadBase, SaveIntent,
       CreateBranch, CompleteBranch, ReloadBranch, RetryBranch, LoadPackage, WritePackage,
       SavePackage, LoadMessage, SendMessage, CompleteMessage, ReloadMessage, RetryMessage,
       Loads, Reads, Saves
  <1>7. CASE UNCHANGED vars
    BY <1>2, <1>7 DEF vars, Undisturbed
  <1> QED BY <1>2, <1>3, <1>4, <1>5, <1>6, <1>7 DEF Next, Disturbances

LEMMA NeverBefore ==
  ASSUME IInv, [Next]_vars, NEW d \in Disturbances, Never(d)' PROVE Never(d)
  BY CountsGrow DEF IInv, CountsOK, Never

\* What a step finds in the record stays there.
LEMMA RecordHeld ==
  ASSUME IInv, [Next]_vars PROVE Held(record, record')
  <1>1. Held(priorRecord', record') /\ Held(record, record)
    BY StepInv, HeldItself DEF IInv, RecordOK
  <1>2. ASSUME NEW r \in Runs, RunStep(r) PROVE record' = record \/ priorRecord' = record
    BY <1>2 DEF RunStep, LoadItem, FindItem, CreateItem, WriteItem, SaveItem, ResolveUser,
       CheckPermission, LoadIdentity, SaveIdentity, LoadBranch, FindBranch, ReadBase, SaveIntent,
       CreateBranch, CompleteBranch, ReloadBranch, RetryBranch, LoadPackage, WritePackage,
       SavePackage, LoadMessage, SendMessage, CompleteMessage, ReloadMessage, RetryMessage,
       Saves, Calls
  <1>3. ASSUME NEW r \in Runs, Start(r) \/ RunFails(r) PROVE record' = record
    BY <1>3 DEF Start, RunFails
  <1>4. CASE World
    BY <1>1, <1>4 DEF World, EditFiles, ChangeAccess, AdvanceBase, ForeignBranch, NeighbourItem,
       ReceiverWrites
  <1>5. CASE UNCHANGED vars
    BY <1>1, <1>5 DEF vars
  <1> QED BY <1>1, <1>2, <1>3, <1>4, <1>5 DEF Next

\* No two runs are under way.
AloneOK == \A q, r \in Runs : Active(q) /\ Active(r) => q = r

LEMMA MovesOne ==
  ASSUME IInv, NEW r \in Runs, NEW new, MoveTo(r, new)
  PROVE  run'[r] = new /\ \A q \in Runs : q # r => run'[q] = run[q]
  BY DEF IInv, RunsOK, MoveTo

\* A step of a run is a step of a run under way, and of no other.
LEMMA RunStepIs ==
  ASSUME IInv, NEW r \in Runs, RunStep(r)
  PROVE  Active(r) /\ \A q \in Runs : q # r => run'[q] = run[q]
  <1>1. Active(r)
    BY DEF RunStep, LoadItem, FindItem, CreateItem, WriteItem, SaveItem, ResolveUser,
       CheckPermission, LoadIdentity, SaveIdentity, LoadBranch, FindBranch, ReadBase, SaveIntent,
       CreateBranch, CompleteBranch, ReloadBranch, RetryBranch, LoadPackage, WritePackage,
       SavePackage, LoadMessage, SendMessage, CompleteMessage, ReloadMessage, RetryMessage,
       At, Active, Steps
  <1>2. \E new : MoveTo(r, new)
    BY DEF RunStep, LoadItem, FindItem, CreateItem, WriteItem, SaveItem, ResolveUser,
       CheckPermission, LoadIdentity, SaveIdentity, LoadBranch, FindBranch, ReadBase, SaveIntent,
       CreateBranch, CompleteBranch, ReloadBranch, RetryBranch, LoadPackage, WritePackage,
       SavePackage, LoadMessage, SendMessage, CompleteMessage, ReloadMessage, RetryMessage,
       Saves, Fail
  <1> QED BY <1>1, <1>2, MovesOne

LEMMA AloneStays ==
  ASSUME IInv, AloneOK, [Next]_vars, Never("overlap")' PROVE AloneOK'
  <1>1. ASSUME UNCHANGED run PROVE AloneOK'
    BY <1>1 DEF AloneOK, Active
  <1>2. ASSUME NEW r \in Runs, Active(r), \A q \in Runs : q # r => run'[q] = run[q] PROVE AloneOK'
    BY <1>2 DEF AloneOK, Active
  <1>3. ASSUME NEW r \in Runs, Start(r) PROVE AloneOK'
    <2>1. \A q \in Runs : ~Active(q)
      BY <1>3, Disturbed DEF IInv, Start, Never, Disturbances
    <2>2. \A q \in Runs : q # r => run'[q] = run[q]
      BY <1>3, MovesOne DEF Start, Fail
    <2> QED BY <2>1, <2>2 DEF AloneOK, Active
  <1>4. ASSUME NEW r \in Runs, RunFails(r) PROVE AloneOK'
    BY <1>2, <1>4, MovesOne DEF RunFails, Fail
  <1>5. ASSUME NEW r \in Runs, RunStep(r) PROVE AloneOK'
    BY <1>2, <1>5, RunStepIs
  <1>6. CASE World \/ UNCHANGED vars
    BY <1>1, <1>6 DEF World, EditFiles, ChangeAccess, AdvanceBase, ForeignBranch, NeighbourItem,
       ReceiverWrites, vars
  <1> QED BY <1>3, <1>4, <1>5, <1>6 DEF Next

\* The steps at which a run is about to make the item, or the message is under way.
Creating == {"createItem", "writeItem"}
Sending  == {"sendMessage", "completeMessage", "reloadMessage", "retryMessage"}

MakesItem(r)   == FindItem(r) \/ CreateItem(r) \/ WriteItem(r)
SendsMessage(r) ==
    LoadMessage(r) \/ SendMessage(r) \/ CompleteMessage(r) \/ ReloadMessage(r) \/ RetryMessage(r)

\* The step each of the moves leads to.
LEMMA LeadsTo ==
  ASSUME IInv, NEW r \in Runs, NEW pc \in Steps
  PROVE  /\ On(r, pc).pc = pc /\ Onward(r, pc).pc = pc
         /\ \A d : Holding(r, pc, d).pc = pc /\ Passing(r, pc, d).pc = pc
         /\ \A sha : [On(r, pc) EXCEPT !.sha = sha].pc = pc
         /\ \A user : [On(r, pc) EXCEPT !.user = user].pc = pc
         /\ \A input : Given(pc, input).pc = pc
         /\ \A item, d : /\ Numbered(r, item).pc = "saveItem"
                         /\ [Numbered(r, item) EXCEPT !.loaded = d].pc = "saveItem"
                         /\ [Numbered(r, item) EXCEPT !.database = d].pc = "saveItem"
         /\ \A outcome : Ended(outcome).pc = outcome
  <1>1. run[r] \in RunState
    BY DEF IInv, RunsOK
  <1>2. \A outcome : Ended(outcome).pc = outcome
    BY DEF Ended, NewRun
  <1>3. \A input : Given(pc, input).pc = pc
    BY DEF Given, Ended, NewRun
  <1>4. On(r, pc).pc = pc /\ \A item : Numbered(r, item).pc = "saveItem"
    BY <1>1 DEF On, Numbered, RunState
  <1>5. /\ \A d : Holding(r, pc, d).pc = pc
        /\ \A sha : [On(r, pc) EXCEPT !.sha = sha].pc = pc
        /\ \A user : [On(r, pc) EXCEPT !.user = user].pc = pc
    BY <1>1 DEF On, Holding, RunState
  <1>6. Onward(r, pc).pc = pc /\ \A d : Passing(r, pc, d).pc = pc
    BY DEF Onward, Passing, Given, Ended, NewRun
  <1>7. \A item, d : /\ [Numbered(r, item) EXCEPT !.loaded = d].pc = "saveItem"
                     /\ [Numbered(r, item) EXCEPT !.database = d].pc = "saveItem"
    BY <1>1 DEF On, Numbered, RunState
  <1> QED BY <1>2, <1>3, <1>4, <1>5, <1>6, <1>7

LEMMA SavesMove ==
  ASSUME IInv, NEW r \in Runs, NEW new, NEW saved, NEW conflict, Saves(r, new, saved, conflict)
  PROVE  run'[r] = saved \/ run'[r] = conflict
  BY MovesOne DEF Saves

\* No other step leads to those steps, nor makes an item or sends a message.
LEMMA OtherStepsLead ==
  ASSUME IInv, NEW r \in Runs, RunStep(r), ~MakesItem(r), ~SendsMessage(r)
  PROVE  /\ run[r].pc \notin Creating \cup Sending
         /\ run'[r].pc \notin Creating \cup Sending
         /\ UNCHANGED <<board, sent>>
  <1> USE LeadsTo, MovesOne, SavesMove DEF Steps, Creating, Sending, At, Fail
  <1>1. CASE LoadItem(r)
    <2>1. PICK document \in {record, priorRecord} :
            /\ Loads(document)
            /\ MoveTo(r,
                 IF document # None /\ ~Correlates(r, document) THEN Ended("failed")
                 ELSE IF document # None /\ document.azureDevOpsId # None
                 THEN IF StoryCreated \in document.completedActions THEN Onward(r, "verify")
                      ELSE [Numbered(r, document.azureDevOpsId) EXCEPT !.loaded = document]
                 ELSE IF ~Safe(run[r].input.place) THEN Ended("failed")
                 ELSE Holding(r, "findItem", document))
      BY <1>1 DEF LoadItem
    <2> DEFINE new == [Numbered(r, document.azureDevOpsId) EXCEPT !.loaded = document]
    <2>2. new.pc = "saveItem"
      BY LeadsTo
    <2>3. \/ MoveTo(r, Ended("failed")) \/ MoveTo(r, Onward(r, "verify"))
          \/ MoveTo(r, new) \/ MoveTo(r, Holding(r, "findItem", document))
      BY <2>1
    <2> HIDE DEF new
    <2> QED BY <1>1, <2>2, <2>3 DEF LoadItem, Calls
  <1>2. CASE SaveItem(r)
    BY <1>2 DEF SaveItem
  <1>3. CASE ResolveUser(r)
    <2> DEFINE new == [On(r, "checkPermission") EXCEPT !.user = account.user]
    <2>1. new.pc = "checkPermission"
      BY LeadsTo
    <2>2. MoveTo(r, Ended("failed")) \/ MoveTo(r, new)
      BY <1>3 DEF ResolveUser
    <2> HIDE DEF new
    <2> QED BY <1>3, <2>1, <2>2 DEF ResolveUser, Calls
  <1>4. CASE CheckPermission(r)
    BY <1>4 DEF CheckPermission, Calls
  <1>5. CASE LoadIdentity(r)
    BY <1>5 DEF LoadIdentity, Calls
  <1>6. CASE SaveIdentity(r)
    BY <1>6 DEF SaveIdentity
  <1>7. CASE LoadBranch(r)
    BY <1>7 DEF LoadBranch, Calls
  <1>8. CASE FindBranch(r)
    <2> DEFINE d   == run[r].loaded
               new == [On(r, "saveIntent") EXCEPT !.sha = d.initialCommitSha]
    <2>1. new.pc = "saveIntent"
      BY LeadsTo
    <2>2. \/ MoveTo(r, On(r, "readBase")) \/ MoveTo(r, On(r, "createBranch"))
          \/ MoveTo(r, new) \/ MoveTo(r, Ended("failed"))
          \/ MoveTo(r, Onward(r, "loadPackage")) \/ MoveTo(r, Passing(r, "completeBranch", d))
      BY <1>8 DEF FindBranch, Intending, Completing
    <2> HIDE DEF new
    <2> QED BY <1>8, <2>1, <2>2 DEF FindBranch, Calls
  <1>9. CASE ReadBase(r)
    <2> DEFINE new == [On(r, "saveIntent") EXCEPT !.sha = base]
    <2>1. new.pc = "saveIntent"
      BY LeadsTo
    <2>2. MoveTo(r, new)
      BY <1>9 DEF ReadBase
    <2> HIDE DEF new
    <2> QED BY <1>9, <2>1, <2>2 DEF ReadBase, Calls
  <1>10. CASE SaveIntent(r)
    BY <1>10 DEF SaveIntent
  <1>11. CASE CreateBranch(r)
    BY <1>11 DEF CreateBranch, Completing
  <1>12. CASE CompleteBranch(r)
    BY <1>12 DEF CompleteBranch
  <1>13. CASE ReloadBranch(r)
    BY <1>13 DEF ReloadBranch, Calls
  <1>14. CASE RetryBranch(r)
    BY <1>14 DEF RetryBranch
  <1>15. CASE LoadPackage(r)
    BY <1>15 DEF LoadPackage, Calls
  <1>16. CASE WritePackage(r)
    BY <1>16 DEF WritePackage, Calls
  <1>17. CASE SavePackage(r)
    BY <1>17 DEF SavePackage
  <1> QED BY <1>1, <1>2, <1>3, <1>4, <1>5, <1>6, <1>7, <1>8, <1>9, <1>10, <1>11, <1>12, <1>13,
             <1>14, <1>15, <1>16, <1>17
          DEF RunStep, MakesItem, SendsMessage

\* The steps of the message lead to no item.
LEMMA SendingLeads ==
  ASSUME IInv, NEW r \in Runs, SendsMessage(r) PROVE run'[r].pc \notin Creating
  <1> USE LeadsTo, MovesOne, SavesMove DEF Steps, Creating
  <1>1. CASE LoadMessage(r)
    BY <1>1 DEF LoadMessage
  <1>2. CASE SendMessage(r)
    BY <1>2 DEF SendMessage
  <1>3. CASE CompleteMessage(r)
    BY <1>3 DEF CompleteMessage, AfterConflict
  <1>4. CASE ReloadMessage(r)
    BY <1>4 DEF ReloadMessage
  <1>5. CASE RetryMessage(r)
    BY <1>5 DEF RetryMessage
  <1> QED BY <1>1, <1>2, <1>3, <1>4, <1>5 DEF SendsMessage

-----------------------------------------------------------------------------
(* One work item.                                                           *)

OneOwn == \A v, w \in Own : v = w

\* What holds while runs follow each other and nothing is read late.
ItemInv ==
    Never("overlap") /\ Never("lag") =>
        AloneOK /\ OneOwn /\ \A r \in Runs : run[r].pc \in Creating => Own = {}

\* A search that finds nothing on the board as it is finds that there is no item.
LEMMA FindsOwn ==
  Find(mode, board, Submission, Pinned) = {} => Own = {}
  <1>1. MockFind(board, Submission, Pinned) = {} => Own = {}
    BY DEF MockFind, Own
  <1>2. FilterCandidates(QueryCandidates(board, Submission), Submission, Pinned) = {} => Own = {}
    BY WorkItemsAssumption, IntakeAssumption DEF FilterCandidates, QueryCandidates, Own
  <1> QED BY <1>1, <1>2 DEF Find

LEMMA NewItemIsOwn ==
  ASSUME Own = {}, NEW place, board' = WithNewItem(board, Submission, place)
  PROVE  OneOwn'
  <1> DEFINE new == [id |-> board.next, submission |-> Submission, place |-> place]
  <1>1. board'.items = board.items \cup {new}
    BY DEF WithNewItem
  <1> HIDE DEF new
  <1>2. \A v \in Own' : v = new
    BY <1>1 DEF Own
  <1> QED BY <1>2 DEF OneOwn

LEMMA FindItemStep ==
  ASSUME IInv, NEW r \in Runs, FindItem(r), Never("lag")', run'[r].pc \in Creating
  PROVE  Own' = {}
  <1>1. PICK database \in {board, priorBoard} :
          /\ Reads(database)
          /\ LET found == Find(mode, database, Submission, run[r].input.place) IN
             MoveTo(r,
               IF FindFails(mode, database, Submission) \/ Cardinality(found) > 1
               THEN Ended("failed")
               ELSE IF found = {} THEN On(r, "createItem")
               ELSE Numbered(r, CHOOSE id \in found : TRUE))
    BY DEF FindItem
  <1>2. database = board
    BY <1>1, Disturbed DEF IInv, Reads, Disturbances, Never
  <1>3. run[r].input.place = Pinned
    BY AtStep DEF FindItem, At, Fits, ItemFits
  <1> DEFINE found == Find(mode, board, Submission, Pinned)
             number == Numbered(r, CHOOSE id \in found : TRUE)
  <1>4. MoveTo(r, Ended("failed")) \/ MoveTo(r, number) \/ found = {}
    BY <1>1, <1>2, <1>3
  <1>5. number.pc = "saveItem" /\ Ended("failed").pc = "failed"
    BY LeadsTo DEF Steps
  <1> HIDE DEF number, found
  <1>6. found = {}
    BY <1>4, <1>5, MovesOne DEF Creating
  <1> QED BY <1>6, FindsOwn DEF found, FindItem, Calls, Own

LEMMA CreateItemStep ==
  ASSUME IInv, NEW r \in Runs, CreateItem(r) \/ WriteItem(r), OneOwn, Own = {}
  PROVE  OneOwn' /\ (run'[r].pc \in Creating => Own' = {})
  <1> DEFINE number == Numbered(r, board.next)
             written == [number EXCEPT !.database = None]
  <1>1. number.pc = "saveItem" /\ written.pc = "saveItem" /\ Ended("failed").pc = "failed"
    BY LeadsTo DEF Steps
  <1> HIDE DEF number, written
  <1>2. \/ UNCHANGED board
        \/ /\ \E place : board' = WithNewItem(board, Submission, place)
           /\ MoveTo(r, number) \/ MoveTo(r, written)
    BY DEF CreateItem, WriteItem, number, written
  <1>3. CASE UNCHANGED board
    BY <1>3 DEF Own, OneOwn
  <1>4. CASE /\ \E place : board' = WithNewItem(board, Submission, place)
             /\ MoveTo(r, number) \/ MoveTo(r, written)
    BY <1>1, <1>4, NewItemIsOwn, MovesOne DEF Creating
  <1> QED BY <1>2, <1>3, <1>4

LEMMA ItemInvStep ==
  ASSUME IInv, ItemInv, [Next]_vars PROVE ItemInv'
  <1> SUFFICES ASSUME Never("overlap")', Never("lag")'
               PROVE  /\ AloneOK' /\ OneOwn'
                      /\ \A r \in Runs : run'[r].pc \in Creating => Own' = {}
    BY DEF ItemInv
  <1>1. /\ AloneOK /\ OneOwn
        /\ \A r \in Runs : run[r].pc \in Creating => Own = {}
    BY NeverBefore DEF ItemInv, Disturbances
  <1>2. AloneOK'
    BY <1>1, AloneStays
  <1>3. ASSUME Own' = Own,
               \A r \in Runs : run'[r].pc \in Creating => run[r].pc \in Creating
        PROVE  OneOwn' /\ \A r \in Runs : run'[r].pc \in Creating => Own' = {}
    BY <1>1, <1>3 DEF OneOwn
  <1>4. CASE NeighbourItem
    <2>1. PICK s \in Submissions \ {Submission} : \E place : board' = WithNewItem(board, s, place)
      BY <1>4 DEF NeighbourItem
    <2>2. Own' = Own
      BY <2>1 DEF WithNewItem, Own
    <2> QED BY <1>2, <1>3, <1>4, <2>2 DEF NeighbourItem
  <1>5. CASE (World /\ ~NeighbourItem) \/ UNCHANGED vars
    BY <1>2, <1>3, <1>5 DEF World, EditFiles, ChangeAccess, AdvanceBase, ForeignBranch,
       ReceiverWrites, vars, Own
  <1>6. ASSUME NEW r \in Runs, Start(r) \/ RunFails(r)
        PROVE  OneOwn' /\ \A q \in Runs : run'[q].pc \in Creating => Own' = {}
    <2>1. UNCHANGED board /\ \E new : MoveTo(r, new) /\ new.pc \in {"loadItem", "failed"}
      BY <1>6, LeadsTo DEF Start, RunFails, Fail, Steps
    <2>2. Own' = Own
      BY <2>1 DEF Own
    <2> QED BY <1>3, <2>1, <2>2, MovesOne DEF Creating
  <1>7. ASSUME NEW r \in Runs, RunStep(r)
        PROVE  OneOwn' /\ \A q \in Runs : run'[q].pc \in Creating => Own' = {}
    <2>1. /\ Active(r) /\ \A q \in Runs : q # r => run'[q] = run[q]
          /\ \A q \in Runs : run[q].pc \in Creating => q = r
      BY <1>1, <1>7, RunStepIs DEF AloneOK, Active, Creating, Steps
    <2>2. ASSUME OneOwn', run'[r].pc \in Creating => Own' = {}
          PROVE  OneOwn' /\ \A q \in Runs : run'[q].pc \in Creating => Own' = {}
      BY <2>1, <2>2
    <2>3. CASE FindItem(r)
      <3>1. OneOwn'
        BY <1>1, <2>3 DEF FindItem, Calls, OneOwn, Own
      <3> QED BY <2>2, <2>3, <3>1, FindItemStep
    <2>4. CASE CreateItem(r) \/ WriteItem(r)
      <3>1. Own = {}
        BY <1>1, <2>4 DEF CreateItem, WriteItem, At, Creating
      <3> QED BY <1>1, <2>2, <2>4, <3>1, CreateItemStep
    <2>5. CASE SendsMessage(r)
      <3>1. UNCHANGED board
        BY <2>5 DEF SendsMessage, LoadMessage, SendMessage, CompleteMessage, ReloadMessage,
           RetryMessage, Calls
      <3>2. run'[r].pc \notin Creating
        BY <2>5, SendingLeads
      <3> QED BY <1>1, <2>2, <3>1, <3>2 DEF OneOwn, Own
    <2>6. CASE ~MakesItem(r) /\ ~SendsMessage(r)
      <3>1. run'[r].pc \notin Creating /\ UNCHANGED board
        BY <1>7, <2>6, OtherStepsLead
      <3> QED BY <1>1, <2>2, <3>1 DEF OneOwn, Own
    <2> QED BY <2>3, <2>4, <2>5, <2>6 DEF MakesItem
  <1> QED BY <1>2, <1>4, <1>5, <1>6, <1>7 DEF Next

LEMMA AtMostOne ==
  ASSUME OneOwn PROVE Cardinality(Own) <= 1
  <1>1. CASE Own = {}
    BY <1>1, FS_EmptySet
  <1>2. ASSUME NEW w \in Own PROVE Cardinality(Own) <= 1
    <2>1. Own = {w}
      BY <1>2 DEF OneOwn
    <2>2. Cardinality({w}) = 1
      BY FS_Singleton
    <2> QED BY <2>1, <2>2
  <1> QED BY <1>1, <1>2

\* "Finds an existing correlated User Story or creates exactly one new item"
\* (AzureDevOpsService.ts:37): if there is at most one to begin with, there is at
\* most one ever, for any number of runs that die anywhere between creating it and
\* saving its number, unless runs overlap or the mock's database is read late.
THEOREM ItemIsOne ==
  ASSUME \A b \in Boards : \A v, w \in b.items :
             /\ v.submission = Submission /\ v.place = Pinned
             /\ w.submission = Submission /\ w.place = Pinned
             => v = w
  PROVE  Spec => []OneItemWhenSerial
  <1>1. Init => ItemInv
    <2> SUFFICES ASSUME Init PROVE ItemInv
      OBVIOUS
    <2>1. OneOwn
      BY DEF Init, OneOwn, Own
    <2>2. \A r \in Runs : run[r].pc = "idle"
      BY DEF Init, NewRun
    <2> QED BY <2>1, <2>2 DEF ItemInv, AloneOK, Active, Steps, Creating
  <1>2. IInv /\ ItemInv /\ [Next]_vars => ItemInv'
    BY ItemInvStep
  <1>3. ItemInv => OneItemWhenSerial
    BY AtMostOne DEF ItemInv, OneItemWhenSerial
  <1> QED BY <1>1, <1>2, <1>3, InvAlways, PTL DEF Spec

-----------------------------------------------------------------------------
(* One start message.                                                       *)

Quiet == Never("fail") /\ Never("overlap") /\ Never("lag") /\ disturbed["receiver"] <= 1

Recorded == record # None /\ MessageSent \in record.completedActions

\* A message that is out is recorded, or its run is about to record it.
SentOK ==
    /\ Len(sent) <= 1
    /\ sent # <<>> =>
           Recorded \/ \E r \in Runs : run[r].pc \in Sending \ {"sendMessage"}

\* What a run that has to do with the message knows.  The one save of a
\* pull-request run there may be has happened before a completion is repeated.
SendOK(r) ==
    run[r].pc \in Sending =>
        /\ run[r].pc # "retryMessage" => ReadyFor(r, record)
        /\ run[r].pc = "sendMessage" => ~Recorded
        /\ run[r].pc \in {"sendMessage", "completeMessage"} =>
               run[r].loaded = record \/ disturbed["receiver"] >= 1
        /\ run[r].pc \in {"reloadMessage", "retryMessage"} => disturbed["receiver"] >= 1
        /\ run[r].pc = "retryMessage" => run[r].loaded = record

MessageInv == Quiet => AloneOK /\ SentOK /\ \A r \in Runs : SendOK(r)

LEMMA QuietBefore ==
  ASSUME IInv, [Next]_vars, Quiet' PROVE Quiet
  <1>1. Never("fail") /\ Never("overlap") /\ Never("lag")
    BY NeverBefore DEF Quiet, Disturbances
  <1>2. disturbed["receiver"] <= 1
    BY CountsGrow, StepInv DEF Quiet, IInv, CountsOK, Disturbances
  <1> QED BY <1>1, <1>2 DEF Quiet

LEMMA StaysReady ==
  ASSUME IInv, [Next]_vars, NEW r \in Runs, ReadyFor(r, record), run'[r].input = run[r].input
  PROVE  ReadyFor(r, record)'
  <1>1. Held(record, record') /\ (record' # None => Good(record'))
    BY RecordHeld, StepInv DEF IInv, RecordOK
  <1>2. record # None /\ record' # None /\ Keeps(record, record') /\ Good(record')
    BY <1>1 DEF Held, ReadyFor
  <1> QED BY <1>2 DEF ReadyFor, Correlates, Proven, Keeps, Good

LEMMA StaysRecorded ==
  ASSUME IInv, [Next]_vars, Recorded PROVE Recorded'
  BY RecordHeld DEF Recorded, Held, Keeps

\* The steps before the message's lead to none of its steps.
LEMMA OthersDoNotSend ==
  ASSUME IInv, NEW r \in Runs, RunStep(r), ~SendsMessage(r)
  PROVE  /\ run[r].pc \notin Sending /\ run'[r].pc \notin Sending /\ UNCHANGED sent
  <1>1. CASE ~MakesItem(r)
    BY <1>1, OtherStepsLead
  <1>2. CASE FindItem(r)
    <2>1. PICK database \in {board, priorBoard} :
            /\ Reads(database)
            /\ LET found == Find(mode, database, Submission, run[r].input.place) IN
               MoveTo(r,
                 IF FindFails(mode, database, Submission) \/ Cardinality(found) > 1
                 THEN Ended("failed")
                 ELSE IF found = {} THEN On(r, "createItem")
                 ELSE Numbered(r, CHOOSE id \in found : TRUE))
      BY <1>2 DEF FindItem
    <2> DEFINE number == Numbered(r, CHOOSE id \in
                             Find(mode, database, Submission, run[r].input.place) : TRUE)
    <2>2. \/ MoveTo(r, Ended("failed")) \/ MoveTo(r, On(r, "createItem"))
          \/ MoveTo(r, number)
      BY <2>1
    <2>3. number.pc = "saveItem"
      BY LeadsTo DEF Steps
    <2> HIDE DEF number
    <2> QED BY <1>2, <2>2, <2>3, LeadsTo, MovesOne DEF FindItem, At, Steps, Sending, Calls
  <1>3. CASE CreateItem(r) \/ WriteItem(r)
    <2> DEFINE number == Numbered(r, board.next)
               written == [number EXCEPT !.database = None]
    <2>1. number.pc = "saveItem" /\ written.pc = "saveItem"
      BY LeadsTo DEF Steps
    <2>2. \A database : [On(r, "writeItem") EXCEPT !.database = database].pc = "writeItem"
      BY AtStep DEF On, Fits, RunState
    <2> HIDE DEF number, written
    <2>3. \/ MoveTo(r, number) \/ MoveTo(r, written) \/ MoveTo(r, Ended("failed"))
          \/ \E new : MoveTo(r, new) /\ new.pc = "writeItem"
      BY <1>3, <2>2 DEF CreateItem, WriteItem, Fail, number, written
    <2> QED BY <1>3, <2>1, <2>3, LeadsTo, MovesOne DEF CreateItem, WriteItem, At, Steps, Sending
  <1> QED BY <1>1, <1>2, <1>3 DEF MakesItem

\* A run's step, seen from the message: the other runs have nothing to do with it.
LEMMA SenderAlone ==
  ASSUME IInv, AloneOK, NEW r \in Runs, RunStep(r),
         SentOK', SendOK(r)'
  PROVE  SentOK' /\ \A q \in Runs : SendOK(q)'
  <1>1. \A q \in Runs : q # r => run'[q].pc \notin Sending
    BY RunStepIs DEF AloneOK, Active, Sending, Steps
  <1> QED BY <1>1 DEF SendOK

LEMMA LoadMessageSends ==
  ASSUME IInv, [Next]_vars, AloneOK, SentOK, Quiet', NEW r \in Runs, LoadMessage(r)
  PROVE  SentOK' /\ SendOK(r)'
  <1>1. PICK document \in {record, priorRecord} :
          /\ Loads(document)
          /\ MoveTo(r,
               IF ~ReadyFor(r, document) THEN Ended("failed")
               ELSE IF MessageSent \in document.completedActions THEN Ended("succeeded")
               ELSE IF document.azureDevOpsId = None THEN Ended("failed")
               ELSE Holding(r, "sendMessage", document))
    BY DEF LoadMessage
  <1>2. document = record
    BY <1>1, LoadsRecord DEF IInv, Quiet
  <1>3. run[r].pc = "loadMessage" /\ UNCHANGED <<record, sent>>
    BY DEF LoadMessage, At, Calls
  <1>4. sent # <<>> => Recorded
    BY <1>3 DEF SentOK, AloneOK, Active, Sending, Steps
  <1>5. SentOK'
    BY <1>3, <1>4 DEF SentOK, Recorded
  <1> DEFINE new == Holding(r, "sendMessage", record)
  <1>6. new.pc = "sendMessage" /\ new.input = run[r].input /\ new.loaded = record
    BY HoldingIs DEF IInv, RecordOK, Good, Steps, Parts
  <1>7. \/ run'[r] = Ended("failed") \/ run'[r] = Ended("succeeded")
        \/ ReadyFor(r, record) /\ ~Recorded /\ run'[r] = new
    BY <1>1, <1>2, MovesOne DEF Recorded
  <1> HIDE DEF new
  <1>8. CASE run'[r] = Ended("failed") \/ run'[r] = Ended("succeeded")
    BY <1>5, <1>8, LeadsTo DEF SendOK, Sending, Steps
  <1>9. CASE ReadyFor(r, record) /\ ~Recorded /\ run'[r] = new
    BY <1>3, <1>5, <1>6, <1>9, StaysReady DEF SendOK, Recorded
  <1> QED BY <1>7, <1>8, <1>9

LEMMA SendMessageSends ==
  ASSUME IInv, [Next]_vars, AloneOK, SentOK, NEW r \in Runs, SendOK(r), SendMessage(r)
  PROVE  SentOK' /\ SendOK(r)'
  <1>1. /\ run[r].pc = "sendMessage" /\ UNCHANGED record /\ disturbed' = disturbed
        /\ sent' = Append(sent, run[r].loaded.azureDevOpsId)
        /\ MoveTo(r, On(r, "completeMessage"))
    BY DEF SendMessage, At, Undisturbed
  <1>2. sent = <<>>
    BY <1>1 DEF SentOK, SendOK, AloneOK, Active, Sending, Steps
  <1> DEFINE new == On(r, "completeMessage")
  <1>3. new.pc = "completeMessage" /\ new.input = run[r].input /\ new.loaded = run[r].loaded
    BY OnIs DEF IInv, Steps, Parts
  <1>4. run'[r] = new
    BY <1>1, MovesOne
  <1> HIDE DEF new
  <1>5. SentOK'
    BY <1>1, <1>2, <1>3, <1>4 DEF SentOK, Sending
  <1>6. SendOK(r)'
    BY <1>1, <1>3, <1>4, StaysReady DEF SendOK, Sending
  <1> QED BY <1>5, <1>6

\* A completion that is saved is recorded.
LEMMA CompletionRecorded ==
  ASSUME IInv, NEW r \in Runs, run[r].pc \in {"completeMessage", "retryMessage"},
         record' = Saved(WithMessage(run[r].loaded)), record = run[r].loaded
  PROVE  Recorded'
  <1>1. MessageKnown(r)
    BY PackageStep DEF MessageSteps
  <1>2. Follows(record, record') /\ MessageSent \in record'.completedActions
    BY <1>1, MessageFollows, AtStep
    DEF MessageKnown, PackageKnown, Fits, PackageFits, MessageFits, PackageSteps, MessageSteps
  <1> QED BY <1>2, NoneIsNoDocument DEF Recorded, Follows, Good

LEMMA CompleteMessageSends ==
  ASSUME IInv, [Next]_vars, SentOK, NEW r \in Runs, SendOK(r), Quiet', CompleteMessage(r)
  PROVE  SentOK' /\ SendOK(r)'
  <1> DEFINE new == WithMessage(run[r].loaded)
             again == Onward(r, "reloadMessage")
  <1>1. /\ run[r].pc = "completeMessage" /\ UNCHANGED sent
        /\ Saves(r, new, Ended("succeeded"), again)
    BY DEF CompleteMessage, AfterConflict, At
  <1>2. again.pc = "reloadMessage" /\ again.input = run[r].input
    BY OnwardIs DEF IInv, Steps, Parts
  <1> HIDE DEF new, again
  <1>3. \/ /\ record = run[r].loaded /\ record' = Saved(new)
           /\ run'[r] = Ended("succeeded")
        \/ UNCHANGED record /\ run'[r] = again
    BY <1>1, SaveIs, MovesOne
  <1>4. CASE /\ record = run[r].loaded /\ record' = Saved(new)
             /\ run'[r] = Ended("succeeded")
    <2>1. Recorded'
      BY <1>1, <1>4, CompletionRecorded DEF new
    <2>2. run'[r].pc = "succeeded"
      BY <1>4, LeadsTo DEF Steps
    <2> QED BY <1>1, <2>1, <2>2 DEF SentOK, SendOK, Sending
  <1>5. CASE UNCHANGED record /\ run'[r] = again
    <2>1. SentOK'
      BY <1>1, <1>2, <1>5 DEF SentOK, Sending
    <2>2. ~Disturb("lag")
      BY Disturbed DEF IInv, Quiet, Never, Disturbances
    <2>3. run[r].loaded # record
      BY <1>1, <1>2, <1>5, <2>2, LeadsTo, MovesOne DEF Saves, Steps
    <2>4. disturbed["receiver"] >= 1 /\ ReadyFor(r, record)
      BY <1>1, <2>3 DEF SendOK, Sending
    <2>5. disturbed'["receiver"] >= 1
      BY <2>4, CountsGrow, StepInv DEF IInv, CountsOK, Disturbances
    <2>6. ReadyFor(r, record)'
      BY <1>2, <1>5, <2>4, StaysReady
    <2>7. SendOK(r)'
      BY <1>2, <1>5, <2>5, <2>6 DEF SendOK
    <2> QED BY <2>1, <2>7
  <1> QED BY <1>3, <1>4, <1>5

LEMMA ReloadMessageSends ==
  ASSUME IInv, [Next]_vars, SentOK, NEW r \in Runs, SendOK(r), Quiet', ReloadMessage(r)
  PROVE  SentOK' /\ SendOK(r)'
  <1>1. PICK document \in {record, priorRecord} :
          /\ Loads(document)
          /\ MoveTo(r,
               IF ~ReadyFor(r, document) THEN Ended("failed")
               ELSE IF MessageSent \in document.completedActions THEN Ended("succeeded")
               ELSE Holding(r, "retryMessage", document))
    BY DEF ReloadMessage
  <1>2. document = record
    BY <1>1, LoadsRecord DEF IInv, Quiet
  <1>3. run[r].pc = "reloadMessage" /\ UNCHANGED <<record, sent>>
    BY DEF ReloadMessage, At, Calls
  <1>4. ReadyFor(r, record) /\ disturbed["receiver"] >= 1
    BY <1>3 DEF SendOK, Sending
  <1> DEFINE new == Holding(r, "retryMessage", record)
  <1>5. new.pc = "retryMessage" /\ new.loaded = record
    BY HoldingIs DEF IInv, RecordOK, Good, Steps, Parts
  <1>6. (Recorded /\ run'[r] = Ended("succeeded")) \/ run'[r] = new
    BY <1>1, <1>2, <1>4, MovesOne DEF Recorded, ReadyFor
  <1> HIDE DEF new
  <1>7. CASE Recorded /\ run'[r] = Ended("succeeded")
    <2>1. Recorded' /\ run'[r].pc = "succeeded"
      BY <1>3, <1>7, LeadsTo DEF Recorded, Steps
    <2> QED BY <1>3, <2>1 DEF SentOK, SendOK, Sending
  <1>8. CASE run'[r] = new
    <2>1. SentOK'
      BY <1>3, <1>5, <1>8 DEF SentOK, Sending
    <2>2. disturbed'["receiver"] >= 1
      BY <1>4, CountsGrow, StepInv DEF IInv, CountsOK, Disturbances
    <2>3. SendOK(r)'
      BY <1>3, <1>5, <1>8, <2>2 DEF SendOK
    <2> QED BY <2>1, <2>3
  <1> QED BY <1>6, <1>7, <1>8

LEMMA RetryMessageSends ==
  ASSUME IInv, SentOK, NEW r \in Runs, SendOK(r), Quiet', RetryMessage(r)
  PROVE  SentOK' /\ SendOK(r)'
  <1> DEFINE new == WithMessage(run[r].loaded)
  <1>1. /\ run[r].pc = "retryMessage" /\ UNCHANGED sent
        /\ Saves(r, new, Ended("succeeded"), Ended("failed"))
    BY DEF RetryMessage, At
  <1>2. run[r].loaded = record
    BY <1>1 DEF SendOK, Sending
  <1>3. ~Disturb("lag")
    BY Disturbed DEF IInv, Quiet, Never, Disturbances
  <1> HIDE DEF new
  <1>4. record' = Saved(new) /\ run'[r] = Ended("succeeded")
    BY <1>1, <1>2, <1>3, MovesOne DEF Saves
  <1>5. Recorded' /\ run'[r].pc = "succeeded"
    BY <1>1, <1>2, <1>4, CompletionRecorded, LeadsTo DEF new, Steps
  <1> QED BY <1>1, <1>5 DEF SentOK, SendOK, Sending

LEMMA MessageInvStep ==
  ASSUME IInv, MessageInv, [Next]_vars PROVE MessageInv'
  <1> SUFFICES ASSUME Quiet' PROVE AloneOK' /\ SentOK' /\ \A r \in Runs : SendOK(r)'
    BY DEF MessageInv
  <1>1. Quiet /\ AloneOK /\ SentOK /\ \A r \in Runs : SendOK(r)
    BY QuietBefore DEF MessageInv
  <1>2. AloneOK'
    BY <1>1, AloneStays DEF Quiet
  <1>3. CASE UNCHANGED <<run, record, sent>>
    <2>1. disturbed["receiver"] <= disturbed'["receiver"]
          /\ disturbed["receiver"] \in Nat /\ disturbed'["receiver"] \in Nat
      BY CountsGrow, StepInv DEF IInv, CountsOK, Disturbances
    <2>2. \A r \in Runs : SendOK(r)'
      BY <1>1, <1>3, <2>1 DEF SendOK, ReadyFor, Correlates, Recorded
    <2> QED BY <1>1, <1>2, <1>3, <2>2 DEF SentOK, Recorded
  <1>4. CASE ReceiverWrites
    <2>1. disturbed["receiver"] = 0 /\ disturbed'["receiver"] >= 1
      BY <1>4, Disturbed DEF IInv, CountsOK, ReceiverWrites, Quiet, Disturbances
    <2>2. UNCHANGED <<run, sent>> /\ record # None
      BY <1>4 DEF ReceiverWrites
    <2>3. record' # None /\ record'.completedActions = record.completedActions
      BY <1>4, PullFollows, ReviewFollows, NoneIsNoDocument
      DEF IInv, RecordOK, ReceiverWrites, Follows, Good
    <2>4. Recorded' <=> Recorded
      BY <2>2, <2>3 DEF Recorded
    <2>5. ASSUME NEW r \in Runs PROVE SendOK(r)'
      <3>1. run'[r] = run[r] /\ run[r].pc \notin {"reloadMessage", "retryMessage"}
        BY <1>1, <2>1, <2>2 DEF SendOK, Sending
      <3>2. run[r].pc \in Sending => ReadyFor(r, record)'
        BY <1>1, <3>1, StaysReady DEF SendOK
      <3> QED BY <1>1, <2>1, <2>4, <3>1, <3>2 DEF SendOK
    <2> QED BY <1>1, <1>2, <2>2, <2>4, <2>5 DEF SentOK
  <1>5. CASE World /\ ~ReceiverWrites
    BY <1>3, <1>5 DEF World, EditFiles, ChangeAccess, AdvanceBase, ForeignBranch, NeighbourItem
  <1>6. ASSUME NEW r \in Runs, Start(r)
        PROVE  AloneOK' /\ SentOK' /\ \A q \in Runs : SendOK(q)'
    <2>1. \A q \in Runs : ~Active(q)
      BY <1>6, Disturbed DEF IInv, Start, Quiet, Never, Disturbances
    <2>2. UNCHANGED <<record, sent>> /\ \E new : MoveTo(r, new) /\ new.pc \in {"loadItem", "failed"}
      BY <1>6, LeadsTo DEF Start, Fail, Steps
    <2>3. \A q \in Runs : run[q].pc \notin Sending /\ run'[q].pc \notin Sending
      BY <2>1, <2>2, MovesOne DEF Active, Sending, Steps
    <2> QED BY <1>1, <1>2, <2>2, <2>3 DEF SentOK, SendOK, Recorded
  <1>7. ASSUME NEW r \in Runs, RunFails(r) PROVE FALSE
    BY <1>7, Disturbed DEF IInv, RunFails, Quiet, Never, Disturbances
  <1>8. ASSUME NEW r \in Runs, RunStep(r)
        PROVE  AloneOK' /\ SentOK' /\ \A q \in Runs : SendOK(q)'
    <2>1. CASE ~SendsMessage(r)
      <3>1. run[r].pc \notin Sending /\ run'[r].pc \notin Sending /\ UNCHANGED sent
        BY <1>8, <2>1, OthersDoNotSend
      <3>2. \A q \in Runs : run[q].pc \notin Sending
        BY <1>1, <1>8, <3>1, RunStepIs DEF AloneOK, Active, Sending, Steps
      <3>3. sent # <<>> => Recorded'
        BY <1>1, <3>2, StaysRecorded DEF SentOK
      <3> QED BY <1>1, <1>2, <1>8, <3>1, <3>3, SenderAlone DEF SentOK, SendOK
    <2>2. CASE SendsMessage(r)
      BY <1>1, <1>2, <1>8, <2>2, SenderAlone, LoadMessageSends, SendMessageSends,
         CompleteMessageSends, ReloadMessageSends, RetryMessageSends DEF SendsMessage
    <2> QED BY <2>1, <2>2
  <1>9. CASE UNCHANGED vars
    BY <1>3, <1>9 DEF vars
  <1> QED BY <1>4, <1>5, <1>6, <1>7, <1>8, <1>9 DEF Next

\* "Retries only the state save" (StartNotificationService.ts:90): one save of a
\* pull-request run, whenever it comes, costs no second message, and reruns do not
\* either, as long as no run dies, overlaps another one or reads late.
THEOREM MessageIsOnce == Spec => []MessageOnce
  <1>1. Init => MessageInv
    <2> SUFFICES ASSUME Init PROVE MessageInv
      OBVIOUS
    <2>1. sent = <<>> /\ \A r \in Runs : run[r].pc = "idle"
      BY DEF Init, NewRun
    <2> QED BY <2>1 DEF MessageInv, SentOK, SendOK, AloneOK, Active, Steps, Sending
  <1>2. IInv /\ MessageInv /\ [Next]_vars => MessageInv'
    BY MessageInvStep
  <1>3. MessageInv => MessageOnce
    BY DEF MessageInv, Quiet, SentOK, MessageOnce
  <1> QED BY <1>1, <1>2, <1>3, InvAlways, PTL DEF Spec

-----------------------------------------------------------------------------
(* The record's own promise, which the runs implement.                      *)

LEMMA RecordNextFollows ==
  record # None /\ Good(record) /\ Record!Next => Follows(record, record')
  <1> SUFFICES ASSUME record # None, Good(record), Record!Next PROVE Follows(record, record')
    OBVIOUS
  <1> USE SameTerms, SameDocuments, SameChanges
  <1>1. CASE Record!RecordItem
    BY <1>1 DEF Record!RecordItem
  <1>2. CASE Record!RecordUser
    BY <1>2, UserFollows DEF Record!RecordUser
  <1>3. CASE Record!RecordIntent
    BY <1>3, IntentFollows DEF Record!RecordIntent
  <1>4. CASE Record!RecordBranch
    BY <1>4, BranchFollows DEF Record!RecordBranch
  <1>5. CASE Record!RecordPackage
    BY <1>5, PackageFollows DEF Record!RecordPackage
  <1>6. CASE Record!RecordMessage
    BY <1>6, MessageFollows DEF Record!RecordMessage
  <1>7. CASE Record!RecordPull
    BY <1>7, PullFollows DEF Record!RecordPull
  <1>8. CASE Record!RecordReview
    BY <1>8, ReviewFollows DEF Record!RecordReview
  <1> QED BY <1>1, <1>2, <1>3, <1>4, <1>5, <1>6, <1>7, <1>8 DEF Record!Next

\* The record is absent or good: inductive for the record alone.
Sound == record # None => Good(record)

LEMMA InitSound == Record!Init => Sound
  <1> SUFFICES ASSUME Record!Init, record # None PROVE Good(record)
    BY DEF Sound
  <1>1. /\ record.target \in Targets /\ record.azureDevOpsId \in Nat
        /\ record = Record!OldRecord(record.target, record.azureDevOpsId)
    BY SameDocuments DEF Record!Init, Document
  <1>2. Record!OldRecord(record.target, record.azureDevOpsId)
        = OldRecord(record.target, record.azureDevOpsId)
    BY SameTerms, SameDocuments, SameChanges DEF Record!OldRecord, OldRecord
  <1>3. Good(OldRecord(record.target, record.azureDevOpsId))
    BY <1>1, OldRecordIsGood
  <1> QED BY <1>1, <1>2, <1>3

LEMMA StepSound == Sound /\ [Record!Next]_record => Sound'
  <1> SUFFICES ASSUME Sound, [Record!Next]_record PROVE Sound'
    OBVIOUS
  <1>1. CASE record' = record
    BY <1>1 DEF Sound
  <1>2. CASE record # None /\ Record!Next
    BY <1>2, RecordNextFollows DEF Sound, Follows
  <1>3. CASE Record!RecordItem
    <2>1. /\ record'.target \in Targets /\ record'.azureDevOpsId \in Nat
          /\ record' = Saved(WithItem(NewDocument(record'.target), record'.azureDevOpsId))
      BY <1>3, SameDocuments, SameChanges DEF Record!RecordItem, Document
    <2>2. Good(Saved(WithItem(NewDocument(record'.target), record'.azureDevOpsId)))
      BY <2>1, FirstItemIsGood
    <2> QED BY <2>1, <2>2 DEF Sound
  <1> QED
    BY <1>1, <1>2, <1>3
    DEF Record!Next, Record!RecordUser, Record!RecordIntent, Record!RecordBranch,
        Record!RecordPackage, Record!RecordMessage, Record!RecordPull, Record!RecordReview

\* The record is a document at every time (SubmissionState, as intake knows it).
THEOREM RecordTypes == Record!Spec => []Record!TypeOK
  <1>1. Sound => Record!TypeOK
    BY SameDocuments DEF Sound, Record!TypeOK, Good
  <1> QED BY <1>1, InitSound, StepSound, PTL DEF Record!Spec

\* The message that work can start is recorded only with the work item, the
\* contributor, the branch and its commit (StartNotificationService.ValidateState).
THEOREM ReadyBacked == Record!Spec => []Record!ReadyIsBacked
  <1>1. Sound => Record!ReadyIsBacked
    BY ActionsAreIntakes, SameTerms
    DEF Sound, Record!ReadyIsBacked, Good, IntakeActions, StoryCreated, BranchCreated,
        PackageMade, MessageSent
  <1> QED BY <1>1, InitSound, StepSound, PTL DEF Record!Spec

\* No writer of the record takes back or replaces what another one recorded.
THEOREM FactsKept == Record!Spec => Record!FactsAreKept
  <1>1. Sound /\ [Record!Next]_record =>
            [record # None =>
                /\ record' # None /\ record'.target = record.target
                /\ record.azureDevOpsId # None => record'.azureDevOpsId = record.azureDevOpsId
                /\ record.githubUserId # None => record'.githubUserId = record.githubUserId
                /\ record.initialCommitSha # None
                       => record'.initialCommitSha = record.initialCommitSha
                /\ record.pullRequestNumber # None
                       => record'.pullRequestNumber = record.pullRequestNumber
                /\ record.completedActions \subseteq record'.completedActions
                /\ record.currentStage = Record!TechnicalReview
                       => record'.currentStage = Record!TechnicalReview]_record
    <2>1. SUFFICES ASSUME Sound, Record!Next, record # None
                   PROVE  record' # None /\ Keeps(record, record')
      BY SameTerms DEF Keeps
    <2>2. Good(record') /\ Keeps(record, record')
      BY <2>1, RecordNextFollows DEF Sound, Follows
    <2> QED BY <2>2, NoneIsNoDocument DEF Good
  <1> QED BY <1>1, InitSound, StepSound, PTL DEF Record!Spec, Record!FactsAreKept

\* So apply runs that die, overlap, read late and race with pull-request runs keep
\* every fact, and record the message only with all it speaks of.
THEOREM PipelineKeepsRecord == Spec => []Record!ReadyIsBacked /\ Record!FactsAreKept
  BY PipelineRefines, ReadyBacked, FactsKept, PTL DEF ImplementsRecord

-----------------------------------------------------------------------------
(* What a record is for was accepted.                                       *)

\* Entry i of the configuration's list names target's repository, in whatever case.
Lists(config, i, target) ==
    LET repository == config.allowedRepositories[i] IN
    /\ Folded[repository.owner] = Folded[target.owner]
    /\ Folded[repository.name] = Folded[target.name]

\* What a checkout that is accepted asks for is well formed, trimmed, and named by exactly
\* one entry of its allow-list (SubmissionValidator, IntakeConfigService, IntakePlanner).
THEOREM AcceptedIsListed ==
  ASSUME NEW c, Accepts(c)
  PROVE  LET target == TargetOf(c.submission)
             config == c.intakeConfig
         IN  /\ {target.owner, target.name} \subseteq Names /\ target.articlePath \in ArticlePaths
             /\ \A f \in {"owner", "name", "articlePath"} : Trimmed[target[f]] = target[f]
             /\ \E i \in DOMAIN config.allowedRepositories :
                    \A j \in DOMAIN config.allowedRepositories :
                        Lists(config, j, target) <=> j = i
  <1> DEFINE target == TargetOf(c.submission)
             config == c.intakeConfig
             v == c.submission
  <1>1. /\ Matches(v.repository.owner, Names) /\ Matches(v.repository.name, Names)
        /\ Matches(v.articlePath, ArticlePaths)
    BY DEF Accepts, CheckRoot, CheckRepository, CheckArticle
  <1>2. /\ target.owner = Trimmed[v.repository.owner] /\ target.name = Trimmed[v.repository.name]
        /\ target.articlePath = Trimmed[v.articlePath]
    BY DEF TargetOf
  <1>3. {target.owner, target.name} \subseteq Names /\ target.articlePath \in ArticlePaths
    BY <1>1, <1>2 DEF Matches
  <1>4. \A f \in {"owner", "name", "articlePath"} : Trimmed[target[f]] = target[f]
    <2>1. \A t \in Texts : Trimmed[Trimmed[t]] = Trimmed[t]
      BY RulesAssumption
    <2> QED BY <1>1, <1>2, <2>1 DEF Matches, IsText, TargetOf
  <1>5. PICK i \in DOMAIN config.allowedRepositories : Lists(config, i, target)
    BY DEF Accepts, Allowed, Lists
  <1>6. ASSUME NEW j \in DOMAIN config.allowedRepositories, Lists(config, j, target) PROVE j = i
    BY <1>5, <1>6 DEF Accepts, AcceptsIntakeConfig, CheckRepositories, Lists
  <1> QED BY <1>3, <1>4, <1>5, <1>6

AcceptedInputs == {InputOf(c) : c \in {k \in Checkouts : Accepts(k)}}

\* A record is for what some checkout asked for, by whose own allow-list.
RecordWasAccepted ==
    record # None => \E c \in Checkouts : Accepts(c) /\ TargetOf(c.submission) = record.target

InputsOK == \A r \in Runs : run[r].pc \in Steps => run[r].input \in AcceptedInputs

\* The moves of a run keep what it has read of the files.
LEMMA InputKept ==
  ASSUME IInv, NEW r \in Runs, NEW pc
  PROVE  /\ On(r, pc).input = run[r].input /\ Onward(r, pc).input = run[r].input
         /\ \A d : /\ Holding(r, pc, d).input = run[r].input
                   /\ Passing(r, pc, d).input = run[r].input
                   /\ Numbered(r, d).input = run[r].input
         /\ Ended("failed").pc \notin Steps /\ Ended("succeeded").pc \notin Steps
  <1>1. run[r] \in RunState
    BY DEF IInv, RunsOK
  <1>2. On(r, pc).input = run[r].input /\ \A item : Numbered(r, item).input = run[r].input
    BY <1>1 DEF On, Numbered, RunState
  <1>3. \A d : Holding(r, pc, d).input = run[r].input
    BY <1>1 DEF On, Holding, RunState
  <1>4. Onward(r, pc).input = run[r].input /\ \A d : Passing(r, pc, d).input = run[r].input
    BY DEF Onward, Passing, Given, Ended, NewRun
  <1>5. Ended("failed").pc \notin Steps /\ Ended("succeeded").pc \notin Steps
    BY DEF Ended, NewRun, Steps
  <1> QED BY <1>2, <1>3, <1>4, <1>5

\* So does whatever else a move changes in the run.
LEMMA InputKeptWith ==
  ASSUME IInv, NEW r \in Runs, NEW pc, NEW d
  PROVE  /\ [On(r, pc) EXCEPT !.database = d].input = run[r].input
         /\ [On(r, pc) EXCEPT !.sha = d].input = run[r].input
         /\ [On(r, pc) EXCEPT !.user = d].input = run[r].input
         /\ \A item : /\ [Numbered(r, item) EXCEPT !.loaded = d].input = run[r].input
                      /\ [Numbered(r, item) EXCEPT !.database = d].input = run[r].input
  <1>1. run[r] \in RunState
    BY DEF IInv, RunsOK
  <1> QED BY <1>1 DEF On, Numbered, RunState

LEMMA InputStays ==
  ASSUME IInv, NEW r \in Runs, RunStep(r)
  PROVE  run'[r].input = run[r].input \/ run'[r].pc \notin Steps
  <1> DEFINE Stays == run'[r].input = run[r].input \/ run'[r].pc \notin Steps
  <1>0. ASSUME NEW new, MoveTo(r, new), new.input = run[r].input PROVE Stays
    BY <1>0, MovesOne
  <1> USE InputKept, MovesOne, SavesMove DEF Fail
  <1>1. CASE LoadItem(r)
    <2>1. PICK document : \/ MoveTo(r, Ended("failed")) \/ MoveTo(r, Onward(r, "verify"))
                          \/ MoveTo(r, [Numbered(r, document.azureDevOpsId) EXCEPT
                                            !.loaded = document])
                          \/ MoveTo(r, Holding(r, "findItem", document))
      BY <1>1 DEF LoadItem
    <2> DEFINE new == [Numbered(r, document.azureDevOpsId) EXCEPT !.loaded = document]
    <2>2. new.input = run[r].input
      BY InputKeptWith
    <2>3. \/ MoveTo(r, Ended("failed")) \/ MoveTo(r, Onward(r, "verify"))
          \/ MoveTo(r, new) \/ MoveTo(r, Holding(r, "findItem", document))
      BY <2>1
    <2> HIDE DEF new
    <2> QED BY <2>2, <2>3
  <1>2. CASE FindItem(r)
    <2>1. \/ MoveTo(r, Ended("failed")) \/ MoveTo(r, On(r, "createItem"))
          \/ \E item : MoveTo(r, Numbered(r, item))
      BY <1>2 DEF FindItem
    <2> QED BY <2>1
  <1>3. CASE CreateItem(r)
    <2>1. CASE MoveTo(r, Numbered(r, board.next))
      BY <2>1
    <2>2. ASSUME NEW database, MoveTo(r, [On(r, "writeItem") EXCEPT !.database = database])
          PROVE  Stays
      <3> DEFINE new == [On(r, "writeItem") EXCEPT !.database = database]
      <3>1. new.input = run[r].input
        BY InputKeptWith
      <3>2. MoveTo(r, new)
        BY <2>2
      <3> HIDE DEF new
      <3> QED BY <1>0, <3>1, <3>2
    <2> QED BY <1>3, <2>1, <2>2 DEF CreateItem
  <1>4. CASE WriteItem(r)
    <2> DEFINE new == [Numbered(r, board.next) EXCEPT !.database = None]
    <2>1. new.input = run[r].input
      BY InputKeptWith
    <2>2. MoveTo(r, new) \/ MoveTo(r, Ended("failed"))
      BY <1>4 DEF WriteItem
    <2> HIDE DEF new
    <2> QED BY <2>1, <2>2
  <1>5. CASE SaveItem(r)
    BY <1>5 DEF SaveItem
  <1>6. CASE ResolveUser(r)
    <2> DEFINE new == [On(r, "checkPermission") EXCEPT !.user = account.user]
    <2>1. new.input = run[r].input
      BY InputKeptWith
    <2>2. MoveTo(r, new) \/ MoveTo(r, Ended("failed"))
      BY <1>6 DEF ResolveUser
    <2> HIDE DEF new
    <2> QED BY <2>1, <2>2
  <1>7. CASE CheckPermission(r)
    BY <1>7 DEF CheckPermission
  <1>8. CASE LoadIdentity(r)
    BY <1>8 DEF LoadIdentity
  <1>9. CASE SaveIdentity(r)
    BY <1>9 DEF SaveIdentity
  <1>10. CASE LoadBranch(r)
    BY <1>10 DEF LoadBranch
  <1>11. CASE FindBranch(r)
    <2> DEFINE d   == run[r].loaded
               new == [On(r, "saveIntent") EXCEPT !.sha = d.initialCommitSha]
    <2>1. new.input = run[r].input
      BY InputKeptWith
    <2>2. \/ MoveTo(r, On(r, "readBase")) \/ MoveTo(r, On(r, "createBranch"))
          \/ MoveTo(r, new) \/ MoveTo(r, Ended("failed"))
          \/ MoveTo(r, Onward(r, "loadPackage")) \/ MoveTo(r, Passing(r, "completeBranch", d))
      BY <1>11 DEF FindBranch, Intending, Completing
    <2> HIDE DEF new
    <2> QED BY <2>1, <2>2
  <1>12. CASE ReadBase(r)
    <2> DEFINE new == [On(r, "saveIntent") EXCEPT !.sha = base]
    <2>1. new.input = run[r].input
      BY InputKeptWith
    <2>2. MoveTo(r, new)
      BY <1>12 DEF ReadBase
    <2> HIDE DEF new
    <2> QED BY <2>1, <2>2
  <1>13. CASE SaveIntent(r)
    BY <1>13 DEF SaveIntent
  <1>14. CASE CreateBranch(r)
    BY <1>14 DEF CreateBranch, Completing
  <1>15. CASE CompleteBranch(r)
    BY <1>15 DEF CompleteBranch
  <1>16. CASE ReloadBranch(r)
    BY <1>16 DEF ReloadBranch
  <1>17. CASE RetryBranch(r)
    BY <1>17 DEF RetryBranch
  <1>18. CASE LoadPackage(r)
    BY <1>18 DEF LoadPackage
  <1>19. CASE WritePackage(r)
    BY <1>19 DEF WritePackage
  <1>20. CASE SavePackage(r)
    BY <1>20 DEF SavePackage
  <1>21. CASE LoadMessage(r)
    BY <1>21 DEF LoadMessage
  <1>22. CASE SendMessage(r)
    BY <1>22 DEF SendMessage
  <1>23. CASE CompleteMessage(r)
    BY <1>23 DEF CompleteMessage, AfterConflict
  <1>24. CASE ReloadMessage(r)
    BY <1>24 DEF ReloadMessage
  <1>25. CASE RetryMessage(r)
    BY <1>25 DEF RetryMessage
  <1> QED BY <1>1, <1>2, <1>3, <1>4, <1>5, <1>6, <1>7, <1>8, <1>9, <1>10, <1>11, <1>12, <1>13,
             <1>14, <1>15, <1>16, <1>17, <1>18, <1>19, <1>20, <1>21, <1>22, <1>23, <1>24, <1>25
          DEF RunStep

LEMMA InputsKept == IInv /\ InputsOK /\ [Next]_vars => InputsOK'
  <1> SUFFICES ASSUME IInv, InputsOK, [Next]_vars PROVE InputsOK'
    OBVIOUS
  <1>0. AcceptedInputs' = AcceptedInputs
    BY DEF AcceptedInputs
  <1>1. CASE World \/ UNCHANGED vars
    BY <1>0, <1>1 DEF World, EditFiles, ChangeAccess, AdvanceBase, ForeignBranch, NeighbourItem,
       ReceiverWrites, InputsOK, vars
  <1>2. ASSUME NEW r \in Runs, Start(r) PROVE InputsOK'
    <2>1. checkout \in Checkouts
      BY DEF IInv, WorldOK
    <2>2. /\ Ended("failed").pc \notin Steps
          /\ Given("loadItem", InputOf(checkout)).input = InputOf(checkout)
      BY InputKept DEF Given, Ended, NewRun
    <2>3. run'[r].pc \in Steps => run'[r].input \in AcceptedInputs
      BY <1>2, <2>1, <2>2, MovesOne DEF Start, Fail, AcceptedInputs
    <2>4. \A q \in Runs : q # r => run'[q] = run[q]
      BY <1>2, MovesOne DEF Start, Fail
    <2> QED BY <1>0, <2>3, <2>4 DEF InputsOK
  <1>3. ASSUME NEW r \in Runs, RunFails(r) PROVE InputsOK'
    BY <1>0, <1>3, MovesOne, InputKept DEF RunFails, Fail, InputsOK
  <1>4. ASSUME NEW r \in Runs, RunStep(r) PROVE InputsOK'
    <2>1. run[r].input \in AcceptedInputs /\ \A q \in Runs : q # r => run'[q] = run[q]
      BY <1>4, RunStepIs DEF InputsOK, Active
    <2> QED BY <1>0, <1>4, <2>1, InputStays DEF InputsOK
  <1> QED BY <1>1, <1>2, <1>3, <1>4 DEF Next

\* Only the save of the work item makes a record, and its target is the run's.
LEMMA TargetKept ==
  ASSUME IInv, InputsOK, RecordWasAccepted, [Next]_vars PROVE RecordWasAccepted'
  <1>1. CASE record # None
    <2>1. record'.target = record.target
      BY <1>1, RecordHeld DEF Held, Keeps
    <2> QED BY <1>1, <2>1 DEF RecordWasAccepted
  <1>2. CASE record = None /\ record' # None
    <2>1. PICK r \in Runs : SaveItem(r)
      <3>1. Record!Next
        BY <1>2, StepRefines
      <3>2. Record!RecordItem
        BY <1>2, <3>1 DEF Record!Next, Record!RecordUser, Record!RecordIntent, Record!RecordBranch,
           Record!RecordPackage, Record!RecordMessage, Record!RecordPull, Record!RecordReview
      <3>3. PICK r \in Runs : RunStep(r)
        BY <1>2 DEF Next, World, EditFiles, ChangeAccess, AdvanceBase, ForeignBranch,
           NeighbourItem, ReceiverWrites, Start, RunFails, vars
      <3>4. run[r].pc \notin UserSteps
        BY <1>2, AtStep DEF Fits, UserFits
      <3>5. \/ SaveItem(r)
            \/ run[r].pc \in {"saveIdentity", "saveIntent", "completeBranch", "retryBranch",
                              "savePackage", "completeMessage", "retryMessage"}
        BY <1>2, <3>3, OthersRefine
        DEF SaveIdentity, SaveIntent, CompleteBranch, RetryBranch, SavePackage, CompleteMessage,
            RetryMessage, At
      <3> QED BY <3>4, <3>5 DEF UserSteps, BranchSteps, PackageSteps, MessageSteps
    <2> DEFINE target == run[r].input.target
               new == WithItem(StateOf(r), run[r].item)
    <2>2. /\ run[r].pc = "saveItem" /\ Saves(r, new, Onward(r, "verify"), Ended("failed"))
      BY <2>1 DEF SaveItem, At
    <2>3. /\ run[r].input \in AcceptedInputs /\ run[r].input \in Inputs
          /\ run[r].loaded = None /\ run[r].item \in Nat
      BY <2>2, AtStep, OwnIdsAreNumbers DEF Steps, Fits, ItemFits, InputsOK, IInv
    <2>4. record' = Saved(WithItem(NewDocument(target), run[r].item))
      BY <1>2, <2>2, <2>3, SaveIs DEF StateOf
    <2>5. target \in Targets
      BY <2>3 DEF Inputs
    <2>6. record'.target = target
      BY <2>3, <2>4, <2>5, FirstItemIsGood
    <2>7. \E c \in Checkouts : Accepts(c) /\ TargetOf(c.submission) = target
      BY <2>3 DEF AcceptedInputs, InputOf
    <2> QED BY <2>6, <2>7 DEF RecordWasAccepted
  <1> QED BY <1>1, <1>2 DEF RecordWasAccepted

\* Whatever is edited between runs and while they go on, every record the intake runs
\* keep is for a target that an accepted submission file named (IntakePlanner, main.ts);
\* AcceptedIsListed says what that means.
THEOREM TargetIsAccepted == Spec => []RecordWasAccepted
  <1>1. Init => InputsOK /\ RecordWasAccepted
    <2> SUFFICES ASSUME Init PROVE InputsOK /\ RecordWasAccepted
      OBVIOUS
    <2>1. InputsOK
      BY DEF Init, InputsOK, NewRun, Steps
    <2>2. RecordWasAccepted
      <3>1. SUFFICES ASSUME record # None
                     PROVE  record.target = TargetOf(FirstCheckout.submission)
        BY IntakeAssumption DEF RecordWasAccepted
      <3>2. PICK w \in board.items : record = OldRecord(TargetOf(FirstCheckout.submission), w.id)
        BY <3>1 DEF Init
      <3>3. TargetOf(FirstCheckout.submission) \in Targets /\ w.id \in Nat
        BY IntakeAssumption DEF Init, WorkItem
      <3> QED BY <3>2, <3>3, OldRecordIsGood
    <2> QED BY <2>1, <2>2
  <1>2. IInv /\ InputsOK /\ RecordWasAccepted /\ [Next]_vars => InputsOK' /\ RecordWasAccepted'
    BY InputsKept, TargetKept
  <1> QED BY <1>1, <1>2, InvAlways, PTL DEF Spec

=============================================================================
