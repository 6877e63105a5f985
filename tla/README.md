# Contributor automation: TLA+ specifications

These modules specify the contributor automation of this repository
(`.github/contributor-automation`): the programs that turn a proposal into an
Azure DevOps work item and a contributor branch, correlate the contributor's
pull request with it, carry the submission through technical, content and
editorial review, and announce each handoff in a Teams group chat. Everything the
programs know about a submission is one JSON document on a state branch of a
GitHub repository; several workflow runs read and write it with no lock but a
revision number.

Paths below are relative to `.github/contributor-automation/src` unless they
start with `.github/` or `scripts/`.

## The system

| component | state it keeps | operations | hard behaviours | what makes it correct |
|---|---|---|---|---|
| review stage rules, `application/ReviewStageService.ts` | `currentStage`, `reviewState` (resume stage, reviewed commit, audit history) | `Apply` of approved, changes-requested, revision-submitted, two reopens, merged | long legal sequences; redelivered events | no stage is passed without an approval in force; each event once; the history is a walk |
| stage notifications, `application/StageNotificationService.ts` | completion keys in `completedActions` | `Apply`, `AnnounceOpen`, `SaveCompletion` | an irreversible message before a save that can conflict; stale reads; kills | a recorded transition is announced; a completed message is not repeated |
| pull-request receiver, `cli/pullRequestReceiverMain.ts`, `.github/workflows/pull-request-receiver.yml` | none of its own; the reopen labels on the pull request | one run per event | runs cancelled while pending, killed, rerun; the pull request moves on meanwhile | success means done; a label is taken off only for a recorded command |
| correlation, `application/PullRequestService.ts` | `pullRequestNumber`, stage, opened commit | `Apply`: find by identity or by author and path, `SaveMatch` | ambiguity; text edited or files pushed before a rerun | while its evidence stays, one submission per pull request |
| event parser and review client, `adapters/GitHubReviewEventParser.ts`, `GitHubReviewClient.ts` | none | payload to event, live permission check, label removal | payload snapshot against live facts | only recognised events act |
| GitHub state store, `adapters/GitHubSubmissionStore.ts`, `GitHubContentClient.ts` | one document per submission | `Load`, `Find`, conditional `Save` | concurrent writers, lagging reads | a save succeeds only on the document it was computed from |
| file and memory stores | the same, locally | the same | comparison and rename are separate steps | the same promise |
| intake pipeline, `application/PipelineApplication.ts`, `cli/main.ts`, `.github/workflows/intake.yml` | none of its own | dry run or apply of one submission | kills between steps, reruns, two runs of one submission | rerunning finishes what was started, once |
| Azure DevOps, `application/AzureDevOps*.ts`, `adapters/*AzureDevOpsClient.ts` | the work item, `azureDevOpsId` | find, create, record | find-then-create | one work item per submission |
| contributor access and branch, `application/Contributor*Service.ts` | `githubUserId`, `branchName`, `initialCommitSha`, the branch | verify, save intent, create, save completion | a kill between intent and creation | never adopt somebody else's branch |
| start package and notification, `application/Start*Service.ts` | a completion key, an e-mail file | package, Teams message, `SaveCompletion` | a pull-request run saves between the message and its key | one conflict costs no second message |
| codec, validators, configuration services | none | JSON and YAML to checked records | fields left out, null, or spelled another way | what is written can be read again; nothing malformed is acted on |
| sign-off gate, `.github/scripts/gate-signoff.js`, `.github/workflows/signoff-*.yml` | a commit status, a comment | publish the label as a status, post a hold-off | replaced runs, a payload against live labels | the head commit's last status agrees with the label; no sign-off before approval stands |
| maintenance scripts, `scripts/` | directory group membership, reports | batch runs | partial failure | - |

How they interact: intake runs create and extend the state document; the
receiver finds it through the pull request and extends it too. They never call
each other: the document, its revision number and the completion keys in it are
the whole protocol. GitHub serialises the receiver's runs of one pull request,
keeps at most one of them waiting, and does not order them with intake runs.

## Modules

| module | models | state and actions |
|---|---|---|
| `SubmissionTerms` | the stages and review actions | none |
| `ReviewRules` | the stage rules of `ReviewStageService` and the document `SaveMatch` writes, as operators on a review document | none: `Accepts` is every guard of `CreateTransition`, `AppliedDocument` what `Apply` saves |
| `ReviewWorkflow` | what review progression promises: the document changes atomically, each event once, and only recorded facts are announced | `doc`, `delivered`; `Correlate`, `Accept`, `Deliver` |
| `ReviewReceiver` | receiver runs of one pull request and one submission, at the grain of their awaits | `store`/`stale` (the document, and what a lagging read returns), `pull`, `labels`, `event`, the concurrency group (`status`, `waiting`, `active`), the run's locals (`pc`, `loaded`, `observed`, `authorized`, `transition`), `sent` |
| `StateCodec` | `SubmissionStateCodec`: which documents decode, and what a state becomes when it is written | none: `Decodes`, `Decode`, `Encode`, one operator per reader |
| `Correlation` | opened runs of several pull requests looking for their submission among several | `docs` (encoded documents), `text` of the pull requests, `run`; `FetchPullRequest`, `ExtractIds`, `FindById`, `ListDocuments`, `ReadDocument`, `SaveMatch`; around them intake and review saves, edits, failures, reruns |
| `Pairing` | what correlation promises, without documents and searches | `record` (user, pull request and stage of every submission), `text`, `look` (what a run has seen); `ReadText`, `Look`, `Claim`, `Leave` and what happens around them |
| `StateDocuments` | the state document as its writers see it: completed actions and a revision, who has work to do, what it saves | none |
| `VersionedStore` | the promise of `ports/SubmissionStore.ts`, which `adapters/MemorySubmissionStore.ts` is to the letter | `document`, every earlier version, what callers have loaded and what they were told; `Load`, `Save`, `GiveUp` |
| `GitHubStore` | `GitHubSubmissionStore` over `GitHubContentClient` | the same and `pc`, `existing` (the content and SHA that Save has read); `Load`, `SaveMatches`/`SaveConflicts`, `Write`/`WriteConflicts`, `Fails` |
| `IntakeRules` | the validator, the submission factory, the planner's allow-list and the three configuration services | none: `Accepts(checkout)` |
| `WorkItems` | the two Azure DevOps clients and the safety check | none: `Find`, `FindFails`, `WithNewItem` on a board |
| `SubmissionFacts` | the record of one submission as intake knows it, and the change each service makes to it | none |
| `SubmissionRecord` | what the record promises: facts are collected once each, in order, and kept | `record`; one action per fact |
| `IntakePipeline` | apply runs of one submission: `PipelineApplication` and its five services, one action per await | `record`, `board`, `branch`, `base`, `sent`, the files (`checkout`), the contributor's login (`account`), `run`; composes `IntakeRules`, `WorkItems`, `SubmissionFacts`, implements `SubmissionRecord` |
| `SignoffGate` | the two sign-off workflows of one pull request | `label`, `head`, `status`; the approval group (`active`, `waiting`, `undelivered`, `broken`); `comments` with their jobs, `bot` |
| `*Proofs` | theorems about `ReviewWorkflow`, `ReviewReceiver`, `VersionedStore`, `GitHubStore`, `SignoffGate`, `SubmissionFacts` (lemmas), `IntakePipeline` with `SubmissionRecord`, `Correlation` with `StateCodec` | - |
| `MC*` | finite instances for TLC | - |

`ReviewReceiver` has one action per step of a run. The opened event takes
`FetchPullRequest` (`LoadPullRequest`), `MatchState` and `SaveMatch`
(`PullRequestService.Apply`), then `AnnounceOpen`, `SendOpen`, `CompleteOpen`. A
review event takes `Authorize` (reopens only), `FindState` and `SaveTransition`
(`ReviewStageService.Apply`), `CheckNotice`, `SendNotice`, `CompleteNotice`, after a
conflict `ReloadNotice` and `RetryNotice`, and `Unlabel`. Whatever makes a run
throw - a kill, a timeout, a missing secret, an HTTP error, a call that took
effect although its answer was lost - is `RunFails`, possible between any two
steps. Between the steps the pull request gets pushes, reviews, labels, comments
and its merge (each starts a run of its own), an intake run saves (`IntakeSave`), and
reads catch up (`Settle`). `Start` waits for reads to catch up: a job installs and compiles
before it reads. The comment at `application/StartNotificationService.ts:85-90` is why reads lag
within a run.

`GitHubStore` treats a content SHA as the content: Git's object names are hashes of it. A read
returns any content the branch has ever had, which is weaker than GitHub's contents API is
likely to be, and a write's answer may be lost. `ReviewReceiver` uses the atomic conditional save
that `GitHubStore` is shown to implement.

An `IntakePipeline` run goes through the services in the order of `PipelineApplication.Run`:
`LoadItem`, `FindItem`, `CreateItem`, with the mock `WriteItem`, and `SaveItem`; `ResolveUser`,
`CheckPermission`, `LoadIdentity`, `SaveIdentity`; `LoadBranch`, `FindBranch`, `ReadBase`,
`SaveIntent`, `CreateBranch`, `CompleteBranch` and after a conflict `ReloadBranch`, `RetryBranch`;
`LoadPackage`, `WritePackage`, `SavePackage`; `LoadMessage`, `SendMessage`, `CompleteMessage` and after
a conflict `ReloadMessage`, `RetryMessage`. A run keeps what it read of the files when it started.
Everything that can go wrong around a run is a disturbance, and `disturbed` counts them by kind,
so that a property can say which of them it allows: `fail` (a kill or a failed call), `overlap` (a run
that starts while another is going on), `lag`, `edit`, `access`, `base`, `branch`, `neighbour` (another
submission's work item, made by its run or by hand without a parent) and `receiver` (a pull-request run's save).

`Correlation` stores documents as the codec writes them and reads them as the codec does, so a
document that does not decode would end a search as it does in the code. A run keeps the positions, in
the order of the paths, of the documents listed and not yet read, and reads the first; a pull
request that changes no file is unmatched without a search. `text` and `tip` are the pull request as it is now:
`EditText` changes what its text names and `Push` its head and changed files, and every run reads both anew. Its history variable
`since` is the set of stored submissions that fitted a run's evidence when it began to look.
With it `Correlation` implements `Pairing`, in which a run looks at all submissions at one moment and
later claims the one that fitted, if nothing has claimed it first: reading the documents one by one while others write
them comes to the same.

`SignoffGate` keeps the payload of an event apart from the live pull request, and both groups apart:
the approval group has no queue, the sign-off group has `queue: max`.

Abstracted: names of actors, timestamps, SHA spelling, message texts and URLs
decide nothing. `ReviewReceiver` has one submission, which the pull request's
evidence names; `Correlation` has several. A read lags by at most one write. A pull
request closed without a merge counts as a comment. Completion keys other than the
receiver's are what intake runs add. In `Correlation` and `IntakePipeline` a `Save` is one step, which
`GitHubStore` justifies, and `Correlation` reads are current. Work items carry the submission's tag and a
place (organization, project, parent and prefix together). Texts in `IntakeRules` are values whose
trimming, folding and patterns are given by constants.

Operators whose comment starts with "Mutation" are not part of the model: each is
a definition with a plausible mistake in it, and `PROJECT.json` names the property that
notices it.

## Runs

| run | instance | shows |
|---|---|---|
| `review_stages` | 5 events, 2 commits | types, the two gates, the walk, each event once |
| `receiver_faults` | 3 runs, 2 commits, lagging reads, 1 intake save, 1 failure | types, refinement of `ReviewWorkflow`, no repeated message once its key is stored, nothing saved is lost, success means done, a label is taken off only by a run whose command is recorded and announced |
| `receiver_liveness` | 3 runs, 1 commit, current reads, 1 intake save, 1 failure | while no run fails, one review message per event; an opened run's success means announced; every recorded transition is announced in the end |
| `github_store` | 4 callers, 3 actions, reads of any age | types, refinement of `VersionedStore`, nothing lost, nothing twice |
| `signoff_gate` | 2 commits, 2 changes, 2 comments, 1 failure | the head's status settles on its label and catches up with it; success only for endorsed commits; no sign-off before approval stands, each is answered |
| `correlation` | 2 submissions, 2 pull requests, 1 push, 1 edit, 1 failure, 1 rerun | stored documents decode; no guess among submissions known when the search began; one submission per pull request whose evidence stays; refinement of `Pairing`; nothing taken back; a named submission is paired in the end |
| `intake_pipeline` | 2 runs, 2 disturbances of 9 kinds, both clients | types, refinement of `SubmissionRecord`; own work item, one of it while runs are serial; branch at the recorded commit; no unrelated branch adopted; one message through one conflict; success means ready; intake finishes once what it needs is there |
| `open_notice_twice`, `current_head_refused`, `open_handoff_lost`, `branch_adopted`, `respelled_repository` | small | counterexamples, see Findings |

Bounds. `EventIds` is the number of events and of runs; `Commits` the commits pushed;
`IntakeKeys` the saves an intake run makes meanwhile; `MaxFailures` the failures
injected; `MaxSent` where counting messages stops. Five events take a
submission through all approvals, a reopen and back past the skipped stage, and let a decision
meet every kind of predecessor; the proofs cover any number. Three runs are an executing one, a waiting one and the newcomer
that cancels it; one of them is the opened event, so the receiver's runs accept at most two
review events, and `review_stages` covers the rest of the stage rules. One failure can hit
any step; conflicts cause further failures without being counted. Runs and
commits are interchangeable, so `review_stages`, `receiver_faults` and `github_store` use symmetry; runs
with liveness do not.

In the store runs, two callers complete the same action (two runs of one stage, or a run and its
rerun) and may both create the document, and two others add actions of their own; a caller may retry
without end, and the state space is finite because a stored action is not stored again.

In `intake_pipeline`, `MaxDisturbances` is 2: every pair of disturbances at every two points of the runs, so
an overlap with a save lost to it, a kill followed by a lagging read, a foreign branch after a kill between
intent and creation, an edit undone, an access taken away and given back. `IntakeFinishes` leaves out only
behaviours that stay without something a run needs (`Finishable`): accepted files about what the record is about, the
recorded contributor with access, the branch name, and, until the item is recorded, a board on which the lookup
can succeed. Two runs suffice for overlap and
each may be started again without end. The boards have the neighbour whose longer identity contains
the submission's, and the submission's own item together with one of another project;
`CandidateLimit` 3 (200 in the code) lets the query outgrow it. The checkouts have one that is refused by each
reader, and two that are accepted. In `correlation`, the first pull request names nothing and changes the
articles of both submissions, the second names the first submission, and one submission is stored only
later; the first can be pushed to once, after which it changes one article only, and its text can be edited to name the other.
`OneSubmissionUnlessChanged` speaks of it until its text is edited or, as long as that names nothing, it is pushed to. A search can meet documents appearing, a claimed submission, a conflict with intake and with review.
In `signoff_gate`, two changes make a label come and go around a run that has read it, with the opened
event's run and one waiting; two comments make one queue behind the other. The theorems about
`SignoffGate` and `IntakePipeline` hold for any bounds.

Fairness (`ReviewReceiver!Fairness`): a started job goes on and a waiting one starts (the
runner does that, and the job timeout ends a hanging one), reads settle, and an operator
reruns runs that failed or were cancelled. The last is an assumption about people, strong because
newer runs can delay a rerun again and again. No event is assumed to happen, and
an operator may also rerun what succeeded. `IntakePipeline!FairSpec` and `Correlation!FairSpec` assume the same
two things of each run: its next step is taken, and a failed run is run again. A run
that never started is never assumed to start. `SignoffGate!Fairness` adds that GitHub
delivers events. Failures are bounded in each model, so liveness claims are about the
time after the last one.

## Proofs

`ReviewWorkflowProofs` proves every property of `ReviewWorkflow` for any set of events and
commits, however large: `TypeCorrect`, `GatesHold`, `RecordedOnce`, `WalkHolds`,
`ResumeHolds`, `AuditGrows`. The only assumptions are that the undefined value is not an event,
a commit or a stage, and that the opened event's message key is not an event.

The gates are inductive together, given types: what the rules need from the past is exactly
which approvals are in force in the stage the document is in. `InForceKept` and
`InForceGained` say what one more record does to an approval; `AcceptKeepsGates` then goes
through the six actions. The walk needs `FirstStage` besides (a correlated document without
records is in technical review), and that needs `UncorrelatedIsInitial`. Each theorem has the
three steps Init, Next, PTL.

`VersionedStoreProofs` rests on `StoredIsNewest`: the stored document has the largest revision, so
a caller whose revision matches holds the stored document itself (`SaveReplacesLoaded`). That gives
`RevisionsIdentify`, `SavedIsKept`, `OneSavePerAction` and `NoSaveSkipsAnother`. `GitHubStoreProofs` proves
`StoreRefinement` by going through the steps of a save: all but the write that GitHub accepts are a
load, a stutter or a `GiveUp`, and that write is the abstract save because the revision
compared earlier is that of the content the SHA names. `WritesLoaded`, `SavedStays`, `SavedOnce`
and `NoWriteSkipsAnother` are the abstract store's theorems, instantiated along the refinement. The only assumptions are that the
absent document is neither a document nor a number, that every caller has an action, and that
creators are callers.

`SignoffGateProofs` has one invariant per theorem. `StatusSettles` needs what a run in progress
has read: when the pull request changes, the event is undelivered until a run that has yet to read it waits or
starts, so either something is still under way or the last run read the live label and head.
`SuccessIsEarned` needs that a run about to publish with the label on holds an endorsed head. `UnapprovedIsHeld`
needs that the merge bot is "ready" only while some sign-off is still to be worked off.

`IntakePipelineProofs` proves, for any number of runs, disturbances, users, commits and boards,
`PipelineTypes`, `ItemsAreOwn`, `BranchStarts`, `UnrelatedStays`, `SuccessIsReady`, and
`PipelineRefines`: the runs implement `SubmissionRecord`. Of that record it proves that it is well formed
(`RecordTypes`), that a recorded start message has its facts recorded with it (`ReadyBacked`) and that facts are
kept (`FactsKept`); `PipelineKeepsRecord` carries the last two over to the runs. The inductive
invariant `IInv` has the types, that the record and what lagging reads return are good documents
(`Good`: facts are recorded in order), that own items, the record and the messages agree, and, the
part that carries the refinement, what each run's program counter says of the document it holds (`Fits`):
a document of the current revision is the current document, and an older one had no more facts than
the record has now. `SaveIs` then reduces every save to a conflict or a step from the record itself, and there is one
lemma per step. The assumptions are those of the modules: the undefined value is no other value, and what the
readers accept are targets and places.

`AcceptedIsListed` says what `IntakeRules` lets through: trimmed, well formed, and named by exactly one entry of the
allow-list in whatever case. `TargetIsAccepted` carries that to the record: runs keep what they read of the files when they
started, only `SaveItem` makes a record, and no save changes its target, however the files are edited meanwhile.

Two of its theorems count. `ItemIsOne` rests on `ItemInv`: while runs have not overlapped and the mock's database was not read
late, only a run between `FindItem` and `SaveItem` may have found no item, and then there is none
of the submission's own. Its hypothesis is that every board has at most one such item at first, which
is what the service's lookup demands of a board it finds. `MessageIsOnce` rests on `MessageInv`: in a quiet behaviour
only one run is under way, a message is out only if it is recorded or that run is about to
record it, and the reload after a conflict finds the record current.

`ReviewReceiverProofs` proves every safety property of `ReviewReceiver`, for any runs, commits, intake saves,
conflicts, failures and reruns. `IInv` joins the types (`ReceiverTypes`) with what each step of a run knows of the
documents it has read: whatever a run holds is an earlier version of the store (`Precedes`: fewer keys, a
prefix of the history, no greater revision), and one of equal revision is the store itself. So a
save either conflicts or replaces exactly what it was computed from. That gives `SavedIsNotLost`,
`RecordedNotResent` and `LabelsConsumed`, `SuccessIsHandedOff` from what a run has done when it reaches each step, and
`ReceiverRefines`: each step is `Correlate`, `Accept` or `Deliver` of `ReviewWorkflow`, or a stutter. `StoredGatesHold` and
`StoredHistoryHolds` are that module's theorems about the stored document. Two theorems need
hypotheses, for the reason the findings give: `OpenIsAnnounced` that reads are current (a lagging read of the stage would end a
run as done), and `NoticeIsOnce` that besides at most one intake save can come, because the code
retries the key's save once and a second conflict leaves a posted message unrecorded.

`CorrelationProofs` first proves the codec: `CloneIsSame` (what is written is read again, and as it was) and
`ReadIsStable` (every document accepted is read as a complete state, and a save of that state changes
nothing). They need that actions are distinct, that readers give commits in lower case, and that the undefined value and
a value of a wrong type are neither objects nor arrays. Then, for any submissions, pull requests, edits, pushes, failures and
reruns, every safety property of `Correlation`: `CorrelationTypes`, `StoredDecode`, `NoGuess`, `OneSubmission`, `PairingBacked`,
`RecordedStays`; and `CorrelationRefines`, that the runs implement `Pairing`. The invariant `Inv` has four parts. `DocsInv`: every document is the encoding of a state of its own
submission. `RunInv`: a match that a run holds is of a stored document, of an earlier revision or equal to it, and
is backed by the evidence the run read. `SearchInv`: what fitted when the search began still fits, and
is found already or at a path or a position still to be read; this is what makes documents that appear and change during
a search harmless, and it is why identity, repository, path and contributor must never be taken back
(`DocsStep`). `PairInv`: what a pull request whose evidence stays is recorded at fits that evidence, so a later run of it has it
among what it must find, and pairs no other. For the refinement, `ExtractIds` is the look, the steps of the search stutter, and a save
that goes through is a claim: `RunInv` gives that the claimed submission fits and is free, `SearchInv` that nothing else had fitted. TLC checked `Inv` on the instance of `correlation`.

Proved and not repeated in a run: `DecisionsKeepTheCommit` (in `WalkHolds`), `ResumeWhileDrafting`, `AuditOnlyGrows`,
`WritesWhatWasLoaded`, `ReplacesWhatWasLoaded`, `RecordWasAccepted`, and `PairingIsBacked`, which `Pairing`'s claim demands as well.

Only model-checked: liveness (`receiver_liveness`, `signoff_gate`, `intake_pipeline`, `correlation`), which is out of the
prover's reach, and the counterexamples. Every safety property that a passing run checks is also a theorem.

## Findings

- `open_notice_twice`: `AnnounceOpen` saves its completion key without the reconciliation
  that review notices have. An intake save between the message and the key makes the
  run fail, and the rerun posts the handoff again.
- `current_head_refused`: the reviewed commit follows accepted events, not the head. After a
  push outside drafting, which is refused, a decision about the actual head is refused too;
  in technical review nothing but an approval queued earlier can end that, for change requests
  are refused as well.
- `open_handoff_lost`: a run that dies between `SaveMatch` and the handoff cannot announce it once a
  review has moved the stage: every rerun throws.
- `branch_adopted`: the intent is saved before the branch exists, and a branch under a recorded
  intent counts as the automation's own. One that somebody else creates between the two is taken over by the rerun.
  `UnrelatedIsNotAdopted` is what does hold: a branch that was there before any run had begun
  one is never adopted.
- `respelled_repository`: intake accepts the repository in any case, correlation compares the stored
  spelling with the event's exactly; such a submission is never paired, although exact identity evidence is said
  to be authoritative within the expected repository.

Limits of the code that no comment denies, and that the properties therefore leave out:

- Overlapping apply runs, or a lagging read of the mock's database, can create two work items, after which every lookup
  fails until one is removed by hand; so does a query with more candidates than can be verified.
- The query for HACK-1000 returns HACK-10000's items too, and the batch read requires a parent of each before it compares
  tags: one candidate without a parent ends every lookup until somebody gives it one.
- A start or stage message is posted again when its run dies, or meets a second conflict, before the key is saved.
- Evidence is read anew by every run: after an edit of the text, or a push when the text names nothing, a rerun can record
  the pull request at a second submission, because `SaveMatch` asks only whether the submission has a pull request.
- A reopen label is removed by its name: the rerun of a run that was recorded takes off a label that was put back for
  a later command, even if that command is refused.
- An opened run whose read of the stage lags behind its own `SaveMatch` ends as a success without the handoff.

## Not modelled

- A waiting approval run of the sign-off gate that is cancelled by hand (one that is replaced is modelled, and so is a
  running one that is cancelled): its change reaches the status with the next event or when it is rerun.
- The file store, which only tests use: it renames without comparing the revision again, so it
  is a `VersionedStore` only while saves do not overlap.
- Plan mode of intake, command-line parsing and console output: no state, no outside effect.
- The patterns of identities, addresses, logins, names and paths; response shapes of the HTTP clients beyond the
  outcomes they distinguish; wording of messages, e-mails and findings.
- The stale-pull-request workflow (configuration of a third-party action), the operator-run
  scripts under `scripts/` (one pass over directory services or article files) and the articles themselves.
