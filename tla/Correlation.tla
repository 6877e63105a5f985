------------------------------ MODULE Correlation ------------------------------
(***************************************************************************)
(* Finding the submission a pull request belongs to.  Several submissions  *)
(* are stored on the state branch and several pull requests are opened on  *)
(* the repository; each has a run of its own for the opened event, in a    *)
(* concurrency group of its own, so the runs of different pull requests,   *)
(* intake runs and review runs reach the documents in any order.           *)
(*                                                                         *)
(* A run reads the pull request, then the files it changes by then (people *)
(* may edit its text and push to it all the while), then either loads      *)
(* the submission its text names or searches all documents, one read at a  *)
(* time, once for every changed file; then it saves the match.  A Save is  *)
(* one conditional step here: module GitHubStore shows that it acts as     *)
(* one.  The handoff message that follows is in ReviewReceiver.            *)
(***************************************************************************)
EXTENDS StateCodec, FiniteSets

CONSTANTS
    Submissions,  \* Submissions[i]: what intake was told of submission i
    SortedIds,    \* their ids, in the order of their documents' paths
    Early,        \* the submissions whose work item is saved before we look
    Pulls,        \* the pull requests: their numbers
    Author,       \* Author[p]: the user id of p's author
    FirstTip,     \* FirstTip[p]: what p is opened with: the commit of its head, and the
                  \* files it changes, in GitHub's order
    Pushes,       \* Pushes[p]: what pushes may make of that
    Named,        \* Named[p]: the submission ids in p's branch, title and body
    Respelled,    \* Respelled[p]: the ids p's text may be edited to name
    Target,       \* the repository the receiver serves, as GitHub spells it
    SameAsTarget, \* every spelling of it that GitHub takes for the same
    Assignee,     \* the reviewer every role starts with
    MaxFailures,  \* bound: runs that die or whose outside calls fail
    MaxReruns     \* bound: reruns of runs that did not fail

\* What is at the end of a branch; ReadSha returns the commit in lower case.
Tips == [commit : {sha \in Shas : Lower[sha] = sha}, paths : Seq(Texts)]

ASSUME CorrelationAssumption ==
    /\ DOMAIN Submissions \subseteq Ids /\ Early \subseteq DOMAIN Submissions
    /\ \A i \in DOMAIN Submissions :
           /\ Submissions[i].repository \in RepositoryTarget /\ Submissions[i].article \in Texts
           /\ Submissions[i].user \in Numbers /\ Submissions[i].item \in Numbers
    /\ SortedIds \in Seq(DOMAIN Submissions)
    /\ DOMAIN Submissions = {SortedIds[n] : n \in DOMAIN SortedIds}
    /\ Pulls \subseteq Numbers
    /\ \A p \in Pulls : Author[p] \in Numbers
    /\ Named \in [Pulls -> SUBSET Ids]
    /\ \A p \in Pulls : \A ids \in Respelled[p] \cup {Named[p]} :
           ids \subseteq Ids /\ IsFiniteSet(ids)
    /\ FirstTip \in [Pulls -> Tips] /\ \A p \in Pulls : Pushes[p] \subseteq Tips
    /\ Assignee \in Emails /\ "ado:create-user-story" \in Texts
    /\ None \notin {"matched", "unmatched", "ambiguous", "failed"}
    /\ MaxFailures \in Nat /\ MaxReruns \in Nat

VARIABLES
    docs,      \* the state documents: of the ids that have one, what they say
    text,      \* the ids the pull request's text names now
    edited,    \* pull requests whose text has been edited
    tip,       \* the head commit of every pull request now, and the files it changes
    pushed,    \* pull requests that have been pushed to
    run,       \* the opened run of every pull request
    failures,  \* failures injected so far
    reruns,    \* reruns of runs that did not fail
    since      \* history: the stored submissions that fitted each run's
               \* evidence when it began to look for them

env == <<text, edited, tip, pushed>>
vars == <<docs, env, run, failures, reruns, since>>

Known  == DOMAIN Submissions
Stored == DOMAIN docs

Outcomes == {"matched", "unmatched", "ambiguous", "failed"}

\* The state of a run: what it read of the pull request, the paths it has still
\* to search, the documents of the current path still to be read, the matches.
Idle == [pc |-> "fetch", ids |-> {}, head |-> None, changed |-> <<>>, paths |-> <<>>,
         unread |-> {}, found |-> <<>>, outcome |-> None]

\* SubmissionStateFactory.Create, and the two saves of the first intake stages
\* that correlation can tell apart: the work item, then the contributor.
NewState(i) ==
    [submissionId |-> i, azureDevOpsId |-> Submissions[i].item,
     githubUserId |-> None, repository |-> Submissions[i].repository,
     branchName |-> None, initialCommitSha |-> None,
     articlePath |-> Submissions[i].article, pullRequestNumber |-> None,
     currentStage |-> Planned,
     reviewState |-> [resumeStage |-> None, openedCommitSha |-> None, history |-> <<>>],
     assignments |-> [role \in Roles |-> Assignee],
     completedActions |-> <<"ado:create-user-story">>,
     reminderHistory |-> <<>>, revision |-> 1]

Init ==
    /\ docs = [i \in Early |-> Encode(NewState(i))]
    /\ text = Named
    /\ edited = {}
    /\ tip = FirstTip
    /\ pushed = {}
    /\ run = [p \in Pulls |-> Idle]
    /\ failures = 0 /\ reruns = 0
    /\ since = [p \in Pulls |-> {}]

-----------------------------------------------------------------------------
(* What else happens to the documents and the pull requests.                *)

Rewrite(i, state) == docs' = [docs EXCEPT ![i] = Encode([state EXCEPT !.revision = @ + 1])]

IntakeCreates(i) ==
    /\ i \notin Stored
    /\ docs' = [j \in Stored \cup {i} |-> IF j = i THEN Encode(NewState(i)) ELSE docs[j]]
    /\ UNCHANGED <<env, run, failures, reruns, since>>

\* ContributorAccessService.SaveIdentity.
IntakeIdentifies(i) ==
    /\ i \in Stored /\ Decode(docs[i]).githubUserId = None
    /\ Rewrite(i, [Decode(docs[i]) EXCEPT !.githubUserId = Submissions[i].user])
    /\ UNCHANGED <<env, run, failures, reruns, since>>

\* A review run moves a correlated submission on.
ReviewAdvances(i) ==
    /\ i \in Stored
    /\ LET state == Decode(docs[i]) IN
           /\ state.pullRequestNumber # None /\ state.currentStage = TechnicalReview
           /\ Rewrite(i, [state EXCEPT !.currentStage = ContentReview])
    /\ UNCHANGED <<env, run, failures, reruns, since>>

EditText(p) ==
    /\ \E ids \in Respelled[p] : ids # text[p] /\ text' = [text EXCEPT ![p] = ids]
    /\ edited' = edited \cup {p}
    /\ UNCHANGED <<docs, tip, pushed, run, failures, reruns, since>>

Push(p) ==
    /\ \E t \in Pushes[p] : t # tip[p] /\ tip' = [tip EXCEPT ![p] = t]
    /\ pushed' = pushed \cup {p}
    /\ UNCHANGED <<docs, text, edited, run, failures, reruns, since>>

-----------------------------------------------------------------------------
(* The opened run of pull request p.                                        *)

Step(p, from, new) ==
    /\ run[p].pc = from
    /\ run' = [run EXCEPT ![p] = new]

End(p, outcome) == [Idle EXCEPT !.pc = "done", !.outcome = outcome]

\* A person reruns a run that has ended.
Rerun(p) ==
    /\ Step(p, "done", Idle)
    /\ \/ run[p].outcome = "failed" /\ UNCHANGED reruns
       \/ run[p].outcome # "failed" /\ reruns < MaxReruns /\ reruns' = reruns + 1
    /\ UNCHANGED <<docs, env, failures, since>>

RunFails(p) ==
    /\ run[p].pc # "done" /\ failures < MaxFailures
    /\ failures' = failures + 1
    /\ run' = [run EXCEPT ![p] = End(p, "failed")]
    /\ UNCHANGED <<docs, env, reruns, since>>

\* LoadPullRequest: the text and the head as they are when the run gets to it.
FetchPullRequest(p) ==
    /\ Step(p, "fetch", [run[p] EXCEPT !.pc = "extract", !.ids = text[p], !.head = tip[p].commit])
    /\ UNCHANGED <<docs, env, failures, reruns, since>>

\* Mutation: a document that has a pull request already is passed over.
MatchesUnclaimed(state, user, path) ==
    /\ state.pullRequestNumber = None
    /\ state.githubUserId = user
    /\ state.repository = Target
    /\ state.articlePath = path

\* GitHubSubmissionStore.Matches on the query CreateQuery builds: the other
\* criteria are undefined.
Matches(state, user, path) ==
    /\ state.githubUserId = user
    /\ state.repository = Target
    /\ state.articlePath = path

\* Submission i is stored and fits the evidence: the ids run p has read in the
\* text and, if there was none, the author and the files paths.
Fits(i, p, paths) ==
    /\ i \in Stored
    /\ IF run[p].ids = {}
       THEN \E k \in DOMAIN paths : Matches(Decode(docs[i]), Author[p], paths[k])
       ELSE run[p].ids = {i} /\ docs[i].repository = Target

\* Mutation: the first of several matches is taken.
DecideForFirst(p, found) ==
    IF found = <<>> THEN End(p, "unmatched")
    ELSE [run[p] EXCEPT !.pc = "save", !.found = found, !.paths = <<>>, !.unread = {}]

Decide(p, found) ==
    IF found = <<>> THEN End(p, "unmatched")
    ELSE IF Len(found) > 1 THEN End(p, "ambiguous")
    ELSE [run[p] EXCEPT !.pc = "save", !.found = found, !.paths = <<>>, !.unread = {}]

\* GetChangedPaths, every path once, asked for after the pull request itself, and
\* ExtractIds: two identities are ambiguous before any state is read.
ExtractIds(p) ==
    /\ LET paths == tip[p].paths IN
           /\ Step(p, "extract",
                   IF Cardinality(run[p].ids) > 1 THEN End(p, "ambiguous")
                   ELSE IF run[p].ids # {} THEN [run[p] EXCEPT !.pc = "load", !.changed = paths]
                   ELSE IF paths = <<>> THEN Decide(p, <<>>)
                   ELSE [run[p] EXCEPT !.pc = "list", !.changed = paths, !.paths = paths])
           /\ since' = [since EXCEPT ![p] = {i \in Known : Fits(i, p, paths)}]
    /\ UNCHANGED <<docs, env, failures, reruns>>

\* FindById: the named submission, if its repository is the event's.
FindById(p) ==
    \E i \in run[p].ids :
        /\ Step(p, "load",
                IF i \notin Stored THEN Decide(p, <<>>)
                ELSE IF ~Decodes(docs[i]) THEN End(p, "failed")
                ELSE IF Decode(docs[i]).repository # Target THEN Decide(p, <<>>)
                ELSE Decide(p, <<Decode(docs[i])>>))
        /\ UNCHANGED <<docs, env, failures, reruns, since>>

\* Mutation: the search ends with the first changed path.
NoFurtherPath(paths) == <<>>

FurtherPaths(paths) == Tail(paths)

\* FindFallback goes on to the next path when the current one is done.
AfterRead(p, r) ==
    IF r.unread # {} THEN [r EXCEPT !.pc = "read"]
    ELSE IF FurtherPaths(r.paths) # <<>>
         THEN [r EXCEPT !.pc = "list", !.paths = FurtherPaths(@)]
         ELSE Decide(p, r.found)

\* Find, called for the first path that is left: the directory is listed ...
ListDocuments(p) ==
    /\ Step(p, "list",
            AfterRead(p, [run[p] EXCEPT
                !.unread = {n \in DOMAIN SortedIds : SortedIds[n] \in Stored}]))
    /\ UNCHANGED <<docs, env, failures, reruns, since>>

HasMatch(found, id) == \E k \in DOMAIN found : found[k].submissionId = id

\* ... and its documents are read one after the other; one that cannot be
\* decoded ends the run.
ReadDocument(p) ==
    /\ \E n \in run[p].unread :
           /\ \A m \in run[p].unread : n <= m
           /\ LET r == run[p]
                  document == docs[SortedIds[n]]
                  state == Decode(document)
                  found == IF Matches(state, Author[p], r.paths[1])
                              /\ ~HasMatch(r.found, state.submissionId)
                           THEN Append(r.found, state) ELSE r.found
              IN  Step(p, "read",
                       IF ~Decodes(document) THEN End(p, "failed")
                       ELSE AfterRead(p, [r EXCEPT !.unread = @ \ {n}, !.found = found]))
    /\ UNCHANGED <<docs, env, failures, reruns, since>>

Matched(state, p, head) ==
    [state EXCEPT !.pullRequestNumber = p, !.currentStage = TechnicalReview,
                  !.reviewState.openedCommitSha = head]

StoredRevision(i) == IF i \in Stored THEN docs[i].revision ELSE None

\* Mutation: the document is written whatever its revision has become.
SaveUnchecked(p, state) ==
    /\ Rewrite(state.submissionId, Matched(state, p, run[p].head))
    /\ Step(p, "save", End(p, "matched"))

\* Mutation: a conflict is taken for a match that somebody else has saved.
SaveOrSkip(p, state) ==
    /\ IF StoredRevision(state.submissionId) = state.revision
       THEN Rewrite(state.submissionId, Matched(state, p, run[p].head))
       ELSE UNCHANGED docs
    /\ Step(p, "save", End(p, "matched"))

\* Mutation: after a conflict the stored document is loaded and the match put
\* into that, whatever it says by now.
SaveReloaded(p, state) ==
    /\ Rewrite(state.submissionId, Matched(Decode(docs[state.submissionId]), p, run[p].head))
    /\ Step(p, "save", End(p, "matched"))

\* The store's Save: a conflict ends the run.
Save(p, state) ==
    \/ /\ StoredRevision(state.submissionId) = state.revision
       /\ Rewrite(state.submissionId, Matched(state, p, run[p].head))
       /\ Step(p, "save", End(p, "matched"))
    \/ /\ StoredRevision(state.submissionId) # state.revision
       /\ Step(p, "save", End(p, "failed"))
       /\ UNCHANGED docs

\* SaveMatch: only a submission without a pull request is saved; another pull
\* request's number is never replaced, and the same number is left alone.
SaveMatch(p) ==
    /\ run[p].pc = "save"
    /\ LET state == run[p].found[1] IN
           \/ state.pullRequestNumber = None /\ Save(p, state)
           \/ /\ state.pullRequestNumber # None
              /\ Step(p, "save", End(p, IF state.pullRequestNumber = p
                                        THEN "matched" ELSE "failed"))
              /\ UNCHANGED docs
    /\ UNCHANGED <<env, failures, reruns, since>>

-----------------------------------------------------------------------------

RunStep(p) ==
    \/ FetchPullRequest(p) \/ ExtractIds(p)
    \/ FindById(p)
    \/ ListDocuments(p) \/ ReadDocument(p)
    \/ SaveMatch(p)

Next ==
    \/ \E i \in Known : IntakeCreates(i) \/ IntakeIdentifies(i) \/ ReviewAdvances(i)
    \/ \E p \in Pulls : EditText(p) \/ Push(p) \/ Rerun(p) \/ RunFails(p) \/ RunStep(p)

Spec == Init /\ [][Next]_vars

\* The runner executes what it has started, and someone reruns what failed.
RerunFailed(p) == run[p].outcome = "failed" /\ Rerun(p)

FairSpec ==
    /\ Spec
    /\ \A p \in Pulls : WF_vars(RunStep(p) \/ RerunFailed(p))

-----------------------------------------------------------------------------
(* What correlation promises, abstractly.  Reading the documents one by one *)
(* comes to looking at all of them at once when the search begins.          *)

RecordIn(d) ==
    [i \in DOMAIN d |-> [user |-> Optional(d[i], "githubUserId"),
                         pull |-> Optional(d[i], "pullRequestNumber"),
                         stage |-> d[i].currentStage]]

Phase(pc) == CASE pc \in {"fetch", "done"} -> "idle"
               [] pc = "extract" -> "read"
               [] OTHER -> "looked"

Seen(r, fitted) ==
    [phase |-> Phase(r.pc), ids |-> r.ids,
     files |-> IF Phase(r.pc) = "looked" THEN r.changed ELSE <<>>,
     fitted |-> IF Phase(r.pc) = "looked" THEN fitted ELSE {}]

Promise == INSTANCE Pairing WITH
    FirstFiles <- [p \in Pulls |-> FirstTip[p].paths],
    Refiled    <- [p \in Pulls |-> {t.paths : t \in Pushes[p]}],
    files  <- [p \in Pulls |-> tip[p].paths],
    record <- RecordIn(docs),
    look   <- [p \in Pulls |-> Seen(run[p], since[p])]

-----------------------------------------------------------------------------
(* Properties                                                               *)

PullOf(i) == IF i \in Stored THEN Optional(docs[i], "pullRequestNumber") ELSE None

TypeOK ==
    /\ Stored \subseteq Known
    /\ text \in [Pulls -> SUBSET Ids] /\ edited \subseteq Pulls
    /\ tip \in [Pulls -> Tips] /\ pushed \subseteq Pulls
    /\ \A p \in Pulls :
           /\ run[p].pc \in {"fetch", "extract", "load", "list", "read",
                             "save", "done"}
           /\ run[p].pc = "done" <=> run[p].outcome \in Outcomes
           /\ run[p].ids \subseteq Ids
           /\ \A k \in DOMAIN run[p].found : run[p].found[k].submissionId \in Known
           /\ run[p].pc = "save" => Len(run[p].found) = 1
    /\ failures \in 0..MaxFailures /\ reruns \in 0..MaxReruns

\* Whatever the program stores it can read again: a document it could not
\* decode would end every later run of that submission, and every search.
StoredDocumentsDecode == \A i \in Stored : Decodes(docs[i])

\* A submission is paired only with a pull request of its own repository, on the
\* evidence of that run's reading: the text named it and nothing else, or named
\* nothing and the author and a file changed by then are the submission's.
PairingIsBacked ==
    [][\A i \in Known, p \in Pulls :
          (PullOf(i) = None /\ PullOf(i)' = p) =>
              LET state == Decode(docs[i]) IN
              /\ state.repository = Target
              /\ \/ run[p].ids = {i}
                 \/ /\ run[p].ids = {}
                    /\ state.githubUserId = Author[p]
                    /\ \E k \in DOMAIN run[p].changed :
                           run[p].changed[k] = state.articlePath]_vars

\* Opened, intake and review runs save to one document from what they loaded
\* earlier, and none takes back what another recorded: the contributor, the
\* pull request and the stage a review has reached stay.
RecordedIsKept ==
    [][\A i \in Stored :
          LET old == Decode(docs[i])
              new == Decode(docs'[i])
          IN  /\ i \in Stored'
              /\ \A f \in {"azureDevOpsId", "githubUserId", "pullRequestNumber"} :
                     old[f] # None => new[f] = old[f]
              /\ old.currentStage = ContentReview => new.currentStage = ContentReview
              /\ old # new => new.revision = old.revision + 1]_vars

\* "Reports ambiguity rather than guessing" (PullRequestService.ts:31): a
\* submission is taken by fallback only if no other one fitted the pull request
\* when the search began, although the documents are read one by one.
NoGuessAmongKnown ==
    \A p \in Pulls : run[p].pc = "save" =>
        since[p] \subseteq {run[p].found[1].submissionId}

\* Nobody has changed what p's submission is found by: its text, or, when that names
\* none, the files.
EvidenceStays(p) == p \notin edited /\ (Named[p] # {} \/ p \notin pushed)

\* A pull request is recorded at one submission only, however often its run is
\* repeated while documents appear, as long as its evidence stays: after an edit
\* of the text, or a push when the text names nothing, a rerun reads other evidence
\* and may record the pull request at a second submission (SaveMatch asks only
\* whether the submission has a pull request, not whether the pull request has one).
OneSubmissionUnlessChanged ==
    \A p \in Pulls : EvidenceStays(p) =>
        Cardinality({i \in Known : PullOf(i) = p}) <= 1

\* Whatever the documents go through while runs list them, read them one by one and
\* save what they loaded, each run acts as if it had looked at all submissions at
\* one moment, and then had claimed the only one that fitted while it was free.
ImplementsPairing == Promise!Spec

\* A run whose pull request names one stored submission ends with that submission
\* paired, through conflicts, failures and reruns, unless the text is edited.
NamedIsPaired ==
    <>[](\A p \in Pulls \ edited : Named[p] # {} => \A i \in since[p] : PullOf(i) # None)

(* A claim of the source that the code does not keep.                       *)

\* IntakePlanner.ts:53: "Matching follows GitHub's case-insensitive owner and
\* repository identity", which accepts the submission, and PullRequestService.ts:13:
\* "Exact HACK identity evidence is authoritative within the expected repository".
\* A submission accepted under another spelling of the repository is paired like
\* any other by a pull request that names it.
RespelledIsPaired ==
    \A p \in Pulls, i \in Known :
        (i \in Stored /\ docs[i].repository \in SameAsTarget /\ Named[p] = {i}
            /\ run[p].pc = "load" /\ run[p].ids = {i})
            ~> (PullOf(i) # None \/ p \in edited)

=============================================================================
