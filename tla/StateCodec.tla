------------------------------ MODULE StateCodec ------------------------------
(***************************************************************************)
(* SubmissionStateCodec: what a state document on the state branch may     *)
(* say, and what is read from it.                                          *)
(*                                                                         *)
(* A document is a function from the names of the fields it has to their   *)
(* values, as a JSON object is; a text that is no JSON object is Junk, and *)
(* so is any value of a type its field never takes (a number for a name, a *)
(* null).  A SubmissionState in memory has every field; None stands for    *)
(* undefined.                                                              *)
(***************************************************************************)
EXTENDS SubmissionTerms, Integers, Sequences

CONSTANTS
    Ids,      \* submission identities of the form HACK-0001
    Texts,    \* strings with something to read in them, Ids included
    Shas,     \* full commit SHAs, in every spelling met
    Lower,    \* Lower[sha]: the SHA in lower case
    Emails,   \* addresses at microsoft.com
    Dates,    \* strings Date.parse understands
    Numbers,  \* positive safe integers
    Junk,     \* a value of no supported type, or out of its range
    None      \* undefined

ASSUME CodecAssumption ==
    /\ Ids \subseteq Texts
    /\ Lower \in [Shas -> Shas] /\ \A sha \in Shas : Lower[Lower[sha]] = Lower[sha]
    /\ Numbers \subseteq Nat \ {0}
    /\ {Junk, None} \cap (Texts \cup Shas \cup Emails \cup Dates \cup SubmissionStage \cup ReviewAction) = {}
    /\ Junk \notin Nat /\ None \notin Nat

Fields == {"submissionId", "azureDevOpsId", "githubUserId", "repository", "branchName",
           "initialCommitSha", "articlePath", "pullRequestNumber", "currentStage",
           "reviewState", "assignments", "completedActions", "reminderHistory", "revision"}

\* The fields that may be undefined.
OptionalFields == {"azureDevOpsId", "githubUserId", "branchName", "initialCommitSha",
                   "pullRequestNumber"}

-----------------------------------------------------------------------------
(* Reading one value.                                                       *)

\* CheckFields and ReadObject: only known fields; a required field that is
\* missing is read as undefined and refused by its reader.
IsObject(v, required, optional) ==
    /\ v # Junk
    /\ required \subseteq DOMAIN v
    /\ DOMAIN v \subseteq required \cup optional

ReadString(v)         == v \in Texts
ReadId(v)             == v \in Ids
ReadNumber(v)         == v \in Numbers
ReadSha(v)            == v \in Shas
ReadStage(v)          == v \in SubmissionStage
ReadResume(v)         == v \in {TechnicalReview, ContentReview}
ReadMicrosoftEmail(v) == v \in Emails
ReadRevision(v)       == v \in Nat

ReadRepository(v) ==
    /\ IsObject(v, {"owner", "name"}, {})
    /\ ReadString(v.owner) /\ ReadString(v.name)

ReadTransition(v) ==
    /\ IsObject(v, {"eventId", "action", "fromStage", "toStage", "githubActor",
                    "commitSha", "recordedAt"}, {})
    /\ v.action \in ReviewAction
    /\ v.recordedAt \in Dates
    /\ ReadString(v.eventId) /\ ReadString(v.githubActor)
    /\ ReadStage(v.fromStage) /\ ReadStage(v.toStage)
    /\ ReadSha(v.commitSha)

ReadReview(v) ==
    /\ IsObject(v, {"history"}, {"resumeStage", "openedCommitSha"})
    /\ v.history # Junk
    /\ \A i \in DOMAIN v.history : ReadTransition(v.history[i])
    /\ "resumeStage" \in DOMAIN v => ReadResume(v.resumeStage)
    /\ "openedCommitSha" \in DOMAIN v => ReadSha(v.openedCommitSha)

Roles == {"technicalReviewer", "contentReviewer", "editorialReviewer", "publisher"}

ReadAssignments(v) ==
    /\ IsObject(v, Roles, {})
    /\ \A role \in Roles : ReadMicrosoftEmail(v[role])

ReadActions(v) ==
    /\ v # Junk
    /\ \A i \in DOMAIN v : ReadString(v[i])
    /\ \A i, j \in DOMAIN v : v[i] = v[j] => i = j

ReadReminders(v) ==
    /\ v # Junk
    /\ \A i \in DOMAIN v :
           /\ IsObject(v[i], {"reminderKey", "recordedAt"}, {})
           /\ ReadString(v[i].reminderKey) /\ v[i].recordedAt \in Dates

-----------------------------------------------------------------------------
(* The state in memory.                                                     *)

RepositoryTarget == [owner : Texts, name : Texts]
ReviewTransition ==
    [eventId : Texts, action : ReviewAction, fromStage : SubmissionStage,
     toStage : SubmissionStage, githubActor : Texts, commitSha : Shas, recordedAt : Dates]
ReviewState ==
    [resumeStage : {TechnicalReview, ContentReview, None},
     openedCommitSha : Shas \cup {None}, history : Seq(ReviewTransition)]
ReviewAssignments == [Roles -> Emails]
ReminderRecord == [reminderKey : Texts, recordedAt : Dates]

SubmissionState ==
    [submissionId : Ids, azureDevOpsId : Numbers \cup {None},
     githubUserId : Numbers \cup {None}, repository : RepositoryTarget,
     branchName : Texts \cup {None}, initialCommitSha : Shas \cup {None},
     articlePath : Texts, pullRequestNumber : Numbers \cup {None},
     currentStage : SubmissionStage, reviewState : ReviewState,
     assignments : ReviewAssignments, completedActions : Seq(Texts),
     reminderHistory : Seq(ReminderRecord), revision : Nat]

\* Objects and arrays as they are written: without the fields in absent.
RawReview(absent) ==
    [{"resumeStage", "openedCommitSha", "history"} \ absent ->
        SubmissionStage \cup Shas \cup Seq(ReviewTransition)]
RawDocument(absent) ==
    [Fields \ absent ->
        Texts \cup Nat \cup Shas \cup SubmissionStage \cup RepositoryTarget
            \cup ReviewAssignments \cup Seq(Texts) \cup Seq(ReminderRecord)
            \cup UNION {RawReview(none) : none \in SUBSET {"resumeStage", "openedCommitSha"}}]

\* Junk and None are neither objects nor arrays.
ASSUME NoObjectAssumption ==
    \A v \in {Junk, None} :
        /\ v \notin RepositoryTarget /\ v \notin ReviewAssignments /\ v \notin ReviewState
        /\ v \notin ReviewTransition /\ v \notin ReminderRecord
        /\ v \notin Seq(Texts) /\ v \notin Seq(ReminderRecord) /\ v \notin Seq(ReviewTransition)
        /\ \A absent \in SUBSET {"resumeStage", "openedCommitSha"} : v \notin RawReview(absent)
        /\ \A absent \in SUBSET OptionalFields : v \notin RawDocument(absent)

-----------------------------------------------------------------------------
(* Decode and Encode.                                                       *)

Optional(raw, f) == IF f \in DOMAIN raw THEN raw[f] ELSE None

\* Decode accepts the document; otherwise it throws a StateFormatError.
Decodes(raw) ==
    /\ IsObject(raw, Fields \ OptionalFields, OptionalFields)
    /\ ReadId(raw.submissionId)
    /\ \A f \in {"azureDevOpsId", "githubUserId", "pullRequestNumber"} \cap DOMAIN raw :
           ReadNumber(raw[f])
    /\ ReadRepository(raw.repository)
    /\ "branchName" \in DOMAIN raw => ReadString(raw.branchName)
    /\ "initialCommitSha" \in DOMAIN raw => ReadSha(raw.initialCommitSha)
    /\ ReadString(raw.articlePath)
    /\ ReadStage(raw.currentStage)
    /\ ReadReview(raw.reviewState)
    /\ ReadAssignments(raw.assignments)
    /\ ReadActions(raw.completedActions)
    /\ ReadReminders(raw.reminderHistory)
    /\ ReadRevision(raw.revision)

LowerSha(sha) == IF sha = None THEN None ELSE Lower[sha]

DecodeReview(v) ==
    [resumeStage |-> Optional(v, "resumeStage"),
     openedCommitSha |-> LowerSha(Optional(v, "openedCommitSha")),
     history |-> [i \in DOMAIN v.history |->
                     [v.history[i] EXCEPT !.commitSha = Lower[@]]]]

\* The state read from an accepted document.
Decode(raw) ==
    [f \in Fields |->
        IF f = "initialCommitSha" THEN LowerSha(Optional(raw, f))
        ELSE IF f = "reviewState" THEN DecodeReview(raw[f])
        ELSE Optional(raw, f)]

Defined(object) == {f \in DOMAIN object : object[f] # None}

\* Mutation: an undefined field is written as null.
EncodeNulls(state) ==
    [f \in Fields |-> IF state[f] = None THEN Junk ELSE state[f]]

\* JSON.stringify leaves out what is undefined.
Encode(state) ==
    [f \in Defined(state) |->
        IF f = "reviewState"
        THEN [g \in Defined(state[f]) |-> state[f][g]]
        ELSE state[f]]

\* A round trip through the codec, which a store makes of every state it saves.
Clones(state) == Decodes(Encode(state))
Clone(state) == Decode(Encode(state))

=============================================================================
