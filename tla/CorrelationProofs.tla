--------------------------- MODULE CorrelationProofs ---------------------------
(***************************************************************************)
(* What the codec writes it reads back, and the safety of the opened runs, *)
(* for any submissions, pull requests, failures and reruns.                *)
(*                                                                         *)
(* The argument: facts of a document are never taken back, so what fits a  *)
(* pull request's evidence goes on fitting.  Whatever fitted when a search *)
(* began is therefore still to be read or already found, and a run that    *)
(* has found one submission has found all that fitted.                     *)
(***************************************************************************)
EXTENDS Correlation, FiniteSetTheorems, SequenceTheorems, TLAPS

-----------------------------------------------------------------------------
(* The codec.                                                               *)

\* No action is recorded twice.
Distinct(actions) == \A i, j \in DOMAIN actions : actions[i] = actions[j] => i = j

\* Every commit is spelled as the decoder returns it.
InLowerCase(s) ==
    /\ LowerSha(s.initialCommitSha) = s.initialCommitSha
    /\ LowerSha(s.reviewState.openedCommitSha) = s.reviewState.openedCommitSha
    /\ \A i \in DOMAIN s.reviewState.history :
           Lower[s.reviewState.history[i].commitSha] = s.reviewState.history[i].commitSha

EncodeReview(review) == [g \in Defined(review) |-> review[g]]

LEMMA NoneIsNoField ==
  ASSUME NEW s \in SubmissionState
  PROVE  \A f \in Fields \ OptionalFields : s[f] # None
  <1>1. /\ s.submissionId # None /\ s.articlePath # None /\ s.currentStage # None
        /\ s.revision # None
    BY CodecAssumption DEF SubmissionState
  <1>2. /\ s.repository # None /\ s.reviewState # None /\ s.assignments # None
        /\ s.completedActions # None /\ s.reminderHistory # None
    BY NoObjectAssumption DEF SubmissionState
  <1> QED BY <1>1, <1>2 DEF Fields, OptionalFields

LEMMA Written ==
  ASSUME NEW s \in SubmissionState
  PROVE  /\ DOMAIN Encode(s) = Defined(s)
         /\ Fields \ OptionalFields \subseteq Defined(s) /\ Defined(s) \subseteq Fields
         /\ \A f \in Defined(s) \ {"reviewState"} : Encode(s)[f] = s[f]
         /\ Encode(s)["reviewState"] = EncodeReview(s.reviewState)
         /\ \A f \in Fields : f \notin Defined(s) => s[f] = None
  <1>1. DOMAIN s = Fields
    BY DEF SubmissionState, Fields
  <1>2. Fields \ OptionalFields \subseteq Defined(s) /\ Defined(s) \subseteq Fields
    BY <1>1, NoneIsNoField DEF Defined
  <1>3. "reviewState" \in Defined(s)
    BY <1>2 DEF Fields, OptionalFields
  <1>4. \A f \in Defined(s) \ {"reviewState"} : Encode(s)[f] = s[f]
    BY DEF Encode
  <1>5. Encode(s)["reviewState"] = EncodeReview(s.reviewState)
    BY <1>3 DEF Encode, EncodeReview
  <1>6. DOMAIN Encode(s) = Defined(s)
    BY DEF Encode
  <1>7. \A f \in Fields : f \notin Defined(s) => s[f] = None
    BY <1>1 DEF Defined
  <1> QED BY <1>2, <1>4, <1>5, <1>6, <1>7

LEMMA ReviewWritten ==
  ASSUME NEW v \in ReviewState
  PROVE  LET w == EncodeReview(v) IN
         /\ DOMAIN w = Defined(v) /\ "history" \in Defined(v)
         /\ Defined(v) \subseteq {"resumeStage", "openedCommitSha", "history"}
         /\ \A g \in Defined(v) : w[g] = v[g]
         /\ \A g \in {"resumeStage", "openedCommitSha"} : g \notin Defined(v) => v[g] = None
         /\ w \in RawReview({"resumeStage", "openedCommitSha", "history"} \ Defined(v))
  <1>1. DOMAIN v = {"resumeStage", "openedCommitSha", "history"}
    BY DEF ReviewState
  <1>2. v.history # None
    BY NoObjectAssumption DEF ReviewState
  <1>3. /\ "history" \in Defined(v)
        /\ Defined(v) \subseteq {"resumeStage", "openedCommitSha", "history"}
        /\ \A g \in {"resumeStage", "openedCommitSha"} : g \notin Defined(v) => v[g] = None
    BY <1>1, <1>2 DEF Defined
  <1>4. /\ v.history \in Seq(ReviewTransition)
        /\ v.resumeStage # None => v.resumeStage \in SubmissionStage
        /\ v.openedCommitSha # None => v.openedCommitSha \in Shas
    BY DEF ReviewState, SubmissionStage
  <1>5. \A g \in Defined(v) : v[g] # None
    BY DEF Defined
  <1>6. \A g \in Defined(v) : v[g] \in SubmissionStage \cup Shas \cup Seq(ReviewTransition)
    BY <1>3, <1>4, <1>5
  <1>7. EncodeReview(v) \in [Defined(v) -> SubmissionStage \cup Shas \cup Seq(ReviewTransition)]
    BY <1>6 DEF EncodeReview
  <1>8. Defined(v) = {"resumeStage", "openedCommitSha", "history"}
                        \ ({"resumeStage", "openedCommitSha", "history"} \ Defined(v))
    BY <1>3
  <1> QED BY <1>3, <1>7, <1>8 DEF EncodeReview, RawReview

LEMMA WrittenIsObject ==
  ASSUME NEW s \in SubmissionState
  PROVE  Encode(s) # Junk /\ EncodeReview(s.reviewState) # Junk
  <1> DEFINE w == EncodeReview(s.reviewState)
             none == {"resumeStage", "openedCommitSha", "history"} \ Defined(s.reviewState)
             absent == Fields \ Defined(s)
  <1>1. s.reviewState \in ReviewState
    BY DEF SubmissionState
  <1>2. w \in RawReview(none) /\ none \in SUBSET {"resumeStage", "openedCommitSha"}
    BY <1>1, ReviewWritten
  <1>3. w # Junk
    BY <1>2, NoObjectAssumption
  <1>4. absent \in SUBSET OptionalFields /\ Fields \ absent = Defined(s)
    BY Written
  <1> DEFINE Values == Texts \cup Nat \cup Shas \cup SubmissionStage \cup RepositoryTarget
                 \cup ReviewAssignments \cup Seq(Texts) \cup Seq(ReminderRecord)
                 \cup UNION {RawReview(n) : n \in SUBSET {"resumeStage", "openedCommitSha"}}
  <1>5. ASSUME NEW f \in Defined(s) PROVE Encode(s)[f] \in Values
    <2>1. CASE f = "reviewState"
      BY <1>2, <2>1, Written
    <2>2. CASE f # "reviewState"
      <3>1. Encode(s)[f] = s[f] /\ f \in Fields /\ s[f] # None
        BY <1>5, <2>2, Written DEF Defined
      <3>2. /\ s.submissionId \in Texts
            /\ s.azureDevOpsId # None => s.azureDevOpsId \in Nat
            /\ s.githubUserId # None => s.githubUserId \in Nat
            /\ s.repository \in RepositoryTarget
            /\ s.branchName # None => s.branchName \in Texts
            /\ s.initialCommitSha # None => s.initialCommitSha \in Shas
            /\ s.articlePath \in Texts
            /\ s.pullRequestNumber # None => s.pullRequestNumber \in Nat
            /\ s.currentStage \in SubmissionStage
            /\ s.assignments \in ReviewAssignments /\ s.completedActions \in Seq(Texts)
            /\ s.reminderHistory \in Seq(ReminderRecord) /\ s.revision \in Nat
        BY CodecAssumption DEF SubmissionState
      <3> QED BY <2>2, <3>1, <3>2 DEF Fields
    <2> QED BY <2>1, <2>2
  <1>6. Encode(s) \in [Defined(s) -> Values]
    <2>1. Encode(s) = [f \in Defined(s) |-> Encode(s)[f]]
      BY Written DEF Encode
    <2> HIDE DEF Values
    <2> QED BY <1>5, <2>1
  <1>7. Encode(s) \in RawDocument(absent)
    BY <1>4, <1>6 DEF RawDocument
  <1> QED BY <1>3, <1>4, <1>7, NoObjectAssumption

LEMMA ReviewReadBack ==
  ASSUME NEW v \in ReviewState, EncodeReview(v) # Junk
  PROVE  ReadReview(EncodeReview(v))
  <1> DEFINE w == EncodeReview(v)
  <1>1. /\ DOMAIN w = Defined(v) /\ "history" \in Defined(v)
        /\ Defined(v) \subseteq {"resumeStage", "openedCommitSha", "history"}
        /\ \A g \in Defined(v) : w[g] = v[g] /\ v[g] # None
    BY ReviewWritten DEF Defined
  <1> HIDE DEF w
  <1>2. IsObject(w, {"history"}, {"resumeStage", "openedCommitSha"})
    BY <1>1 DEF IsObject, w
  <1>3. w.history = v.history /\ v.history \in Seq(ReviewTransition) /\ v.history # Junk
    BY <1>1, NoObjectAssumption DEF ReviewState
  <1>4. ASSUME NEW t \in ReviewTransition PROVE ReadTransition(t)
    <2>1. t # Junk
      BY NoObjectAssumption
    <2>2. DOMAIN t = {"eventId", "action", "fromStage", "toStage", "githubActor", "commitSha",
                      "recordedAt"}
      BY DEF ReviewTransition
    <2> QED BY <2>1, <2>2 DEF ReadTransition, IsObject, ReviewTransition, ReadString, ReadStage,
            ReadSha
  <1>5. \A i \in DOMAIN w.history : ReadTransition(w.history[i])
    BY <1>3, <1>4
  <1>6. "resumeStage" \in DOMAIN w => ReadResume(w.resumeStage)
    BY <1>1 DEF ReadResume, ReviewState
  <1>7. "openedCommitSha" \in DOMAIN w => ReadSha(w.openedCommitSha)
    BY <1>1 DEF ReadSha, ReviewState
  <1> QED BY <1>2, <1>3, <1>5, <1>6, <1>7 DEF ReadReview, w

LEMMA OptionalReadsBack ==
  ASSUME NEW s \in SubmissionState
  PROVE  \A f \in Fields \ {"reviewState"} : Optional(Encode(s), f) = s[f]
  BY Written DEF Optional

LEMMA StateReadsBack ==
  ASSUME NEW s \in SubmissionState, Distinct(s.completedActions)
  PROVE  Decodes(Encode(s))
  <1> DEFINE raw == Encode(s)
  <1>1. /\ DOMAIN raw = Defined(s)
        /\ Fields \ OptionalFields \subseteq DOMAIN raw /\ DOMAIN raw \subseteq Fields
        /\ \A f \in Defined(s) \ {"reviewState"} : raw[f] = s[f] /\ s[f] # None
        /\ raw["reviewState"] = EncodeReview(s.reviewState)
    BY Written DEF Defined
  <1>2. raw # Junk /\ ReadReview(raw.reviewState)
    BY <1>1, WrittenIsObject, ReviewReadBack DEF SubmissionState
  <1> HIDE DEF raw
  <1>3. IsObject(raw, Fields \ OptionalFields, OptionalFields)
    BY <1>1, <1>2 DEF IsObject
  <1>4. \A f \in {"submissionId", "repository", "articlePath", "currentStage", "assignments",
                  "completedActions", "reminderHistory", "revision"} : raw[f] = s[f]
    BY <1>1 DEF Fields, OptionalFields
  <1>5. \A f \in OptionalFields \cap DOMAIN raw : raw[f] = s[f] /\ s[f] # None
    BY <1>1 DEF OptionalFields
  <1>6. /\ ReadId(raw.submissionId) /\ ReadString(raw.articlePath)
        /\ ReadStage(raw.currentStage) /\ ReadRevision(raw.revision)
    BY <1>4 DEF SubmissionState, ReadId, ReadString, ReadStage, ReadRevision
  <1>7. \A f \in {"azureDevOpsId", "githubUserId", "pullRequestNumber"} \cap DOMAIN raw :
            ReadNumber(raw[f])
    BY <1>5 DEF SubmissionState, OptionalFields, ReadNumber
  <1>8. /\ "branchName" \in DOMAIN raw => ReadString(raw.branchName)
        /\ "initialCommitSha" \in DOMAIN raw => ReadSha(raw.initialCommitSha)
    BY <1>5 DEF SubmissionState, OptionalFields, ReadString, ReadSha
  <1>9. ReadRepository(raw.repository)
    <2>1. raw.repository \in RepositoryTarget
      BY <1>4 DEF SubmissionState
    <2>2. raw.repository # Junk /\ DOMAIN raw.repository = {"owner", "name"}
      BY <2>1, NoObjectAssumption DEF RepositoryTarget
    <2> QED BY <2>1, <2>2 DEF ReadRepository, IsObject, RepositoryTarget, ReadString
  <1>10. ReadAssignments(raw.assignments)
    <2>1. raw.assignments \in ReviewAssignments
      BY <1>4 DEF SubmissionState
    <2>2. raw.assignments # Junk
      BY <2>1, NoObjectAssumption
    <2> QED BY <2>1, <2>2 DEF ReadAssignments, IsObject, ReviewAssignments, ReadMicrosoftEmail
  <1>11. ReadActions(raw.completedActions)
    <2>1. raw.completedActions = s.completedActions /\ s.completedActions \in Seq(Texts)
      BY <1>4 DEF SubmissionState
    <2>2. raw.completedActions # Junk
      BY <2>1, NoObjectAssumption
    <2> QED BY <2>1, <2>2 DEF ReadActions, Distinct, ReadString
  <1>12. ReadReminders(raw.reminderHistory)
    <2>1. raw.reminderHistory \in Seq(ReminderRecord)
      BY <1>4 DEF SubmissionState
    <2>2. raw.reminderHistory # Junk
      BY <2>1, NoObjectAssumption
    <2>3. ASSUME NEW m \in ReminderRecord
          PROVE  /\ IsObject(m, {"reminderKey", "recordedAt"}, {})
                 /\ ReadString(m.reminderKey) /\ m.recordedAt \in Dates
      <3>1. m # Junk /\ DOMAIN m = {"reminderKey", "recordedAt"}
        BY NoObjectAssumption DEF ReminderRecord
      <3> QED BY <3>1 DEF IsObject, ReminderRecord, ReadString
    <2> QED BY <2>1, <2>2, <2>3 DEF ReadReminders
  <1>13. Decodes(raw)
    BY <1>2, <1>3, <1>6, <1>7, <1>8, <1>9, <1>10, <1>11, <1>12 DEF Decodes
  <1> QED BY <1>13 DEF raw

LEMMA ReviewDecodes ==
  ASSUME NEW v \in ReviewState, LowerSha(v.openedCommitSha) = v.openedCommitSha,
         \A i \in DOMAIN v.history : Lower[v.history[i].commitSha] = v.history[i].commitSha
  PROVE  DecodeReview(EncodeReview(v)) = v
  <1> DEFINE w == EncodeReview(v)
             lowered == [i \in DOMAIN w.history |->
                            [w.history[i] EXCEPT !.commitSha = Lower[@]]]
  <1>1. /\ w.history = v.history
        /\ Optional(w, "resumeStage") = v.resumeStage
        /\ Optional(w, "openedCommitSha") = v.openedCommitSha
    BY ReviewWritten DEF Optional
  <1>2. v.history \in Seq(ReviewTransition)
    BY DEF ReviewState
  <1>3. ASSUME NEW t \in ReviewTransition, Lower[t.commitSha] = t.commitSha
        PROVE  [t EXCEPT !.commitSha = Lower[@]] = t
    BY <1>3 DEF ReviewTransition
  <1>4. lowered = v.history
    <2>1. \A i \in DOMAIN v.history : v.history[i] \in ReviewTransition
      BY <1>2
    <2>2. v.history = [i \in DOMAIN v.history |-> v.history[i]]
      BY <1>2
    <2>3. \A i \in DOMAIN v.history : [v.history[i] EXCEPT !.commitSha = Lower[@]] = v.history[i]
      BY <1>3, <2>1
    <2>4. lowered = [i \in DOMAIN v.history |-> [v.history[i] EXCEPT !.commitSha = Lower[@]]]
      BY <1>1
    <2> QED BY <2>2, <2>3, <2>4
  <1>5. DecodeReview(w) = [resumeStage |-> Optional(w, "resumeStage"),
                           openedCommitSha |-> LowerSha(Optional(w, "openedCommitSha")),
                           history |-> lowered]
    BY DEF DecodeReview
  <1> HIDE DEF w, lowered
  <1>6. DecodeReview(w) = v
    BY <1>1, <1>4, <1>5 DEF ReviewState
  <1> QED BY <1>6 DEF w

\* What a store has written it can read again, and reads as it was: the round trip
\* a save makes of every state (SubmissionStateCodec.Clone) loses and changes
\* nothing, if the commits are in lower case, as every reader of commits returns them.
THEOREM CloneIsSame ==
  ASSUME NEW s \in SubmissionState, Distinct(s.completedActions)
  PROVE  Clones(s) /\ (InLowerCase(s) => Clone(s) = s)
  <1>1. Clones(s)
    BY StateReadsBack DEF Clones
  <1>2. ASSUME InLowerCase(s) PROVE Decode(Encode(s)) = s
    <2> DEFINE d == Decode(Encode(s))
    <2>1. DOMAIN d = Fields /\ DOMAIN s = Fields
      BY DEF Decode, SubmissionState, Fields
    <2>2. d["initialCommitSha"] = s["initialCommitSha"]
      BY <1>2, OptionalReadsBack DEF Decode, Fields, InLowerCase
    <2>3. d["reviewState"] = s["reviewState"]
      <3>1. d["reviewState"] = DecodeReview(Encode(s)["reviewState"])
        BY DEF Decode, Fields
      <3>2. Encode(s)["reviewState"] = EncodeReview(s.reviewState)
        BY Written
      <3>3. s.reviewState \in ReviewState
        BY DEF SubmissionState
      <3> QED BY <1>2, <3>1, <3>2, <3>3, ReviewDecodes DEF InLowerCase
    <2>4. \A f \in Fields \ {"initialCommitSha", "reviewState"} : d[f] = s[f]
      BY OptionalReadsBack DEF Decode
    <2>5. \A f \in Fields : d[f] = s[f]
      BY <2>2, <2>3, <2>4
    <2>6. d = [f \in Fields |-> d[f]] /\ s = [f \in Fields |-> s[f]]
      BY DEF Decode, SubmissionState, Fields
    <2> HIDE DEF d
    <2>7. d = s
      BY <2>5, <2>6
    <2> QED BY <2>7 DEF d
  <1> QED BY <1>1, <1>2 DEF Clone

\* Objects and arrays, as JSON.parse returns them.
IsRecord(v) == v = [f \in DOMAIN v |-> v[f]]
IsArray(v)  == IsRecord(v) /\ \E n \in Nat : DOMAIN v = 1..n

IsParsed(raw) ==
    /\ IsRecord(raw.repository) /\ IsRecord(raw.assignments)
    /\ IsArray(raw.completedActions) /\ IsArray(raw.reviewState.history)
    /\ IsArray(raw.reminderHistory)
    /\ \A i \in DOMAIN raw.reminderHistory : IsRecord(raw.reminderHistory[i])

LEMMA ArrayIsSeq ==
  ASSUME NEW v, IsArray(v), NEW S, \A i \in DOMAIN v : v[i] \in S
  PROVE  v \in Seq(S)
  <1>1. PICK n \in Nat : DOMAIN v = 1..n
    BY DEF IsArray
  <1>2. v = [i \in 1..n |-> v[i]]
    BY <1>1 DEF IsArray, IsRecord
  <1>3. v \in [1..n -> S]
    BY <1>1, <1>2
  <1> QED BY <1>3, SeqDef

LEMMA LowerIsStable ==
  ASSUME NEW sha \in Shas
  PROVE  /\ LowerSha(sha) \in Shas /\ LowerSha(LowerSha(sha)) = LowerSha(sha)
         /\ LowerSha(sha) = Lower[sha]
  <1>1. None \notin Shas /\ Lower[sha] \in Shas /\ Lower[Lower[sha]] = Lower[sha]
    BY CodecAssumption
  <1> QED BY <1>1 DEF LowerSha

LEMMA ReviewIsRead ==
  ASSUME NEW v, ReadReview(v), IsArray(v.history)
  PROVE  LET review == DecodeReview(v) IN
         /\ review \in ReviewState
         /\ LowerSha(review.openedCommitSha) = review.openedCommitSha
         /\ \A i \in DOMAIN review.history :
                Lower[review.history[i].commitSha] = review.history[i].commitSha
  <1> DEFINE lowered == [i \in DOMAIN v.history |->
                            [v.history[i] EXCEPT !.commitSha = Lower[@]]]
             resume == Optional(v, "resumeStage")
             opened == LowerSha(Optional(v, "openedCommitSha"))
  <1>1. ASSUME NEW t, ReadTransition(t)
        PROVE  LET u == [t EXCEPT !.commitSha = Lower[@]] IN
               u \in ReviewTransition /\ Lower[u.commitSha] = u.commitSha
    <2> DEFINE u == [t EXCEPT !.commitSha = Lower[@]]
    <2>1. /\ DOMAIN t = {"eventId", "action", "fromStage", "toStage", "githubActor",
                         "commitSha", "recordedAt"}
          /\ t.eventId \in Texts /\ t.action \in ReviewAction /\ t.fromStage \in SubmissionStage
          /\ t.toStage \in SubmissionStage /\ t.githubActor \in Texts /\ t.commitSha \in Shas
          /\ t.recordedAt \in Dates
      BY <1>1 DEF ReadTransition, IsObject, ReadString, ReadStage, ReadSha
    <2>2. Lower[t.commitSha] \in Shas /\ Lower[Lower[t.commitSha]] = Lower[t.commitSha]
      BY <2>1, CodecAssumption
    <2>3. u = [eventId |-> t.eventId, action |-> t.action, fromStage |-> t.fromStage,
               toStage |-> t.toStage, githubActor |-> t.githubActor,
               commitSha |-> Lower[t.commitSha], recordedAt |-> t.recordedAt]
      BY <2>1
    <2> HIDE DEF u
    <2>4. u \in ReviewTransition /\ Lower[u.commitSha] = u.commitSha
      BY <2>1, <2>2, <2>3 DEF ReviewTransition
    <2> QED BY <2>4 DEF u
  <1>2. \A i \in DOMAIN v.history : ReadTransition(v.history[i])
    BY DEF ReadReview
  <1>3. /\ DOMAIN lowered = DOMAIN v.history
        /\ \A i \in DOMAIN lowered : /\ lowered[i] \in ReviewTransition
                                     /\ Lower[lowered[i].commitSha] = lowered[i].commitSha
    BY <1>1, <1>2
  <1>4. IsArray(lowered)
    BY DEF IsArray, IsRecord
  <1> HIDE DEF lowered
  <1>5. lowered \in Seq(ReviewTransition)
    BY <1>3, <1>4, ArrayIsSeq
  <1>6. resume \in {TechnicalReview, ContentReview, None}
    BY DEF ReadReview, ReadResume, Optional
  <1>7. opened \in Shas \cup {None} /\ LowerSha(opened) = opened
    <2>1. CASE "openedCommitSha" \in DOMAIN v
      BY <2>1, LowerIsStable DEF ReadReview, ReadSha, Optional
    <2>2. CASE "openedCommitSha" \notin DOMAIN v
      BY <2>2 DEF Optional, LowerSha
    <2> QED BY <2>1, <2>2
  <1> HIDE DEF resume, opened
  <1>8. DecodeReview(v) = [resumeStage |-> resume, openedCommitSha |-> opened, history |-> lowered]
    BY DEF DecodeReview, resume, opened, lowered
  <1> QED BY <1>3, <1>5, <1>6, <1>7, <1>8 DEF ReviewState

LEMMA DecodedFields ==
  ASSUME NEW raw, Decodes(raw), IsParsed(raw)
  PROVE  LET s == Decode(raw) IN
         /\ s.submissionId \in Ids /\ s.azureDevOpsId \in Numbers \cup {None}
         /\ s.githubUserId \in Numbers \cup {None} /\ s.repository \in RepositoryTarget
         /\ s.branchName \in Texts \cup {None} /\ s.initialCommitSha \in Shas \cup {None}
         /\ LowerSha(s.initialCommitSha) = s.initialCommitSha
         /\ s.articlePath \in Texts /\ s.pullRequestNumber \in Numbers \cup {None}
         /\ s.currentStage \in SubmissionStage /\ s.assignments \in ReviewAssignments
         /\ s.completedActions \in Seq(Texts) /\ Distinct(s.completedActions)
         /\ s.reminderHistory \in Seq(ReminderRecord) /\ s.revision \in Nat
         /\ s.reviewState = DecodeReview(raw.reviewState)
  <1> DEFINE s == Decode(raw)
  <1>1. /\ s["reviewState"] = DecodeReview(raw["reviewState"])
        /\ s["initialCommitSha"] = LowerSha(Optional(raw, "initialCommitSha"))
        /\ \A f \in Fields \ {"reviewState", "initialCommitSha"} : s[f] = Optional(raw, f)
    BY DEF Decode, Fields
  <1> HIDE DEF s
  <1>2. \A f \in Fields \ (OptionalFields \cup {"reviewState"}) : s[f] = raw[f]
    BY <1>1 DEF Decodes, IsObject, Optional, OptionalFields
  <1>3. /\ s.submissionId \in Ids /\ s.articlePath \in Texts
        /\ s.currentStage \in SubmissionStage /\ s.revision \in Nat
    BY <1>2 DEF Decodes, Fields, OptionalFields, ReadId, ReadString, ReadStage, ReadRevision
  <1>4. /\ s.azureDevOpsId \in Numbers \cup {None} /\ s.githubUserId \in Numbers \cup {None}
        /\ s.pullRequestNumber \in Numbers \cup {None} /\ s.branchName \in Texts \cup {None}
    BY <1>1 DEF Decodes, Fields, Optional, ReadNumber, ReadString
  <1>5. s.initialCommitSha \in Shas \cup {None} /\ LowerSha(s.initialCommitSha) = s.initialCommitSha
    <2>1. CASE "initialCommitSha" \in DOMAIN raw
      BY <1>1, <2>1, LowerIsStable DEF Decodes, ReadSha, Optional
    <2>2. CASE "initialCommitSha" \notin DOMAIN raw
      BY <1>1, <2>2 DEF Optional, LowerSha
    <2> QED BY <2>1, <2>2
  <1>6. s.repository \in RepositoryTarget
    <2> DEFINE v == raw.repository
    <2>1. ReadRepository(v) /\ IsRecord(v) /\ s.repository = v
      BY <1>2 DEF Decodes, IsParsed, Fields, OptionalFields
    <2> HIDE DEF v
    <2>2. DOMAIN v = {"owner", "name"} /\ v.owner \in Texts /\ v.name \in Texts
      BY <2>1 DEF ReadRepository, IsObject, ReadString
    <2>3. v = [owner |-> v.owner, name |-> v.name]
      BY <2>1, <2>2 DEF IsRecord
    <2> QED BY <2>1, <2>2, <2>3 DEF RepositoryTarget
  <1>7. s.assignments \in ReviewAssignments
    <2> DEFINE v == raw.assignments
    <2>1. ReadAssignments(v) /\ IsRecord(v) /\ s.assignments = v
      BY <1>2 DEF Decodes, IsParsed, Fields, OptionalFields
    <2> HIDE DEF v
    <2>2. DOMAIN v = Roles /\ \A role \in Roles : v[role] \in Emails
      BY <2>1 DEF ReadAssignments, IsObject, ReadMicrosoftEmail
    <2> QED BY <2>1, <2>2 DEF IsRecord, ReviewAssignments
  <1>8. s.completedActions \in Seq(Texts) /\ Distinct(s.completedActions)
    <2>1. /\ ReadActions(raw.completedActions) /\ IsArray(raw.completedActions)
          /\ s.completedActions = raw.completedActions
      BY <1>2 DEF Decodes, IsParsed, Fields, OptionalFields
    <2> QED BY <2>1, ArrayIsSeq DEF ReadActions, ReadString, Distinct
  <1>9. s.reminderHistory \in Seq(ReminderRecord)
    <2> DEFINE v == raw.reminderHistory
    <2>1. /\ ReadReminders(v) /\ IsArray(v) /\ \A i \in DOMAIN v : IsRecord(v[i])
          /\ s.reminderHistory = v
      BY <1>2 DEF Decodes, IsParsed, Fields, OptionalFields
    <2> HIDE DEF v
    <2>2. ASSUME NEW i \in DOMAIN v PROVE v[i] \in ReminderRecord
      <3>1. /\ DOMAIN v[i] = {"reminderKey", "recordedAt"} /\ IsRecord(v[i])
            /\ v[i].reminderKey \in Texts /\ v[i].recordedAt \in Dates
        BY <2>1 DEF ReadReminders, IsObject, ReadString
      <3>2. v[i] = [reminderKey |-> v[i].reminderKey, recordedAt |-> v[i].recordedAt]
        BY <3>1 DEF IsRecord
      <3> QED BY <3>1, <3>2 DEF ReminderRecord
    <2> QED BY <2>1, <2>2, ArrayIsSeq
  <1> QED BY <1>1, <1>3, <1>4, <1>5, <1>6, <1>7, <1>8, <1>9 DEF s

\* What the codec accepts is a complete state with distinct actions, and reading it
\* settles the spelling of every commit: saved and read again it is the same
\* (SubmissionStateCodec.Decode and Clone), whoever wrote the document.
THEOREM ReadIsStable ==
  ASSUME NEW raw, Decodes(raw), IsParsed(raw)
  PROVE  Decode(raw) \in SubmissionState /\ Clones(Decode(raw)) /\ Clone(Decode(raw)) = Decode(raw)
  <1> DEFINE s == Decode(raw)
  <1>1. DOMAIN s = Fields /\ s = [f \in Fields |-> s[f]]
    BY DEF Decode
  <1>2. /\ s.reviewState \in ReviewState
        /\ LowerSha(s.reviewState.openedCommitSha) = s.reviewState.openedCommitSha
        /\ \A i \in DOMAIN s.reviewState.history :
               Lower[s.reviewState.history[i].commitSha] = s.reviewState.history[i].commitSha
    <2> DEFINE v == raw.reviewState  review == DecodeReview(v)
    <2>1. s.reviewState = review
      BY DecodedFields
    <2>2. ReadReview(v) /\ IsArray(v.history)
      BY DEF Decodes, IsParsed
    <2> HIDE DEF v, s
    <2>3. /\ review \in ReviewState
          /\ LowerSha(review.openedCommitSha) = review.openedCommitSha
          /\ \A i \in DOMAIN review.history :
                 Lower[review.history[i].commitSha] = review.history[i].commitSha
      BY <2>2, ReviewIsRead
    <2> HIDE DEF review
    <2> QED BY <2>1, <2>3
  <1>3. /\ s.submissionId \in Ids /\ s.azureDevOpsId \in Numbers \cup {None}
        /\ s.githubUserId \in Numbers \cup {None} /\ s.repository \in RepositoryTarget
        /\ s.branchName \in Texts \cup {None} /\ s.initialCommitSha \in Shas \cup {None}
        /\ LowerSha(s.initialCommitSha) = s.initialCommitSha
        /\ s.articlePath \in Texts /\ s.pullRequestNumber \in Numbers \cup {None}
        /\ s.currentStage \in SubmissionStage /\ s.assignments \in ReviewAssignments
        /\ s.completedActions \in Seq(Texts) /\ Distinct(s.completedActions)
        /\ s.reminderHistory \in Seq(ReminderRecord) /\ s.revision \in Nat
    BY DecodedFields
  <1> HIDE DEF s
  <1>4. s = [submissionId |-> s.submissionId, azureDevOpsId |-> s.azureDevOpsId,
             githubUserId |-> s.githubUserId, repository |-> s.repository,
             branchName |-> s.branchName, initialCommitSha |-> s.initialCommitSha,
             articlePath |-> s.articlePath, pullRequestNumber |-> s.pullRequestNumber,
             currentStage |-> s.currentStage, reviewState |-> s.reviewState,
             assignments |-> s.assignments, completedActions |-> s.completedActions,
             reminderHistory |-> s.reminderHistory, revision |-> s.revision]
    BY <1>1 DEF Fields
  <1>5. s \in SubmissionState
    BY <1>2, <1>3, <1>4 DEF SubmissionState
  <1>6. InLowerCase(s)
    BY <1>2, <1>3 DEF InLowerCase
  <1>7. Clones(s) /\ Clone(s) = s
    BY <1>3, <1>5, <1>6, CloneIsSame
  <1> QED BY <1>5, <1>7 DEF s

-----------------------------------------------------------------------------
(* The documents.  The documents are a parameter of what is said of them, so  *)
(* that it can be said of those before and after a step.                    *)

\* What submission i can have become: what intake was told stays as it was.
States(i) ==
    {s \in SubmissionState :
        /\ s.submissionId = i /\ s.azureDevOpsId = Submissions[i].item
        /\ s.githubUserId \in {None, Submissions[i].user}
        /\ s.repository = Submissions[i].repository
        /\ s.articlePath = Submissions[i].article
        /\ s.initialCommitSha = None
        /\ s.pullRequestNumber \in Pulls \cup {None}
        /\ s.pullRequestNumber = None => s.currentStage = Planned
        /\ s.reviewState.history = <<>>
        /\ LowerSha(s.reviewState.openedCommitSha) = s.reviewState.openedCommitSha
        /\ s.completedActions = <<"ado:create-user-story">>}

StateIn(d, i) == Decode(d[i])

DocsInv(d) ==
    /\ DOMAIN d \subseteq Known
    /\ \A i \in DOMAIN d : StateIn(d, i) \in States(i) /\ d[i] = Encode(StateIn(d, i))

\* What one save makes of a state.
Later(old, new) ==
    /\ new.revision = old.revision + 1
    /\ \A f \in {"azureDevOpsId", "githubUserId", "pullRequestNumber"} :
           old[f] # None => new[f] = old[f]
    /\ old.currentStage = ContentReview => new.currentStage = ContentReview

\* Documents d become e: each stays or is saved once more.
DocsStep(d, e) ==
    /\ DocsInv(d) /\ DocsInv(e)
    /\ DOMAIN d \subseteq DOMAIN e
    /\ \A i \in DOMAIN d :
           StateIn(e, i) = StateIn(d, i) \/ Later(StateIn(d, i), StateIn(e, i))

\* No submission gets a pull request.
NoPairing(d, e) ==
    \A i \in DOMAIN e :
        \/ StateIn(e, i).pullRequestNumber = None
        \/ /\ i \in DOMAIN d
           /\ StateIn(e, i).pullRequestNumber = StateIn(d, i).pullRequestNumber

\* Of submission i, and of no other, the user, the pull request and the stage change.
Changes(d, e, i, user, pull, stage) ==
    /\ i \in DOMAIN d /\ DOMAIN e = DOMAIN d
    /\ \A j \in DOMAIN d : j # i => StateIn(e, j) = StateIn(d, j)
    /\ StateIn(e, i).githubUserId = user
    /\ StateIn(e, i).pullRequestNumber = pull
    /\ StateIn(e, i).currentStage = stage

LEMMA StatesRead ==
  ASSUME NEW i, NEW s \in States(i)
  PROVE  /\ Decodes(Encode(s)) /\ Decode(Encode(s)) = s
         /\ Encode(s).revision = s.revision /\ Encode(s).repository = s.repository
         /\ Encode(s).currentStage = s.currentStage
         /\ Optional(Encode(s), "pullRequestNumber") = s.pullRequestNumber
         /\ Optional(Encode(s), "githubUserId") = s.githubUserId
  <1>1. s \in SubmissionState /\ Distinct(s.completedActions)
    BY DEF States, Distinct
  <1>2. InLowerCase(s)
    BY DEF States, InLowerCase, LowerSha
  <1>3. Decodes(Encode(s)) /\ Decode(Encode(s)) = s
    BY <1>1, <1>2, CloneIsSame DEF Clones, Clone
  <1>4. /\ Encode(s).revision = s.revision /\ Encode(s).repository = s.repository
        /\ Encode(s).currentStage = s.currentStage
    BY <1>1, Written DEF Fields, OptionalFields
  <1>5. /\ Optional(Encode(s), "pullRequestNumber") = s.pullRequestNumber
        /\ Optional(Encode(s), "githubUserId") = s.githubUserId
    BY <1>1, OptionalReadsBack DEF Fields
  <1> QED BY <1>3, <1>4, <1>5

\* What the module's readers see of a stored document.
LEMMA DocumentsRead ==
  ASSUME NEW d, DocsInv(d), NEW i \in DOMAIN d
  PROVE  /\ i \in Known /\ Decodes(d[i]) /\ StateIn(d, i) \in States(i)
         /\ StateIn(d, i).submissionId = i
         /\ d[i].revision = StateIn(d, i).revision
         /\ d[i].repository = StateIn(d, i).repository
         /\ d[i].currentStage = StateIn(d, i).currentStage
         /\ Optional(d[i], "pullRequestNumber") = StateIn(d, i).pullRequestNumber
         /\ Optional(d[i], "githubUserId") = StateIn(d, i).githubUserId
         /\ StateIn(d, i).revision \in Nat
         /\ StateIn(d, i).repository = Submissions[i].repository
         /\ StateIn(d, i).articlePath = Submissions[i].article
  <1>1. i \in Known /\ StateIn(d, i) \in States(i) /\ d[i] = Encode(StateIn(d, i))
    BY DEF DocsInv
  <1>2. StateIn(d, i).revision \in Nat /\ StateIn(d, i).submissionId = i
    BY <1>1 DEF States, SubmissionState
  <1>3. /\ StateIn(d, i).repository = Submissions[i].repository
        /\ StateIn(d, i).articlePath = Submissions[i].article
    BY <1>1 DEF States
  <1> QED BY <1>1, <1>2, <1>3, StatesRead

LEMMA NewStateFits ==
  ASSUME NEW i \in Known
  PROVE  NewState(i) \in States(i)
  <1> DEFINE review == [resumeStage |-> None, openedCommitSha |-> None, history |-> <<>>]
             assigned == [role \in Roles |-> Assignee]
  <1>1. review \in ReviewState
    BY DEF ReviewState
  <1>2. assigned \in ReviewAssignments
    BY CorrelationAssumption DEF ReviewAssignments
  <1>3. /\ i \in Ids /\ Submissions[i].repository \in RepositoryTarget
        /\ Submissions[i].article \in Texts /\ Submissions[i].item \in Numbers
        /\ "ado:create-user-story" \in Texts
    BY CorrelationAssumption DEF Known
  <1>4. <<"ado:create-user-story">> \in Seq(Texts) /\ <<>> \in Seq(ReminderRecord)
    BY <1>3
  <1>5. Planned \in SubmissionStage
    BY DEF SubmissionStage
  <1>6. review.history = <<>> /\ LowerSha(review.openedCommitSha) = review.openedCommitSha
    BY DEF LowerSha
  <1> HIDE DEF review, assigned
  <1>7. NewState(i) = [submissionId |-> i, azureDevOpsId |-> Submissions[i].item,
     githubUserId |-> None, repository |-> Submissions[i].repository,
     branchName |-> None, initialCommitSha |-> None,
     articlePath |-> Submissions[i].article, pullRequestNumber |-> None,
     currentStage |-> Planned, reviewState |-> review, assignments |-> assigned,
     completedActions |-> <<"ado:create-user-story">>,
     reminderHistory |-> <<>>, revision |-> 1]
    BY DEF NewState, review, assigned
  <1>8. NewState(i) \in SubmissionState
    BY <1>1, <1>2, <1>3, <1>4, <1>5, <1>7 DEF SubmissionState
  <1> QED BY <1>6, <1>7, <1>8 DEF States

LEMMA SavedFits ==
  ASSUME NEW i, NEW s \in States(i)
  PROVE  LET t == [s EXCEPT !.revision = @ + 1] IN
         /\ t \in States(i) /\ t.revision = s.revision + 1
         /\ t.pullRequestNumber = s.pullRequestNumber /\ t.githubUserId = s.githubUserId
         /\ t.currentStage = s.currentStage
  <1> DEFINE t == [s EXCEPT !.revision = @ + 1]
  <1>1. t \in SubmissionState /\ t.revision = s.revision + 1
    BY DEF States, SubmissionState
  <1>2. /\ t.submissionId = s.submissionId /\ t.azureDevOpsId = s.azureDevOpsId
        /\ t.githubUserId = s.githubUserId /\ t.repository = s.repository
        /\ t.articlePath = s.articlePath /\ t.initialCommitSha = s.initialCommitSha
        /\ t.pullRequestNumber = s.pullRequestNumber /\ t.currentStage = s.currentStage
        /\ t.reviewState = s.reviewState /\ t.completedActions = s.completedActions
    BY DEF States, SubmissionState
  <1> HIDE DEF t
  <1>3. t \in States(i)
    BY <1>1, <1>2 DEF States
  <1> QED BY <1>1, <1>2, <1>3 DEF t

LEMMA IdentifiedFits ==
  ASSUME NEW i \in Known, NEW s \in States(i)
  PROVE  LET t == [s EXCEPT !.githubUserId = Submissions[i].user] IN
         /\ t \in States(i) /\ t.revision = s.revision /\ t.githubUserId = Submissions[i].user
         /\ t.pullRequestNumber = s.pullRequestNumber /\ t.currentStage = s.currentStage
  <1> DEFINE t == [s EXCEPT !.githubUserId = Submissions[i].user]
  <1>1. t \in SubmissionState /\ t.githubUserId = Submissions[i].user
    BY CorrelationAssumption DEF States, SubmissionState, Known
  <1>2. /\ t.submissionId = s.submissionId /\ t.azureDevOpsId = s.azureDevOpsId
        /\ t.revision = s.revision /\ t.repository = s.repository
        /\ t.articlePath = s.articlePath /\ t.initialCommitSha = s.initialCommitSha
        /\ t.pullRequestNumber = s.pullRequestNumber /\ t.currentStage = s.currentStage
        /\ t.reviewState = s.reviewState /\ t.completedActions = s.completedActions
    BY DEF States, SubmissionState
  <1> HIDE DEF t
  <1>3. t \in States(i)
    BY <1>1, <1>2 DEF States
  <1> QED BY <1>1, <1>2, <1>3 DEF t

LEMMA AdvancedFits ==
  ASSUME NEW i, NEW s \in States(i), s.pullRequestNumber # None
  PROVE  LET t == [s EXCEPT !.currentStage = ContentReview] IN
         /\ t \in States(i) /\ t.revision = s.revision
         /\ t.pullRequestNumber = s.pullRequestNumber /\ t.githubUserId = s.githubUserId
         /\ t.currentStage = ContentReview
  <1> DEFINE t == [s EXCEPT !.currentStage = ContentReview]
  <1>1. t \in SubmissionState /\ t.currentStage = ContentReview
    BY DEF States, SubmissionState, SubmissionStage
  <1>2. /\ t.submissionId = s.submissionId /\ t.azureDevOpsId = s.azureDevOpsId
        /\ t.revision = s.revision /\ t.repository = s.repository
        /\ t.articlePath = s.articlePath /\ t.initialCommitSha = s.initialCommitSha
        /\ t.pullRequestNumber = s.pullRequestNumber /\ t.githubUserId = s.githubUserId
        /\ t.reviewState = s.reviewState /\ t.completedActions = s.completedActions
    BY DEF States, SubmissionState
  <1> HIDE DEF t
  <1>3. t \in States(i)
    BY <1>1, <1>2 DEF States
  <1> QED BY <1>1, <1>2, <1>3 DEF t

LEMMA MatchedFits ==
  ASSUME NEW i, NEW s \in States(i), NEW p \in Pulls,
         NEW head \in Shas, Lower[head] = head
  PROVE  LET t == Matched(s, p, head) IN
         /\ t \in States(i) /\ t.revision = s.revision
         /\ t.pullRequestNumber = p /\ t.githubUserId = s.githubUserId
         /\ t.currentStage = TechnicalReview
  <1> DEFINE t == Matched(s, p, head)
             review == [s.reviewState EXCEPT !.openedCommitSha = head]
  <1>1. s.reviewState \in ReviewState /\ s \in SubmissionState /\ p \in Numbers
    BY CorrelationAssumption DEF States, SubmissionState
  <1>2. review \in ReviewState /\ review.openedCommitSha = head
        /\ review.history = s.reviewState.history
    BY <1>1 DEF ReviewState
  <1>3. t = [s EXCEPT !.pullRequestNumber = p, !.currentStage = TechnicalReview,
                      !.reviewState = review]
    BY <1>1 DEF Matched, SubmissionState
  <1> HIDE DEF review, t
  <1>4. t \in SubmissionState
    BY <1>1, <1>2, <1>3 DEF SubmissionState, SubmissionStage
  <1>5. /\ t.submissionId = s.submissionId /\ t.azureDevOpsId = s.azureDevOpsId
        /\ t.revision = s.revision /\ t.repository = s.repository
        /\ t.articlePath = s.articlePath /\ t.initialCommitSha = s.initialCommitSha
        /\ t.pullRequestNumber = p /\ t.githubUserId = s.githubUserId
        /\ t.currentStage = TechnicalReview
        /\ t.reviewState = review /\ t.completedActions = s.completedActions
    BY <1>1, <1>3 DEF SubmissionState
  <1>6. LowerSha(head) = head /\ p # None
    BY <1>1, CodecAssumption DEF LowerSha
  <1>7. t \in States(i)
    BY <1>2, <1>4, <1>5, <1>6 DEF States
  <1> QED BY <1>5, <1>7 DEF t

LEMMA Rewritten ==
  ASSUME NEW d, DocsInv(d), NEW i \in DOMAIN d, NEW t \in States(i), Later(StateIn(d, i), t),
         NEW e, DOMAIN e = DOMAIN d, e[i] = Encode(t),
         \A j \in DOMAIN d : j # i => e[j] = d[j]
  PROVE  /\ DocsStep(d, e)
         /\ StateIn(e, i) = t
         /\ \A j \in DOMAIN d : j # i => StateIn(e, j) = StateIn(d, j)
  <1>1. StateIn(e, i) = t
    BY StatesRead DEF StateIn
  <1>2. \A j \in DOMAIN d : j # i => StateIn(e, j) = StateIn(d, j)
    BY DEF StateIn
  <1>3. DocsInv(e)
    BY <1>1, <1>2 DEF DocsInv
  <1> QED BY <1>1, <1>2, <1>3 DEF DocsStep

LEMMA DocsStay ==
  ASSUME NEW d, DocsInv(d)
  PROVE  DocsStep(d, d) /\ NoPairing(d, d)
  BY DEF DocsStep, NoPairing

LEMMA IntakeCreatesKeeps ==
  ASSUME DocsInv(docs), NEW i \in Known, IntakeCreates(i)
  PROVE  DocsStep(docs, docs') /\ NoPairing(docs, docs')
  <1> DEFINE e == docs'
  <1>1. /\ i \notin DOMAIN docs /\ DOMAIN e = DOMAIN docs \cup {i}
        /\ e[i] = Encode(NewState(i)) /\ \A j \in DOMAIN docs : e[j] = docs[j]
    BY DEF IntakeCreates, Stored
  <1> HIDE DEF e
  <1>2. StateIn(e, i) = NewState(i) /\ NewState(i) \in States(i)
    BY <1>1, NewStateFits, StatesRead DEF StateIn
  <1>3. \A j \in DOMAIN docs : StateIn(e, j) = StateIn(docs, j)
    BY <1>1 DEF StateIn
  <1>4. DocsInv(e)
    BY <1>1, <1>2, <1>3 DEF DocsInv
  <1>5. StateIn(e, i).pullRequestNumber = None
    BY <1>2 DEF NewState
  <1>6. DocsStep(docs, e) /\ NoPairing(docs, e)
    BY <1>1, <1>3, <1>4, <1>5 DEF DocsStep, NoPairing
  <1> QED BY <1>6 DEF e

LEMMA IntakeIdentifiesKeeps ==
  ASSUME DocsInv(docs), NEW i \in Known, IntakeIdentifies(i)
  PROVE  /\ DocsStep(docs, docs') /\ NoPairing(docs, docs')
         /\ StateIn(docs, i).githubUserId = None
         /\ Changes(docs, docs', i, Submissions[i].user, StateIn(docs, i).pullRequestNumber,
                    StateIn(docs, i).currentStage)
  <1> DEFINE s == StateIn(docs, i)
             t == [s EXCEPT !.githubUserId = Submissions[i].user]
             u == [t EXCEPT !.revision = @ + 1]
  <1>1. /\ i \in DOMAIN docs /\ s.githubUserId = None
        /\ docs' = [docs EXCEPT ![i] = Encode(u)]
    BY DEF IntakeIdentifies, Stored, Rewrite, StateIn
  <1>2. s \in States(i)
    BY <1>1 DEF DocsInv
  <1> HIDE DEF s
  <1>3. /\ t \in States(i) /\ t.revision = s.revision /\ t.githubUserId = Submissions[i].user
        /\ t.pullRequestNumber = s.pullRequestNumber /\ t.currentStage = s.currentStage
    BY <1>2, IdentifiedFits
  <1> HIDE DEF t
  <1>4. /\ u \in States(i) /\ u.revision = t.revision + 1 /\ u.githubUserId = t.githubUserId
        /\ u.pullRequestNumber = t.pullRequestNumber /\ u.currentStage = t.currentStage
    BY <1>3, SavedFits
  <1> HIDE DEF u
  <1>5. Later(s, u)
    BY <1>1, <1>2, <1>3, <1>4 DEF Later, States
  <1>6. /\ DocsStep(docs, docs') /\ DOMAIN docs' = DOMAIN docs /\ StateIn(docs', i) = u
        /\ \A j \in DOMAIN docs : j # i => StateIn(docs', j) = StateIn(docs, j)
    <2>1. Later(StateIn(docs, i), u)
      BY <1>5 DEF s
    <2> DEFINE e == docs'
    <2>2. DOMAIN e = DOMAIN docs /\ e[i] = Encode(u) /\ \A j \in DOMAIN docs : j # i => e[j] = docs[j]
      BY <1>1
    <2> HIDE DEF e
    <2>3. /\ DocsStep(docs, e) /\ StateIn(e, i) = u
          /\ \A j \in DOMAIN docs : j # i => StateIn(e, j) = StateIn(docs, j)
      BY <1>1, <1>4, <2>1, <2>2, Rewritten
    <2> QED BY <2>2, <2>3 DEF e
  <1>7. u.pullRequestNumber = StateIn(docs, i).pullRequestNumber
    BY <1>3, <1>4 DEF s
  <1>8. /\ StateIn(docs, i).githubUserId = None
        /\ Changes(docs, docs', i, Submissions[i].user, StateIn(docs, i).pullRequestNumber,
                   StateIn(docs, i).currentStage)
    BY <1>1, <1>3, <1>4, <1>6 DEF Changes, s
  <1> QED BY <1>1, <1>6, <1>7, <1>8 DEF NoPairing

LEMMA ReviewAdvancesKeeps ==
  ASSUME DocsInv(docs), NEW i \in Known, ReviewAdvances(i)
  PROVE  /\ DocsStep(docs, docs') /\ NoPairing(docs, docs')
         /\ StateIn(docs, i).pullRequestNumber # None
         /\ StateIn(docs, i).currentStage = TechnicalReview
         /\ Changes(docs, docs', i, StateIn(docs, i).githubUserId,
                    StateIn(docs, i).pullRequestNumber, ContentReview)
  <1> DEFINE s == StateIn(docs, i)
             t == [s EXCEPT !.currentStage = ContentReview]
             u == [t EXCEPT !.revision = @ + 1]
  <1>1. /\ i \in DOMAIN docs /\ s.pullRequestNumber # None
        /\ s.currentStage = TechnicalReview
        /\ docs' = [docs EXCEPT ![i] = Encode(u)]
    BY DEF ReviewAdvances, Stored, Rewrite, StateIn
  <1>2. s \in States(i)
    BY <1>1 DEF DocsInv
  <1> HIDE DEF s
  <1>3. /\ t \in States(i) /\ t.revision = s.revision
        /\ t.pullRequestNumber = s.pullRequestNumber /\ t.githubUserId = s.githubUserId
        /\ t.currentStage = ContentReview
    BY <1>1, <1>2, AdvancedFits
  <1> HIDE DEF t
  <1>4. /\ u \in States(i) /\ u.revision = t.revision + 1
        /\ u.pullRequestNumber = t.pullRequestNumber /\ u.githubUserId = t.githubUserId
        /\ u.currentStage = t.currentStage
    BY <1>3, SavedFits
  <1> HIDE DEF u
  <1>5. Later(s, u)
    BY <1>1, <1>2, <1>3, <1>4 DEF Later, States
  <1>6. /\ DocsStep(docs, docs') /\ DOMAIN docs' = DOMAIN docs /\ StateIn(docs', i) = u
        /\ \A j \in DOMAIN docs : j # i => StateIn(docs', j) = StateIn(docs, j)
    <2>1. Later(StateIn(docs, i), u)
      BY <1>5 DEF s
    <2> DEFINE e == docs'
    <2>2. DOMAIN e = DOMAIN docs /\ e[i] = Encode(u) /\ \A j \in DOMAIN docs : j # i => e[j] = docs[j]
      BY <1>1
    <2> HIDE DEF e
    <2>3. /\ DocsStep(docs, e) /\ StateIn(e, i) = u
          /\ \A j \in DOMAIN docs : j # i => StateIn(e, j) = StateIn(docs, j)
      BY <1>1, <1>4, <2>1, <2>2, Rewritten
    <2> QED BY <2>2, <2>3 DEF e
  <1>7. u.pullRequestNumber = StateIn(docs, i).pullRequestNumber
    BY <1>3, <1>4 DEF s
  <1>8. /\ StateIn(docs, i).pullRequestNumber # None
        /\ StateIn(docs, i).currentStage = TechnicalReview
        /\ Changes(docs, docs', i, StateIn(docs, i).githubUserId,
                   StateIn(docs, i).pullRequestNumber, ContentReview)
    BY <1>1, <1>3, <1>4, <1>6 DEF Changes, s
  <1> QED BY <1>1, <1>6, <1>7, <1>8 DEF NoPairing

-----------------------------------------------------------------------------
(* The opened runs.                                                         *)

Runs ==
    [pc : {"fetch", "extract", "load", "list", "read", "save", "done"},
     ids : SUBSET Ids, head : Shas \cup {None}, changed : Seq(Texts), paths : Seq(Texts),
     unread : SUBSET (DOMAIN SortedIds), found : Seq(SubmissionState),
     outcome : Outcomes \cup {None}]

\* s is a match that run r of pull request p has read: of a stored document that
\* may have been saved since, on the evidence r has.
MatchInv(d, p, r, s) ==
    LET stored == StateIn(d, s.submissionId) IN
    /\ s.submissionId \in DOMAIN d /\ s \in States(s.submissionId)
    /\ s = stored \/ s.revision < stored.revision
    /\ s.repository = Target
    /\ \/ r.ids = {s.submissionId}
       \/ /\ r.ids = {} /\ s.githubUserId = Author[p]
          /\ \E k \in DOMAIN r.changed : r.changed[k] = s.articlePath

RunInv(d, p, r) ==
    /\ r \in Runs /\ IsFiniteSet(r.ids)
    /\ r.pc = "done" <=> r.outcome # None
    /\ r.pc \in {"fetch", "done"} => r.ids = {}
    /\ r.pc \in {"fetch", "extract", "done"} => r.found = <<>> /\ r.paths = <<>>
    /\ r.pc \notin {"fetch", "done"} => r.head \in Shas /\ Lower[r.head] = r.head
    /\ r.pc = "load" => \E i \in Ids : r.ids = {i}
    /\ r.pc \in {"list", "read"} => r.ids = {} /\ r.paths # <<>>
    /\ \A k \in DOMAIN r.paths : \E m \in DOMAIN r.changed : r.changed[m] = r.paths[k]
    /\ \A n \in r.unread : SortedIds[n] \in DOMAIN d
    /\ r.pc = "save" => Len(r.found) = 1
    /\ \A k \in DOMAIN r.found : MatchInv(d, p, r, r.found[k])

\* Submission i is stored and fits the evidence: the ids of the text and the files.
Fitting(d, i, p, ids, paths) ==
    /\ i \in DOMAIN d
    /\ IF ids = {}
       THEN \E k \in DOMAIN paths : Matches(StateIn(d, i), Author[p], paths[k])
       ELSE ids = {i} /\ StateIn(d, i).repository = Target

\* Run r is still to read submission i for its article's path.
ToRead(r, i) ==
    \/ \E k \in DOMAIN r.paths : k # 1 /\ r.paths[k] = Submissions[i].article
    \/ /\ r.paths[1] = Submissions[i].article
       /\ r.pc = "list" \/ \E n \in r.unread : SortedIds[n] = i

\* Of the submissions that fitted when the search began, none is passed over.
SearchInv(d, p, r, fitted) ==
    /\ r.pc \in {"load", "list", "read", "save"} =>
           \A i \in fitted : Fitting(d, i, p, r.ids, r.changed)
    /\ r.pc \in {"list", "read"} => \A i \in fitted : HasMatch(r.found, i) \/ ToRead(r, i)
    /\ r.pc = "save" => fitted \subseteq {r.found[1].submissionId}

\* As long as the evidence of p stays, whatever p is recorded at fits it, and is
\* among what a run has to find.
PairInv(d, p, r, fitted) ==
    /\ r.pc \notin {"fetch", "done"} => r.ids = Named[p]
    /\ r.pc \in {"load", "list", "read", "save"} /\ Named[p] = {} =>
           r.changed = FirstTip[p].paths
    /\ \A i \in DOMAIN d : StateIn(d, i).pullRequestNumber = p =>
           /\ Fitting(d, i, p, Named[p], FirstTip[p].paths)
           /\ r.pc \in {"load", "list", "read", "save"} => i \in fitted
    /\ \A i, j \in DOMAIN d :
           StateIn(d, i).pullRequestNumber = p /\ StateIn(d, j).pullRequestNumber = p => i = j

BaseInv ==
    /\ text \in [Pulls -> SUBSET Ids] /\ \A p \in Pulls : IsFiniteSet(text[p])
    /\ edited \subseteq Pulls /\ \A p \in Pulls \ edited : text[p] = Named[p]
    /\ tip \in [Pulls -> Tips] /\ pushed \subseteq Pulls
    /\ \A p \in Pulls \ pushed : tip[p] = FirstTip[p]
    /\ failures \in 0..MaxFailures /\ reruns \in 0..MaxReruns
    /\ run \in [Pulls -> Runs] /\ since \in [Pulls -> SUBSET Known]

Inv ==
    /\ BaseInv /\ DocsInv(docs)
    /\ \A p \in Pulls : RunInv(docs, p, run[p]) /\ SearchInv(docs, p, run[p], since[p])
    /\ \A p \in Pulls : EvidenceStays(p) => PairInv(docs, p, run[p], since[p])

\* What a later document keeps of a fact that a run relies on.
LEMMA FitsStay ==
  ASSUME NEW d, NEW e, DocsStep(d, e), NEW p, NEW ids, NEW paths, NEW i,
         Fitting(d, i, p, ids, paths), Author[p] # None
  PROVE  Fitting(e, i, p, ids, paths)
  <1>1. /\ i \in DOMAIN d /\ i \in DOMAIN e
        /\ StateIn(e, i) = StateIn(d, i) \/ Later(StateIn(d, i), StateIn(e, i))
    BY DEF DocsStep, Fitting
  <1>2. /\ StateIn(e, i).repository = StateIn(d, i).repository
        /\ StateIn(e, i).articlePath = StateIn(d, i).articlePath
    BY <1>1, DocumentsRead DEF DocsStep
  <1>3. StateIn(d, i).githubUserId = Author[p] => StateIn(e, i).githubUserId = Author[p]
    BY <1>1 DEF Later
  <1> QED BY <1>1, <1>2, <1>3 DEF Fitting, Matches

LEMMA MatchStays ==
  ASSUME NEW d, NEW e, DocsStep(d, e), NEW p, NEW r, NEW s, MatchInv(d, p, r, s)
  PROVE  MatchInv(e, p, r, s)
  <1> DEFINE i == s.submissionId
  <1>1. /\ i \in DOMAIN d /\ i \in DOMAIN e
        /\ StateIn(e, i) = StateIn(d, i) \/ StateIn(e, i).revision = StateIn(d, i).revision + 1
    BY DEF DocsStep, MatchInv, Later
  <1>2. s.revision \in Nat /\ StateIn(d, i).revision \in Nat
    BY <1>1, DocumentsRead DEF MatchInv, States, SubmissionState, DocsStep
  <1>3. s = StateIn(e, i) \/ s.revision < StateIn(e, i).revision
    BY <1>1, <1>2 DEF MatchInv
  <1> QED BY <1>1, <1>3 DEF MatchInv

LEMMA RunStays ==
  ASSUME NEW d, NEW e, DocsStep(d, e), NEW p, NEW r, NEW fitted, Author[p] # None,
         RunInv(d, p, r), SearchInv(d, p, r, fitted)
  PROVE  RunInv(e, p, r) /\ SearchInv(e, p, r, fitted)
  <1>1. \A k \in DOMAIN r.found : MatchInv(e, p, r, r.found[k])
    BY MatchStays DEF RunInv
  <1>2. DOMAIN d \subseteq DOMAIN e
    BY DEF DocsStep
  <1>3. RunInv(e, p, r)
    BY <1>1, <1>2 DEF RunInv
  <1>4. \A i \in fitted : Fitting(d, i, p, r.ids, r.changed) => Fitting(e, i, p, r.ids, r.changed)
    BY FitsStay
  <1> QED BY <1>3, <1>4 DEF SearchInv

LEMMA PairStays ==
  ASSUME NEW d, NEW e, DocsStep(d, e), NEW p, NEW r, NEW fitted, Author[p] # None,
         \A i \in DOMAIN e : StateIn(e, i).pullRequestNumber = p =>
             i \in DOMAIN d /\ StateIn(d, i).pullRequestNumber = p,
         PairInv(d, p, r, fitted)
  PROVE  PairInv(e, p, r, fitted)
  <1>1. \A i \in DOMAIN d : Fitting(d, i, p, Named[p], FirstTip[p].paths)
                                => Fitting(e, i, p, Named[p], FirstTip[p].paths)
    BY FitsStay
  <1> QED BY <1>1 DEF PairInv

-----------------------------------------------------------------------------
(* The steps of a run.                                                      *)

StepInv(p, r, fitted) ==
    /\ RunInv(docs, p, r) /\ SearchInv(docs, p, r, fitted)
    /\ EvidenceStays(p) => PairInv(docs, p, r, fitted)

LEMMA InvAt ==
  ASSUME Inv, NEW p \in Pulls
  PROVE  /\ StepInv(p, run[p], since[p]) /\ run[p] \in Runs /\ DocsInv(docs)
         /\ Author[p] # None /\ p # None /\ tip[p] \in Tips /\ tip[p].paths \in Seq(Texts)
         /\ text[p] \subseteq Ids /\ IsFiniteSet(text[p])
         /\ EvidenceStays(p) => text[p] = Named[p] /\ (Named[p] = {} => tip[p] = FirstTip[p])
         /\ since[p] \subseteq Known
  <1>1. Author[p] \in Numbers /\ p \in Numbers
    BY CorrelationAssumption
  <1>2. None \notin Numbers
    BY CodecAssumption
  <1>3. tip[p] \in Tips /\ tip[p].paths \in Seq(Texts)
    BY DEF Inv, BaseInv, Tips
  <1>4. EvidenceStays(p) => text[p] = Named[p] /\ (Named[p] = {} => tip[p] = FirstTip[p])
    BY DEF Inv, BaseInv, EvidenceStays
  <1> QED BY <1>1, <1>2, <1>3, <1>4 DEF Inv, BaseInv, StepInv

LEMMA IdleInv ==
  ASSUME NEW d, NEW p, NEW fitted
  PROVE  RunInv(d, p, Idle) /\ SearchInv(d, p, Idle, fitted) /\ Idle \in Runs
  <1>1. /\ Idle.pc = "fetch" /\ Idle.ids = {} /\ Idle.paths = <<>> /\ Idle.unread = {}
        /\ Idle.found = <<>> /\ Idle.outcome = None
    BY DEF Idle
  <1>2. Idle \in Runs
    BY DEF Idle, Runs
  <1>3. RunInv(d, p, Idle)
    BY <1>1, <1>2, FS_EmptySet DEF RunInv
  <1>4. SearchInv(d, p, Idle, fitted)
    BY <1>1 DEF SearchInv
  <1> QED BY <1>2, <1>3, <1>4

LEMMA EndedInv ==
  ASSUME NEW d, NEW p, NEW outcome \in Outcomes, NEW fitted
  PROVE  LET r == End(p, outcome) IN
         /\ RunInv(d, p, r) /\ SearchInv(d, p, r, fitted) /\ r.pc = "done"
  <1> DEFINE r == End(p, outcome)
  <1>1. /\ r.pc = "done" /\ r.ids = {} /\ r.head = None /\ r.changed = <<>> /\ r.paths = <<>> /\ r.unread = {}
        /\ r.found = <<>> /\ r.outcome = outcome
    BY DEF End, Idle
  <1>2. r \in Runs
    BY IdleInv DEF End, Runs
  <1>3. outcome # None /\ IsFiniteSet({})
    BY CorrelationAssumption, FS_EmptySet DEF Outcomes
  <1> HIDE DEF r
  <1>4. RunInv(d, p, r)
    BY <1>1, <1>2, <1>3 DEF RunInv
  <1>5. SearchInv(d, p, r, fitted)
    BY <1>1 DEF SearchInv
  <1> QED BY <1>1, <1>4, <1>5 DEF r

\* The pairing facts follow a run through a search.
LEMMA PairMoves ==
  ASSUME NEW d, NEW p, NEW r, NEW fitted, PairInv(d, p, r, fitted),
         NEW q, \/ q.pc \in {"fetch", "done"}
                \/ /\ r.pc \in {"load", "list", "read", "save"}
                   /\ q.ids = r.ids /\ q.changed = r.changed
  PROVE  PairInv(d, p, q, fitted)
  BY DEF PairInv

LEMMA FetchKeeps ==
  ASSUME Inv, NEW p \in Pulls, run[p].pc = "fetch"
  PROVE  StepInv(p, [run[p] EXCEPT !.pc = "extract", !.ids = text[p], !.head = tip[p].commit],
                 since[p])
  <1> DEFINE r == run[p]
             q == [r EXCEPT !.pc = "extract", !.ids = text[p], !.head = tip[p].commit]
  <1>1. /\ RunInv(docs, p, r) /\ r \in Runs /\ r.pc = "fetch"
        /\ EvidenceStays(p) => PairInv(docs, p, r, since[p]) /\ text[p] = Named[p]
        /\ tip[p] \in Tips /\ text[p] \subseteq Ids /\ IsFiniteSet(text[p])
    BY InvAt DEF StepInv
  <1>2. tip[p].commit \in Shas /\ Lower[tip[p].commit] = tip[p].commit
    BY <1>1 DEF Tips
  <1> HIDE DEF r
  <1>3. /\ q \in Runs /\ q.pc = "extract" /\ q.ids = text[p] /\ q.head = tip[p].commit
        /\ q.changed = r.changed /\ q.paths = r.paths /\ q.unread = r.unread /\ q.found = r.found
        /\ q.outcome = r.outcome
    BY <1>1, <1>2 DEF Runs
  <1> HIDE DEF q
  <1>4. RunInv(docs, p, q)
    BY <1>1, <1>2, <1>3 DEF RunInv
  <1>5. SearchInv(docs, p, q, since[p])
    BY <1>3 DEF SearchInv
  <1>6. EvidenceStays(p) => PairInv(docs, p, q, since[p])
    BY <1>1, <1>3 DEF PairInv
  <1>7. StepInv(p, q, since[p])
    BY <1>4, <1>5, <1>6 DEF StepInv
  <1> QED BY <1>7 DEF q, r

LEMMA FitsIsFitting ==
  ASSUME DocsInv(docs), NEW i, NEW p, NEW paths
  PROVE  Fits(i, p, paths) <=> Fitting(docs, i, p, run[p].ids, paths)
  BY DocumentsRead DEF Fits, Fitting, StateIn, Stored

LEMMA OneId ==
  ASSUME NEW ids, IsFiniteSet(ids), ids # {}, ~(Cardinality(ids) > 1)
  PROVE  \E i \in ids : ids = {i}
  <1>1. Cardinality(ids) \in Nat /\ Cardinality(ids) # 0
    BY FS_CardinalityType, FS_EmptySet
  <1>2. Cardinality(ids) = 1
    BY <1>1
  <1> QED BY <1>2, FS_Singleton

LEMMA DecideKeeps ==
  ASSUME Inv, NEW p \in Pulls, run[p].pc \notin {"fetch", "done"},
         NEW found \in Seq(SubmissionState),
         \A k \in DOMAIN found : MatchInv(docs, p, run[p], found[k]),
         NEW fitted, \A i \in fitted : Fitting(docs, i, p, run[p].ids, run[p].changed),
         Len(found) = 1 => fitted \subseteq {found[1].submissionId}
  PROVE  LET q == Decide(p, found) IN
         /\ RunInv(docs, p, q) /\ SearchInv(docs, p, q, fitted)
         /\ q.pc = "done" \/ (q.ids = run[p].ids /\ q.changed = run[p].changed)
  <1> DEFINE r == run[p]
             q == [r EXCEPT !.pc = "save", !.found = found, !.paths = <<>>, !.unread = {}]
  <1>1. found = <<>> \/ Len(found) > 1 => Decide(p, found) \in {End(p, "unmatched"), End(p, "ambiguous")}
    BY DEF Decide
  <1>2. CASE found = <<>> \/ Len(found) > 1
    BY <1>1, <1>2, EndedInv DEF Outcomes
  <1>3. CASE ~(found = <<>> \/ Len(found) > 1)
    <2>1. Len(found) = 1 /\ Decide(p, found) = q
      <3>1. Len(found) \in Nat /\ Len(found) # 0
        BY <1>3
      <3>2. ~(Len(found) > 1)
        BY <1>3
      <3>3. \A n \in Nat : n # 0 /\ ~(n > 1) => n = 1
        OBVIOUS
      <3>4. Len(found) = 1
        BY <3>1, <3>2, <3>3
      <3> QED BY <1>3, <3>4 DEF Decide
    <2>2. RunInv(docs, p, r) /\ r \in Runs /\ r.pc \notin {"fetch", "done"}
      BY InvAt DEF StepInv
    <2>3. \A k \in DOMAIN found : MatchInv(docs, p, r, found[k])
      OBVIOUS
    <2>4. \A i \in fitted : Fitting(docs, i, p, r.ids, r.changed)
      OBVIOUS
    <2> HIDE DEF r
    <2>5. /\ q \in Runs /\ q.pc = "save" /\ q.ids = r.ids /\ q.head = r.head
          /\ q.changed = r.changed /\ q.paths = <<>> /\ q.unread = {} /\ q.found = found /\ q.outcome = r.outcome
      <3>1. <<>> \in Seq(Texts)
        OBVIOUS
      <3> QED BY <2>2, <3>1 DEF Runs
    <2> HIDE DEF q
    <2>6. \A k \in DOMAIN found : MatchInv(docs, p, q, found[k])
      BY <2>3, <2>5 DEF MatchInv
    <2>7. RunInv(docs, p, q)
      BY <2>1, <2>2, <2>5, <2>6 DEF RunInv
    <2>8. SearchInv(docs, p, q, fitted)
      BY <2>1, <2>4, <2>5 DEF SearchInv
    <2> QED BY <2>1, <2>5, <2>7, <2>8 DEF r
  <1> QED BY <1>2, <1>3

LEMMA ExtractKeeps ==
  ASSUME Inv, NEW p \in Pulls, run[p].pc = "extract", NEW paths, paths = tip[p].paths
  PROVE  StepInv(p, IF Cardinality(run[p].ids) > 1 THEN End(p, "ambiguous")
                    ELSE IF run[p].ids # {} THEN [run[p] EXCEPT !.pc = "load", !.changed = paths]
                    ELSE IF paths = <<>> THEN Decide(p, <<>>)
                    ELSE [run[p] EXCEPT !.pc = "list", !.changed = paths, !.paths = paths],
                 {i \in Known : Fits(i, p, paths)})
  <1> DEFINE r == run[p]
             fitted == {i \in Known : Fits(i, p, paths)}
             loading == [r EXCEPT !.pc = "load", !.changed = paths]
             listing == [r EXCEPT !.pc = "list", !.changed = paths, !.paths = paths]
             q == IF Cardinality(r.ids) > 1 THEN End(p, "ambiguous")
                  ELSE IF r.ids # {} THEN loading
                  ELSE IF paths = <<>> THEN Decide(p, <<>>)
                  ELSE listing
  <1>1. /\ RunInv(docs, p, r) /\ r \in Runs /\ r.pc = "extract" /\ paths \in Seq(Texts)
        /\ EvidenceStays(p) => PairInv(docs, p, r, since[p])
        /\ EvidenceStays(p) => (Named[p] = {} => paths = FirstTip[p].paths)
        /\ DocsInv(docs)
    BY InvAt DEF StepInv
  <1>2. /\ \A i \in fitted : Fitting(docs, i, p, r.ids, paths)
        /\ \A i : Fitting(docs, i, p, r.ids, paths) => i \in fitted
    BY <1>1, FitsIsFitting, DocumentsRead DEF Fitting
  <1> HIDE DEF fitted
  <1>3. /\ RunInv(docs, p, q) /\ SearchInv(docs, p, q, fitted)
        /\ q.pc = "done" \/ (q.ids = r.ids /\ q.changed = paths)
    <2>1. CASE Cardinality(r.ids) > 1 \/ (r.ids = {} /\ paths = <<>>)
      <3>1. q = End(p, "ambiguous") \/ q = End(p, "unmatched")
        BY <2>1 DEF Decide
      <3>2. \A o \in Outcomes : LET end == End(p, o) IN
            RunInv(docs, p, end) /\ SearchInv(docs, p, end, fitted) /\ end.pc = "done"
        BY EndedInv
      <3> HIDE DEF q, r
      <3> QED BY <3>1, <3>2 DEF Outcomes
    <2>2. CASE ~(Cardinality(r.ids) > 1) /\ r.ids # {}
      <3>1. q = loading
        BY <2>2
      <3>2. \E i \in r.ids : r.ids = {i}
        BY <1>1, <2>2, OneId DEF RunInv
      <3> HIDE DEF q, r
      <3>3. /\ loading \in Runs /\ loading.pc = "load" /\ loading.ids = r.ids /\ loading.head = r.head
            /\ loading.changed = paths /\ loading.paths = r.paths /\ loading.unread = r.unread
            /\ loading.found = r.found /\ loading.outcome = r.outcome
        BY <1>1 DEF Runs
      <3> HIDE DEF loading
      <3>4. loading.found = <<>> /\ loading.paths = <<>>
        BY <1>1, <3>3 DEF RunInv
      <3>5. \E i \in Ids : loading.ids = {i}
        BY <1>1, <3>2, <3>3 DEF Runs
      <3>6. RunInv(docs, p, loading)
        BY <1>1, <3>3, <3>4, <3>5 DEF RunInv
      <3>7. SearchInv(docs, p, loading, fitted)
        BY <1>2, <3>3 DEF SearchInv
      <3> QED BY <3>1, <3>3, <3>6, <3>7
    <2>3. CASE r.ids = {} /\ paths # <<>> /\ ~(Cardinality(r.ids) > 1)
      <3>1. q = listing
        BY <2>3
      <3> HIDE DEF q, r
      <3>2. /\ listing \in Runs /\ listing.pc = "list" /\ listing.ids = r.ids /\ listing.head = r.head
            /\ listing.changed = paths /\ listing.paths = paths /\ listing.unread = r.unread
            /\ listing.found = r.found /\ listing.outcome = r.outcome
        BY <1>1 DEF Runs
      <3> HIDE DEF listing
      <3>3. listing.found = <<>>
        BY <1>1, <3>2 DEF RunInv
      <3>4. RunInv(docs, p, listing)
        BY <1>1, <2>3, <3>2, <3>3 DEF RunInv
      <3>5. ASSUME NEW i \in fitted PROVE ToRead(listing, i)
        <4>1. PICK k \in DOMAIN paths : Matches(StateIn(docs, i), Author[p], paths[k])
          BY <1>2, <2>3 DEF Fitting
        <4>2. paths[k] = Submissions[i].article
          BY <1>1, <1>2, <4>1, DocumentsRead DEF Matches, Fitting
        <4> QED BY <3>2, <4>2 DEF ToRead
      <3>6. SearchInv(docs, p, listing, fitted)
        BY <1>2, <3>2, <3>5 DEF SearchInv
      <3> QED BY <3>1, <3>2, <3>4, <3>6
    <2> QED BY <2>1, <2>2, <2>3
  <1> HIDE DEF q, r
  <1>4. ASSUME EvidenceStays(p) PROVE PairInv(docs, p, q, fitted)
    <2>1. PairInv(docs, p, r, since[p]) /\ r.ids = Named[p]
      BY <1>1, <1>4 DEF PairInv
    <2>2. ASSUME NEW i, Fitting(docs, i, p, Named[p], FirstTip[p].paths) PROVE i \in fitted
      BY <1>1, <1>2, <1>4, <2>1, <2>2 DEF Fitting
    <2> QED BY <1>1, <1>3, <1>4, <2>1, <2>2 DEF PairInv
  <1>5. StepInv(p, q, fitted)
    BY <1>3, <1>4 DEF StepInv
  <1> QED BY <1>5 DEF q, r, fitted

LEMMA FindByIdKeeps ==
  ASSUME Inv, NEW p \in Pulls, run[p].pc = "load", NEW i \in run[p].ids
  PROVE  StepInv(p, IF i \notin Stored THEN Decide(p, <<>>)
                    ELSE IF ~Decodes(docs[i]) THEN End(p, "failed")
                    ELSE IF Decode(docs[i]).repository # Target THEN Decide(p, <<>>)
                    ELSE Decide(p, <<Decode(docs[i])>>),
                 since[p])
  <1> DEFINE r == run[p]
             q == IF i \notin Stored THEN Decide(p, <<>>)
                  ELSE IF ~Decodes(docs[i]) THEN End(p, "failed")
                  ELSE IF Decode(docs[i]).repository # Target THEN Decide(p, <<>>)
                  ELSE Decide(p, <<Decode(docs[i])>>)
  <1>1. /\ RunInv(docs, p, r) /\ SearchInv(docs, p, r, since[p]) /\ r.pc = "load"
        /\ EvidenceStays(p) => PairInv(docs, p, r, since[p])
        /\ DocsInv(docs)
    BY InvAt DEF StepInv
  <1>2. r.ids = {i}
    BY <1>1 DEF RunInv
  <1>3. \A j \in since[p] : Fitting(docs, j, p, r.ids, r.changed)
    BY <1>1 DEF SearchInv
  <1>4. since[p] \subseteq {i}
    BY <1>2, <1>3 DEF Fitting
  <1>5. LET end == Decide(p, <<>>) IN
        /\ RunInv(docs, p, end) /\ SearchInv(docs, p, end, since[p])
        /\ end.pc = "done" \/ (end.ids = run[p].ids /\ end.changed = run[p].changed)
    <2>1. <<>> \in Seq(SubmissionState) /\ Len(<<>>) # 1 /\ DOMAIN <<>> = {}
      OBVIOUS
    <2> QED BY <1>3, <2>1, DecideKeeps
  <1>6. LET end == End(p, "failed") IN
        RunInv(docs, p, end) /\ SearchInv(docs, p, end, since[p]) /\ end.pc = "done"
    BY EndedInv DEF Outcomes
  <1>7. ASSUME i \in DOMAIN docs, StateIn(docs, i).repository = Target
        PROVE  LET saving == Decide(p, <<StateIn(docs, i)>>) IN
               /\ RunInv(docs, p, saving) /\ SearchInv(docs, p, saving, since[p])
               /\ saving.pc = "done" \/ (saving.ids = run[p].ids /\ saving.changed = run[p].changed)
    <2> DEFINE s == StateIn(docs, i)
    <2>1. s \in States(i) /\ s.submissionId = i /\ s \in SubmissionState
      BY <1>1, <1>7, DocumentsRead DEF States
    <2>2. MatchInv(docs, p, r, s)
      BY <1>2, <1>7, <2>1 DEF MatchInv
    <2> HIDE DEF s
    <2>3. <<s>> \in Seq(SubmissionState) /\ \A k \in DOMAIN <<s>> : <<s>>[k] = s
      BY <2>1
    <2>4. \A k \in DOMAIN <<s>> : MatchInv(docs, p, run[p], <<s>>[k])
      BY <2>2, <2>3
    <2>5. since[p] \subseteq {<<s>>[1].submissionId}
      BY <1>4, <2>1
    <2>6. LET saving == Decide(p, <<s>>) IN
          /\ RunInv(docs, p, saving) /\ SearchInv(docs, p, saving, since[p])
          /\ saving.pc = "done" \/ (saving.ids = run[p].ids /\ saving.changed = run[p].changed)
      BY <1>3, <2>3, <2>4, <2>5, DecideKeeps
    <2> QED BY <2>6 DEF s
  <1>8. /\ RunInv(docs, p, q) /\ SearchInv(docs, p, q, since[p])
        /\ q.pc = "done" \/ (q.ids = r.ids /\ q.changed = r.changed)
    BY <1>5, <1>6, <1>7 DEF Stored, StateIn
  <1> HIDE DEF q, r
  <1>9. EvidenceStays(p) => PairInv(docs, p, q, since[p])
    BY <1>1, <1>8, PairMoves
  <1>10. StepInv(p, q, since[p])
    BY <1>8, <1>9 DEF StepInv
  <1> QED BY <1>10 DEF q

LEMMA AfterReadKeeps ==
  ASSUME Inv, NEW p \in Pulls, run[p].pc \in {"list", "read"},
         NEW r, RunInv(docs, p, r), r.pc \in {"list", "read"}, r.ids = run[p].ids, r.changed = run[p].changed,
         \A i \in since[p] : HasMatch(r.found, i) \/ ToRead([r EXCEPT !.pc = "read"], i)
  PROVE  StepInv(p, AfterRead(p, r), since[p])
  <1> DEFINE reading == [r EXCEPT !.pc = "read"]
             listing == [r EXCEPT !.pc = "list", !.paths = FurtherPaths(@)]
             q == AfterRead(p, r)
  <1>1. /\ r \in Runs /\ r.ids = {} /\ r.paths # <<>>
        /\ EvidenceStays(p) => PairInv(docs, p, run[p], since[p])
        /\ DocsInv(docs)
    BY InvAt DEF StepInv, RunInv
  <1>2. \A i \in since[p] : Fitting(docs, i, p, r.ids, r.changed)
    BY InvAt DEF StepInv, SearchInv
  <1>3. /\ reading \in Runs /\ reading.pc = "read" /\ reading.ids = r.ids
        /\ reading.head = r.head /\ reading.changed = r.changed /\ reading.paths = r.paths /\ reading.unread = r.unread
        /\ reading.found = r.found /\ reading.outcome = r.outcome
    BY <1>1 DEF Runs
  <1>4. \A i \in since[p] : HasMatch(r.found, i) \/ ToRead(reading, i)
    OBVIOUS
  <1> HIDE DEF reading
  <1>5. /\ r.paths \in Seq(Texts) /\ Tail(r.paths) \in Seq(Texts)
        /\ DOMAIN Tail(r.paths) = 1..(Len(r.paths) - 1) /\ Len(r.paths) \in Nat
        /\ \A k \in DOMAIN Tail(r.paths) :
               Tail(r.paths)[k] = r.paths[k + 1] /\ k + 1 \in DOMAIN r.paths
    BY <1>1 DEF Runs
  <1>6. RunInv(docs, p, q) /\ SearchInv(docs, p, q, since[p]) /\ (q.pc = "done" \/ (q.ids = run[p].ids /\ q.changed = run[p].changed))
    <2>1. CASE r.unread # {}
      <3>1. q = reading
        BY <2>1 DEF AfterRead, reading
      <3> HIDE DEF q
      <3>2. \A k \in DOMAIN reading.found : MatchInv(docs, p, reading, reading.found[k])
        BY <1>3 DEF RunInv, MatchInv
      <3>3. RunInv(docs, p, reading)
        BY <1>3, <3>2 DEF RunInv
      <3>4. SearchInv(docs, p, reading, since[p])
        BY <1>2, <1>3, <1>4 DEF SearchInv
      <3> QED BY <1>3, <3>1, <3>3, <3>4
    <2>2. CASE r.unread = {} /\ Tail(r.paths) # <<>>
      <3>1. q = listing
        BY <2>2 DEF AfterRead, FurtherPaths
      <3> HIDE DEF q
      <3>2. /\ listing \in Runs /\ listing.pc = "list" /\ listing.ids = r.ids
            /\ listing.head = r.head /\ listing.changed = r.changed /\ listing.paths = Tail(r.paths)
            /\ listing.unread = r.unread /\ listing.found = r.found
            /\ listing.outcome = r.outcome
        BY <1>1, <1>5 DEF Runs, FurtherPaths
      <3> HIDE DEF listing
      <3>3. \A k \in DOMAIN listing.found : MatchInv(docs, p, listing, listing.found[k])
        BY <3>2 DEF RunInv, MatchInv
      <3>4. \A k \in DOMAIN listing.paths : \E m \in DOMAIN listing.changed : listing.changed[m] = listing.paths[k]
        <4>1. \A k \in DOMAIN r.paths : \E m \in DOMAIN r.changed : r.changed[m] = r.paths[k]
          BY DEF RunInv
        <4>2. \A k \in DOMAIN listing.paths :
                  listing.paths[k] = r.paths[k + 1] /\ k + 1 \in DOMAIN r.paths
          BY <1>5, <3>2
        <4> QED BY <3>2, <4>1, <4>2
      <3>5. RunInv(docs, p, listing)
        BY <2>2, <3>2, <3>3, <3>4 DEF RunInv
      <3>6. ASSUME NEW i \in since[p], ~HasMatch(r.found, i) PROVE ToRead(listing, i)
        <4>1. PICK k \in DOMAIN r.paths : k # 1 /\ r.paths[k] = Submissions[i].article
          BY <1>3, <1>4, <2>2, <3>6 DEF ToRead
        <4>2. k - 1 \in DOMAIN Tail(r.paths) /\ Tail(r.paths)[k - 1] = r.paths[k]
          BY <1>5, <4>1
        <4> QED BY <3>2, <4>1, <4>2 DEF ToRead
      <3>7. SearchInv(docs, p, listing, since[p])
        BY <1>2, <3>2, <3>6 DEF SearchInv
      <3> QED BY <3>1, <3>2, <3>5, <3>7
    <2>3. CASE r.unread = {} /\ Tail(r.paths) = <<>>
      <3>1. q = Decide(p, r.found)
        BY <2>3 DEF AfterRead, FurtherPaths
      <3> HIDE DEF q
      <3>2. ASSUME NEW k \in DOMAIN r.paths PROVE k = 1
        <4>1. k \in 1..Len(r.paths) /\ DOMAIN Tail(r.paths) = {}
          BY <1>5, <2>3, <3>2
        <4>2. ~(1 \in 1..(Len(r.paths) - 1))
          BY <1>5, <4>1
        <4> QED BY <1>5, <4>1, <4>2
      <3>3. \A i \in since[p] : HasMatch(r.found, i)
        BY <1>3, <1>4, <2>3, <3>2 DEF ToRead
      <3>4. r.found \in Seq(SubmissionState) /\ \A k \in DOMAIN r.found : MatchInv(docs, p, run[p], r.found[k])
        <4>1. \A k \in DOMAIN r.found : MatchInv(docs, p, r, r.found[k])
          BY DEF RunInv
        <4>2. \A k \in DOMAIN r.found : MatchInv(docs, p, run[p], r.found[k])
          BY <4>1 DEF MatchInv
        <4> QED BY <1>1, <4>2 DEF Runs
      <3>5. ASSUME Len(r.found) = 1 PROVE since[p] \subseteq {r.found[1].submissionId}
        <4>1. DOMAIN r.found = {1}
          BY <3>4, <3>5
        <4> QED BY <3>3, <4>1 DEF HasMatch
      <3>6. \A i \in since[p] : Fitting(docs, i, p, run[p].ids, run[p].changed)
        BY <1>2
      <3>7. LET saving == Decide(p, r.found) IN
            /\ RunInv(docs, p, saving) /\ SearchInv(docs, p, saving, since[p])
            /\ saving.pc = "done" \/ (saving.ids = run[p].ids /\ saving.changed = run[p].changed)
        BY <3>4, <3>5, <3>6, DecideKeeps
      <3> QED BY <3>1, <3>7
    <2> QED BY <2>1, <2>2, <2>3
  <1> HIDE DEF q
  <1>7. EvidenceStays(p) => PairInv(docs, p, q, since[p])
    BY <1>1, <1>6, PairMoves
  <1>8. StepInv(p, q, since[p])
    BY <1>6, <1>7 DEF StepInv
  <1> QED BY <1>8 DEF q

LEMMA ListKeeps ==
  ASSUME Inv, NEW p \in Pulls, run[p].pc = "list"
  PROVE  StepInv(p, AfterRead(p, [run[p] EXCEPT
                        !.unread = {n \in DOMAIN SortedIds : SortedIds[n] \in Stored}]),
                 since[p])
  <1> DEFINE r == run[p]
             all == {n \in DOMAIN SortedIds : SortedIds[n] \in Stored}
             q == [r EXCEPT !.unread = all]
             reading == [q EXCEPT !.pc = "read"]
  <1>1. /\ RunInv(docs, p, r) /\ SearchInv(docs, p, r, since[p]) /\ r.pc = "list"
        /\ r \in Runs /\ DocsInv(docs)
    BY InvAt DEF StepInv
  <1>2. all \subseteq DOMAIN SortedIds /\ \A n \in all : SortedIds[n] \in DOMAIN docs
    BY DEF Stored
  <1>3. \A i \in DOMAIN docs : \E n \in all : SortedIds[n] = i
    BY <1>1, CorrelationAssumption DEF Stored, Known, DocsInv
  <1> HIDE DEF r, all
  <1>4. /\ q \in Runs /\ q.pc = r.pc /\ q.ids = r.ids /\ q.head = r.head
        /\ q.changed = r.changed /\ q.paths = r.paths
        /\ q.unread = all /\ q.found = r.found /\ q.outcome = r.outcome
    BY <1>1, <1>2 DEF Runs
  <1> HIDE DEF q
  <1>5. reading.pc = "read" /\ reading.paths = r.paths /\ reading.unread = all
    BY <1>4 DEF Runs
  <1> HIDE DEF reading
  <1>6. \A k \in DOMAIN q.found : MatchInv(docs, p, q, q.found[k])
    BY <1>1, <1>4 DEF RunInv, MatchInv
  <1>7. RunInv(docs, p, q)
    BY <1>1, <1>2, <1>4, <1>6 DEF RunInv
  <1>8. ASSUME NEW i \in since[p], ~HasMatch(q.found, i) PROVE ToRead(reading, i)
    <2>1. ToRead(r, i) /\ i \in DOMAIN docs
      BY <1>1, <1>4, <1>8 DEF SearchInv, Fitting
    <2> QED BY <1>3, <1>5, <2>1 DEF ToRead
  <1>9. StepInv(p, AfterRead(p, q), since[p])
    BY <1>1, <1>4, <1>7, <1>8, AfterReadKeeps DEF r, reading
  <1> QED BY <1>9 DEF q, r, all

LEMMA ReadKeeps ==
  ASSUME Inv, NEW p \in Pulls, run[p].pc = "read", NEW n \in run[p].unread,
         NEW found,
         found = (IF Matches(Decode(docs[SortedIds[n]]), Author[p], run[p].paths[1])
                     /\ ~HasMatch(run[p].found, Decode(docs[SortedIds[n]]).submissionId)
                  THEN Append(run[p].found, Decode(docs[SortedIds[n]])) ELSE run[p].found)
  PROVE  StepInv(p, AfterRead(p, [run[p] EXCEPT !.unread = @ \ {n}, !.found = found]), since[p])
  <1> DEFINE r == run[p]
             i == SortedIds[n]
             s == StateIn(docs, i)
             q == [r EXCEPT !.unread = @ \ {n}, !.found = found]
             reading == [q EXCEPT !.pc = "read"]
  <1>1. /\ RunInv(docs, p, r) /\ SearchInv(docs, p, r, since[p]) /\ r.pc = "read"
        /\ r \in Runs /\ DocsInv(docs) /\ n \in r.unread /\ r.ids = {} /\ r.paths # <<>>
        /\ r.found \in Seq(SubmissionState)
    BY InvAt DEF StepInv, RunInv, Runs
  <1>2. i \in DOMAIN docs
    BY <1>1 DEF RunInv
  <1>3. /\ s \in States(i) /\ s.submissionId = i /\ s \in SubmissionState
        /\ s.articlePath = Submissions[i].article
    BY <1>1, <1>2, DocumentsRead DEF States
  <1>4. found = IF Matches(s, Author[p], r.paths[1]) /\ ~HasMatch(r.found, i)
                THEN Append(r.found, s) ELSE r.found
    BY <1>3 DEF StateIn
  <1>5. 1 \in DOMAIN r.paths /\ \E k \in DOMAIN r.changed : r.changed[k] = r.paths[1]
    <2>1. r.paths \in Seq(Texts) /\ r.paths # <<>>
      BY <1>1 DEF Runs
    <2>2. 1 \in DOMAIN r.paths
      BY <2>1
    <2> QED BY <1>1, <2>2 DEF RunInv
  <1>6. Matches(s, Author[p], r.paths[1]) => MatchInv(docs, p, r, s)
    BY <1>1, <1>2, <1>3, <1>5 DEF MatchInv, Matches
  <1> HIDE DEF r, i, s
  <1>7. /\ found \in Seq(SubmissionState)
        /\ \A k \in DOMAIN found : MatchInv(docs, p, r, found[k])
        /\ \A j : HasMatch(r.found, j) => HasMatch(found, j)
        /\ Matches(s, Author[p], r.paths[1]) => HasMatch(found, i)
    <2>1. CASE Matches(s, Author[p], r.paths[1]) /\ ~HasMatch(r.found, i)
      <3>1. found = Append(r.found, s)
        BY <1>4, <2>1
      <3>2. found \in Seq(SubmissionState)
        <4>1. \A states : \A seq \in Seq(states), new \in states : Append(seq, new) \in Seq(states)
          OBVIOUS
        <4> QED BY <1>1, <1>3, <3>1, <4>1
      <3>3. /\ DOMAIN found = DOMAIN r.found \cup {Len(r.found) + 1}
            /\ found[Len(r.found) + 1] = s /\ \A k \in DOMAIN r.found : found[k] = r.found[k]
        BY <1>1, <1>3, <3>1
      <3>4. \A k \in DOMAIN found : MatchInv(docs, p, r, found[k])
        BY <1>1, <1>6, <2>1, <3>3 DEF RunInv
      <3>5. HasMatch(found, i) /\ \A j : HasMatch(r.found, j) => HasMatch(found, j)
        BY <1>3, <3>3 DEF HasMatch
      <3> QED BY <3>2, <3>4, <3>5
    <2>2. CASE ~(Matches(s, Author[p], r.paths[1]) /\ ~HasMatch(r.found, i))
      BY <1>1, <1>4, <2>2 DEF RunInv
    <2> QED BY <2>1, <2>2
  <1>8. /\ q \in Runs /\ q.pc = r.pc /\ q.ids = r.ids /\ q.head = r.head
        /\ q.changed = r.changed /\ q.paths = r.paths
        /\ q.unread = r.unread \ {n} /\ q.found = found /\ q.outcome = r.outcome
    BY <1>1, <1>7 DEF Runs
  <1> HIDE DEF q
  <1>9. reading.pc = "read" /\ reading.paths = r.paths /\ reading.unread = r.unread \ {n}
    BY <1>8 DEF Runs
  <1> HIDE DEF reading
  <1>10. \A k \in DOMAIN q.found : MatchInv(docs, p, q, q.found[k])
    BY <1>7, <1>8 DEF MatchInv
  <1>11. RunInv(docs, p, q)
    BY <1>1, <1>8, <1>10 DEF RunInv
  <1>12. ASSUME NEW j \in since[p], ~HasMatch(q.found, j) PROVE ToRead(reading, j)
    <2>1. ToRead(r, j) /\ Fitting(docs, j, p, r.ids, r.changed)
      BY <1>1, <1>7, <1>8, <1>12 DEF SearchInv
    <2>2. CASE \E k \in DOMAIN r.paths : k # 1 /\ r.paths[k] = Submissions[j].article
      BY <1>9, <2>2 DEF ToRead
    <2>3. CASE r.paths[1] = Submissions[j].article /\ \E m \in r.unread : SortedIds[m] = j
      <3>1. PICK m \in r.unread : SortedIds[m] = j
        BY <2>3
      <3>2. ASSUME m = n PROVE FALSE
        <4>1. i = j /\ s.articlePath = r.paths[1]
          BY <1>3, <2>3, <3>1, <3>2 DEF i
        <4>2. Matches(s, Author[p], r.paths[1])
          BY <1>1, <2>1, <4>1 DEF Fitting, Matches, s
        <4> QED BY <1>7, <1>8, <1>12, <4>1, <4>2
      <3> QED BY <1>9, <2>3, <3>1, <3>2 DEF ToRead
    <2> QED BY <1>1, <2>1, <2>2, <2>3 DEF ToRead
  <1>13. StepInv(p, AfterRead(p, q), since[p])
    BY <1>1, <1>8, <1>11, <1>12, AfterReadKeeps DEF r, reading
  <1> QED BY <1>13 DEF q, r

\* Only s can have got a pull request, and it is p.
Claims(d, e, p, s) ==
    \A i \in DOMAIN e :
        /\ i \in DOMAIN d
        /\ \/ StateIn(e, i).pullRequestNumber = StateIn(d, i).pullRequestNumber
           \/ /\ StateIn(e, i).pullRequestNumber = p /\ StateIn(d, i) = s
              /\ s.pullRequestNumber = None

\* s is the stored state, without a pull request, and gets p.
Takes(d, e, p, s) ==
    /\ StateIn(d, s.submissionId) = s /\ s.pullRequestNumber = None
    /\ Changes(d, e, s.submissionId, s.githubUserId, p, TechnicalReview)

LEMMA SaveMatchKeeps ==
  ASSUME Inv, NEW p \in Pulls, SaveMatch(p)
  PROVE  /\ run[p].pc = "save" /\ MatchInv(docs, p, run[p], run[p].found[1])
         /\ \E o \in Outcomes : run' = [run EXCEPT ![p] = End(p, o)]
         /\ DocsStep(docs, docs') /\ Claims(docs, docs', p, run[p].found[1])
         /\ docs' = docs \/ Takes(docs, docs', p, run[p].found[1])
  <1> DEFINE r == run[p]
             s == r.found[1]
             i == s.submissionId
             t == Matched(s, p, r.head)
             u == [t EXCEPT !.revision = @ + 1]
  <1>1. /\ RunInv(docs, p, r) /\ r \in Runs /\ DocsInv(docs) /\ p # None
        /\ r.pc = "save" /\ r.head \in Shas /\ Lower[r.head] = r.head
    BY InvAt DEF SaveMatch, StepInv, RunInv
  <1>2. MatchInv(docs, p, r, s)
    <2>1. 1 \in DOMAIN r.found
      BY <1>1 DEF RunInv, Runs
    <2> QED BY <1>1, <2>1 DEF RunInv
  <1>3. CASE docs' = docs /\ \E o \in Outcomes : run' = [run EXCEPT ![p] = End(p, o)]
    <2>1. DocsStep(docs, docs)
      BY <1>1, DocsStay
    <2>2. Claims(docs, docs, p, s)
      BY DEF Claims
    <2> QED BY <1>1, <1>2, <1>3, <2>1, <2>2
  <1>4. CASE /\ s.pullRequestNumber = None /\ StoredRevision(i) = s.revision
             /\ docs' = [docs EXCEPT ![i] = Encode(u)]
             /\ run' = [run EXCEPT ![p] = End(p, "matched")]
    <2>1. i \in DOMAIN docs /\ s \in States(i)
      BY <1>2 DEF MatchInv
    <2>2. s.revision = StateIn(docs, i).revision /\ s.revision \in Nat
      BY <1>1, <1>4, <2>1, DocumentsRead DEF StoredRevision, Stored
    <2>3. s = StateIn(docs, i)
      BY <1>2, <2>2 DEF MatchInv
    <2>4. /\ t \in States(i) /\ t.revision = s.revision /\ t.pullRequestNumber = p
          /\ t.githubUserId = s.githubUserId /\ t.currentStage = TechnicalReview
      BY <1>1, <2>1, MatchedFits
    <2> HIDE DEF t
    <2>5. /\ u \in States(i) /\ u.revision = s.revision + 1 /\ u.pullRequestNumber = p
          /\ u.githubUserId = s.githubUserId /\ u.currentStage = TechnicalReview
      BY <2>4, SavedFits
    <2> HIDE DEF u
    <2>6. s.currentStage # ContentReview
      BY <1>4, <2>1 DEF States, Planned, ContentReview
    <2>7. Later(StateIn(docs, i), u)
      BY <1>4, <2>1, <2>3, <2>5, <2>6 DEF Later, States
    <2> DEFINE e == docs'
    <2>8. DOMAIN e = DOMAIN docs /\ e[i] = Encode(u) /\ \A j \in DOMAIN docs : j # i => e[j] = docs[j]
      BY <1>4, <2>1
    <2> HIDE DEF e, s, i
    <2>9. /\ DocsStep(docs, e) /\ StateIn(e, i) = u
          /\ \A j \in DOMAIN docs : j # i => StateIn(e, j) = StateIn(docs, j)
      BY <1>1, <2>1, <2>5, <2>7, <2>8, Rewritten
    <2>10. Claims(docs, e, p, s)
      BY <1>4, <2>3, <2>5, <2>8, <2>9 DEF Claims
    <2>11. Takes(docs, e, p, s)
      BY <1>4, <2>1, <2>3, <2>5, <2>8, <2>9 DEF Takes, Changes, i
    <2> QED BY <1>1, <1>2, <1>4, <2>9, <2>10, <2>11 DEF e, s, Outcomes
  <1>5. \/ docs' = docs /\ \E o \in Outcomes : run' = [run EXCEPT ![p] = End(p, o)]
        \/ /\ s.pullRequestNumber = None /\ StoredRevision(i) = s.revision
           /\ docs' = [docs EXCEPT ![i] = Encode(u)]
           /\ run' = [run EXCEPT ![p] = End(p, "matched")]
    BY DEF SaveMatch, Save, Step, Rewrite, Outcomes
  <1> QED BY <1>3, <1>4, <1>5

\* A run that pairs the submission it has found pairs no second one.
LEMMA PairClaimed ==
  ASSUME NEW d, NEW e, DocsStep(d, e), NEW p, Author[p] # None, NEW r, NEW fitted,
         r.pc = "save", SearchInv(d, p, r, fitted), PairInv(d, p, r, fitted),
         MatchInv(d, p, r, r.found[1]), Claims(d, e, p, r.found[1]),
         NEW q, q.pc = "done"
  PROVE  PairInv(e, p, q, fitted)
  <1> DEFINE s == r.found[1]
  <1>1. /\ r.ids = Named[p] /\ fitted \subseteq {s.submissionId}
        /\ Named[p] = {} => r.changed = FirstTip[p].paths
    BY DEF PairInv, SearchInv
  <1>2. MatchInv(d, p, r, s) /\ Claims(d, e, p, s)
    OBVIOUS
  <1> HIDE DEF s
  <1>3. ASSUME NEW i \in DOMAIN e, StateIn(e, i).pullRequestNumber = p
        PROVE  i \in DOMAIN d /\ Fitting(d, i, p, Named[p], FirstTip[p].paths) /\ i = s.submissionId
    <2>1. /\ i \in DOMAIN d
          /\ StateIn(d, i).pullRequestNumber = p \/ StateIn(d, i) = s
      BY <1>2, <1>3 DEF Claims
    <2>2. CASE StateIn(d, i).pullRequestNumber = p
      BY <1>1, <2>1, <2>2 DEF PairInv
    <2>3. CASE StateIn(d, i) = s
      <3>1. s.submissionId = i
        BY <2>1, <2>3, DocumentsRead DEF DocsStep
      <3>2. Fitting(d, i, p, r.ids, r.changed)
        BY <1>2, <2>1, <2>3, <3>1 DEF MatchInv, Fitting, Matches
      <3>3. Fitting(d, i, p, Named[p], FirstTip[p].paths)
        BY <1>1, <3>2 DEF Fitting
      <3> QED BY <2>1, <3>1, <3>3
    <2> QED BY <2>1, <2>2, <2>3
  <1>4. \A i \in DOMAIN e : StateIn(e, i).pullRequestNumber = p =>
            Fitting(e, i, p, Named[p], FirstTip[p].paths) /\ i = s.submissionId
    BY <1>3, FitsStay
  <1> QED BY <1>4 DEF PairInv

-----------------------------------------------------------------------------
(* Every step keeps the invariant.                                          *)

LEMMA DocsChange ==
  ASSUME Inv, DocsStep(docs, docs'), NoPairing(docs, docs'),
         UNCHANGED <<env, run, failures, reruns, since>>
  PROVE  Inv'
  <1> DEFINE e == docs'
  <1>1. DocsStep(docs, e) /\ NoPairing(docs, e)
    OBVIOUS
  <1> HIDE DEF e
  <1>2. BaseInv'
    BY DEF Inv, BaseInv, env
  <1>3. DocsInv(e)
    BY <1>1 DEF DocsStep
  <1>4. ASSUME NEW p \in Pulls
        PROVE  /\ RunInv(e, p, run[p]) /\ SearchInv(e, p, run[p], since[p])
               /\ EvidenceStays(p) => PairInv(e, p, run[p], since[p])
    <2> DEFINE r == run[p]  fitted == since[p]
    <2>1. StepInv(p, r, fitted) /\ Author[p] # None /\ p # None
      BY InvAt
    <2> HIDE DEF r, fitted
    <2>2. RunInv(e, p, r) /\ SearchInv(e, p, r, fitted)
      BY <1>1, <2>1, RunStays DEF StepInv
    <2>3. \A i \in DOMAIN e : StateIn(e, i).pullRequestNumber = p =>
              i \in DOMAIN docs /\ StateIn(docs, i).pullRequestNumber = p
      BY <1>1, <2>1 DEF NoPairing
    <2>4. EvidenceStays(p) => PairInv(e, p, r, fitted)
      BY <1>1, <2>1, <2>3, PairStays DEF StepInv
    <2> QED BY <2>2, <2>4 DEF r, fitted
  <1> QED BY <1>2, <1>3, <1>4 DEF Inv, EvidenceStays, e, env

LEMMA RunChange ==
  ASSUME Inv, NEW p \in Pulls, NEW q, NEW fitted \in SUBSET Known, StepInv(p, q, fitted),
         run' = [run EXCEPT ![p] = q], since' = [since EXCEPT ![p] = fitted],
         UNCHANGED <<docs, env>>,
         failures' \in 0..MaxFailures, reruns' \in 0..MaxReruns
  PROVE  Inv'
  <1>1. q \in Runs
    BY DEF StepInv, RunInv
  <1>2. /\ run'[p] = q /\ since'[p] = fitted
        /\ \A o \in Pulls : o # p => run'[o] = run[o] /\ since'[o] = since[o]
        /\ run' \in [Pulls -> Runs] /\ since' \in [Pulls -> SUBSET Known]
    BY <1>1 DEF Inv, BaseInv
  <1>3. BaseInv'
    BY <1>2 DEF Inv, BaseInv, env
  <1>4. \A o \in Pulls : /\ RunInv(docs, o, run'[o]) /\ SearchInv(docs, o, run'[o], since'[o])
                         /\ EvidenceStays(o) => PairInv(docs, o, run'[o], since'[o])
    BY <1>2 DEF Inv, StepInv
  <1> QED BY <1>3, <1>4 DEF Inv, EvidenceStays, env

LEMMA SaveMatchKeepsInv ==
  ASSUME Inv, NEW p \in Pulls, SaveMatch(p)
  PROVE  Inv'
  <1> DEFINE e == docs'
             s == run[p].found[1]
  <1>1. /\ run[p].pc = "save" /\ MatchInv(docs, p, run[p], s)
        /\ DocsStep(docs, e) /\ Claims(docs, e, p, s)
    BY SaveMatchKeeps
  <1>2. PICK outcome \in Outcomes : run' = [run EXCEPT ![p] = End(p, outcome)]
    BY SaveMatchKeeps
  <1>3. UNCHANGED <<env, failures, reruns, since>>
    BY DEF SaveMatch
  <1> HIDE DEF e
  <1> DEFINE q == End(p, outcome)
  <1>4. /\ RunInv(e, p, q) /\ SearchInv(e, p, q, since[p]) /\ q.pc = "done"
    BY EndedInv
  <1>5. q \in Runs
    BY <1>4 DEF RunInv
  <1> HIDE DEF q
  <1>6. /\ run'[p] = q /\ \A o \in Pulls : o # p => run'[o] = run[o]
        /\ run' \in [Pulls -> Runs]
    BY <1>2, <1>5 DEF Inv, BaseInv, q
  <1>7. BaseInv'
    BY <1>3, <1>6 DEF Inv, BaseInv, env
  <1>8. DocsInv(e)
    BY <1>1 DEF DocsStep
  <1>9. ASSUME NEW o \in Pulls
        PROVE  /\ RunInv(e, o, run'[o]) /\ SearchInv(e, o, run'[o], since[o])
               /\ EvidenceStays(o) => PairInv(e, o, run'[o], since[o])
    <2> DEFINE r == run[o]  fitted == since[o]
    <2>1. StepInv(o, r, fitted) /\ Author[o] # None /\ o # None
      BY InvAt
    <2>2. CASE o = p
      <3>1. EvidenceStays(o) => PairInv(e, o, q, since[o])
        BY <1>1, <1>4, <2>1, <2>2, PairClaimed DEF StepInv
      <3> QED BY <1>4, <1>6, <2>2, <3>1
    <2>3. CASE o # p
      <3>1. run'[o] = r
        BY <1>6, <2>3
      <3>2. \A i \in DOMAIN e : StateIn(e, i).pullRequestNumber = o =>
                i \in DOMAIN docs /\ StateIn(docs, i).pullRequestNumber = o
        BY <1>1, <2>3 DEF Claims
      <3> HIDE DEF r, fitted
      <3>3. RunInv(e, o, r) /\ SearchInv(e, o, r, fitted)
        BY <1>1, <2>1, RunStays DEF StepInv
      <3>4. EvidenceStays(o) => PairInv(e, o, r, fitted)
        BY <1>1, <2>1, <3>2, PairStays DEF StepInv
      <3>5. QED BY <3>1, <3>3, <3>4 DEF fitted
    <2> QED BY <2>2, <2>3
  <1> QED BY <1>3, <1>7, <1>8, <1>9 DEF Inv, EvidenceStays, e, env

LEMMA RunStepKeepsInv ==
  ASSUME Inv, NEW p \in Pulls, RunStep(p)
  PROVE  Inv'
  <1>1. /\ since[p] \in SUBSET Known /\ since = [since EXCEPT ![p] = since[p]]
        /\ failures \in 0..MaxFailures /\ reruns \in 0..MaxReruns
    BY DEF Inv, BaseInv
  <1>2. CASE FetchPullRequest(p)
    <2> DEFINE q == [run[p] EXCEPT !.pc = "extract", !.ids = text[p], !.head = tip[p].commit]
    <2>1. /\ run[p].pc = "fetch" /\ run' = [run EXCEPT ![p] = q]
          /\ UNCHANGED <<docs, env, failures, reruns, since>>
      BY <1>2 DEF FetchPullRequest, Step
    <2>2. StepInv(p, q, since[p])
      BY <2>1, FetchKeeps
    <2> HIDE DEF q
    <2> QED BY <1>1, <2>1, <2>2, RunChange
  <1>3. CASE ExtractIds(p)
    <2> DEFINE paths == tip[p].paths
               q == IF Cardinality(run[p].ids) > 1 THEN End(p, "ambiguous")
                    ELSE IF run[p].ids # {} THEN [run[p] EXCEPT !.pc = "load", !.changed = paths]
                    ELSE IF paths = <<>> THEN Decide(p, <<>>)
                    ELSE [run[p] EXCEPT !.pc = "list", !.changed = paths, !.paths = paths]
               fitted == {i \in Known : Fits(i, p, paths)}
    <2>1. /\ run[p].pc = "extract" /\ run' = [run EXCEPT ![p] = q]
          /\ since' = [since EXCEPT ![p] = fitted]
          /\ UNCHANGED <<docs, env, failures, reruns>>
      BY <1>3 DEF ExtractIds, Step
    <2>2. StepInv(p, q, fitted)
      BY <2>1, ExtractKeeps
    <2>3. fitted \in SUBSET Known
      OBVIOUS
    <2> HIDE DEF q, fitted
    <2> QED BY <1>1, <2>1, <2>2, <2>3, RunChange
  <1>4. CASE FindById(p)
    <2>1. PICK i \in run[p].ids :
            /\ Step(p, "load",
                IF i \notin Stored THEN Decide(p, <<>>)
                ELSE IF ~Decodes(docs[i]) THEN End(p, "failed")
                ELSE IF Decode(docs[i]).repository # Target THEN Decide(p, <<>>)
                ELSE Decide(p, <<Decode(docs[i])>>))
            /\ UNCHANGED <<docs, env, failures, reruns, since>>
      BY <1>4 DEF FindById
    <2> DEFINE q == IF i \notin Stored THEN Decide(p, <<>>)
                    ELSE IF ~Decodes(docs[i]) THEN End(p, "failed")
                    ELSE IF Decode(docs[i]).repository # Target THEN Decide(p, <<>>)
                    ELSE Decide(p, <<Decode(docs[i])>>)
    <2>2. run[p].pc = "load" /\ run' = [run EXCEPT ![p] = q]
      BY <2>1 DEF Step
    <2>3. StepInv(p, q, since[p])
      BY <2>2, FindByIdKeeps
    <2> HIDE DEF q
    <2> QED BY <1>1, <2>1, <2>2, <2>3, RunChange
  <1>5. CASE ListDocuments(p)
    <2> DEFINE q == AfterRead(p, [run[p] EXCEPT
                        !.unread = {n \in DOMAIN SortedIds : SortedIds[n] \in Stored}])
    <2>1. /\ run[p].pc = "list" /\ run' = [run EXCEPT ![p] = q]
          /\ UNCHANGED <<docs, env, failures, reruns, since>>
      BY <1>5 DEF ListDocuments, Step
    <2>2. StepInv(p, q, since[p])
      BY <2>1, ListKeeps
    <2> HIDE DEF q
    <2> QED BY <1>1, <2>1, <2>2, RunChange
  <1>6. CASE ReadDocument(p)
    <2>1. PICK n \in run[p].unread :
           /\ \A m \in run[p].unread : n <= m
           /\ LET r == run[p]
                  document == docs[SortedIds[n]]
                  state == Decode(document)
                  found == IF Matches(state, Author[p], r.paths[1])
                              /\ ~HasMatch(r.found, state.submissionId)
                           THEN Append(r.found, state) ELSE r.found
              IN  Step(p, "read",
                       IF ~Decodes(document) THEN End(p, "failed")
                       ELSE AfterRead(p, [r EXCEPT !.unread = @ \ {n}, !.found = found]))
      BY <1>6 DEF ReadDocument
    <2> DEFINE found == IF Matches(Decode(docs[SortedIds[n]]), Author[p], run[p].paths[1])
                            /\ ~HasMatch(run[p].found, Decode(docs[SortedIds[n]]).submissionId)
                        THEN Append(run[p].found, Decode(docs[SortedIds[n]])) ELSE run[p].found
               next == AfterRead(p, [run[p] EXCEPT !.unread = @ \ {n}, !.found = found])
    <2>2. /\ run[p].pc = "read"
          /\ run' = [run EXCEPT ![p] = End(p, "failed")] \/ run' = [run EXCEPT ![p] = next]
          /\ UNCHANGED <<docs, env, failures, reruns, since>>
      BY <1>6, <2>1 DEF ReadDocument, Step
    <2>3. StepInv(p, next, since[p])
      <3>1. found = (IF Matches(Decode(docs[SortedIds[n]]), Author[p], run[p].paths[1])
                     /\ ~HasMatch(run[p].found, Decode(docs[SortedIds[n]]).submissionId)
                  THEN Append(run[p].found, Decode(docs[SortedIds[n]])) ELSE run[p].found)
        OBVIOUS
      <3> HIDE DEF found
      <3> QED BY <2>2, <3>1, ReadKeeps
    <2> DEFINE failed == End(p, "failed")
    <2>4. StepInv(p, failed, since[p])
      <3>1. /\ RunInv(docs, p, failed) /\ SearchInv(docs, p, failed, since[p])
            /\ failed.pc = "done"
        BY EndedInv DEF Outcomes
      <3>2. StepInv(p, run[p], since[p])
        BY InvAt
      <3> HIDE DEF failed
      <3> QED BY <3>1, <3>2, PairMoves DEF StepInv
    <2>5. run' = [run EXCEPT ![p] = failed] \/ run' = [run EXCEPT ![p] = next]
      BY <2>2
    <2> HIDE DEF next, failed
    <2>6. CASE run' = [run EXCEPT ![p] = failed]
      BY <1>1, <2>2, <2>4, <2>6, RunChange
    <2>7. CASE run' = [run EXCEPT ![p] = next]
      BY <1>1, <2>2, <2>3, <2>7, RunChange
    <2> QED BY <2>5, <2>6, <2>7
  <1>7. CASE SaveMatch(p)
    BY <1>7, SaveMatchKeepsInv
  <1> QED BY <1>2, <1>3, <1>4, <1>5, <1>6, <1>7 DEF RunStep

LEMMA AroundKeepsInv ==
  ASSUME Inv, NEW p \in Pulls, EditText(p) \/ Push(p) \/ Rerun(p) \/ RunFails(p)
  PROVE  Inv'
  <1>1. /\ since[p] \in SUBSET Known /\ since = [since EXCEPT ![p] = since[p]]
        /\ failures \in 0..MaxFailures /\ reruns \in 0..MaxReruns
        /\ MaxFailures \in Nat /\ MaxReruns \in Nat
    BY CorrelationAssumption DEF Inv, BaseInv
  <1>2. CASE EditText(p)
    <2>1. PICK ids \in Respelled[p] : text' = [text EXCEPT ![p] = ids]
      BY <1>2 DEF EditText
    <2>2. ids \subseteq Ids /\ IsFiniteSet(ids)
      BY CorrelationAssumption
    <2>3. /\ edited' = edited \cup {p}
          /\ UNCHANGED <<docs, tip, pushed, run, failures, reruns, since>>
      BY <1>2 DEF EditText
    <2>4. BaseInv'
      BY <2>1, <2>2, <2>3 DEF Inv, BaseInv
    <2>5. \A o \in Pulls : EvidenceStays(o)' => EvidenceStays(o)
      BY <2>3 DEF EvidenceStays
    <2> QED BY <2>3, <2>4, <2>5 DEF Inv
  <1>5. CASE Push(p)
    <2>1. PICK t \in Pushes[p] : tip' = [tip EXCEPT ![p] = t]
      BY <1>5 DEF Push
    <2>2. t \in Tips
      BY CorrelationAssumption
    <2>3. /\ pushed' = pushed \cup {p}
          /\ UNCHANGED <<docs, text, edited, run, failures, reruns, since>>
      BY <1>5 DEF Push
    <2>4. BaseInv'
      BY <2>1, <2>2, <2>3 DEF Inv, BaseInv
    <2>5. \A o \in Pulls : EvidenceStays(o)' => EvidenceStays(o)
      BY <2>3 DEF EvidenceStays
    <2> QED BY <2>3, <2>4, <2>5 DEF Inv
  <1>3. CASE Rerun(p)
    <2>1. /\ run' = [run EXCEPT ![p] = Idle] /\ UNCHANGED <<docs, env, failures, since>>
          /\ reruns' \in 0..MaxReruns
      BY <1>1, <1>3 DEF Rerun, Step
    <2>2. StepInv(p, Idle, since[p])
      <3>1. RunInv(docs, p, Idle) /\ SearchInv(docs, p, Idle, since[p]) /\ Idle.pc = "fetch"
        BY IdleInv DEF Idle
      <3>2. StepInv(p, run[p], since[p])
        BY InvAt
      <3> QED BY <3>1, <3>2, PairMoves DEF StepInv
    <2> QED BY <1>1, <2>1, <2>2, RunChange
  <1>4. CASE RunFails(p)
    <2> DEFINE failed == End(p, "failed")
    <2>1. /\ run' = [run EXCEPT ![p] = failed] /\ UNCHANGED <<docs, env, reruns, since>>
          /\ failures' \in 0..MaxFailures
      BY <1>1, <1>4 DEF RunFails
    <2>2. StepInv(p, failed, since[p])
      <3>1. /\ RunInv(docs, p, failed) /\ SearchInv(docs, p, failed, since[p])
            /\ failed.pc = "done"
        BY EndedInv DEF Outcomes
      <3>2. StepInv(p, run[p], since[p])
        BY InvAt
      <3> HIDE DEF failed
      <3> QED BY <3>1, <3>2, PairMoves DEF StepInv
    <2> HIDE DEF failed
    <2> QED BY <1>1, <2>1, <2>2, RunChange
  <1> QED BY <1>2, <1>3, <1>4, <1>5

LEMMA InitInv ==
  ASSUME Init
  PROVE  Inv
  <1>1. /\ Early \subseteq Known /\ Named \in [Pulls -> SUBSET Ids]
        /\ MaxFailures \in Nat /\ MaxReruns \in Nat
        /\ \A p \in Pulls : IsFiniteSet(Named[p])
        /\ FirstTip \in [Pulls -> Tips]
    BY CorrelationAssumption DEF Known
  <1>2. DOMAIN docs = Early /\ \A i \in Early : docs[i] = Encode(NewState(i))
    BY DEF Init
  <1>3. \A i \in Early : StateIn(docs, i) = NewState(i) /\ NewState(i) \in States(i)
    BY <1>1, <1>2, NewStateFits, StatesRead DEF StateIn
  <1>4. DocsInv(docs)
    BY <1>1, <1>2, <1>3 DEF DocsInv
  <1>5. BaseInv
    <2>1. run \in [Pulls -> Runs] /\ since \in [Pulls -> SUBSET Known]
      BY IdleInv DEF Init
    <2> QED BY <1>1, <2>1 DEF Init, BaseInv
  <1>6. ASSUME NEW p \in Pulls
        PROVE  /\ RunInv(docs, p, run[p]) /\ SearchInv(docs, p, run[p], since[p])
               /\ PairInv(docs, p, run[p], since[p])
    <2>1. run[p] = Idle
      BY DEF Init
    <2>2. RunInv(docs, p, Idle) /\ SearchInv(docs, p, Idle, since[p])
      BY IdleInv
    <2>3. p # None
      <3>1. p \in Numbers
        BY CorrelationAssumption
      <3>2. None \notin Numbers
        BY CodecAssumption
      <3> QED BY <3>1, <3>2
    <2>4. \A i \in DOMAIN docs : StateIn(docs, i).pullRequestNumber # p
      <3>1. \A i \in Early : NewState(i).pullRequestNumber = None
        BY DEF NewState
      <3> QED BY <1>2, <1>3, <2>3, <3>1
    <2>5. PairInv(docs, p, Idle, since[p])
      BY <2>4 DEF PairInv, Idle
    <2> QED BY <2>1, <2>2, <2>5
  <1> QED BY <1>4, <1>5, <1>6 DEF Inv

LEMMA NextInv ==
  ASSUME Inv, [Next]_vars
  PROVE  Inv'
  <1>1. DocsInv(docs)
    BY DEF Inv
  <1>2. ASSUME NEW i \in Known, IntakeCreates(i) PROVE Inv'
    BY <1>1, <1>2, IntakeCreatesKeeps, DocsChange DEF IntakeCreates
  <1>3. ASSUME NEW i \in Known, IntakeIdentifies(i) PROVE Inv'
    BY <1>1, <1>3, IntakeIdentifiesKeeps, DocsChange DEF IntakeIdentifies
  <1>4. ASSUME NEW i \in Known, ReviewAdvances(i) PROVE Inv'
    BY <1>1, <1>4, ReviewAdvancesKeeps, DocsChange DEF ReviewAdvances
  <1>5. CASE UNCHANGED vars
    BY <1>5 DEF vars, env, Inv, BaseInv, EvidenceStays
  <1> QED BY <1>2, <1>3, <1>4, <1>5, AroundKeepsInv, RunStepKeepsInv DEF Next

\* What one step does to the documents.
LEMMA NextDocs ==
  ASSUME Inv, [Next]_vars
  PROVE  /\ DocsStep(docs, docs')
         /\ \/ NoPairing(docs, docs')
            \/ \E p \in Pulls : /\ run[p].pc = "save" /\ MatchInv(docs, p, run[p], run[p].found[1])
                                /\ Claims(docs, docs', p, run[p].found[1])
  <1>1. DocsInv(docs)
    BY DEF Inv
  <1>2. CASE docs' = docs
    BY <1>1, <1>2, DocsStay
  <1>3. CASE docs' # docs
    <2>1. CASE \E i \in Known : IntakeCreates(i) \/ IntakeIdentifies(i) \/ ReviewAdvances(i)
      BY <1>1, <2>1, IntakeCreatesKeeps, IntakeIdentifiesKeeps, ReviewAdvancesKeeps
    <2>2. CASE \E p \in Pulls : SaveMatch(p)
      BY <2>2, SaveMatchKeeps
    <2>3. CASE \E p \in Pulls : EditText(p) \/ Push(p) \/ Rerun(p) \/ RunFails(p)
      BY <1>3, <2>3 DEF EditText, Push, Rerun, RunFails
    <2>4. CASE \E p \in Pulls : \/ FetchPullRequest(p) \/ ExtractIds(p) \/ FindById(p)
                                \/ ListDocuments(p) \/ ReadDocument(p)
      BY <1>3, <2>4 DEF FetchPullRequest, ExtractIds, FindById, ListDocuments, ReadDocument
    <2> QED BY <1>3, <2>1, <2>2, <2>3, <2>4 DEF Next, RunStep, vars
  <1> QED BY <1>2, <1>3

LEMMA SpecInv == Spec => []Inv
  BY InitInv, NextInv, PTL DEF Spec

-----------------------------------------------------------------------------
(* The runs implement Pairing: every step is one of it, or a stutter.         *)

Looks == [p \in Pulls |-> Seen(run[p], since[p])]

LEMMA RecordedAs ==
  ASSUME NEW d, DocsInv(d)
  PROVE  /\ DOMAIN RecordIn(d) = DOMAIN d /\ DOMAIN d \subseteq Known
         /\ \A i \in DOMAIN d :
                RecordIn(d)[i] = [user |-> StateIn(d, i).githubUserId,
                                  pull |-> StateIn(d, i).pullRequestNumber,
                                  stage |-> StateIn(d, i).currentStage]
  BY DocumentsRead DEF RecordIn, DocsInv

LEMMA SameTerms ==
  /\ Promise!Planned = Planned /\ Promise!TechnicalReview = TechnicalReview
  /\ Promise!ContentReview = ContentReview
  /\ Promise!Fresh = [user |-> None, pull |-> None, stage |-> Planned]
  BY DEF Promise!Planned, Planned, Promise!TechnicalReview, TechnicalReview,
         Promise!ContentReview, ContentReview, Promise!Fresh

LEMMA RecordChanges ==
  ASSUME NEW d, DocsInv(d), NEW e, DocsInv(e), NEW i, NEW user, NEW pull, NEW stage,
         Changes(d, e, i, user, pull, stage)
  PROVE  RecordIn(e) = [RecordIn(d) EXCEPT ![i] = [user |-> user, pull |-> pull, stage |-> stage]]
  <1> DEFINE f == RecordIn(d)
             g == RecordIn(e)
             h == [f EXCEPT ![i] = [user |-> user, pull |-> pull, stage |-> stage]]
  <1>1. /\ DOMAIN f = DOMAIN d /\ DOMAIN g = DOMAIN d /\ i \in DOMAIN d
        /\ \A j \in DOMAIN d : j # i => g[j] = f[j]
        /\ g[i] = [user |-> user, pull |-> pull, stage |-> stage]
    BY RecordedAs DEF Changes
  <1>2. f = [j \in DOMAIN f |-> f[j]] /\ g = [j \in DOMAIN g |-> g[j]]
    BY DEF RecordIn
  <1> HIDE DEF f, g
  <1>3. g = h
    BY <1>1, <1>2
  <1> QED BY <1>3 DEF g, h, f

\* Both modules mean the same by a submission that fits.
LEMMA FittingIsFits ==
  ASSUME DocsInv(docs), NEW i, NEW p, NEW ids, NEW paths
  PROVE  Promise!Fits(i, p, ids, paths) <=> Fitting(docs, i, p, ids, paths)
  <1>1. CASE i \in DOMAIN docs
    <2>1. /\ RecordIn(docs)[i].user = StateIn(docs, i).githubUserId
          /\ DOMAIN RecordIn(docs) = DOMAIN docs
      <3> DEFINE recorded == RecordIn(docs)[i]
      <3>1. /\ DOMAIN RecordIn(docs) = DOMAIN docs
            /\ recorded = [user |-> StateIn(docs, i).githubUserId,
                           pull |-> StateIn(docs, i).pullRequestNumber,
                           stage |-> StateIn(docs, i).currentStage]
        BY <1>1, RecordedAs
      <3> HIDE DEF recorded
      <3>2. recorded.user = StateIn(docs, i).githubUserId
        BY <3>1
      <3> QED BY <3>1, <3>2 DEF recorded
    <2>2. /\ StateIn(docs, i).repository = Submissions[i].repository
          /\ StateIn(docs, i).articlePath = Submissions[i].article
      BY <1>1, DocumentsRead
    <2> QED BY <1>1, <2>1, <2>2 DEF Promise!Fits, Fitting, Matches
  <1>2. CASE i \notin DOMAIN docs
    BY <1>2, RecordedAs DEF Promise!Fits, Fitting
  <1> QED BY <1>1, <1>2

LEMMA LooksAt ==
  ASSUME Inv, NEW p \in Pulls, NEW q, NEW fitted,
         run' = [run EXCEPT ![p] = q], since' = [since EXCEPT ![p] = fitted]
  PROVE  Looks' = [Looks EXCEPT ![p] = Seen(q, fitted)]
  <1>1. /\ run'[p] = q /\ since'[p] = fitted
        /\ \A o \in Pulls : o # p => run'[o] = run[o] /\ since'[o] = since[o]
    BY DEF Inv, BaseInv
  <1>2. \A o \in Pulls : Seen(run'[o], since'[o]) = IF o = p THEN Seen(q, fitted) ELSE Looks[o]
    BY <1>1 DEF Looks
  <1>3. Looks' = [o \in Pulls |-> Seen(run'[o], since'[o])]
    BY DEF Looks
  <1>4. [Looks EXCEPT ![p] = Seen(q, fitted)]
            = [o \in Pulls |-> IF o = p THEN Seen(q, fitted) ELSE Looks[o]]
    BY DEF Looks
  <1> QED BY <1>2, <1>3, <1>4

\* What a run has seen at each of its steps.
LEMMA SeenAt ==
  ASSUME NEW r, NEW fitted
  PROVE  /\ r.pc \in {"fetch", "done"} /\ r.ids = {} => Seen(r, fitted) = Promise!Nothing
         /\ r.pc = "extract" =>
                Seen(r, fitted) = [phase |-> "read", ids |-> r.ids, files |-> <<>>, fitted |-> {}]
         /\ r.pc \in {"load", "list", "read", "save"} =>
                Seen(r, fitted) = [phase |-> "looked", ids |-> r.ids, files |-> r.changed,
                                   fitted |-> fitted]
  BY DEF Seen, Phase, Promise!Nothing

LEMMA EndedSeen ==
  ASSUME NEW p, NEW outcome, NEW fitted
  PROVE  Seen(End(p, outcome), fitted) = Promise!Nothing
  <1>1. End(p, outcome).pc = "done" /\ End(p, outcome).ids = {}
    BY DEF End, Idle
  <1> QED BY <1>1, SeenAt

LEMMA DecidedSeen ==
  ASSUME NEW p, run[p] \in Runs, run[p].pc \notin {"fetch", "done"}, NEW found, NEW fitted
  PROVE  \/ Seen(Decide(p, found), fitted) = Promise!Nothing
         \/ Seen(Decide(p, found), fitted)
                = [phase |-> "looked", ids |-> run[p].ids, files |-> run[p].changed,
                   fitted |-> fitted]
  <1> DEFINE q == [run[p] EXCEPT !.pc = "save", !.found = found, !.paths = <<>>, !.unread = {}]
  <1>1. q.pc = "save" /\ q.ids = run[p].ids /\ q.changed = run[p].changed
    BY DEF Runs
  <1>2. Decide(p, found) = q \/ \E o : Decide(p, found) = End(p, o)
    BY DEF Decide
  <1> HIDE DEF q
  <1> QED BY <1>1, <1>2, EndedSeen, SeenAt

LEMMA ReadSeen ==
  ASSUME NEW p, run[p] \in Runs, run[p].pc \in {"list", "read"}, NEW fitted,
         NEW r, \E unread, found : r = [run[p] EXCEPT !.unread = unread, !.found = found]
  PROVE  \/ Seen(AfterRead(p, r), fitted) = Promise!Nothing
         \/ Seen(AfterRead(p, r), fitted)
                = [phase |-> "looked", ids |-> run[p].ids, files |-> run[p].changed,
                   fitted |-> fitted]
  <1> DEFINE reading == [r EXCEPT !.pc = "read"]
             listing == [r EXCEPT !.pc = "list", !.paths = FurtherPaths(@)]
  <1>1. /\ reading.pc = "read" /\ reading.ids = run[p].ids
        /\ listing.pc = "list" /\ listing.ids = run[p].ids
        /\ reading.changed = run[p].changed /\ listing.changed = run[p].changed
    BY DEF Runs
  <1>2. AfterRead(p, r) \in {reading, listing, Decide(p, r.found)}
    BY DEF AfterRead
  <1> HIDE DEF reading, listing
  <1> QED BY <1>1, <1>2, DecidedSeen, SeenAt

LEMMA StaysOrLeaves ==
  ASSUME Inv, NEW p \in Pulls, NEW q, run' = [run EXCEPT ![p] = q], UNCHANGED <<docs, text, tip, since>>,
         run[p].pc # "fetch",
         Seen(q, since[p]) \in {Promise!Nothing, Seen(run[p], since[p])}
  PROVE  [Promise!Next]_(Promise!vars)
  <1>1. since' = [since EXCEPT ![p] = since[p]] /\ run[p] \in Runs
    BY DEF Inv, BaseInv
  <1>2. Looks' = [Looks EXCEPT ![p] = Seen(q, since[p])] /\ RecordIn(docs') = RecordIn(docs)
    BY <1>1, LooksAt
  <1>3. Looks[p] = Seen(run[p], since[p]) /\ Looks = [o \in Pulls |-> Looks[o]]
    BY DEF Looks
  <1>4. CASE Seen(q, since[p]) = Looks[p]
    <2>1. Looks' = Looks
      BY <1>2, <1>3, <1>4
    <2> QED BY <1>2, <2>1 DEF Promise!vars, Looks
  <1>5. CASE Seen(q, since[p]) = Promise!Nothing /\ run[p].pc = "done"
    <2>1. Looks[p] = Promise!Nothing
      <3>1. run[p].ids = {}
        BY <1>5, InvAt DEF StepInv, RunInv
      <3> QED BY <1>3, <1>5, <3>1, SeenAt
    <2> QED BY <1>4, <1>5, <2>1
  <1>6. CASE Seen(q, since[p]) = Promise!Nothing /\ run[p].pc # "done"
    <2>1. run[p].pc \in {"extract", "load", "list", "read", "save"}
      BY <1>1, <1>6 DEF Runs
    <2>2. Looks[p].phase # "idle"
      BY <1>3, <2>1, SeenAt
    <2>3. Promise!Leave(p)
      BY <1>2, <1>6, <2>2 DEF Promise!Leave, Looks
    <2> QED BY <2>3 DEF Promise!Next
  <1> QED BY <1>3, <1>4, <1>5, <1>6

LEMMA IntakeCreatesIs ==
  ASSUME DocsInv(docs), NEW i \in Known, IntakeCreates(i)
  PROVE  Promise!Create(i)
  <1> DEFINE e == docs'
  <1>1. /\ i \notin DOMAIN docs /\ DOMAIN e = DOMAIN docs \cup {i}
        /\ e[i] = Encode(NewState(i)) /\ \A j \in DOMAIN docs : e[j] = docs[j]
        /\ UNCHANGED <<text, tip, run, since>>
    BY DEF IntakeCreates, Stored, env
  <1>2. DocsInv(e)
    BY IntakeCreatesKeeps DEF DocsStep
  <1> HIDE DEF e
  <1>3. /\ StateIn(e, i).githubUserId = None /\ StateIn(e, i).pullRequestNumber = None
        /\ StateIn(e, i).currentStage = Planned
    <2>1. StateIn(e, i) = NewState(i)
      BY <1>1, NewStateFits, StatesRead DEF StateIn
    <2> QED BY <2>1 DEF NewState
  <1> DEFINE f == RecordIn(docs)
             g == RecordIn(e)
             h == [j \in DOMAIN f \cup {i} |-> IF j = i THEN Promise!Fresh ELSE f[j]]
  <1>4. /\ DOMAIN f = DOMAIN docs /\ DOMAIN g = DOMAIN docs \cup {i}
        /\ g[i] = Promise!Fresh /\ \A j \in DOMAIN docs : g[j] = f[j]
    <2>1. g[i] = [user |-> None, pull |-> None, stage |-> Planned]
      BY <1>1, <1>2, <1>3, RecordedAs
    <2>2. \A j \in DOMAIN docs : StateIn(e, j) = StateIn(docs, j)
      BY <1>1 DEF StateIn
    <2>3. ASSUME NEW j \in DOMAIN docs PROVE g[j] = f[j]
      <3>1. g[j] = [user |-> StateIn(e, j).githubUserId, pull |-> StateIn(e, j).pullRequestNumber,
                    stage |-> StateIn(e, j).currentStage]
        BY <1>1, <1>2, RecordedAs
      <3>2. f[j] = [user |-> StateIn(docs, j).githubUserId,
                    pull |-> StateIn(docs, j).pullRequestNumber,
                    stage |-> StateIn(docs, j).currentStage]
        BY RecordedAs
      <3> HIDE DEF f, g
      <3> QED BY <2>2, <3>1, <3>2
    <2>4. DOMAIN f = DOMAIN docs /\ DOMAIN g = DOMAIN docs \cup {i}
      BY <1>1, <1>2, RecordedAs
    <2> QED BY <2>1, <2>3, <2>4, SameTerms
  <1>5. g = [j \in DOMAIN g |-> g[j]]
    BY DEF RecordIn
  <1>6. g = h
    <2> HIDE DEF f, g
    <2> QED BY <1>1, <1>4, <1>5
  <1>7. i \notin DOMAIN f /\ Looks' = Looks /\ UNCHANGED <<text, tip>>
    BY <1>1, <1>4 DEF Looks
  <1> QED BY <1>6, <1>7 DEF Promise!Create, Looks, e

LEMMA IntakeIdentifiesIs ==
  ASSUME DocsInv(docs), NEW i \in Known, IntakeIdentifies(i)
  PROVE  Promise!Identify(i)
  <1> DEFINE user == Submissions[i].user
             pull == StateIn(docs, i).pullRequestNumber
             stage == StateIn(docs, i).currentStage
             recorded == RecordIn(docs)
  <1>1. /\ DocsInv(docs') /\ i \in DOMAIN docs
        /\ StateIn(docs, i).githubUserId = None /\ Changes(docs, docs', i, user, pull, stage)
    BY IntakeIdentifiesKeeps DEF DocsStep, Changes
  <1>2. RecordIn(docs') = [recorded EXCEPT ![i] = [user |-> user, pull |-> pull, stage |-> stage]]
    BY <1>1, RecordChanges
  <1>3. /\ DOMAIN recorded = DOMAIN docs
        /\ recorded[i] = [user |-> None, pull |-> pull, stage |-> stage]
    BY <1>1, RecordedAs
  <1> HIDE DEF user, pull, stage
  <1>4. recorded[i].user = None /\ i \in DOMAIN recorded
        /\ RecordIn(docs') = [recorded EXCEPT ![i].user = user]
    <2> DEFINE r == recorded[i]
    <2>1. r = [user |-> None, pull |-> pull, stage |-> stage]
      BY <1>3
    <2> HIDE DEF r
    <2>2. r.user = None /\ [r EXCEPT !.user = user] = [user |-> user, pull |-> pull, stage |-> stage]
      BY <2>1
    <2> HIDE DEF recorded
    <2> QED BY <1>1, <1>2, <1>3, <2>2 DEF r
  <1>5. UNCHANGED <<text, tip>> /\ Looks' = Looks
    BY DEF IntakeIdentifies, Looks, env
  <1> QED BY <1>4, <1>5 DEF Promise!Identify, Looks, user

LEMMA ReviewAdvancesIs ==
  ASSUME DocsInv(docs), NEW i \in Known, ReviewAdvances(i)
  PROVE  Promise!Advance(i)
  <1> DEFINE user == StateIn(docs, i).githubUserId
             pull == StateIn(docs, i).pullRequestNumber
             recorded == RecordIn(docs)
  <1>1. /\ DocsInv(docs') /\ i \in DOMAIN docs /\ pull # None
        /\ StateIn(docs, i).currentStage = TechnicalReview
        /\ Changes(docs, docs', i, user, pull, ContentReview)
    BY ReviewAdvancesKeeps DEF DocsStep, Changes
  <1>2. RecordIn(docs') = [recorded EXCEPT ![i] = [user |-> user, pull |-> pull, stage |-> ContentReview]]
    BY <1>1, RecordChanges
  <1>3. /\ DOMAIN recorded = DOMAIN docs
        /\ recorded[i] = [user |-> user, pull |-> pull, stage |-> TechnicalReview] /\ pull # None
    BY <1>1, RecordedAs
  <1> HIDE DEF user, pull
  <1>4. /\ recorded[i].pull # None /\ recorded[i].stage = TechnicalReview /\ i \in DOMAIN recorded
        /\ RecordIn(docs') = [recorded EXCEPT ![i].stage = ContentReview]
    <2> DEFINE r == recorded[i]
    <2>1. r = [user |-> user, pull |-> pull, stage |-> TechnicalReview]
      BY <1>3
    <2> HIDE DEF r
    <2>2. /\ r.pull = pull /\ r.stage = TechnicalReview
          /\ [r EXCEPT !.stage = ContentReview]
                = [user |-> user, pull |-> pull, stage |-> ContentReview]
      BY <2>1
    <2> HIDE DEF recorded, pull
    <2> QED BY <1>1, <1>2, <1>3, <2>2 DEF r
  <1>5. UNCHANGED <<text, tip>> /\ Looks' = Looks
    BY DEF ReviewAdvances, Looks, env
  <1> QED BY <1>4, <1>5, SameTerms DEF Promise!Advance, Looks

LEMMA EditTextIs ==
  ASSUME NEW p \in Pulls, EditText(p)
  PROVE  Promise!Edit(p)
  BY DEF EditText, Promise!Edit

LEMMA PushIs ==
  ASSUME Inv, NEW p \in Pulls, Push(p)
  PROVE  [Promise!Next]_(Promise!vars)
  <1> DEFINE files == [o \in Pulls |-> tip[o].paths]
             refiled == [o \in Pulls |-> {t.paths : t \in Pushes[o]}]
  <1>1. PICK t \in Pushes[p] : tip' = [tip EXCEPT ![p] = t]
    BY DEF Push
  <1>2. files' = [files EXCEPT ![p] = t.paths]
    <2>1. \A o \in Pulls : tip'[o] = IF o = p THEN t ELSE tip[o]
      BY <1>1 DEF Inv, BaseInv
    <2> QED BY <2>1
  <1>3. t.paths \in refiled[p] /\ Looks' = Looks /\ UNCHANGED <<docs, text>>
    BY DEF Looks, Push
  <1>4. CASE t.paths # files[p]
    BY <1>2, <1>3, <1>4 DEF Promise!Next, Promise!Push, Looks
  <1>5. CASE t.paths = files[p]
    <2>1. files' = files
      BY <1>2, <1>5
    <2> QED BY <1>3, <2>1 DEF Promise!vars, Looks
  <1> QED BY <1>4, <1>5

LEMMA FetchIs ==
  ASSUME Inv, NEW p \in Pulls, FetchPullRequest(p)
  PROVE  Promise!ReadText(p)
  <1> DEFINE q == [run[p] EXCEPT !.pc = "extract", !.ids = text[p], !.head = tip[p].commit]
  <1>1. /\ run[p].pc = "fetch" /\ run' = [run EXCEPT ![p] = q]
        /\ since' = [since EXCEPT ![p] = since[p]]
        /\ UNCHANGED <<docs, text, tip>> /\ run[p] \in Runs
    BY DEF FetchPullRequest, Step, env, Inv, BaseInv
  <1>2. q.pc = "extract" /\ q.ids = text[p]
    BY <1>1 DEF Runs
  <1> HIDE DEF q
  <1>3. Looks[p].phase = "idle"
    BY <1>1 DEF Looks, Seen, Phase
  <1>4. Seen(q, since[p]) = [phase |-> "read", ids |-> text[p], files |-> <<>>, fitted |-> {}]
    BY <1>2, SeenAt
  <1>5. Looks' = [Looks EXCEPT ![p] = Seen(q, since[p])]
    BY <1>1, LooksAt
  <1>6. Looks' = [Looks EXCEPT ![p] = [phase |-> "read", ids |-> text[p],
                                           files |-> <<>>, fitted |-> {}]]
    BY <1>4, <1>5
  <1> QED BY <1>1, <1>3, <1>6 DEF Promise!ReadText, Looks

LEMMA ExtractIs ==
  ASSUME Inv, NEW p \in Pulls, ExtractIds(p)
  PROVE  Promise!Look(p) \/ Promise!Leave(p)
  <1> DEFINE paths == tip[p].paths
             q == IF Cardinality(run[p].ids) > 1 THEN End(p, "ambiguous")
                  ELSE IF run[p].ids # {} THEN [run[p] EXCEPT !.pc = "load", !.changed = paths]
                  ELSE IF paths = <<>> THEN Decide(p, <<>>)
                  ELSE [run[p] EXCEPT !.pc = "list", !.changed = paths, !.paths = paths]
             fitted == {i \in Known : Fits(i, p, paths)}
             files == [o \in Pulls |-> tip[o].paths]
  <1>1. /\ run[p].pc = "extract" /\ run' = [run EXCEPT ![p] = q]
        /\ since' = [since EXCEPT ![p] = fitted]
        /\ UNCHANGED <<docs, text, tip>> /\ run[p] \in Runs /\ DocsInv(docs)
    BY DEF ExtractIds, Step, env, Inv, BaseInv
  <1>2. \/ \E o : q = End(p, o)
        \/ q.pc \in {"load", "list"} /\ q.ids = run[p].ids /\ q.changed = paths
    BY <1>1 DEF Runs, Decide
  <1>3. fitted = {i \in Known : Promise!Fits(i, p, run[p].ids, paths)}
    BY <1>1, FitsIsFitting, FittingIsFits
  <1>9. files[p] = paths
    OBVIOUS
  <1> HIDE DEF q, fitted, paths
  <1>4. Looks[p] = [phase |-> "read", ids |-> run[p].ids, files |-> <<>>, fitted |-> {}]
    BY <1>1, SeenAt DEF Looks
  <1>5. Looks' = [Looks EXCEPT ![p] = Seen(q, fitted)]
    BY <1>1, LooksAt
  <1>6. RecordIn(docs') = RecordIn(docs)
    BY <1>1
  <1>7. CASE \E o : q = End(p, o)
    <2>1. Seen(q, fitted) = Promise!Nothing
      BY <1>7, EndedSeen
    <2> QED BY <1>1, <1>4, <1>5, <1>6, <2>1 DEF Promise!Leave, Looks
  <1>8. CASE q.pc \in {"load", "list"} /\ q.ids = run[p].ids /\ q.changed = paths
    <2>1. Seen(q, fitted) = [phase |-> "looked", ids |-> run[p].ids, files |-> paths,
                             fitted |-> fitted]
      BY <1>8, SeenAt
    <2>2. /\ Looks[p].phase = "read" /\ Looks[p].ids = run[p].ids
      BY <1>4
    <2> QED BY <1>1, <1>3, <1>5, <1>6, <1>9, <2>1, <2>2 DEF Promise!Look, Promise!Known, Known, Looks
  <1> QED BY <1>2, <1>7, <1>8

LEMMA SaveMatchIs ==
  ASSUME Inv, NEW p \in Pulls, SaveMatch(p)
  PROVE  [Promise!Next]_(Promise!vars)
  <1> DEFINE s == run[p].found[1]
             i == s.submissionId
             recorded == RecordIn(docs)
  <1>1. /\ run[p].pc = "save" /\ MatchInv(docs, p, run[p], s) /\ DocsInv(docs) /\ DocsInv(docs')
        /\ docs' = docs \/ Takes(docs, docs', p, s)
    BY SaveMatchKeeps DEF Inv, DocsStep
  <1>2. PICK outcome \in Outcomes : run' = [run EXCEPT ![p] = End(p, outcome)]
    BY SaveMatchKeeps
  <1>3. UNCHANGED <<text, tip, since>> /\ since' = [since EXCEPT ![p] = since[p]]
    BY DEF SaveMatch, env, Inv, BaseInv
  <1>4. Seen(End(p, outcome), since[p]) = Promise!Nothing
    BY EndedSeen
  <1>5. CASE docs' = docs
    BY <1>1, <1>2, <1>3, <1>4, <1>5, StaysOrLeaves
  <1>6. CASE Takes(docs, docs', p, s)
    <2>1. /\ i \in DOMAIN docs /\ StateIn(docs, i) = s /\ s.pullRequestNumber = None
          /\ Changes(docs, docs', i, s.githubUserId, p, TechnicalReview)
      BY <1>6 DEF Takes, Changes
    <2>2. RecordIn(docs')
            = [recorded EXCEPT ![i] = [user |-> s.githubUserId, pull |-> p, stage |-> TechnicalReview]]
      BY <1>1, <2>1, RecordChanges
    <2>3. /\ DOMAIN recorded = DOMAIN docs /\ i \in Known
          /\ recorded[i] = [user |-> s.githubUserId, pull |-> None, stage |-> s.currentStage]
      BY <1>1, <2>1, RecordedAs
    <2>4. Fitting(docs, i, p, run[p].ids, run[p].changed)
      BY <1>1, <2>1 DEF MatchInv, Fitting, Matches
    <2>5. Promise!Fits(i, p, run[p].ids, run[p].changed)
      BY <1>1, <2>4, FittingIsFits
    <2>6. since[p] \subseteq {i}
      BY <1>1, InvAt DEF StepInv, SearchInv
    <2> HIDE DEF s, i
    <2>7. /\ recorded[i].pull = None
          /\ RecordIn(docs') = [recorded EXCEPT ![i].pull = p, ![i].stage = TechnicalReview]
      <3> DEFINE r == recorded[i]
      <3>1. r = [user |-> s.githubUserId, pull |-> None, stage |-> s.currentStage]
        BY <2>3
      <3> HIDE DEF r
      <3> DEFINE taken == [r EXCEPT !.pull = p]
      <3>2. taken = [user |-> s.githubUserId, pull |-> p, stage |-> s.currentStage] /\ r.pull = None
        BY <3>1
      <3> HIDE DEF taken
      <3>3. [taken EXCEPT !.stage = TechnicalReview]
                = [user |-> s.githubUserId, pull |-> p, stage |-> TechnicalReview]
        BY <3>2
      <3> HIDE DEF recorded
      <3> QED BY <2>1, <2>2, <2>3, <3>2, <3>3 DEF r, taken
    <2>8. Looks[p] = [phase |-> "looked", ids |-> run[p].ids, files |-> run[p].changed,
                      fitted |-> since[p]]
      BY <1>1, SeenAt DEF Looks
    <2>9. Looks' = [Looks EXCEPT ![p] = Promise!Nothing]
      <3> DEFINE q == End(p, outcome)
      <3>1. run' = [run EXCEPT ![p] = q] /\ Seen(q, since[p]) = Promise!Nothing
        BY <1>2, <1>4
      <3> HIDE DEF q
      <3>2. Looks' = [Looks EXCEPT ![p] = Seen(q, since[p])]
        BY <1>3, <3>1, LooksAt
      <3> QED BY <3>1, <3>2
    <2>10. /\ Looks[p].phase = "looked" /\ Looks[p].ids = run[p].ids
           /\ Looks[p].files = run[p].changed /\ Looks[p].fitted = since[p]
      BY <2>8
    <2>11. Promise!Claim(i, p)
      BY <1>3, <2>5, <2>6, <2>7, <2>9, <2>10, SameTerms DEF Promise!Claim, Looks
    <2>12. i \in Promise!Known
      BY <2>3 DEF Promise!Known, Known
    <2> QED BY <2>11, <2>12 DEF Promise!Next
  <1> QED BY <1>1, <1>5, <1>6

LEMMA SearchIs ==
  ASSUME Inv, NEW p \in Pulls, FindById(p) \/ ListDocuments(p) \/ ReadDocument(p)
  PROVE  [Promise!Next]_(Promise!vars)
  <1>1. /\ UNCHANGED <<docs, text, tip, since>> /\ run[p] \in Runs
        /\ run[p].pc \in {"load", "list", "read"}
    BY DEF FindById, ListDocuments, ReadDocument, Step, env, Inv, BaseInv
  <1>2. Seen(run[p], since[p]) = [phase |-> "looked", ids |-> run[p].ids,
                                  files |-> run[p].changed, fitted |-> since[p]]
    BY <1>1, SeenAt
  <1>3. ASSUME NEW q, run' = [run EXCEPT ![p] = q],
               Seen(q, since[p]) \in {Promise!Nothing, Seen(run[p], since[p])}
        PROVE  [Promise!Next]_(Promise!vars)
    BY <1>1, <1>3, StaysOrLeaves
  <1>4. ASSUME NEW o, run' = [run EXCEPT ![p] = End(p, o)] PROVE [Promise!Next]_(Promise!vars)
    BY <1>3, <1>4, EndedSeen
  <1>5. ASSUME NEW found, run' = [run EXCEPT ![p] = Decide(p, found)]
        PROVE  [Promise!Next]_(Promise!vars)
    <2>1. Seen(Decide(p, found), since[p]) \in {Promise!Nothing, Seen(run[p], since[p])}
      BY <1>1, <1>2, DecidedSeen
    <2> QED BY <1>3, <1>5, <2>1
  <1>6. ASSUME NEW r, \E unread, found : r = [run[p] EXCEPT !.unread = unread, !.found = found],
               run[p].pc # "load", run' = [run EXCEPT ![p] = AfterRead(p, r)]
        PROVE  [Promise!Next]_(Promise!vars)
    <2>1. Seen(AfterRead(p, r), since[p]) \in {Promise!Nothing, Seen(run[p], since[p])}
      BY <1>1, <1>2, <1>6, ReadSeen
    <2> QED BY <1>3, <1>6, <2>1
  <1>7. CASE FindById(p)
    <2>1. \/ \E o : run' = [run EXCEPT ![p] = End(p, o)]
          \/ \E found : run' = [run EXCEPT ![p] = Decide(p, found)]
      BY <1>7 DEF FindById, Step
    <2> QED BY <1>4, <1>5, <2>1
  <1>8. CASE ListDocuments(p)
    <2> DEFINE r == [run[p] EXCEPT !.unread = {n \in DOMAIN SortedIds : SortedIds[n] \in Stored}]
    <2>1. run' = [run EXCEPT ![p] = AfterRead(p, r)] /\ run[p].pc = "list"
      BY <1>8 DEF ListDocuments, Step
    <2>2. r = [run[p] EXCEPT !.unread = {n \in DOMAIN SortedIds : SortedIds[n] \in Stored},
                             !.found = run[p].found]
      BY <1>1 DEF Runs
    <2>3. \E unread, found : r = [run[p] EXCEPT !.unread = unread, !.found = found]
      <3> HIDE DEF r
      <3> QED BY <2>2
    <2> HIDE DEF r
    <2> QED BY <1>6, <2>1, <2>3
  <1>9. CASE ReadDocument(p)
    <2>1. PICK n \in run[p].unread :
            LET r == run[p]
                document == docs[SortedIds[n]]
                state == Decode(document)
                found == IF Matches(state, Author[p], r.paths[1])
                            /\ ~HasMatch(r.found, state.submissionId)
                         THEN Append(r.found, state) ELSE r.found
            IN  Step(p, "read",
                     IF ~Decodes(document) THEN End(p, "failed")
                     ELSE AfterRead(p, [r EXCEPT !.unread = @ \ {n}, !.found = found]))
      BY <1>9 DEF ReadDocument
    <2> DEFINE found == IF Matches(Decode(docs[SortedIds[n]]), Author[p], run[p].paths[1])
                            /\ ~HasMatch(run[p].found, Decode(docs[SortedIds[n]]).submissionId)
                        THEN Append(run[p].found, Decode(docs[SortedIds[n]])) ELSE run[p].found
               r == [run[p] EXCEPT !.unread = @ \ {n}, !.found = found]
    <2>2. /\ run[p].pc = "read"
          /\ run' = [run EXCEPT ![p] = End(p, "failed")] \/ run' = [run EXCEPT ![p] = AfterRead(p, r)]
      BY <2>1 DEF Step
    <2> HIDE DEF found
    <2>3. \E unread, new : r = [run[p] EXCEPT !.unread = unread, !.found = new]
      OBVIOUS
    <2> HIDE DEF r
    <2>4. run[p].pc # "load"
      BY <2>2
    <2> QED BY <1>4, <1>6, <2>2, <2>3, <2>4
  <1> QED BY <1>7, <1>8, <1>9

LEMMA AroundIs ==
  ASSUME Inv, NEW p \in Pulls, Rerun(p) \/ RunFails(p)
  PROVE  [Promise!Next]_(Promise!vars)
  <1>1. CASE Rerun(p)
    <2>1. run' = [run EXCEPT ![p] = Idle] /\ run[p].pc = "done" /\ UNCHANGED <<docs, text, tip, since>>
      BY <1>1 DEF Rerun, Step, env
    <2>2. Seen(Idle, since[p]) = Promise!Nothing
      BY SeenAt DEF Idle
    <2> QED BY <2>1, <2>2, StaysOrLeaves
  <1>2. CASE RunFails(p) /\ run[p].pc # "fetch"
    <2> DEFINE q == End(p, "failed")
    <2>1. run' = [run EXCEPT ![p] = q] /\ UNCHANGED <<docs, text, tip, since>>
      BY <1>2 DEF RunFails, env
    <2>2. Seen(q, since[p]) = Promise!Nothing
      BY EndedSeen
    <2> HIDE DEF q
    <2> QED BY <1>2, <2>1, <2>2, StaysOrLeaves
  <1>3. CASE RunFails(p) /\ run[p].pc = "fetch"
    <2>1. /\ run' = [run EXCEPT ![p] = End(p, "failed")] /\ UNCHANGED <<docs, text, tip>>
          /\ since' = [since EXCEPT ![p] = since[p]] /\ run[p].ids = {}
      BY <1>3, InvAt DEF RunFails, env, Inv, BaseInv, StepInv, RunInv
    <2> DEFINE q == End(p, "failed")
    <2>2. Looks' = [Looks EXCEPT ![p] = Promise!Nothing] /\ Looks[p] = Promise!Nothing
      <3>1. run' = [run EXCEPT ![p] = q] /\ Seen(q, since[p]) = Promise!Nothing
        BY <2>1, EndedSeen
      <3>2. Looks[p] = Promise!Nothing
        BY <1>3, <2>1, SeenAt DEF Looks
      <3> HIDE DEF q
      <3>3. Looks' = [Looks EXCEPT ![p] = Seen(q, since[p])]
        <4>1. since' = [since EXCEPT ![p] = since[p]]
          BY <2>1
        <4> QED BY <3>1, <4>1, LooksAt
      <3> QED BY <3>1, <3>2, <3>3
    <2>3. Looks' = Looks
      BY <2>2 DEF Looks
    <2> QED BY <2>1, <2>3 DEF Promise!vars, Looks
  <1> QED BY <1>1, <1>2, <1>3

-----------------------------------------------------------------------------
(* The theorems.                                                            *)

\* Every reachable state of the opened runs is well formed, for any submissions,
\* pull requests, edits, pushes, failures and reruns.
THEOREM CorrelationTypes == Spec => []TypeOK
  <1>1. ASSUME Inv PROVE TypeOK
    <2>1. Stored \subseteq Known /\ BaseInv
      BY <1>1 DEF Inv, DocsInv, Stored
    <2>2. ASSUME NEW p \in Pulls
          PROVE  /\ run[p].pc \in {"fetch", "extract", "load", "list", "read",
                                   "save", "done"}
                 /\ run[p].pc = "done" <=> run[p].outcome \in Outcomes
                 /\ run[p].ids \subseteq Ids
                 /\ \A k \in DOMAIN run[p].found : run[p].found[k].submissionId \in Known
                 /\ run[p].pc = "save" => Len(run[p].found) = 1
      <3> DEFINE r == run[p]
      <3>1. RunInv(docs, p, r) /\ r \in Runs
        BY <1>1, InvAt DEF StepInv
      <3>2. None \notin Outcomes
        BY CorrelationAssumption DEF Outcomes
      <3> HIDE DEF r
      <3>3. r.pc \in {"fetch", "extract", "load", "list", "read", "save", "done"}
            /\ r.ids \subseteq Ids /\ r.outcome \in Outcomes \cup {None}
        BY <3>1 DEF Runs
      <3>4. \A k \in DOMAIN r.found : r.found[k].submissionId \in Known
        BY <2>1, <3>1 DEF RunInv, MatchInv, Stored
      <3>5. r.pc = "done" <=> r.outcome \in Outcomes
        BY <3>1, <3>2, <3>3 DEF RunInv
      <3>6. r.pc = "save" => Len(r.found) = 1
        BY <3>1 DEF RunInv
      <3> QED BY <3>3, <3>4, <3>5, <3>6 DEF r
    <2> QED BY <2>1, <2>2 DEF TypeOK, BaseInv
  <1> QED BY <1>1, SpecInv, PTL

\* The program can read again whatever it has stored (SubmissionStateCodec), however
\* intake, opened and review runs have taken turns in writing it.
THEOREM StoredDecode == Spec => []StoredDocumentsDecode
  <1>1. ASSUME Inv PROVE StoredDocumentsDecode
    BY <1>1, DocumentsRead DEF Inv, StoredDocumentsDecode, Stored
  <1> QED BY <1>1, SpecInv, PTL

\* A search takes a submission only if no other one fitted the pull request when it
\* began, for any number of documents that appear and change while they are read
\* one by one.
THEOREM NoGuess == Spec => []NoGuessAmongKnown
  <1>1. ASSUME Inv PROVE NoGuessAmongKnown
    BY <1>1 DEF Inv, SearchInv, NoGuessAmongKnown
  <1> QED BY <1>1, SpecInv, PTL

\* As long as nobody edits a pull request's text or, if that names no submission, pushes
\* to it, it is recorded at one submission only, however often its run is killed and
\* repeated and whatever documents appear in between.
THEOREM OneSubmission == Spec => []OneSubmissionUnlessChanged
  <1>1. ASSUME Inv PROVE OneSubmissionUnlessChanged
    <2>1. ASSUME NEW p \in Pulls, EvidenceStays(p)
          PROVE  Cardinality({i \in Known : PullOf(i) = p}) <= 1
      <3> DEFINE recorded == {i \in Known : PullOf(i) = p}
      <3>1. PairInv(docs, p, run[p], since[p]) /\ DocsInv(docs) /\ p # None
        BY <1>1, <2>1, InvAt DEF Inv
      <3>2. \A i \in recorded : i \in DOMAIN docs /\ StateIn(docs, i).pullRequestNumber = p
        BY <3>1, DocumentsRead DEF PullOf, Stored
      <3>3. \A i, j \in recorded : i = j
        BY <3>1, <3>2 DEF PairInv
      <3>4. CASE recorded = {}
        <4>1. Cardinality({}) = 0
          BY FS_EmptySet
        <4> HIDE DEF recorded
        <4>2. Cardinality(recorded) <= 1
          BY <3>4, <4>1
        <4> QED BY <4>2 DEF recorded
      <3>5. CASE recorded # {}
        <4>1. PICK i \in recorded : TRUE
          BY <3>5
        <4>2. recorded = {i}
          BY <3>3, <4>1
        <4>3. Cardinality({i}) = 1
          BY FS_Singleton
        <4> HIDE DEF recorded
        <4>4. Cardinality(recorded) <= 1
          BY <4>2, <4>3
        <4> QED BY <4>4 DEF recorded
      <3> QED BY <3>4, <3>5
    <2> QED BY <2>1 DEF OneSubmissionUnlessChanged
  <1> QED BY <1>1, SpecInv, PTL

\* Opened, intake and review runs never take back what another recorded, although each
\* saves what it computed from a document it loaded earlier.
THEOREM RecordedStays == Spec => RecordedIsKept
  <1>1. ASSUME Inv, [Next]_vars
        PROVE  \A i \in Stored :
                  LET old == Decode(docs[i])
                      new == Decode(docs'[i])
                  IN  /\ i \in Stored'
                      /\ \A f \in {"azureDevOpsId", "githubUserId", "pullRequestNumber"} :
                             old[f] # None => new[f] = old[f]
                      /\ old.currentStage = ContentReview => new.currentStage = ContentReview
                      /\ old # new => new.revision = old.revision + 1
    <2> DEFINE e == docs'
    <2>1. DocsStep(docs, e)
      BY <1>1, NextDocs
    <2> HIDE DEF e
    <2>2. \A i \in DOMAIN docs : /\ i \in DOMAIN e
                                 /\ Decode(e[i]) = Decode(docs[i]) \/ Later(Decode(docs[i]), Decode(e[i]))
      BY <2>1 DEF DocsStep, StateIn
    <2> QED BY <2>2 DEF e, Stored, Later
  <1> QED BY <1>1, SpecInv, PTL DEF Spec, RecordedIsKept

\* A submission gets a pull request only by that pull request's own run, of its own
\* repository and on the evidence that run read (PullRequestService.Apply), however
\* many runs search at once.
THEOREM PairingBacked == Spec => PairingIsBacked
  <1>1. ASSUME Inv, [Next]_vars
        PROVE  \A i \in Known, p \in Pulls :
                  (PullOf(i) = None /\ PullOf(i)' = p) =>
                      LET state == Decode(docs[i]) IN
                      /\ state.repository = Target
                      /\ \/ run[p].ids = {i}
                         \/ /\ run[p].ids = {}
                            /\ state.githubUserId = Author[p]
                            /\ \E k \in DOMAIN run[p].changed :
                                   run[p].changed[k] = state.articlePath
    <2> DEFINE e == docs'
    <2>1. /\ DocsStep(docs, e)
          /\ \/ NoPairing(docs, e)
             \/ \E p \in Pulls : /\ run[p].pc = "save" /\ MatchInv(docs, p, run[p], run[p].found[1])
                                 /\ Claims(docs, e, p, run[p].found[1])
      BY <1>1, NextDocs
    <2>2. ASSUME NEW i \in Known, NEW p \in Pulls, PullOf(i) = None, PullOf(i)' = p
          PROVE  LET state == Decode(docs[i]) IN
                 /\ state.repository = Target
                 /\ \/ run[p].ids = {i}
                    \/ /\ run[p].ids = {}
                       /\ state.githubUserId = Author[p]
                       /\ \E k \in DOMAIN run[p].changed :
                                   run[p].changed[k] = state.articlePath
      <3>1. p # None
        BY <1>1, InvAt
      <3>2. i \in DOMAIN e /\ Optional(e[i], "pullRequestNumber") = p
        BY <2>2, <3>1 DEF PullOf, Stored
      <3> HIDE DEF e
      <3>3. DocsInv(docs) /\ DocsInv(e)
        BY <2>1 DEF DocsStep
      <3>4. StateIn(e, i).pullRequestNumber = p
        BY <3>2, <3>3, DocumentsRead
      <3>5. i \in DOMAIN docs => StateIn(docs, i).pullRequestNumber = None
        BY <2>2, <3>3, DocumentsRead DEF PullOf, Stored
      <3>6. ~NoPairing(docs, e)
        BY <3>1, <3>2, <3>4, <3>5 DEF NoPairing
      <3>7. PICK q \in Pulls : /\ run[q].pc = "save" /\ MatchInv(docs, q, run[q], run[q].found[1])
                               /\ Claims(docs, e, q, run[q].found[1])
        BY <2>1, <3>6
      <3>8. i \in DOMAIN docs /\ q = p /\ StateIn(docs, i) = run[p].found[1]
        BY <3>1, <3>2, <3>4, <3>5, <3>7 DEF Claims
      <3>9. StateIn(docs, i).submissionId = i
        BY <3>3, <3>8, DocumentsRead
      <3>10. MatchInv(docs, p, run[p], StateIn(docs, i))
        BY <3>7, <3>8
      <3> QED BY <3>9, <3>10 DEF MatchInv, StateIn
    <2> QED BY <2>2
  <1> QED BY <1>1, SpecInv, PTL DEF Spec, PairingIsBacked

\* Opened runs read the documents one by one while others write them, and yet each acts
\* as if it had looked at all submissions at one moment (PullRequestService.Apply), and
\* had then claimed the only one that fitted, while it was free.
THEOREM CorrelationRefines == Spec => ImplementsPairing
  <1>1. ASSUME Init PROVE Promise!Init
    <2>1. DocsInv(docs) /\ DOMAIN docs = Early /\ \A i \in Early : docs[i] = Encode(NewState(i))
      BY <1>1, InitInv DEF Inv, Init
    <2>2. \A i \in Early : RecordIn(docs)[i] = Promise!Fresh
      <3>1. \A i \in Early : StateIn(docs, i) = NewState(i)
        BY <2>1, RecordedAs, NewStateFits, StatesRead DEF StateIn
      <3>2. \A i \in Early : /\ NewState(i).githubUserId = None
                             /\ NewState(i).pullRequestNumber = None
                             /\ NewState(i).currentStage = Planned
        BY DEF NewState
      <3>3. \A i \in Early : RecordIn(docs)[i] = [user |-> StateIn(docs, i).githubUserId,
                                                  pull |-> StateIn(docs, i).pullRequestNumber,
                                                  stage |-> StateIn(docs, i).currentStage]
        BY <2>1, RecordedAs
      <3> QED BY <3>1, <3>2, <3>3, SameTerms
    <2>3. RecordIn(docs) = [i \in Early |-> Promise!Fresh]
      BY <2>1, <2>2 DEF RecordIn
    <2>4. Looks = [p \in Pulls |-> Promise!Nothing]
      <3>1. \A fitted : Seen(Idle, fitted) = Promise!Nothing
        BY SeenAt DEF Idle
      <3>2. \A p \in Pulls : run[p] = Idle
        BY <1>1 DEF Init
      <3> QED BY <3>1, <3>2 DEF Looks
    <2> QED BY <1>1, <2>3, <2>4 DEF Promise!Init, Init, Looks
  <1>2. ASSUME Inv, [Next]_vars PROVE [Promise!Next]_(Promise!vars)
    <2>1. DocsInv(docs) /\ Promise!Known = Known
      BY <1>2 DEF Inv, Promise!Known, Known
    <2>2. CASE \E i \in Known : IntakeCreates(i) \/ IntakeIdentifies(i) \/ ReviewAdvances(i)
      BY <2>1, <2>2, IntakeCreatesIs, IntakeIdentifiesIs, ReviewAdvancesIs DEF Promise!Next
    <2>3. CASE \E p \in Pulls : EditText(p) \/ Push(p) \/ FetchPullRequest(p) \/ ExtractIds(p)
      BY <1>2, <2>3, EditTextIs, PushIs, FetchIs, ExtractIs DEF Promise!Next
    <2>4. CASE \E p \in Pulls : \/ FindById(p) \/ ListDocuments(p) \/ ReadDocument(p)
                                \/ SaveMatch(p) \/ Rerun(p) \/ RunFails(p)
      BY <1>2, <2>4, SearchIs, SaveMatchIs, AroundIs
    <2>5. CASE UNCHANGED vars
      BY <2>5 DEF vars, env, Promise!vars
    <2> QED BY <1>2, <2>2, <2>3, <2>4, <2>5 DEF Next, RunStep
  <1> QED BY <1>1, <1>2, SpecInv, PTL DEF Spec, ImplementsPairing, Promise!Spec

=============================================================================
