-------------------------- MODULE SignoffGateProofs --------------------------
(***************************************************************************)
(* Safety of the sign-off gate for every set of commits and every bound.   *)
(***************************************************************************)
EXTENDS SignoffGate, TLAPS

\* A run that has read the pull request read what is still true, unless an
\* event it has not seen is on its way or waits behind it.
ReadsAreFresh ==
    (undelivered = {} /\ waiting = None /\ active # None) =>
        \/ active.step = "get"
        \/ active.label = label /\ active.head = head

\* With a run going on nothing needs to be said about the last one; without one
\* nothing can wait.
NobodyWaitsAlone == active = None => waiting = None

\* What is known of approvals: the label endorses the head, and what a run has
\* read it read from an endorsed head.
ReadsAreEndorsed ==
    /\ label => head \in endorsed
    /\ active # None => (active.label => active.head \in endorsed)
    /\ active # None => (active.step = "publish" => active.head \in Commits)

\* While nothing has been approved, no payload carries the label, and a bot
\* that was told "ready" has a screened sign-off before it.
ReadyIsPending ==
    /\ \A k \in DOMAIN comments :
           /\ comments[k].label => endorsed # {}
           /\ comments[k].step \in {"get", "post", "failed"} => Screened(comments[k])
    /\ (endorsed = {} /\ toDefault /\ bot = "ready") =>
           \E k \in DOMAIN comments :
               /\ Screened(comments[k])
               /\ comments[k].step \in {"queued", "get", "post", "failed"}

Approvals == SettledStatusAgrees /\ SuccessWasEarned /\ ReadsAreFresh
                 /\ NobodyWaitsAlone /\ ReadsAreEndorsed

-----------------------------------------------------------------------------

LEMMA InitType == Init => TypeOK
  <1> SUFFICES ASSUME Init PROVE TypeOK
    OBVIOUS
  <1>1. comments \in Seq(Jobs)
    BY DEF Init
  <1>2. label \in BOOLEAN /\ toDefault \in BOOLEAN /\ endedBadly \in BOOLEAN
    BY Zenon DEF Init
  <1>3. undelivered \subseteq Events
    <2>1. head \in Commits
      BY GateAssumption DEF Init
    <2>2. [label |-> label, head |-> head] \in Events
      BY <1>2, <2>1 DEF Events
    <2> QED BY <2>2 DEF Init
  <1>4. active \in Runs \cup {None} /\ waiting \in Events \cup {None}
    BY DEF Init
  <1>5. status \in [Commits -> States \cup {None}]
    BY DEF Init
  <1> QED BY <1>1, <1>2, <1>3, <1>4, <1>5, GateAssumption DEF Init, TypeOK

LEMMA StepType == TypeOK /\ [Next]_vars => TypeOK'
  <1> SUFFICES ASSUME TypeOK, [Next]_vars PROVE TypeOK'
    OBVIOUS
  <1> USE GateAssumption DEF TypeOK
  <1>1. ASSUME NEW l \in BOOLEAN, NEW h \in Commits, Change(l, h) PROVE TypeOK'
    BY <1>1 DEF Change, Events, signoffs
  <1>2. CASE Relabel
    BY <1>1, <1>2 DEF Relabel
  <1>3. CASE Push
    BY <1>1, <1>3 DEF Push
  <1>4. ASSUME NEW e \in Events PROVE StartRun(e) \in Runs
    BY DEF StartRun, Runs
  <1>5. ASSUME Leave PROVE (active \in Runs \cup {None} /\ waiting \in Events \cup {None})'
    BY <1>4, <1>5 DEF Leave
  <1>6. ASSUME NEW e \in Events, Admit(e)
        PROVE (active \in Runs \cup {None} /\ waiting \in Events \cup {None})'
    BY <1>4, <1>6 DEF Admit
  <1>7. ASSUME NEW e \in Events, Deliver(e) PROVE TypeOK'
    BY <1>6, <1>7 DEF Deliver, pr, signoffs
  <1>8. CASE GetPullRequest
    <2>1. active \in Runs
      BY <1>8 DEF GetPullRequest
    <2>2. active' \in Runs
      BY <1>8, <2>1 DEF GetPullRequest, Runs, LabelRead, HeadRead
    <2> QED BY <1>8, <2>2 DEF GetPullRequest, pr, signoffs
  <1>9. ASSUME NEW a \in BOOLEAN PROVE StateOf(a) \in States
    BY DEF StateOf, States
  <1>10. ASSUME active # None, NEW c, status' = [status EXCEPT ![c] = StateOf(active.label)]
         PROVE status' \in [Commits -> States \cup {None}]
    <2>1. active.label \in BOOLEAN
      BY <1>10 DEF Runs
    <2> QED BY <1>9, <1>10, <2>1
  <1>11. CASE Publish
    BY <1>11, <1>5, <1>10 DEF Publish, pr, signoffs
  <1>12. CASE FailApproval
    <2>1. active \in Runs /\ active.event \in Events
      BY <1>12 DEF FailApproval, Runs
    <2>2. failures' \in 0..MaxFailures
      BY <1>12 DEF FailApproval
    <2>3. status' \in [Commits -> States \cup {None}]
      BY <1>12, <1>10 DEF FailApproval
    <2> QED BY <1>12, <1>5, <2>1, <2>2, <2>3 DEF FailApproval, pr, signoffs
  <1>13. ASSUME NEW e \in Events, RerunApproval(e) PROVE TypeOK'
    BY <1>6, <1>13 DEF RerunApproval, pr, signoffs
  <1>14. ASSUME NEW s \in BOOLEAN, Comment(s) PROVE TypeOK'
    <2> DEFINE new == [signoff |-> s, label |-> label, step |-> "queued"]
               kept == [i \in DOMAIN comments |->
                           IF comments[i].step = "queued" /\ i \notin StillQueued
                           THEN At(comments[i], "skipped")
                           ELSE comments[i]]
    <2>0. \A i \in DOMAIN comments : kept[i] \in Jobs
      <3>1. \A c \in Jobs : At(c, "skipped") \in Jobs
        BY DEF At, Jobs, Steps
      <3> QED BY <3>1
    <2>1. kept \in Seq(Jobs) /\ Len(kept) = Len(comments)
      BY <2>0
    <2>2. new \in Jobs
      BY DEF Jobs, Steps
    <2>3. comments' = Append(kept, new)
      BY <1>14 DEF Comment
    <2>4. comments' \in Seq(Jobs)
      BY <2>1, <2>2, <2>3
    <2> QED BY <1>14, <2>4 DEF Comment, pr, approval
  <1>15. ASSUME NEW k, NEW st \in Steps, k \in DOMAIN comments, MoveTo(k, st)
         PROVE comments' \in Seq(Jobs)
    <2>1. At(comments[k], st) \in Jobs
      <3>1. comments[k] \in Jobs
        BY <1>15
      <3> QED BY <3>1 DEF At, Jobs
    <2> QED BY <1>15, <2>1 DEF MoveTo
  <1>16. ASSUME NEW k \in 1..MaxComments, StartJob(k) PROVE TypeOK'
    BY <1>15, <1>16 DEF StartJob, InStep, Steps, pr, approval
  <1>17. ASSUME NEW k \in 1..MaxComments, Recheck(k) PROVE TypeOK'
    BY <1>15, <1>17 DEF Recheck, InStep, Steps, pr, approval
  <1>18. ASSUME NEW k \in 1..MaxComments, PostHoldOff(k) PROVE TypeOK'
    BY <1>15, <1>18 DEF PostHoldOff, InStep, Steps, pr, approval
  <1>19. ASSUME NEW k \in 1..MaxComments, FailJob(k) PROVE TypeOK'
    BY <1>15, <1>19 DEF FailJob, InStep, Steps, pr, approval
  <1>20. ASSUME NEW k \in 1..MaxComments, RerunJob(k) PROVE TypeOK'
    BY <1>15, <1>20 DEF RerunJob, InStep, Steps, pr, approval
  <1>21. CASE UNCHANGED vars
    BY <1>21 DEF vars, pr, approval, signoffs
  <1> QED
    BY <1>2, <1>3, <1>7, <1>8, <1>11, <1>12, <1>13, <1>14, <1>16, <1>17, <1>18,
       <1>19, <1>20, <1>21 DEF Next

-----------------------------------------------------------------------------
(* The approval status.                                                     *)

LEMMA InitApprovals == Init => Approvals
  <1> SUFFICES ASSUME Init PROVE Approvals
    OBVIOUS
  <1>1. undelivered # {} /\ active = None /\ waiting = None /\ label = FALSE
    BY DEF Init
  <1>2. \A c \in Commits : status[c] # "success"
    BY GateAssumption DEF Init, States
  <1> QED
    BY <1>1, <1>2 DEF Approvals, SettledStatusAgrees, SuccessWasEarned, ReadsAreFresh,
       NobodyWaitsAlone, ReadsAreEndorsed

LEMMA StepApprovals == TypeOK /\ Approvals /\ [Next]_vars => Approvals'
  <1> SUFFICES ASSUME TypeOK, Approvals, [Next]_vars PROVE Approvals'
    OBVIOUS
  <1> USE GateAssumption
  <1>0. ASSUME UNCHANGED <<label, head, approval, endorsed>> PROVE Approvals'
    BY <1>0 DEF Approvals, approval, SettledStatusAgrees, SuccessWasEarned,
       ReadsAreFresh, NobodyWaitsAlone, ReadsAreEndorsed
  \* A new run has not read yet, and it is a run.
  <1>1. ASSUME NEW e \in Events
        PROVE StartRun(e) # None /\ StartRun(e).step = "get" /\ StartRun(e).label = FALSE
    <2>1. StartRun(e) \in Runs
      BY DEF StartRun, Runs
    <2> QED BY <2>1 DEF StartRun
  \* A change leaves an event to deliver behind, and endorses a labelled head.
  <1>2. ASSUME NEW l \in BOOLEAN, NEW h \in Commits, Change(l, h) PROVE Approvals'
    <2>1. undelivered' # {}
      BY <1>2 DEF Change
    <2>2. endorsed \subseteq endorsed' /\ (label' => head' \in endorsed')
      BY <1>2 DEF Change
    <2>3. UNCHANGED <<status, active, waiting, endedBadly>>
      BY <1>2 DEF Change
    <2> QED
      BY <2>1, <2>2, <2>3 DEF Approvals, SettledStatusAgrees, SuccessWasEarned,
         ReadsAreFresh, NobodyWaitsAlone, ReadsAreEndorsed
  <1>3. CASE Relabel
    BY <1>2, <1>3 DEF Relabel, TypeOK
  <1>4. CASE Push
    BY <1>2, <1>4 DEF Push, TypeOK
  \* An admitted run either starts, and has not read yet, or waits.
  <1>5. ASSUME NEW e \in Events, Admit(e), UNCHANGED <<label, head, status, endorsed>>
        PROVE Approvals'
    <2>1. CASE active = None
      <3>1. active' = StartRun(e) /\ waiting' = None
        BY <1>5, <2>1 DEF Admit, Approvals, NobodyWaitsAlone
      <3>2. active'.step = "get" /\ active'.label = FALSE /\ active' # None
        BY <1>1, <3>1
      <3> QED
        BY <1>5, <3>1, <3>2 DEF Approvals, SettledStatusAgrees, SuccessWasEarned,
           ReadsAreFresh, NobodyWaitsAlone, ReadsAreEndorsed
    <2>2. CASE active # None
      <3>1. active' = active /\ waiting' = e /\ e # None
        BY <1>5, <2>2 DEF Admit
      <3> QED
        BY <1>5, <2>2, <3>1 DEF Approvals, SettledStatusAgrees, SuccessWasEarned,
           ReadsAreFresh, NobodyWaitsAlone, ReadsAreEndorsed
    <2> QED BY <2>1, <2>2
  <1>6. ASSUME NEW e \in Events, Deliver(e) PROVE Approvals'
    BY <1>5, <1>6 DEF Deliver, pr
  <1>7. ASSUME NEW e \in Events, RerunApproval(e) PROVE Approvals'
    BY <1>5, <1>7 DEF RerunApproval, pr
  \* What is read is current, and the head that is read with the label endorsed.
  <1>8. CASE GetPullRequest
    <2>1. active \in Runs /\ active # None
      BY <1>8 DEF GetPullRequest, TypeOK
    <2>2. active'.label = label /\ active'.head = head /\ active'.step = "publish"
      BY <1>8 DEF GetPullRequest, LabelRead, HeadRead
    <2>3. active' \in Runs
      BY <1>8, <2>1 DEF GetPullRequest, LabelRead, HeadRead, Runs, TypeOK
    <2>4. active' # None
      BY <2>3
    <2>5. UNCHANGED <<label, head, status, undelivered, waiting, endedBadly, endorsed>>
      BY <1>8 DEF GetPullRequest, pr
    <2> QED
      BY <2>1, <2>2, <2>4, <2>5 DEF Approvals, TypeOK, SettledStatusAgrees,
         SuccessWasEarned, ReadsAreFresh, NobodyWaitsAlone, ReadsAreEndorsed
  \* When a run ends, either nothing waits or the run that starts has not read.
  <1>9. ASSUME Leave PROVE /\ waiting' = None
                           /\ active' = None => waiting = None
                           /\ active' # None => active'.step = "get" /\ active'.label = FALSE
    BY <1>1, <1>9 DEF Leave, TypeOK
  \* Publishing what was read keeps every success earned.
  <1>10. ASSUME active # None, active.step = "publish",
                status' = [status EXCEPT ![active.head] = StateOf(active.label)],
                UNCHANGED endorsed
         PROVE SuccessWasEarned' /\ status'[active.head] = StateOf(active.label)
    <2>1. active.head \in Commits /\ (active.label => active.head \in endorsed)
      BY <1>10 DEF Approvals, ReadsAreEndorsed
    <2>2. ~active.label => StateOf(active.label) # "success"
      BY DEF StateOf
    <2> QED
      BY <1>10, <2>1, <2>2 DEF TypeOK, Approvals, SuccessWasEarned
  <1>11. CASE Publish
    <2>1. SuccessWasEarned' /\ status'[active.head] = StateOf(active.label)
      BY <1>10, <1>11 DEF Publish
    <2>2. UNCHANGED <<label, head, undelivered, endorsed>>
      BY <1>11 DEF Publish, pr
    <2>3. SettledStatusAgrees'
      <3> SUFFICES ASSUME undelivered = {}, active' = None PROVE status'[head] = StateOf(label)
        BY <2>2 DEF SettledStatusAgrees
      <3>1. waiting = None
        BY <1>9, <1>11 DEF Publish
      <3>2. active.label = label /\ active.head = head
        BY <1>11, <3>1 DEF Publish, Approvals, ReadsAreFresh
      <3> QED BY <2>1, <3>2
    <2> QED
      BY <1>9, <1>11, <2>1, <2>2, <2>3 DEF Publish, Approvals, ReadsAreFresh,
         NobodyWaitsAlone, ReadsAreEndorsed
  <1>12. CASE FailApproval
    <2>1. UNCHANGED <<label, head, undelivered, endorsed>> /\ endedBadly' = TRUE
      BY <1>12 DEF FailApproval, pr
    <2>2. SuccessWasEarned'
      BY <1>10, <1>12, <2>1 DEF FailApproval, Approvals, SuccessWasEarned
    <2> QED
      BY <1>9, <1>12, <2>1, <2>2 DEF FailApproval, Approvals, SettledStatusAgrees,
         ReadsAreFresh, NobodyWaitsAlone, ReadsAreEndorsed
  <1>13. ASSUME \/ \E s \in BOOLEAN : Comment(s)
                \/ \E k \in 1..MaxComments : StartJob(k) \/ Recheck(k) \/ PostHoldOff(k)
                                                \/ FailJob(k) \/ RerunJob(k)
                \/ UNCHANGED vars
         PROVE Approvals'
    BY <1>0, <1>13 DEF Comment, StartJob, Recheck, PostHoldOff, FailJob, RerunJob, pr, vars
  <1> QED
    BY <1>3, <1>4, <1>6, <1>7, <1>8, <1>11, <1>12, <1>13 DEF Next

-----------------------------------------------------------------------------
(* The hold-off comment.                                                    *)

LEMMA InitReady == Init => ReadyIsPending
  BY DEF Init, ReadyIsPending

LEMMA StepReady == TypeOK /\ Approvals /\ ReadyIsPending /\ [Next]_vars => ReadyIsPending'
  <1> SUFFICES ASSUME TypeOK, Approvals, ReadyIsPending, [Next]_vars
               PROVE ReadyIsPending'
    OBVIOUS
  <1>0. ASSUME UNCHANGED <<toDefault, comments, bot>>, endorsed \subseteq endorsed'
        PROVE ReadyIsPending'
    BY <1>0 DEF ReadyIsPending
  <1>1. ASSUME NEW l, NEW h, Change(l, h) PROVE ReadyIsPending'
    BY <1>0, <1>1 DEF Change, signoffs
  <1>2. CASE Relabel \/ Push
    BY <1>1, <1>2 DEF Relabel, Push
  <1>3. CASE \/ GetPullRequest \/ Publish \/ FailApproval
             \/ \E e \in Events : Deliver(e) \/ RerunApproval(e)
    BY <1>0, <1>3 DEF GetPullRequest, Publish, FailApproval, Deliver, RerunApproval, pr, signoffs
  \* While nothing is endorsed a new payload does not carry the label either.
  <1>4. ASSUME NEW s \in BOOLEAN, Comment(s) PROVE ReadyIsPending'
    <2> DEFINE new == [signoff |-> s, label |-> label, step |-> "queued"]
               kept == [i \in DOMAIN comments |->
                           IF comments[i].step = "queued" /\ i \notin StillQueued
                           THEN At(comments[i], "skipped") ELSE comments[i]]
    <2>1. kept = comments
      <3>1. \A i \in DOMAIN comments : kept[i] = comments[i]
        BY DEF StillQueued, InStep
      <3> QED BY <3>1 DEF TypeOK
    <2>2. comments' = Append(comments, new)
      BY <1>4, <2>1 DEF Comment
    <2>3. /\ DOMAIN comments' = DOMAIN comments \cup {Len(comments) + 1}
          /\ \A i \in DOMAIN comments : comments'[i] = comments[i]
          /\ comments'[Len(comments) + 1] = new
      BY <2>2 DEF TypeOK
    <2>4. label => endorsed # {}
      BY DEF Approvals, ReadsAreEndorsed
    <2>5. UNCHANGED <<toDefault, endorsed>> /\ bot' = IF s THEN "ready" ELSE bot
      BY <1>4 DEF Comment, pr
    <2>6. \A k \in DOMAIN comments' :
              /\ comments'[k].label => endorsed # {}
              /\ comments'[k].step \in {"get", "post", "failed"} => Screened(comments'[k])
      BY <2>3, <2>4 DEF ReadyIsPending
    <2>7. CASE s = TRUE
      <3>1. endorsed = {} => Screened(new) /\ new.step = "queued"
        BY <2>4, <2>7 DEF Screened
      <3> QED BY <2>3, <2>5, <2>6, <3>1 DEF ReadyIsPending
    <2>8. CASE s = FALSE
      <3>1. bot' = bot
        BY <2>5, <2>8
      <3> QED BY <2>3, <2>5, <2>6, <3>1 DEF ReadyIsPending
    <2> QED BY <2>7, <2>8
  \* A job that moves keeps its payload.
  <1>5. ASSUME NEW k \in DOMAIN comments, NEW st, MoveTo(k, st)
        PROVE /\ DOMAIN comments' = DOMAIN comments
              /\ \A i \in DOMAIN comments :
                     /\ i # k => comments'[i] = comments[i]
                     /\ comments'[i].label = comments[i].label
                     /\ Screened(comments'[i]) = Screened(comments[i])
              /\ comments'[k].step = st
    BY <1>5 DEF MoveTo, At, Screened, TypeOK
  <1>6. ASSUME NEW k \in DOMAIN comments, NEW st, MoveTo(k, st), UNCHANGED <<pr, endorsed>>,
               bot' = bot \/ bot' = "held",
               st \in {"get", "post", "failed"} => Screened(comments[k]),
               (Screened(comments[k]) /\ endorsed = {} /\ toDefault /\ bot' = "ready")
                   => st \in {"queued", "get", "post", "failed"}
        PROVE ReadyIsPending'
    <2>1. UNCHANGED <<toDefault, endorsed>>
      BY <1>6 DEF pr
    <2>2. \A i \in DOMAIN comments' :
              /\ comments'[i].label => endorsed # {}
              /\ comments'[i].step \in {"get", "post", "failed"} => Screened(comments'[i])
      BY <1>5, <1>6 DEF ReadyIsPending
    <2>3. ASSUME endorsed = {}, toDefault, bot' = "ready"
          PROVE \E i \in DOMAIN comments' :
                    /\ Screened(comments'[i])
                    /\ comments'[i].step \in {"queued", "get", "post", "failed"}
      <3>1. bot = "ready"
        BY <1>6, <2>3
      <3>2. PICK i \in DOMAIN comments :
                /\ Screened(comments[i])
                /\ comments[i].step \in {"queued", "get", "post", "failed"}
        BY <2>3, <3>1 DEF ReadyIsPending
      <3>3. CASE i = k
        BY <1>5, <1>6, <2>3, <3>2, <3>3
      <3>4. CASE i # k
        BY <1>5, <1>6, <3>2, <3>4
      <3> QED BY <3>3, <3>4
    <2> QED BY <2>1, <2>2, <2>3 DEF ReadyIsPending
  <1>7. ASSUME NEW k \in 1..MaxComments, StartJob(k) PROVE ReadyIsPending'
    BY <1>6, <1>7 DEF StartJob, InStep
  <1>8. ASSUME NEW k \in 1..MaxComments, Recheck(k) PROVE ReadyIsPending'
    <2>1. k \in DOMAIN comments /\ Screened(comments[k])
      BY <1>8 DEF Recheck, InStep, ReadyIsPending
    <2>2. endorsed = {} => ~label
      BY DEF Approvals, ReadsAreEndorsed
    <2> QED BY <1>6, <1>8, <2>1, <2>2 DEF Recheck
  <1>9. ASSUME NEW k \in 1..MaxComments, PostHoldOff(k) PROVE ReadyIsPending'
    <2>1. bot' = "held" /\ "held" # "ready"
      BY <1>9 DEF PostHoldOff
    <2> QED BY <1>6, <1>9, <2>1 DEF PostHoldOff, InStep
  <1>10. ASSUME NEW k \in 1..MaxComments, FailJob(k) PROVE ReadyIsPending'
    <2>1. k \in DOMAIN comments /\ Screened(comments[k])
      BY <1>10 DEF FailJob, InStep, ReadyIsPending
    <2> QED BY <1>6, <1>10, <2>1 DEF FailJob
  <1>11. ASSUME NEW k \in 1..MaxComments, RerunJob(k) PROVE ReadyIsPending'
    <2>1. k \in DOMAIN comments
      BY <1>11 DEF RerunJob, InStep
    <2> QED BY <1>6, <1>11, <2>1 DEF RerunJob
  <1>12. CASE UNCHANGED vars
    BY <1>0, <1>12 DEF vars, pr, signoffs
  <1> QED
    BY <1>2, <1>3, <1>4, <1>7, <1>8, <1>9, <1>10, <1>11, <1>12 DEF Next

-----------------------------------------------------------------------------
(* The theorems.                                                            *)

LEMMA Invariance == Spec => [](TypeOK /\ Approvals /\ ReadyIsPending)
  <1>1. Init => TypeOK /\ Approvals /\ ReadyIsPending
    BY InitType, InitApprovals, InitReady
  <1>2. TypeOK /\ Approvals /\ ReadyIsPending /\ [Next]_vars
            => (TypeOK /\ Approvals /\ ReadyIsPending)'
    BY StepType, StepApprovals, StepReady
  <1> QED BY <1>1, <1>2, PTL DEF Spec

\* Every variable of the gate keeps its type.
THEOREM GateTypes == Spec => []TypeOK
  BY Invariance, PTL

\* The status published on a quiet head is the one its label stands for, however
\* runs, replaced runs, changes and reruns were interleaved.
THEOREM StatusSettles == Spec => []SettledStatusAgrees
  <1>1. Approvals => SettledStatusAgrees
    BY DEF Approvals
  <1> QED BY <1>1, Invariance, PTL

\* No commit is ever marked approved that was not the head under the label.
THEOREM SuccessIsEarned == Spec => []SuccessWasEarned
  <1>1. Approvals => SuccessWasEarned
    BY DEF Approvals
  <1> QED BY <1>1, Invariance, PTL

\* A sign-off on a pull request that was never approved does not survive the
\* jobs of its comments.
THEOREM UnapprovedIsHeld == Spec => []UnapprovedNeverStaysReady
  <1>1. ReadyIsPending => UnapprovedNeverStaysReady
    BY DEF ReadyIsPending, UnapprovedNeverStaysReady, InStep
  <1> QED BY <1>1, Invariance, PTL

=============================================================================
