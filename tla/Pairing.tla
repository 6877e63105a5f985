------------------------------- MODULE Pairing -------------------------------
(***************************************************************************)
(* What correlation promises: a run for a pull request looks at all stored *)
(* submissions at one moment, and later claims the one that fitted, unless *)
(* another pull request has claimed it first.  There are no documents, no  *)
(* revisions and no searches here; module Correlation, which reads the     *)
(* documents one by one while others write them, is shown to implement it. *)
(***************************************************************************)
EXTENDS SubmissionTerms, Naturals

CONSTANTS
    Submissions,  \* Submissions[i]: the repository, article and user of submission i
    Early,        \* the submissions recorded at first
    Pulls,        \* the pull requests
    Author,       \* Author[p]: the user id of p's author
    FirstFiles,   \* FirstFiles[p]: the files p changes at first
    Refiled,      \* Refiled[p]: what a push may make of them
    Named,        \* Named[p]: the submission ids in p's text at first
    Respelled,    \* Respelled[p]: the ids p's text may be edited to name
    Target,       \* the repository served
    None

VARIABLES
    record,  \* of every recorded submission, its user, pull request and stage
    text,    \* the ids each pull request's text names now
    files,   \* the files each pull request changes now
    look     \* what each pull request's run has seen

vars == <<record, text, files, look>>

Known   == DOMAIN Submissions
Fresh   == [user |-> None, pull |-> None, stage |-> Planned]
Nothing == [phase |-> "idle", ids |-> {}, files |-> <<>>, fitted |-> {}]

\* Submission i fits the evidence: the ids p's text named and, if there was none,
\* p's author and the files paths.
Fits(i, p, ids, paths) ==
    /\ i \in DOMAIN record /\ Submissions[i].repository = Target
    /\ IF ids = {}
       THEN /\ record[i].user = Author[p]
            /\ \E k \in DOMAIN paths : paths[k] = Submissions[i].article
       ELSE ids = {i}

Init ==
    /\ record = [i \in Early |-> Fresh]
    /\ text = Named
    /\ files = FirstFiles
    /\ look = [p \in Pulls |-> Nothing]

Create(i) ==
    /\ i \notin DOMAIN record
    /\ record' = [j \in DOMAIN record \cup {i} |-> IF j = i THEN Fresh ELSE record[j]]
    /\ UNCHANGED <<text, files, look>>

Identify(i) ==
    /\ i \in DOMAIN record /\ record[i].user = None
    /\ record' = [record EXCEPT ![i].user = Submissions[i].user]
    /\ UNCHANGED <<text, files, look>>

Advance(i) ==
    /\ i \in DOMAIN record /\ record[i].pull # None /\ record[i].stage = TechnicalReview
    /\ record' = [record EXCEPT ![i].stage = ContentReview]
    /\ UNCHANGED <<text, files, look>>

Edit(p) ==
    /\ \E ids \in Respelled[p] : ids # text[p] /\ text' = [text EXCEPT ![p] = ids]
    /\ UNCHANGED <<record, files, look>>

Push(p) ==
    /\ \E paths \in Refiled[p] : paths # files[p] /\ files' = [files EXCEPT ![p] = paths]
    /\ UNCHANGED <<record, text, look>>

ReadText(p) ==
    /\ look[p].phase = "idle"
    /\ look' = [look EXCEPT ![p] = [phase |-> "read", ids |-> text[p],
                                    files |-> <<>>, fitted |-> {}]]
    /\ UNCHANGED <<record, text, files>>

Look(p) ==
    /\ look[p].phase = "read"
    /\ look' = [look EXCEPT ![p] =
           [phase |-> "looked", ids |-> look[p].ids, files |-> files[p],
            fitted |-> {i \in Known : Fits(i, p, look[p].ids, files[p])}]]
    /\ UNCHANGED <<record, text, files>>

\* Nothing but the claimed submission had fitted; it still fits, and is free.
Claim(i, p) ==
    /\ look[p].phase = "looked" /\ look[p].fitted \subseteq {i}
    /\ Fits(i, p, look[p].ids, look[p].files) /\ record[i].pull = None
    /\ record' = [record EXCEPT ![i].pull = p, ![i].stage = TechnicalReview]
    /\ look' = [look EXCEPT ![p] = Nothing]
    /\ UNCHANGED <<text, files>>

\* The run ends without a claim: nothing fitted or too much, a conflict, a failure.
Leave(p) ==
    /\ look[p].phase # "idle"
    /\ look' = [look EXCEPT ![p] = Nothing]
    /\ UNCHANGED <<record, text, files>>

Next ==
    \/ \E i \in Known : Create(i) \/ Identify(i) \/ Advance(i)
    \/ \E p \in Pulls : Edit(p) \/ Push(p) \/ ReadText(p) \/ Look(p) \/ Leave(p)
    \/ \E i \in Known, p \in Pulls : Claim(i, p)

Spec == Init /\ [][Next]_vars

=============================================================================
