--------------------------- MODULE SubmissionTerms ---------------------------
(***************************************************************************)
(* The words of the domain: the stages a submission passes and the review  *)
(* events that move it, as stored in every state document.                 *)
(***************************************************************************)

\* SubmissionStage.
Intake          == "intake"
Planned         == "planned"
Drafting        == "drafting"
TechnicalReview == "technical-review"
ContentReview   == "content-review"
EditorialReview == "editorial-review"
Publishing      == "publishing"
Complete        == "complete"
Withdrawn       == "withdrawn"

SubmissionStage == {Intake, Planned, Drafting, TechnicalReview, ContentReview,
                    EditorialReview, Publishing, Complete, Withdrawn}

\* ReviewAction.
PullRequestOpened == "pull-request-opened"
Approved          == "approved"
ChangesRequested  == "changes-requested"
RevisionSubmitted == "revision-submitted"
TechnicalReopened == "technical-reopened"
ContentReopened   == "content-reopened"
Merged            == "merged"

ReviewAction == {PullRequestOpened, Approved, ChangesRequested, RevisionSubmitted,
                 TechnicalReopened, ContentReopened, Merged}

=============================================================================
