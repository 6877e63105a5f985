----------------------------- MODULE IntakeRules -----------------------------
(***************************************************************************)
(* What an apply run accepts of the files it checks out: the submission    *)
(* and the three configurations, each parsed already.                      *)
(*                                                                         *)
(* An object is a function from the names of its fields to their values;   *)
(* Junk stands for a value of a type the field does not take, blank text   *)
(* included.  Texts are strings with something to read in them; what       *)
(* trimming, folding and the patterns of the code make of them is given.   *)
(***************************************************************************)
EXTENDS Naturals

CONSTANTS
    Texts,
    Trimmed,        \* Trimmed[t]: t without the blanks around it
    Folded,         \* Folded[t]: t in lower case
    Emails,         \* the trimmed texts with the form of an address,
    Usernames,      \* of a GitHub login,
    Names,          \* of a repository owner or name,
    ArticlePaths,   \* of a relative path to a Markdown file,
    Prefixes,       \* of capital letters only,
    SecureUrls,     \* and of an HTTPS address
    Junk

ASSUME RulesAssumption ==
    /\ Trimmed \in [Texts -> Texts] /\ Folded \in [Texts -> Texts]
    /\ \A t \in Texts : Trimmed[Trimmed[t]] = Trimmed[t] /\ Folded[Folded[t]] = Folded[t]
    /\ UNION {Emails, Usernames, Names, ArticlePaths, Prefixes, SecureUrls} \subseteq Texts
    /\ Junk \notin Texts /\ Junk \notin Nat

\* CheckFields: no required field is missing and no other one is there.
HasFields(v, fields) == v # Junk /\ DOMAIN v = fields

IsText(v) == v \in Texts
IsCount(v) == v \in Nat \ {0}
Matches(v, pattern) == IsText(v) /\ Trimmed[v] \in pattern

-----------------------------------------------------------------------------
(* SubmissionValidator and SubmissionFactory.                               *)

CheckContributor(v) ==
    /\ HasFields(v, {"name", "email", "githubUsername"})
    /\ IsText(v.name) /\ Matches(v.email, Emails) /\ Matches(v.githubUsername, Usernames)

CheckRepository(v) ==
    /\ HasFields(v, {"owner", "name"})
    /\ Matches(v.owner, Names) /\ Matches(v.name, Names)

CheckType(v) == v \in {"update", "new-content"}
CheckArticle(v) == Matches(v, ArticlePaths)

CheckProposal(v) ==
    /\ HasFields(v, {"title", "summary"})
    /\ IsText(v.title) /\ IsText(v.summary)

CheckRoot(v) ==
    /\ HasFields(v, {"submissionNumber", "contributor", "submissionType", "repository",
                     "articlePath", "proposal"})
    /\ IsCount(v.submissionNumber)
    /\ CheckContributor(v.contributor)
    /\ CheckType(v.submissionType)
    /\ CheckRepository(v.repository)
    /\ CheckArticle(v.articlePath)
    /\ CheckProposal(v.proposal)

\* BuildValue trims every string; what the record keeps of the result.
TargetOf(v) ==
    [owner |-> Trimmed[v.repository.owner], name |-> Trimmed[v.repository.name],
     articlePath |-> Trimmed[v.articlePath]]

-----------------------------------------------------------------------------
(* IntakeConfigService and IntakePlanner.                                   *)

\* Two repositories of the list are different in whatever case they are written;
\* a field that is missing is read as undefined, which is no text.
CheckRepositories(list) ==
    /\ list # Junk /\ list # <<>>
    /\ \A i \in DOMAIN list :
           /\ HasFields(list[i], {"owner", "name"})
           /\ IsText(list[i].owner) /\ IsText(list[i].name)
    /\ \A i, j \in DOMAIN list :
           /\ Folded[list[i].owner] = Folded[list[j].owner]
           /\ Folded[list[i].name] = Folded[list[j].name]
           => i = j

AcceptsIntakeConfig(v) ==
    /\ HasFields(v, {"defaultApprover", "approvalMode", "allowedRepositories"})
    /\ IsText(v.defaultApprover)
    /\ v.approvalMode \in {"preapproved", "approval-required"}
    /\ CheckRepositories(v.allowedRepositories)

\* IntakePlanner.CheckRepository compares without regard to case; the texts of
\* the configuration are not trimmed.
Allowed(target, config) ==
    \E i \in DOMAIN config.allowedRepositories :
        LET repository == config.allowedRepositories[i] IN
        /\ Folded[repository.owner] = Folded[target.owner]
        /\ Folded[repository.name] = Folded[target.name]

-----------------------------------------------------------------------------
(* AzureDevOpsConfigService and StartConfigService.                         *)

CheckTags(list) ==
    /\ list # Junk /\ list # <<>>
    /\ \A i \in DOMAIN list : IsText(list[i])
    /\ \A i, j \in DOMAIN list : list[i] = list[j] => i = j

AcceptsAzureDevOpsConfig(v) ==
    /\ HasFields(v, {"organization", "project", "parentId", "allowedPrefix", "tags"})
    /\ IsText(v.organization) /\ IsText(v.project)
    /\ IsCount(v.parentId)
    /\ v.allowedPrefix \in Prefixes
    /\ CheckTags(v.tags)

\* The destination a configuration names.
PlaceOf(v) ==
    [organization |-> v.organization, project |-> v.project, parentId |-> v.parentId,
     allowedPrefix |-> v.allowedPrefix]

StartLinks == {"idWebUrl", "accessHelpUrl", "contributionOptionsUrl"}

AcceptsStartConfig(v) ==
    /\ HasFields(v, {"senderName", "senderAddress", "subject", "bannerPath", "footerPath",
                     "outputDirectory"} \cup StartLinks)
    /\ \A f \in DOMAIN v : IsText(v[f])
    /\ \A f \in StartLinks : v[f] \in SecureUrls

-----------------------------------------------------------------------------

\* A checkout has a submission file and the configurations.  Everything but the
\* start-package configuration is read before the first outside call.
Accepts(checkout) ==
    /\ CheckRoot(checkout.submission)
    /\ AcceptsIntakeConfig(checkout.intakeConfig)
    /\ Allowed(TargetOf(checkout.submission), checkout.intakeConfig)
    /\ AcceptsAzureDevOpsConfig(checkout.azureDevOpsConfig)

=============================================================================
