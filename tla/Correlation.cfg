\* Two submissions, two pull requests, one push, one edit, one failure and one
\* rerun: searches that documents appear under and that a push changes the files
\* of, a second pull request for a claimed submission.
SPECIFICATION FairSpec
CONSTANTS
    h1 = h1
    h2 = h2
    a1 = a1
    a2 = a2
    owner = owner
    name = name
    shouted = shouted
    c1 = c1
    c2 = c2
    mail = mail
    now = now
    Junk = Junk
    None = None
    Ids <- MCIds
    Texts <- MCTexts
    Shas <- MCShas
    Lower <- MCLower
    Emails <- MCEmails
    Dates <- MCDates
    Numbers <- MCNumbers
    Submissions <- TwoArticles
    SortedIds <- BothIds
    Early = {h1}
    Pulls <- TwoPulls
    Author <- MCAuthor
    FirstTip <- MCFirstTip
    Pushes <- MCPushes
    Named <- MCNamed
    Respelled <- MCRespelled
    Target <- MCTarget
    SameAsTarget <- MCSameAsTarget
    Assignee = mail
    MaxFailures = 1
    MaxReruns = 1
INVARIANTS
    TypeOK
    StoredDocumentsDecode
    NoGuessAmongKnown
    OneSubmissionUnlessChanged
PROPERTIES
    RecordedIsKept
    ImplementsPairing
    NamedIsPaired
\* Runs end and are not rerun for ever.
CHECK_DEADLOCK FALSE
