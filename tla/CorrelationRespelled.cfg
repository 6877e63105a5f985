\* One submission whose repository is spelled another way, and the pull request
\* that names it.
SPECIFICATION FairSpec
CONSTANTS
    h1 = h1
    h2 = h2
    a1 = a1
    a2 = a2
    owner = owner
    name = name
    shouted = shouted
    c1 = c1
    c2 = c2
    mail = mail
    now = now
    Junk = Junk
    None = None
    Ids <- MCIds
    Texts <- MCTexts
    Shas <- MCShas
    Lower <- MCLower
    Emails <- MCEmails
    Dates <- MCDates
    Numbers <- MCNumbers
    Submissions <- OneRespelled
    SortedIds <- FirstId
    Early = {h1}
    Pulls <- SecondPull
    Author <- MCAuthor
    FirstTip <- OneFirstTip
    Pushes <- NoPushes
    Named <- OneNamed
    Respelled <- NoRespelled
    Target <- MCTarget
    SameAsTarget <- MCSameAsTarget
    Assignee = mail
    MaxFailures = 0
    MaxReruns = 1
PROPERTIES
    RespelledIsPaired
CHECK_DEADLOCK FALSE
