SPECIFICATION FairSpec
CONSTANTS
    r1 = r1
    r2 = r2
    r3 = r3
    c1 = c1
    c2 = c2
    k1 = k1
    None = None
    OpenKey = OpenKey
    EventIds <- TwoRuns
    Commits <- OneCommit
    IntakeKeys <- NoKeys
    StaleReads = FALSE
    MaxFailures = 1
    MaxSent = 1
PROPERTIES
    OpenHandoffDelivered
