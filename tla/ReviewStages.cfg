SPECIFICATION Spec
CONSTANTS
    e1 = e1
    e2 = e2
    e3 = e3
    e4 = e4
    e5 = e5
    c1 = c1
    c2 = c2
    None = None
    OpenKey = OpenKey
    EventIds <- FiveEvents
    Commits <- TwoCommits
SYMMETRY Symmetry
INVARIANTS
    TypeOK
    TechnicalGate
    PublicationGate
    EventsRecordedOnce
    HistoryIsAWalk
