\* Two commits, the opening and two changes, two comments, one failure: a
\* label that comes and goes around a push, with a run going on and one waiting.
SPECIFICATION FairSpec
CONSTANTS
    c1 = c1
    c2 = c2
    None = None
    First = c1
    Commits = {c1, c2}
    MaxChanges = 2
    MaxComments = 2
    MaxFailures = 1
INVARIANTS
    TypeOK
    SettledStatusAgrees
    SuccessWasEarned
    UnapprovedNeverStaysReady
PROPERTIES
    StatusCatchesUp
    SignOffAnswered
\* Bounded changes and comments run out.
CHECK_DEADLOCK FALSE
