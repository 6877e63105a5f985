SPECIFICATION Spec
CONSTANTS
    None = None
    Junk = Junk
    u1 = u1
    u2 = u2
    c1 = c1
    c2 = c2
    p1 = p1
    r1 = r1
    r2 = r2
    H1000 = H1000
    H10000 = H10000
    Texts <- MCTexts
    Trimmed <- MCTrimmed
    Folded <- MCFolded
    Emails = {"a@b.com"}
    Usernames = {"ana-ms"}
    Names <- MCNames
    ArticlePaths = {"docs/a.md", "docs/b.md"}
    Prefixes = {"HACK"}
    SecureUrls = {"https://x"}
    Checkouts <- MCCheckouts
    FirstCheckout <- MCFirst
    FirstUser = u1
    FirstBase = c1
    Targets <- MCTargets
    Users = {u1, u2}
    Commits = {c1, c2}
    Pulls = {p1}
    Submissions = {H1000, H10000}
    Submission = H1000
    Contains <- MCContains
    Places <- MCPlaces
    Parentless <- MCParentless
    Pinned <- here
    CandidateLimit = 3
    Boards <- MCBoards
    Runs = {r1, r2}
    MaxDisturbances = 2
INVARIANT ForeignIsNotAdopted
