SPECIFICATION Spec
CONSTANTS
    c1 = c1
    c2 = c2
    s1 = s1
    p1 = p1
    p2 = p2
    Procs = {p1, p2}
    Commits = {c1, c2}
    First = c1
    HeadNames <- MCHeads
    TagNames <- MCTags
    Shorts = {s1}
    ShortOf <- MCShortOf
    LocalBranch = "main"
    PackageTags <- MCPackageTags
    Wanted <- MCWanted
    Files <- OneFile
    None = None
    MaxFetches = 2
    MaxMoves = 2
SYMMETRY Perms
CHECK_DEADLOCK FALSE
INVARIANTS
    TypeOK
    FreshCommit
    ResetFailsOnlyOnMove
    SkipIsSound
    CopyIsCommit
