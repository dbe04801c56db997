SPECIFICATION FairSpec
CONSTANTS
    None = None
    Order <- MCOrder
    Files <- MCFiles
    KrmFiles <- MCKrmFiles
    Shadows <- MCShadows
    Values <- MCValues
    Versions <- MCVersions
    Sources = {"R", "S", "T"}
    Strategies = {"resource-merge", "fast-forward", "force-delete-replace", "copy-merge"}
    Root = "R"
    Within <- MCWithin
    Histories <- MCHistories
    Upstream <- MCUpstream
    RunStrategies = {"resource-merge", "fast-forward", "force-delete-replace", "copy-merge"}
    MaxEdits = 1
    MaxRuns = 2
    MaxSteps = 2
CHECK_DEADLOCK FALSE
INVARIANTS
    InSync
    AllFetched
    Together
PROPERTIES
    EditsKept
    Terminates
