SPECIFICATION Spec
CONSTANTS
    None = None
    Order <- MCOrder
    Files <- MCFiles
    KrmFiles <- MCKrmFiles
    Shadows <- MCShadows
    Values <- MCValues
    Versions <- MCVersions
    Sources = {"R", "S", "T"}
    Strategies = {"resource-merge", "fast-forward", "force-delete-replace", "copy-merge"}
    Root = "R"
    Within <- MCWithin
    Histories <- MCHistories
    Upstream <- MCUpstream
    RunStrategies = {"resource-merge"}
    MaxEdits = 0
    MaxRuns = 2
    MaxSteps = 2
CHECK_DEADLOCK FALSE
INVARIANT
    UnmodifiedInSync
