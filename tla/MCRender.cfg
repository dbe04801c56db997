SPECIFICATION Spec
CONSTANTS
    root = root
    a = a
    b = b
    c = c
    Pkgs <- MCPkgs
    Root = root
    Children <- MCChildren
    Parent <- MCParent
    Below <- MCBelow
    Names <- MCNames
    Kptfile = "Kptfile"
    NoName = ""
    FnIds <- MCFnIds
    Mutators <- MCMutators
    Validators <- MCValidators
    Layouts <- MCLayouts
    BadSets <- MCBadSets
    Options <- MCOptions
CHECK_DEADLOCK FALSE
INVARIANTS
    TypeOK
    ScopedVisibility
    FunctionOrder
    ConfigIsCurrent
    SuccessIsComplete
    SuccessIsExact
    FailureLeavesPackage
    FailureDeletesNothing
    ConditionTracksOutcome
    StepsTellOutcome
    SavedNearRoot
PROPERTY Termination
