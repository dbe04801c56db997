CONSTANTS
  Missing = Missing
  Null = Null
  NoComment = NoComment
  None = None
  ResourceIds = {1, 2, 3, 4, 5}
  Names = {"x", "y"}
  Files = {"f", "g"}
  Vals = {"a", "b"}
  Keys = {"k", "l"}
  Upstreams <- McUpstreams
  MaxSteps = 4
  MaxUpdates = 2
SPECIFICATION Spec
INVARIANTS  LocalWorkKept UnmodifiedFollows
