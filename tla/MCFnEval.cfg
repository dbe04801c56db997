CONSTANTS
  NoID = NoID
  NoTag = NoTag
  Literal = Literal
  BuildTag = BuildTag
  Unresolved = Unresolved
  None = None
  Versions <- McVersions
  Order <- McOrder
  Attrs <- McAttrs
  Lines <- McLines
  Saved <- McSaved
  Pool <- McPool
  Clones = FALSE
  MaxEvals = 2
SPECIFICATION Spec
INVARIANTS EvalIsExact
PROPERTIES SavedIsEvaluated SaveReplaces NeverOlder
