CONSTANTS
  Objs = {a, b}
  LocalConfig = {}
  Names = {"n1", "n2"}
  Namespaces = {"ns1"}
  IDs = {"t", "k", "x"}
  RGFiles = {"rg1", "rg2"}
  FoundNamespaces = {"ns1"}
  TemplateID = "t"
  KptfileInv <- MCKptfileInv
  Invocations <- MCInvocations
  MaxCommands = 3
  NoInv = NoInv
  BadInv = BadInv
  NoFile = NoFile
  NoRG = NoRG
  Absent = Absent
  Unowned = Unowned
SPECIFICATION Spec
SYMMETRY Perms
INVARIANTS TypeOK OwnedAreTracked
PROPERTIES NoOrphans MergeKeeps StatusFollowsList PlanForetells
CHECK_DEADLOCK FALSE
