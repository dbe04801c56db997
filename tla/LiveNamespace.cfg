CONSTANTS
  Objs = {a, b}
  LocalConfig = {}
  Names = {"n1", "n2"}
  Namespaces = {"ns1", "ns2"}
  IDs = {"t", "k", "x"}
  RGFiles = {"rg1", "rg2"}
  FoundNamespaces = {"ns1", "ns2"}
  TemplateID = "t"
  KptfileInv <- MCKptfileInv
  Invocations <- MCInvocations
  MaxCommands = 3
  NoInv = NoInv
  BadInv = BadInv
  NoFile = NoFile
  NoRG = NoRG
  Absent = Absent
  Unowned = Unowned
SPECIFICATION Spec
CHECK_DEADLOCK FALSE
INVARIANT OwnedAreTracked
