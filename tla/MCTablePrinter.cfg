CONSTANTS
  Ids = {"a", "b"}
  Plans <- MCPlans
  Statuses = {"Current"}
  MaxEvents = 3
  Reported = {"Successful", "Failed", "Timeout"}
  NoRow = NoRow
SPECIFICATION Spec
INVARIANTS FinalTable HonestResult
PROPERTY PrintReturns
