SPECIFICATION DeclarationSpec
CONSTANTS
  f1 = f1  f2 = f2  h1 = h1  h2 = h2
  Pairs = {f1, f2}
  None = None
  Requests <- MCRequests
  HouseholdOf <- MCHouseholdOf
  BlankIn <- MCBlankIn
  Orders <- MCOrders
  Inputs <- MCInputs
INVARIANTS
  DeclarationTypeOK ClustersAreTheGaps PeriodsTellTheGaps EachCountsOnce
    BirthDatesAsIssued
CHECK_DEADLOCK FALSE
