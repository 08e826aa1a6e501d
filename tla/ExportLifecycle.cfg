SPECIFICATION FairSpec
CONSTANTS
  e1 = e1  e2 = e2  o1 = o1  o2 = o2
  Exports = {e1, e2}
  Orgs = {o1, o2}
  OrgOf <- MCOrgOf
  Admin = Admin
  Viewers <- MCViewers
  Window = 1
  MaxFaults = 1
INVARIANTS TypeOK OutcomeConsistent NoExportForgotten
PROPERTIES PromiseKept ExportsSettle DetailFollows ListFollows
CHECK_DEADLOCK FALSE
