SPECIFICATION FairSpec
CONSTANTS
  e1 = e1  e2 = e2  o1 = o1  o2 = o2
  Exports = {e1}
  Orgs = {o1, o2}
  OrgOf <- MCOrgOf
  Admin = Admin
  Viewers = {o1, Admin}
  Window = 1
  MaxFaults = 0
PROPERTIES PageShowsOutcome
CHECK_DEADLOCK FALSE
