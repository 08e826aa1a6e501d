SPECIFICATION FairSpec
CONSTANTS
  e1 = e1  e2 = e2  g1 = g1  g2 = g2  p1 = p1  d1 = d1  d2 = d2  t1 = t1  t2 = t2
  Events = {e1, e2}
  Registrations = {g1}
  Partners = {p1}
  Tickets = {}
  Answers = {}
  EventOf <- MCEventOf
  PartnerOf <- MCPartnerOf
  OwnerOf <- MCOwnerOf
  Position <- MCPosition
  Batch = 2
  Tasks = {t1, t2}
  NoTask = NoTask
  NoRecord = NoRecord
  MaxVersion = 2
  MaxConnections = 2
  MaxChanges = 0
  MaxFaults = 1
  MaxManual = 2
PROPERTIES RowsChangeOnlyAtCompletion BootstrappedByFullSync FinishedLogsStay EverySyncEnds
CHECK_DEADLOCK FALSE
