SPECIFICATION Spec
CONSTANTS
  e1 = e1  e2 = e2  g1 = g1  g2 = g2  p1 = p1  r1 = r1  r2 = r2
  Events = {e1, e2}
  Registrations = {g1, g2}
  Partners = {p1}
  Rrns = {r1, r2}
  Missing = Missing
  Bad = Bad
  None = None
  FirstYear = 2022
  LastYear = 2023
  NewYear <- MCNewYear
  Mirrors <- MCMirrors
  MaxCommits = 1
INVARIANTS TypeOK  PreviewForetellsExport EachYearOnce DeclaredDaysFit
