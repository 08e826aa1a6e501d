SPECIFICATION Spec
CONSTANTS
    r1 = r1
    r2 = r2
    r3 = r3
    None = None
    Requests <- MCRequests
    FirstRows <- MCFirstRows
    Asks <- MCAsks
    Together <- MCTogether
    Values <- MCValues
SYMMETRY Symmetric
INVARIANTS
    AdministrationTypeOK
    AdminRemains
    LogTellsTheRows
    

    
\* Every request is made once; when all are answered nothing is left to do.
CHECK_DEADLOCK FALSE
