\* Two clients of one server that may die and come back.
SPECIFICATION FairSpec
CONSTANTS
    Clients = {c1, c2}
CHECK_DEADLOCK FALSE
INVARIANTS
    TypeOK
    NoMutualWait
    
PROPERTIES
    HandlerEnds
    ClientEnds
