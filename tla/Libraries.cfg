\* Every library header on a small heap, with few numbers, names and processes.
\* Kinds that never meet share their model values: see LibrariesSymmetry.
SPECIFICATION LibrariesSpec
CONSTANTS
    Addr = {a1, a2, a3}
    NULL = NULL
    Ids = {a1, a2, a3}
    Junk = Junk
    Promises = 4
    Pids = {1, 2, 3}
    Names = {n1, n2}
    Procs = {11, 12}
    Cells = 4
    Tables = {n1, n2}
    Clients = {n1, n2}
    Inodes = {a1, a2, a3}
    MaxLines = 2
    MaxSize = 2
    MaxPuts = 2
SYMMETRY LibrariesSymmetry
INVARIANTS
    TypesOK
    RegistryIsExact
    AwaitJoins
    TableIsWhole
    SignalsAreAimed
    
    OwnsItsSlot
    
    
    DataForName
\* The code can stop: it is aborted, or all its calls are made.
CHECK_DEADLOCK FALSE
