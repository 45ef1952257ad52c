SPECIFICATION FairSpec
CONSTANTS
    Size = 4
    FileLen = 6
INVARIANTS
    TypeOK
    InOrder
    KeepsOneBack
PROPERTIES
    ImplementsLaggedStream
    AllButLast
