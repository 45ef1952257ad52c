\* A sync that comes while a file is being uploaded.
SPECIFICATION Spec
CONSTANTS
    Names = {a}
    Puts = {p1}
    Gets = {g1}
    Size = 2
    Inodes <- MCInodes
    AdminActs = FALSE
    EofName = nothing
    Hole = hole
    Nothing = nothing
CHECK_DEADLOCK FALSE
INVARIANTS
    ClaimedIsDelivered
