\* One upload and two syncs of the mailbox at once, and an administrator.
SPECIFICATION FairSpec
CONSTANTS
    Names = {a}
    Puts = {p1}
    Gets = {g1, g2}
    Size = 1
    Inodes <- MCInodes
    AdminActs = TRUE
    EofName = nothing
    Hole = hole
    Nothing = nothing
CHECK_DEADLOCK FALSE
INVARIANTS
    Conserved
PROPERTIES
    SyncEnds
