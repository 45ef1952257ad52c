\* Two uploads, one sync and an administrator.
SPECIFICATION Spec
CONSTANTS
    Names = {a, eof}
    Puts = {p1, p2}
    Gets = {g1}
    Size = 2
    Inodes <- MCInodes
    AdminActs = TRUE
    EofName = eof
    Hole = hole
    Nothing = nothing
CHECK_DEADLOCK FALSE
SYMMETRY MCSymmetry
INVARIANTS
    TypeOK
    Conserved
    FramedUnlessTangled
