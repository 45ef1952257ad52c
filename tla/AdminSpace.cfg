\* Two uploads, an administrator and a stream; two seconds, two genres.
SPECIFICATION Spec
CONSTANTS
    Senders = {s1, s2}
    Genres = {rock, jazz}
    Users = {bob}
    Uploads = {u1, u2}
    Deleters = {d1}
    Streams = {t1}
    MaxTime = 1
    Nothing = nothing
CHECK_DEADLOCK FALSE
SYMMETRY MCSymmetry
INVARIANTS
    TypeOK
    RowsHaveFiles
    FilesHaveRows
    
