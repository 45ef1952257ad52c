\* Two requests, for one session or for two.
SPECIFICATION Spec
CONSTANTS
    MaxSessions = 2
    MaxRequests = 2
    Users = {u1, u2}
    Before = {u1}
    Newcomers = {n}
INVARIANTS
    TypeOK
    
    SentIsStaged
    AnswerIsOwn
    
PROPERTIES
    Answered
\* Requests come once each, and the server may be stopped.
CHECK_DEADLOCK FALSE
