\* One handler next to uploads to the admin space, with a restart.
SPECIFICATION FairSpec
CONSTANTS
    Admin = admin
    Users = {admin, bob}
    AdminPass = p1
    Passwords = {p1}
    Handlers = {h1}
    Uploaders = {w1}
    Commands = {"ADD_USER", "STREAM_GENRE"}
    Inodes <- MCInodes
    MaxRestarts = 1
    Main = main
    Nothing = nothing
INVARIANTS
    UndisturbedAnswer
PROPERTIES
    ServerComesBack
