\* Two handlers, every command, one restart; no uploads to the admin space.
SPECIFICATION Spec
CONSTANTS
    Admin = admin
    Users = {admin, bob}
    AdminPass = p1
    Passwords = {p1, p2}
    Handlers = {h1, h2}
    Uploaders = {}
    Commands = {"ADD_USER", "UPDATE_USER", "DELETE_USER", "other"}
    Inodes <- MCInodes
    MaxRestarts = 1
    Main = main
    Nothing = nothing
SYMMETRY HandlerSymmetry
INVARIANTS
    TypeOK
    UndisturbedAnswer
    
