\* A login whose row does not exist, and nothing else.
SPECIFICATION Spec
CONSTANTS
    Admin = admin
    Users = {admin, bob}
    AdminPass = p1
    Passwords = {p1, p2}
    Handlers = {h1}
    Uploaders = {}
    Commands = {"ADD_USER", "other"}
    Inodes <- MCInodes
    MaxRestarts = 0
    Main = main
    Nothing = nothing
INVARIANTS
    EveryLoginAnswered
