\* One login at a time, next to uploads to the admin space.
SPECIFICATION Spec
CONSTANTS
    Admin = admin
    Users = {admin, bob}
    AdminPass = p1
    Passwords = {p1, p2}
    Handlers = {h1}
    Uploaders = {w1}
    Commands = {"ADD_USER", "other"}
    Inodes <- MCInodes
    MaxRestarts = 0
    Main = main
    Nothing = nothing
INVARIANTS
    MatchingLoginAccepted
