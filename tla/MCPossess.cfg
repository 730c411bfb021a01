SPECIFICATION Spec
CONSTANTS
    MaxClients = 2
    Fds = {f1, f2, f3}
    a0 = a0
    a1 = a1
    c1 = c1
    c2 = c2
    c3 = c3
    Accounts = {a0, a1}
    Chars = {c1, c2, c3}
    Npcs = {n1}
    Owner <- MCOwner
    RoleLimit = 2
    Born = {c1, c3}
    Reloads = TRUE
    Restarts = TRUE
    NoFd = NoFd
    NoAcct = NoAcct
    NoBody = NoBody
SYMMETRY FdSymmetry
VIEW LiveView
INVARIANTS
    TypeOK
    LogoutNeverPending
    PossessorNamesBody
