SPECIFICATION Spec
CONSTANTS
    MaxClients = 3
    Fds = {f1, f2, f3}
    a0 = a0
    a1 = a1
    c1 = c1
    c2 = c2
    c3 = c3
    Accounts = {a0, a1}
    Chars = {c1, c2, c3}
    Npcs = {}
    Owner <- MCOwner
    RoleLimit = 2
    Born = {c1, c3}
    Reloads = FALSE
    Restarts = FALSE
    NoFd = NoFd
    NoAcct = NoAcct
    NoBody = NoBody
PROPERTY DuplicateClosesItsOwn
