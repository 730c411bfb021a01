SPECIFICATION Spec
CONSTANTS
    MaxClients = 4
    Batch = 2
    Fds = {f1, f2, f3, f4}
    Noisy = {f2}
    Watched = {f1}
    Urgents = {f3}
    Idlers = {f1, f2}
    NoFd = NoFd
INVARIANT TypeOK
PROPERTIES
    NeverReadsDry
    ServedIfCovered
    IdleLeaves
