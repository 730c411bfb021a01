SPECIFICATION Spec
CONSTANTS
    MaxClients = 4
    Batch = 2
    Fds = {f1, f2, f3, f4}
    Noisy = {}
    Watched = {f1}
    Urgents = {}
    Idlers = {}
    NoFd = NoFd
PROPERTY EveryClientServed
