CONSTANTS
    Listeners <- TwoListeners
    Receivers = {r1, r2, r3}
    NoReceiver = NoReceiver
    Main = Main
    tUOListener = tUOListener tRemoteAdmin = tRemoteAdmin
SPECIFICATION Spec
INVARIANTS TypeOK RunsAlive NoDangling
PROPERTIES Reaped ShutsDown
CHECK_DEADLOCK FALSE
