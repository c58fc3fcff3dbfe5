SPECIFICATION Spec
CONSTANTS
    RxBufNb = 3
    PoolSize = 2
    MboxSize = 1
    RecvMboxSize = 1
    Frames = {f1, f2}
    NoFrame = NoFrame
INVARIANTS TypeOK PbufsAccounted NoWakeupLost ReleasesOwnOnly InStep
PROPERTY ImplementsQueue
CHECK_DEADLOCK FALSE
