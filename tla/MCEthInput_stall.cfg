SPECIFICATION FairSpec
CONSTANTS
    RxBufNb = 2
    PoolSize = 1
    MboxSize = 1
    RecvMboxSize = 0
    Frames = {f1}
    NoFrame = NoFrame
PROPERTY ReadyIsProcessed
CHECK_DEADLOCK FALSE
