SPECIFICATION Spec
CONSTANTS
    TxBufNb = 2
    Frames = {f1, f2}
    NoFrame = NoFrame
INVARIANTS TypeOK NoFrameStranded SemaphoreReturned
PROPERTY OutputIsQueue
