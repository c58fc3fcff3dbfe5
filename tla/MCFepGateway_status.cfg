SPECIFICATION Spec
CONSTANTS
    NPorts = 2
    Ids = {1}
    MaxReceCount = 0
    CountMod = 2
    QueueSize = 1
    Zero = Zero
    NoReading = NoReading
    Cells = {Zero, NoReading}
INVARIANTS TypeOK MutexHeldInSection OnlineIsFresh FrameComplete NoRoundForgotten FrameReadingsWhole
PROPERTY LinksMonitored
