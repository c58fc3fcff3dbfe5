SPECIFICATION Spec
CONSTANTS
    NPorts = 1
    Ids = {1}
    MaxReceCount = 1
    CountMod = 3
    QueueSize = 1
    Zero = Zero
    NoReading = NoReading
    Cells = {Zero}
PROPERTY DisconnectOnlyIfExceeded
