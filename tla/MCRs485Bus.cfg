SPECIFICATION Spec
CONSTANTS
    NPorts = 2
    BuffSize = 10
    RxWrap = 10
    QueueSize = 1
    MaxFaults = 2
INVARIANT TypeOK
PROPERTIES BreakQueuesLine FeedsGateway
