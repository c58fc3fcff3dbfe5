SPECIFICATION Spec
CONSTANTS
    BuzzerQueueSize = 2
    Speeds = {10, 100}
    Modes = {"half", "full"}
INVARIANTS TypeOK NoLinkEventLost FollowsLink FallsSilent
