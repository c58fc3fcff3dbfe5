SPECIFICATION Spec
CONSTANTS
    BuzzerQueueSize = 2
    Speeds = {10, 100}
    Modes = {"half", "full"}
PROPERTY BitsFollowNegotiation
