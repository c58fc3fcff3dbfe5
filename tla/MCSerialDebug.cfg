SPECIFICATION Spec
CONSTANTS
    Printers = {"udp", "getvalue", "rs485"}
    LineLength = 2
    Typing = TRUE
INVARIANTS TypeOK SentWhenReturned StormOnlyAfterRace
CHECK_DEADLOCK FALSE
