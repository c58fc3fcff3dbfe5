SPECIFICATION FairSpec
CONSTANTS
    Printers = {"getvalue", "rs485"}
    LineLength = 2
    Typing = FALSE
PROPERTY WaitEnds
CHECK_DEADLOCK FALSE
