CONSTANTS
    Keys = {"TIMER_G", "TIMER_A"}
    MaxArms = 2
    Duration <- MCDuration
    MaxTime = 4
    MaxMessages = 4
SPECIFICATION FairSpec
CHECK_DEADLOCK FALSE
INVARIANTS
    TypeOK
    EntryOfEachAlarm
    OneOwner
PROPERTIES
    ImplementsService
    EveryMessageReleased
