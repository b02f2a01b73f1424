SPECIFICATION FairSpec
CONSTANTS
    Signals <- BothSignals
    MaxRequests = 2
INVARIANTS TypeOK PromiseTracksTick NoTickWhenDisconnected SingleSignalDrains
PROPERTIES KeepsTicking SignalExits
CHECK_DEADLOCK FALSE
