SPECIFICATION PairFairSpec
CONSTANTS
    Plans = {"market", "observed", "limit"}
    LimitCount = 2
    MaxUnits = 0
    MaxRetries = 3
    Grace = 0
    StopLoss = 2
    EntryTrigger = 1
    CloseTrigger = 1
    Activation = 2
    Callback = 1
    MaxLosses = 1
    MaxFaults = 1
    MaxCrashes = 1
    PosCap = 2
 
PROPERTIES StopLossActs
