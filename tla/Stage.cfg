SPECIFICATION Spec
CONSTANTS
    Stages = {1, 2}
    StaminaCost <- CostOne
    RewardExp <- Exp
    RewardCurrency <- AllGold
    RewardAmount <- NoneThenOne
    m1 = m1
    Missions = {m1}
    Reports <- SomeReports
    MaxClears = 2
    Grain = "stage"
    Full = 1
    Interval = 1
    Recover = 1
    MaxNow = 1
    RequiredExp <- Required
    NextLevel <- Following
    MaxExp = 9
    Gold = Gold
    Coins = 0
    Currencies = {Gold}
    Start <- GoldRow
    MaxLost = 1
    MaxFaults = 2
INVARIANTS TypeOK EnteredIsUnlocked EnteredIsPaid ClearsAreRewarded ExpIsCounted
PROPERTIES BestIsKept
