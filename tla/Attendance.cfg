SPECIFICATION Spec
CONSTANTS
    spring = spring
    autumn = autumn
    Events = {spring, autumn}
    NoEvent = NoEvent
    Days = {1, 2, 3}
    r1 = r1
    r2 = r2
    r3 = r3
    r4 = r4
    RewardIds = {r1, r2, r3, r4}
    EventOf <- EventOfReward
    DayOf <- DayOfReward
    Gold = Gold
    Ticket = Ticket
    RewardCurrency <- InGold
    RewardAmount <- GoldOf
    RewardItem <- InTickets
    RewardCount <- TicketsOf
    Progress = {spring}
    Self = "attendance"
    Currencies = {Gold}
    Start <- NoGold
    Amounts = {0, 1}
    MaxAmount = 1
    Items = {Ticket}
    MaxStack <- NoStack
    Counts = {0, 1}
    MaxCount = 1
    MaxHeld = 9
    MaxLost = 1
    MaxFaults = 3
INVARIANTS TypeOK RewardedOnce
