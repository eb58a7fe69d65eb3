SPECIFICATION FairSpec
CONSTANTS
    pack = pack
    pass = pass
    Products = {pack, pass}
    Unknown = Unknown
    LimitCount <- PackOnly
    MaxPurchaseCount <- UpToTwo
    Price <- One
    Currency <- AllGold
    RewardItemId <- ItemOf
    RewardItemCount <- One
    BuyCounts = {0, 1, 2}
    Shop = "shop"
    Others = {"unit"}
    Gold = Gold
    Currencies = {Gold}
    Coins = 3
    Start <- Gold2
    Amounts = {1, 2}
    MaxAmount = 2
    OtherAmounts = {1}
    Potion = Potion
    Ticket = Ticket
    Items = {Potion, Ticket}
    MaxStack <- NoStack
    Counts = {1}
    MaxCount = 1
    MaxHeld = 9
    MaxLost = 1
INVARIANTS TypeOK LimitRespected GrantsAreRecorded RecordsArePaid
PROPERTIES PurchaseEnds
