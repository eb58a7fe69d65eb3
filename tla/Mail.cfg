SPECIFICATION Spec
CONSTANTS
    Clients = {c1}
    gift = gift
    blank = blank
    note = note
    Mails = {gift, blank, note}
    Rewarded = {gift, blank}
    Gold = Gold
    Ticket = Ticket
    RewardCurrency <- InGold
    RewardAmount <- OneInGift
    RewardItem <- InTickets
    RewardCount <- OneInGift
    Mailer = "mail"
    Currencies = {Gold}
    Start <- OneGold
    Amounts = {0, 1}
    MaxAmount = 1
    Items = {Ticket}
    MaxStack <- NoStack
    Counts = {0, 1}
    MaxCount = 1
    MaxHeld = 3
    MaxLost = 1
    MaxCut = 2
INVARIANTS TypeOK ClaimedIsGranted RegrantsAreCutClaims CacheIsExact
