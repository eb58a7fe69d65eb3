SPECIFICATION Spec
CONSTANTS
    banner = banner
    closed = closed
    Gachas = {banner, closed}
    NoGacha = NoGacha
    CostAmount = 1
    Gold = Gold
    Currencies = {Gold}
    CostCurrency <- AllGold
    hero = hero
    extra = extra
    Units = {hero, extra}
    Pool <- BannerPool
    RollCounts = {0, 1, 2}
    Self = "gacha"
    UnitGrain = "unit"
    MaxUnitStack = 1
    LevelStack <- Ones
    LevelCost <- OneThenTwo
    LevelCurrency = Gold
    Coins = 5
    Start <- GoldRow
    Amounts = {1, 2}
    MaxAmount = 2
    MaxLost = 1
    MaxFaults = 2
INVARIANTS TypeOK StackBounded RollsArePaid LevelsArePaid
