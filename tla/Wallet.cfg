SPECIFICATION Spec
CONSTANTS
    shop = shop
    unit = unit
    Callers = {shop, unit}
    Gold = Gold
    Gem = Gem
    Currencies = {Gold, Gem}
    Start <- ThreeGold
    Amounts = {0, 1, 2}
    MaxAmount = 2
    MaxLost = 1
SYMMETRY CallerSymmetry
INVARIANTS TypeOK OverdraftBounded CacheIsExact
PROPERTIES ImplementsLedger
