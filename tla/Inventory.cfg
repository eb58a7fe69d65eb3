SPECIFICATION Spec
CONSTANTS
    shop = shop
    mail = mail
    Callers = {shop, mail}
    Potion = Potion
    Ticket = Ticket
    Items = {Potion, Ticket}
    MaxStack <- Stacks
    Counts = {0, 2}
    MaxCount = 2
    MaxLost = 1
    MaxHeld = 4
SYMMETRY CallerSymmetry
INVARIANTS CountWithinStack CacheIsExact
