CONSTANTS
    k1 = k1 k2 = k2

    Nowhere = Nowhere NoKind = NoKind NoMenu = NoMenu
    Players = {p1, gm}
    GMs = {gm}
    Vendors = {v1, v2}
    Kinds = {k1, k2}
    Stocked = {k1}
    Priced = {k1, k2}
    Pileable = {k2}
    Price <- Prices
    Full = 2
    Items = {x1, x2}
    Coins = 4
    CheckBank = 3
    SellMax = 2
    HalfWord = 3
    PerTime = 2
    MaxOrder = 2
    MaxCoins = 4
    MaxPurse = 0
    MaxStock = 2
SPECIFICATION Spec
INVARIANTS TypeOK StockLevel QueuedOnce
PROPERTIES PayerGetsGoods Refills
