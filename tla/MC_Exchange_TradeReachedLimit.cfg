SPECIFICATION Spec
CONSTANTS
    m1 = m1
    NoBookMarket = NoBookMarket
    Markets = {m1}
    Prices = {129, 171}
    Sizes = {2}
    Ladders <- MCLadders
    MaxLevels = 2
    Unit = 300
    Rounding <- MCRounding
    MinPrice = 3
    MaxPrice = 297
    OrderPrices = {0, 129, 171}
    TradeSizes = {1}
    MaxOrders = 2
INVARIANT
    TradeReachedLimit
