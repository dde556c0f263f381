SPECIFICATION FundSpec
CONSTANTS
    oA = oA
    oB = oB
    oC = oC
    mk1 = mk1
    mk2 = mk2
    c1 = c1
    c2 = c2
    Orders <- MCOrders
    Coins <- MCCoins
    CoinsOf <- MCCoinsOf
    Markets <- MCMarkets
    MarketOf <- MCMarketOf
    Kind <- MCKind
    MaxMatches = 1
INVARIANTS
    
    WaitingOrdersShareNoCoin
    EveryLockHasOwner
CHECK_DEADLOCK FALSE
