CONSTANTS
    p1 = p1  p2 = p2  s1 = s1  s2 = s2  EUR = EUR  BUY = BUY  SELL = SELL
    Plans = {p1}
    Setups = {s1}
    Symbols = {EUR}
    Directions = {BUY}
    SetupOf <- LoneSetup
    SymbolOf <- LoneSymbol
    DirectionOf <- LoneBuy
    Pos <- TwoIds
    Reconcilers = {timer}
    Timer = timer
    NULL = NULL
    MaxFaults = 1
    ManualTrading = TRUE
SPECIFICATION FairSpec
PROPERTIES
    UnresolvedSettles
    EveryFillIsBooked
