CONSTANTS
    p1 = p1  p2 = p2  s1 = s1  s2 = s2  EUR = EUR  BUY = BUY  SELL = SELL
    Plans = {p1, p2}
    Setups = {s1}
    Symbols = {EUR}
    Directions = {BUY}
    SetupOf <- OneSetup
    SymbolOf <- OneSymbol
    DirectionOf <- BothBuy
    Pos <- TwoIds
    Reconcilers = {timer}
    Timer = timer
    NULL = NULL
    MaxFaults = 1
    ManualTrading = FALSE
SPECIFICATION Spec
INVARIANT
    ClosedMeansClosed
