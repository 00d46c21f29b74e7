SPECIFICATION Spec
CONSTANTS
  SwingWindow = 1
  AtrPeriod = 4
  ReactionCandles = 2
  MaxAge = 20
  MinTradeable = 56
  MaxCandles = 14
  DayOf <- MCDayOf
  SessionsOf <- MCSessionsOf
  Histories <- MCHistories
  Shapes <- MCShapes
  H1Readings <- MCH1Readings
  Spreads <- MCSpreads
CHECK_DEADLOCK FALSE
PROPERTY
  SetupKeepsItsName
