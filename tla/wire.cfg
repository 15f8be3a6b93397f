SPECIFICATION FairSpec
CONSTANTS
  Ends = {"client", "server"}
  Server = "server"
  Tickers = {1, 2}
  Setups <- WireSetups
INVARIANTS
  TypeOK
  FramingHolds
PROPERTIES
  SentIsDelivered
  CloseEndsEverything
  HangUpSpreads
CHECK_DEADLOCK FALSE
