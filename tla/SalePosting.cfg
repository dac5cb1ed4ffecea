SPECIFICATION LiveSpec
CONSTANTS
  Worker = {k1, k2}
  Token = {"a", "b", "v", "w", "x", "y", "z"}
  Orders <- MixedOrders
  Foreign <- MixedForeign
  Registered = {1}
  MaxTriggers = 2
  MaxCrashes = 2
INVARIANTS PostedOnce AnnouncedIsInBooks
PROPERTIES DiscardIsExplained ImplementsJournal SaleIsAnnounced
