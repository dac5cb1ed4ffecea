SPECIFICATION LiveSpec
CONSTANTS
  Worker = {k1}
  Token = {"a", "b", "v"}
  Orders <- LongSale
  Foreign <- NoForeign
  Registered = {1}
  MaxTriggers = 1
  MaxCrashes = 0
PROPERTY CompletionIsPosted
