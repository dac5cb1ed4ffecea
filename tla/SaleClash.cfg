SPECIFICATION LiveSpec
CONSTANTS
  Worker = {k1}
  Token = {"a", "b", "x"}
  Orders <- ColonSales
  Foreign <- NoForeign
  Registered = {1}
  MaxTriggers = 2
  MaxCrashes = 0
PROPERTY DuplicateIsOwn
