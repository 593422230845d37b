CONSTANTS
  Buyers = {"p"}
  Items = {"a", "b"}
  Requests = {"first", "again", "other"}
  By <- const_By
  Of <- const_Of
  Prices = {2, 3}
  Purse <- const_Purse
  CallsFail = TRUE
CHECK_DEADLOCK FALSE
SPECIFICATION ShopSpec
INVARIANTS CoinsAddUp PaidOnce
PROPERTIES OverdrawnOnlyIfStale
