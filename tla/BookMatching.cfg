SPECIFICATION Spec
CONSTANTS
  seller = seller
  buyer = buyer
  NULL = NULL
  Traders = {seller, buyer}
  SidesOf <- MCOneSided
  Prices = {1, 2, 3}
  Amounts = {1, 3}
  MaxMatches = 2
  BuyMargin = 2
  MaxOrders = 4
INVARIANTS TypeOK LevelsAreExact PricesAreLinked UserListsAreExact ReservationsMatchOrders
PROPERTIES ImplementsPriorityBook CrossedOnlyByTheLimit
CHECK_DEADLOCK FALSE
