CONSTANTS
  NoDay = NoDay
  Suppliers <- MCSuppliers
  Usage <- MCUsage
  Packs = {0}
  MinOrders = {0}
  Sigmas = {0}
  Minima = {2}
  MaxStart = 5
  Horizon = 14
SPECIFICATION AutopilotSpec
PROPERTY AdviceCountsWhatIsComing
CHECK_DEADLOCK FALSE
