SPECIFICATION MCSpec
CONSTANTS
  m1 = m1
  m2 = m2
  Items = {1, 2}
  Movers = {m1, m2}
  Batches <- MCBatches
  Forecasts = {0, 1}
  MaxHand = 1
  MaxDay = 2
  MaxNights = 2
  NoTx = NoTx
  NoRow = NoRow
  NoDay = NoDay
  Suppliers <- MCSuppliers
  Usage <- MCUsage
  Packs = {0, 3}
  MinOrders = {0, 4}
  Sigmas = {0, 1}
  Minima = {2}
  MaxStart = 5
  Horizon = 14
INVARIANTS
  NightlyInv
  AlertsAreTrue
  DriftsAreRaces
  AdvicePreventsShortage
PROPERTIES
  NightsEnd
  UntoldMetTheNight
  AdviceIsModest
CHECK_DEADLOCK FALSE
