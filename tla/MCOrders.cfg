SPECIFICATION OrdersSpec
CONSTANTS
  a = a
  b = b
  k1 = k1
  h1 = h1
  d1 = d1
  d2 = d2
  Items = {a, b}
  ByName <- AllByName
  Clients = {ann, bob}
  Owners = {ann, bob}
  UserKeys = {k1}
  Headers = {h1}
  Keys <- AllKeys
  NoKey = NoKey
  Docs = {d1}
  NoDoc = NoDoc
  NoRow = NoRow
  NoReq = NoReq
  NoOrderLine = NoOrderLine
  NoJob = NoJob
  NoSight = NoSight
  Unset = Unset
  Kinds = {"usage"}
  MaxQty = 1
  Archivable = {b}
SYMMETRY OrderSymmetry
INVARIANTS
  OrdersTypeOK
  ReceiptsMatchOrder
PROPERTIES
  OrdersRefineLedger
