SPECIFICATION MCSpec
CONSTANTS
  d1 = d1
  d2 = d2
  Items = {a, b}
  Clients = {ann, bob}
  Owners = {ann, bob}
  Keys = {k1}
  NoKey = NoKey
  Docs = {d1, d2}
  NoDoc = NoDoc
  NoRow = NoRow
  NoReq = NoReq
  NoLine = NoLine
  NoTask = NoTask
  Uncounted = Uncounted
  Unset = Unset
  Kinds = {"receipt"}
  MaxQty = 1
  Archivable = {a, b}
SYMMETRY CountSymmetry
INVARIANTS
  CountsTypeOK
  AdjustmentsFollowPosting
PROPERTIES
  PostingIsExact
  CountsRefineLedger
