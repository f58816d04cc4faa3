SPECIFICATION Spec
CONSTANTS
  Items = {a}
  Clients = {ann, bob}
  Owners = {ann}
  Keys = {k1, k2}
  NoKey = NoKey
  Docs = {}
  NoDoc = NoDoc
  NoRow = NoRow
  NoReq = NoReq
  Unset = Unset
  Kinds = {"receipt", "usage"}
  MaxQty = 1
  Archivable = {}
PROPERTY ReplayIsNotRefused
