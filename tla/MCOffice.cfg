CONSTANTS
  a = a
  b = b
  g = g
  h = h
  h1 = h1
  h2 = h2
  u1 = u1
  u2 = u2
  m = m
  p1 = p1
  None = None
  Unset = Unset
  Requests = {r1, r2}
  Files <- MCFiles
  MaxCSVRows = 2
  ItemNames = {a, b}
  GroupNames = {g, h}
  Updates = {w1, w2}
  Codes = {c1, c2}
  Users = {u1, u2}
  Chats = {h1, h2}
  Attempts = {p1, p2}
  Addresses = {x}
  Emails = {m, m2}
  LoginLimit = 1
  LoginWindow = 2
  MaxTime = 2

SPECIFICATION MCSpec
INVARIANTS ImportsAreWhole PatchesSurvive CodesBuyOneLink AdmissionsAreBounded
PROPERTY OfficeRequestsEnd

CHECK_DEADLOCK FALSE
