SPECIFICATION MCSpec
CONSTANTS
  t1 = t1
  t2 = t2
  o1 = o1
  o2 = o2
  Notices = {n1}
  Addresses = {chat, shut}
  Dead = {shut}
  Passes = {p1, p2}
  Batch = 2
  MaxAttempts = 3
  MaxSlips = 2
  NoReply = NoReply
  Kinds = {"digest", "cutoff", "late"}
  Tenants <- TwoTenants
  Zone <- MCZone
  DayLength = 3
  DigestAt = 1
  Cutoff <- MCCutoff
  Lead = 2
  Orders = {o1, o2}
  OrdersOf <- MCOrdersOf
  Due <- MCDue
  Workers = {w1, w2}
  MaxTime = 2
  MaxFailures = 1
  NoPass = NoPass
INVARIANTS
  OutboxTypeOK
  DuplicatesHaveReasons
  RetriesAreBounded
  MarksAreEarned
  RemindedOnce
  EveryTenantIsServed
PROPERTIES
  MessagesSettle
  RemindersWereTrue
  LateOrdersAreTold
CHECK_DEADLOCK FALSE
