SPECIFICATION MCFairSpec
CONSTANTS
  Visitors = {v1}
  Requests = {r1, r2}
  MaxDemos = 3
  MaxActive = 1
  MaxVirtualDays = 2
  Week = 2
  CleanupBatch = 2
  Stuck = {1}
  FillSteps = {"suppliers", "history", "count", "forecast", "time"}
  ByHandSteps = {"items"}
  NoDemo = NoDemo
  NoReq = NoReq
  NoSweep = NoSweep
INVARIANTS SandboxInv DaysAreLived OverrunsAreExplained
PROPERTIES VisitorsEnterFinishedDemos DemosComeToAnEnd
CHECK_DEADLOCK FALSE
