----------------------------- MODULE MCNotices -----------------------------
(* Small instances of Outbox and Reminders for TLC.  They meet in Emit, which *)
(* both end with: the scenario picked at the start is the dispatcher or one of *)
(* the reminding tasks.                                                      *)
EXTENDS Outbox, Reminders

CONSTANTS t1, t2, o1, o2

VARIABLE scenario

TwoTenants == <<t1, t2>>
MCZone == t1 :> 2 @@ t2 :> 0
MCCutoff == t1 :> 0 @@ t2 :> 2
MCOrdersOf == t1 :> {o1, o2} @@ t2 :> {}
MCDue == o1 :> 0 @@ o2 :> -1

MCInit ==
  /\ Init
  /\ RemindersInit
  /\ scenario \in {"dispatch"} \cup Kinds

TaskNext(kind) ==
  \/ (kind = "digest" \/ now < 1) /\ Tick
  \/ kind = "late" /\ \E o \in Orders : Receive(o)
  \/ /\ kind = "cutoff"
     /\ \/ \E t \in Range(Tenants) : SendOrder(t)
        \/ \E sentOn \in open : CloseOrder(sentOn)
  \/ \E p \in Workers :
       \/ \E h \in 0..MaxTime : TakeTask(p, <<kind, h>>)
       \/ PassStep(p)
       \/ FailVisit(p)

MCNext ==
  /\ UNCHANGED scenario
  /\ \/ scenario = "dispatch" /\ Next /\ UNCHANGED reminderVars
     \/ scenario \in Kinds /\ TaskNext(scenario) /\ UNCHANGED vars

MCFairness ==
  /\ Fairness
  /\ \A p \in Workers :
       /\ SF_reminderVars(PassStep(p))
       /\ WF_reminderVars(\E h \in 0..MaxTime : TakeTask(p, <<scenario, h>>))

MCSpec == MCInit /\ [][MCNext]_<<vars, reminderVars, scenario>> /\ MCFairness

\* LateOrdersAreToldOf, where the task runs.
LateOrdersAreTold == scenario = "late" => LateOrdersAreToldOf

=============================================================================
