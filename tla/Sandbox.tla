------------------------------ MODULE Sandbox ------------------------------
(***************************************************************************)
(* Demo organisations (internal/sandbox): creating and resetting them,     *)
(* filling them step by step, moving their clock forward, and the hourly   *)
(* clean-up.                                                               *)
(*                                                                         *)
(* None of these requests is one transaction: an action is one of the      *)
(* transactions a request is made of, and a request may fail or be cut off *)
(* between any two.  What the transactions do inside stock, orders and the *)
(* forecast is reduced to the traces the guide looks for.                  *)
(***************************************************************************)
EXTENDS Integers, FiniteSets, SequencesExt

CONSTANTS
  Visitors,       \* browsers; each has one session cookie
  Requests,       \* requests being served at once
  MaxDemos,       \* bound: demos ever created
  MaxActive,      \* demos alive at once, above which none is created
  MaxVirtualDays, \* how far the clock of a demo may be moved
  Week,           \* the longer of the two distances Advance takes
  CleanupBatch,   \* demos one round of the clean-up deletes
  Stuck,          \* demos whose deletion fails every time
  NoDemo, NoReq, NoSweep

Demos == 1..MaxDemos

ASSUME LimitsAssumption ==
  /\ {MaxDemos, MaxActive, MaxVirtualDays, Week, CleanupBatch} \subseteq Nat \ {0}
  /\ Stuck \subseteq Demos /\ NoDemo \notin Demos
  /\ IsFiniteSet(Requests) /\ Requests # {}

VARIABLES
  created,   \* demos created so far; ids grow with the time of creation
  live,      \* demos that have a row in tenants
  expired,   \* demos whose expires_at has passed
  demo,      \* what each demo holds
  vain,      \* resets whose demo was no longer active when they dropped it
  sessions,  \* rows of sessions: who may enter which demo
  cookie,    \* the demo each browser's cookie belongs to
  req,       \* what each request is doing
  sweep      \* the clean-up

demoVars == <<created, live, expired, demo, vain>>
vars == <<demoVars, sessions, cookie, req, sweep>>

-----------------------------------------------------------------------------

GuideSteps == <<"suppliers", "items", "history", "count", "forecast", "order",
                "receive", "time", "notifications">>

Fillable == {GuideSteps[n] : n \in 1..7}

Stages == {"capacity", "drop", "shell", "fill", "forecast", "session", "shift",
           "arrivals", "consume", "evening", "lock", "guide", "template",
           "history", "write", "draft", "post"}

\* A request being served: the transaction it is at, the step it fills and what
\* it saw, the days it is still to move the clock by and the one it moved it to.
Request ==
  [by : Visitors, op : {"create", "reset", "advance", "fill"}, demo : Demos \cup {NoDemo},
   at : Stages, mode : {"ready", "guided"}, step : Range(GuideSteps) \cup {"none"},
   seen : BOOLEAN, locked : BOOLEAN, autopilot : BOOLEAN, left : Nat, today : Nat]

ASSUME NoReqAssumption == NoReq \notin Request

\* traces: guide steps it shows traces of; histories: how many times its 90
\* days have been written; counts: template counts posted; days: clock_offset
\* in days; lived: virtual days whose usage is in the journal; lost: those
\* whose request ended before it wrote it.
\* autopilot: whether moving the clock also places orders.
Empty == [autopilot |-> FALSE, traces |-> {}, histories |-> 0, counts |-> 0, days |-> 0,
          lived |-> {}, lost |-> {}]

\* The clock's offset is itself the trace of a step.
Done(d) == demo[d].traces \cup (IF demo[d].days > 0 THEN {"time"} ELSE {})

\* Every step before s is done.
Ready(done, s) ==
  \A n \in DOMAIN GuideSteps :
    GuideSteps[n] = s => \A m \in 1..(n - 1) : GuideSteps[m] \in done

Active == live \ expired

\* Resolve: the session exists and its demo has not expired.
Enters(v, d) == cookie[v] = d /\ <<v, d>> \in sessions /\ d \in Active

Init ==
  /\ created  = 0
  /\ live     = {}
  /\ expired  = {}
  /\ demo     = [d \in Demos |-> Empty]
  /\ vain     = 0
  /\ sessions = {}
  /\ cookie   = [v \in Visitors |-> NoDemo]
  /\ req      = [r \in Requests |-> NoReq]
  /\ sweep    = NoSweep

\* Request r runs the transaction named at next.
At(r, at) == req[r] # NoReq /\ req[r].at = at
Goto(r, at) == req' = [req EXCEPT ![r].at = at]
EndReq(r) == req' = [req EXCEPT ![r] = NoReq]

\* Nothing but the request itself moves on.
Reads == UNCHANGED <<demoVars, sessions, cookie, sweep>>

\* The transaction at writes into the request's demo, which is still there.
WritesIn(r, at) ==
  /\ At(r, at)
  /\ req[r].demo \in live
  /\ UNCHANGED <<created, live, expired, vain, sessions, cookie, sweep>>

NewReq(v, op, d, at) ==
  [by |-> v, op |-> op, demo |-> d, at |-> at, mode |-> "ready", step |-> "none",
   seen |-> FALSE, locked |-> FALSE, autopilot |-> FALSE,
   left |-> 0, today |-> 0]

Begin(r, request) ==
  /\ req[r] = NoReq
  /\ req' = [req EXCEPT ![r] = request]
  /\ Reads

\* Mutant: sessions outlive their demo.
DeleteTenantOnly(d) ==
  /\ d \notin Stuck
  /\ live' = live \ {d}
  /\ demo' = [demo EXCEPT ![d] = Empty]
  /\ UNCHANGED <<created, expired, sessions>>

\* DeleteTenant succeeded: the cascade takes everything, sessions included.
DeleteTenant(d) ==
  /\ d \notin Stuck
  /\ live'     = live \ {d}
  /\ demo'     = [demo EXCEPT ![d] = Empty]
  /\ sessions' = {s \in sessions : s[2] # d}
  /\ UNCHANGED <<created, expired>>

-----------------------------------------------------------------------------
(* POST /sandbox and POST /sandbox/reset *)

\* A visitor inside a live demo is sent back to it; anybody else passes the
\* limiter, unless it refuses.
StartCreate(r, v, mode) ==
  /\ ~ Enters(v, cookie[v])
  /\ Begin(r, [NewReq(v, "create", NoDemo, "capacity") EXCEPT !.mode = mode])

\* Mutant: one demo too many is let through.
CountActiveLate(r) ==
  /\ At(r, "capacity")
  /\ IF Cardinality(Active) > MaxActive THEN EndReq(r) ELSE Goto(r, "shell")
  /\ Reads

CountActive(r) ==
  /\ At(r, "capacity")
  /\ IF Cardinality(Active) >= MaxActive THEN EndReq(r) ELSE Goto(r, "shell")
  /\ Reads

StartReset(r, v, mode) ==
  /\ Enters(v, cookie[v])
  /\ Begin(r, [NewReq(v, "reset", cookie[v], "drop") EXCEPT !.mode = mode])

\* Deleting a demo that is already gone is no error.
Drop(r) ==
  /\ At(r, "drop")
  /\ DeleteTenant(req[r].demo)
  /\ vain' = IF req[r].demo \in Active THEN vain ELSE vain + 1
  /\ Goto(r, "shell")
  /\ UNCHANGED <<cookie, sweep>>

\* Tenant, warehouse and owner in one transaction.  A guided demo is ready.
CreateShell(r) ==
  LET d == created + 1 IN
  /\ At(r, "shell")
  /\ d \in Demos
  /\ created' = d
  /\ live' = live \cup {d}
  /\ req' = [req EXCEPT ![r].demo = d,
                        ![r].at = IF req[r].mode = "guided" THEN "session"
                                                            ELSE "fill"]
  /\ UNCHANGED <<expired, demo, vain, sessions, cookie, sweep>>

\* Suppliers, items and 90 days of history in one transaction.
FillDemo(r) ==
  LET d == req[r].demo IN
  /\ WritesIn(r, "fill")
  /\ demo' = [demo EXCEPT ![d].traces = {"suppliers", "items", "history"},
                          ![d].histories = @ + 1]
  /\ Goto(r, "forecast")

RunForecast(r) ==
  /\ WritesIn(r, "forecast")
  /\ demo' = [demo EXCEPT ![req[r].demo].traces = @ \cup {"forecast"}]
  /\ Goto(r, "session")

\* Mutant: a demo that could not be filled is entered nevertheless.
KeepUnfinished(r) ==
  /\ At(r, "fill") \/ At(r, "forecast")
  /\ Goto(r, "session")
  /\ Reads

\* Filling or forecasting failed: the demo is deleted; if that fails too, only
\* its expiry will remove it.
DeleteUnfinished(r) ==
  /\ At(r, "fill") \/ At(r, "forecast")
  /\ DeleteTenant(req[r].demo) \/ UNCHANGED <<created, live, expired, demo, sessions>>
  /\ EndReq(r)
  /\ UNCHANGED <<vain, cookie, sweep>>

\* The session row needs its tenant; Resolve then refuses an expired one, and
\* the browser gets no cookie.
OpenSession(r) ==
  LET d == req[r].demo
      v == req[r].by
  IN
  /\ At(r, "session")
  /\ IF d \in live
     THEN /\ sessions' = sessions \cup {<<v, d>>}
          /\ cookie' = IF d \in expired THEN cookie ELSE [cookie EXCEPT ![v] = d]
     ELSE UNCHANGED <<sessions, cookie>>
  /\ EndReq(r)
  /\ UNCHANGED <<demoVars, sweep>>

-----------------------------------------------------------------------------
(* POST /sandbox/advance *)

\* The limit is checked against the clock the session was resolved with.
StartAdvance(r, v, n) ==
  /\ Enters(v, cookie[v])
  /\ demo[cookie[v]].days + n <= MaxVirtualDays
  /\ Begin(r, [NewReq(v, "advance", cookie[v], "shift") EXCEPT
                  !.left = n, !.autopilot = demo[cookie[v]].autopilot])

ShiftClock(r) ==
  LET d == req[r].demo IN
  /\ WritesIn(r, "shift")
  /\ demo' = [demo EXCEPT ![d].days = @ + 1]
  /\ req' = [req EXCEPT ![r].at = "arrivals", ![r].today = demo[d].days + 1]

\* Orders that are due are received, each in a transaction of its own.
ReceiveArrivals(r) ==
  LET d == req[r].demo IN
  /\ WritesIn(r, "arrivals")
  /\ \E arrived \in IF "order" \in demo[d].traces THEN SUBSET {"receive"} ELSE {{}} :
       demo' = [demo EXCEPT ![d].traces = @ \cup arrived]
  /\ Goto(r, "consume")

\* Mutant: the day consumed is whatever the clock shows by now.
ConsumeCurrentDay(r) ==
  LET d == req[r].demo IN
  /\ WritesIn(r, "consume")
  /\ demo' = [demo EXCEPT ![d].lived = @ \cup {demo[d].days}]
  /\ Goto(r, "evening")

\* The day's usage, under keys made of the day the clock was shifted to.
ConsumeDay(r) ==
  LET d == req[r].demo IN
  /\ WritesIn(r, "consume")
  /\ demo' = [demo EXCEPT ![d].lived = @ \cup {req[r].today}]
  /\ Goto(r, "evening")

\* autoOrder: there may be nothing to order.
OrdersPlaced == {{}, {"order"}}

\* Forecast, the autopilot's orders if it was on when the request came, digest
\* and alerts.
FinishDay(r) ==
  LET d == req[r].demo IN
  /\ WritesIn(r, "evening")
  /\ \E placed \in IF req[r].autopilot THEN OrdersPlaced ELSE {{}} :
       demo' = [demo EXCEPT ![d].traces = @ \cup {"forecast"} \cup placed]
  /\ IF req[r].left = 1
     THEN EndReq(r)
     ELSE req' = [req EXCEPT ![r].at = "shift", ![r].left = @ - 1]

-----------------------------------------------------------------------------
(* POST /sandbox/guide/{step}/fill *)

StartFill(r, v, s) ==
  /\ Enters(v, cookie[v])
  /\ Begin(r, [NewReq(v, "fill", cookie[v], "lock") EXCEPT !.step = s])

LockFree(d) == \A q \in Requests : req[q] # NoReq /\ req[q].demo = d => ~ req[q].locked

\* Mutant: the lock is taken by a transaction, and gone when it ends.
TakeTransactionLock(r) ==
  /\ At(r, "lock")
  /\ IF LockFree(req[r].demo) THEN Goto(r, "guide") ELSE EndReq(r)
  /\ Reads

\* A session lock on a connection of its own; ErrFillBusy when it is taken.
TakeGuideLock(r) ==
  /\ At(r, "lock")
  /\ IF LockFree(req[r].demo)
     THEN req' = [req EXCEPT ![r].locked = TRUE, ![r].at = "guide"]
     ELSE EndReq(r)
  /\ Reads

\* Not fillable, or an earlier step is missing: refused.
ReadGuide(r) ==
  LET d == req[r].demo
      s == req[r].step
  IN
  /\ At(r, "guide")
  /\ d \in live
  /\ IF s \in Fillable /\ Ready(Done(d), s)
     THEN req' = [req EXCEPT ![r].seen = s \in Done(d),
                             ![r].at = CASE s = "history" -> "history"
                                         [] s = "count"   -> "draft"
                                         [] OTHER         -> "template"]
     ELSE EndReq(r)
  /\ Reads

\* Suppliers and items are looked up by name, and only the missing ones made;
\* the items need the template's suppliers.
FillDirectory(r) ==
  LET d == req[r].demo IN
  /\ WritesIn(r, "template")
  /\ req[r].step \in {"suppliers", "items"}
  /\ demo' = [demo EXCEPT ![d].traces = @ \cup {"suppliers", req[r].step}]
  /\ EndReq(r)

\* The forecast, orders for what the recommendations ask for, the receipt of
\* all that was sent.  There may be nothing to order or to receive.
FillWork(r) ==
  LET d == req[r].demo
      s == req[r].step
  IN
  /\ WritesIn(r, "template")
  /\ s \in {"forecast", "order", "receive"}
  /\ \E added \in CASE s = "forecast" -> {{s}}
                    [] s = "order"    -> OrdersPlaced
                    [] s = "receive"  -> IF "order" \in demo[d].traces THEN SUBSET {s} ELSE {{}} :
       demo' = [demo EXCEPT ![d].traces = @ \cup added]
  /\ EndReq(r)

\* One transaction, but another may commit between its reads and its writes.
\* It skips the template items that have movements older than a week: those of
\* a history, or of days the clock was moved past.
ReadHistory(r) ==
  LET d == req[r].demo IN
  /\ At(r, "history")
  /\ d \in live
  /\ \E old \in BOOLEAN :
       /\ demo[d].histories > 0 => old
       /\ old => demo[d].histories + demo[d].days > 0
       /\ req' = [req EXCEPT ![r].seen = old, ![r].at = "write"]
  /\ Reads

WriteHistory(r) ==
  LET d == req[r].demo IN
  /\ WritesIn(r, "write")
  /\ demo' = IF req[r].seen THEN demo
             ELSE [demo EXCEPT ![d].histories = @ + 1, ![d].traces = @ \cup {"history"}]
  /\ EndReq(r)

\* The count is opened and filled in, unless the step was seen done.
DraftCount(r) ==
  /\ At(r, "draft")
  /\ req[r].demo \in live
  /\ IF req[r].seen THEN EndReq(r) ELSE Goto(r, "post")
  /\ Reads

PostCount(r) ==
  LET d == req[r].demo IN
  /\ WritesIn(r, "post")
  /\ demo' = [demo EXCEPT ![d].counts = @ + 1, ![d].traces = @ \cup {"count"}]
  /\ EndReq(r)

\* The visitor does a step in the interface.
ByHand(v, s) ==
  LET d == cookie[v] IN
  /\ Enters(v, d)
  /\ s \notin demo[d].traces
  /\ s = "receive" => "order" \in demo[d].traces
  /\ demo' = [demo EXCEPT ![d].traces = @ \cup {s}]
  /\ UNCHANGED <<created, live, expired, vain, sessions, cookie, req, sweep>>

\* PUT /sandbox/autopilot
SetAutopilot(v, on) ==
  LET d == cookie[v] IN
  /\ Enters(v, d)
  /\ demo' = [demo EXCEPT ![d].autopilot = on]
  /\ UNCHANGED <<created, live, expired, vain, sessions, cookie, req, sweep>>

-----------------------------------------------------------------------------

\* A transaction fails, its demo is gone, the visitor leaves or the process
\* dies: what the request has committed stays, its lock is released.
Fail(r) ==
  LET d == req[r].demo IN
  /\ req[r] # NoReq
  /\ demo' = IF req[r].at \in {"arrivals", "consume"} /\ d \in live
             THEN [demo EXCEPT ![d].lost = @ \cup {req[r].today}] ELSE demo
  /\ EndReq(r)
  /\ UNCHANGED <<created, live, expired, vain, sessions, cookie, sweep>>

\* Demos live equally long, so the oldest expires first.
Expire(d) ==
  /\ d \in Active
  /\ \A e \in Active : d <= e
  /\ expired' = expired \cup {d}
  /\ UNCHANGED <<created, live, demo, vain, sessions, cookie, req, sweep>>

-----------------------------------------------------------------------------
(* The hourly clean-up.  Its idea of now is the moment it was started.       *)

StartCleanup ==
  /\ sweep = NoSweep
  /\ sweep' = [due |-> expired, at |-> "list", batch |-> <<>>, full |-> FALSE]
  /\ UNCHANGED <<demoVars, sessions, cookie, req>>

\* The oldest of the demos due.
ListExpired ==
  LET ids   == SetToSortSeq(live \cap sweep.due, <)
      batch == SubSeq(ids, 1, IF Len(ids) < CleanupBatch THEN Len(ids) ELSE CleanupBatch)
  IN
  /\ sweep # NoSweep
  /\ sweep.at = "list"
  /\ sweep' = IF batch = <<>> THEN NoSweep
              ELSE [sweep EXCEPT !.at = "delete", !.batch = batch,
                                 !.full = Len(batch) = CleanupBatch]
  /\ UNCHANGED <<demoVars, sessions, cookie, req>>

\* After a full batch there may be more.
NextInBatch ==
  IF Len(sweep.batch) > 1 THEN [sweep EXCEPT !.batch = Tail(@)]
  ELSE IF sweep.full THEN [sweep EXCEPT !.at = "list", !.batch = <<>>] ELSE NoSweep

\* Mutant: the first deletion that fails ends the clean-up.
DeleteOrStop ==
  LET d == Head(sweep.batch) IN
  /\ sweep # NoSweep
  /\ sweep.at = "delete"
  /\ IF d \in Stuck
     THEN sweep' = NoSweep /\ UNCHANGED <<created, live, expired, demo, sessions>>
     ELSE sweep' = NextInBatch /\ DeleteTenant(d)
  /\ UNCHANGED <<vain, cookie, req>>

\* A demo that cannot be deleted is skipped.
DeleteNext ==
  LET d == Head(sweep.batch) IN
  /\ sweep # NoSweep
  /\ sweep.at = "delete"
  /\ IF d \in Stuck THEN UNCHANGED <<created, live, expired, demo, sessions>>
                    ELSE DeleteTenant(d)
  /\ sweep' = NextInBatch
  /\ UNCHANGED <<vain, cookie, req>>

Cleanup == StartCleanup \/ ListExpired \/ DeleteNext

CreateStep(r) ==
  \/ CountActive(r)
  \/ Drop(r)
  \/ CreateShell(r)
  \/ FillDemo(r)
  \/ RunForecast(r)
  \/ DeleteUnfinished(r)
  \/ OpenSession(r)

AdvanceStep(r) ==
  \/ ShiftClock(r)
  \/ ReceiveArrivals(r)
  \/ ConsumeDay(r)
  \/ FinishDay(r)

FillStep(r) ==
  \/ TakeGuideLock(r)
  \/ ReadGuide(r)
  \/ FillDirectory(r)
  \/ FillWork(r)
  \/ ReadHistory(r)
  \/ WriteHistory(r)
  \/ DraftCount(r)
  \/ PostCount(r)

RequestStep(r) == CreateStep(r) \/ AdvanceStep(r) \/ FillStep(r) \/ Fail(r)

Passing == (\E d \in Demos : Expire(d)) \/ Cleanup

Next ==
  \/ \E r \in Requests, v \in Visitors :
       \/ \E mode \in {"ready", "guided"} :
            StartCreate(r, v, mode) \/ StartReset(r, v, mode)
       \/ \E n \in {1, Week} : StartAdvance(r, v, n)
       \/ \E s \in Range(GuideSteps) : StartFill(r, v, s)
  \/ \E r \in Requests : RequestStep(r)
  \/ \E v \in Visitors, s \in Range(GuideSteps) \ {"time"} : ByHand(v, s)
  \/ \E v \in Visitors, on \in BOOLEAN : SetAutopilot(v, on)
  \/ Passing

Spec == Init /\ [][Next]_vars

\* Time passes, and the worker runs the clean-up every hour.  Nobody has to
\* finish a request.
Fairness == WF_vars(\E d \in Demos : Expire(d)) /\ WF_vars(Cleanup)

FairSpec == Spec /\ Fairness

-----------------------------------------------------------------------------
(* Properties *)

\* Types; what is deleted leaves nothing behind.
SandboxTypeOK ==
  /\ created \in 0..MaxDemos
  /\ live \subseteq 1..created
  /\ expired \subseteq 1..created
  /\ \A d \in live : demo[d].traces \subseteq Range(GuideSteps)
  /\ \A d \in Demos \ live : demo[d] = Empty
  /\ sessions \subseteq Visitors \X live
  /\ cookie \in [Visitors -> Demos \cup {NoDemo}]
  /\ req \in [Requests -> Request \cup {NoReq}]

\* Whichever transaction of a creation fails, and whether or not the deletion
\* that makes up for it fails too, a visitor is let into a demo that is
\* complete: empty, or with suppliers, items, history and forecast.
VisitorsEnterFinishedDemos ==
  [][ \A s \in sessions' \ sessions :
        demo[s[2]].traces \in {{}, {"suppliers", "items", "history", "forecast"}} ]_vars

\* Filling a step twice, by one visitor or by several at once, and even after
\* attempts that were cut off, applies the template once: the look for
\* an existing history or count and the writing of it are separate
\* transactions, and only the guide's lock keeps them together.
TemplateAppliedOnce ==
  \A d \in Demos : demo[d].histories <= 1 /\ demo[d].counts <= 1

\* The invariant of the demos: well-formed, and no template applied twice.
SandboxInv == SandboxTypeOK /\ TemplateAppliedOnce

\* However many requests move one clock at once, every day it has been moved
\* to has its usage written, will get it from the request that moved it there,
\* or was given up by a request that failed.
DaysAreLived ==
  \A d \in live :
    1..demo[d].days = demo[d].lived \cup demo[d].lost \cup
                 {req[r].today : r \in {q \in Requests :
                     req[q] # NoReq /\ req[q].demo = d
                                    /\ req[q].at \in {"arrivals", "consume"}}}

\* The limits on demos and on virtual days are checked long before they are
\* used up.  They are overrun by what the other requests in flight hold, and a
\* reset that found its demo expired or gone adds one demo unchecked.
OverrunsAreExplained ==
  LET shells == {r \in Requests : req[r] # NoReq /\ req[r].at = "shell"} IN
  /\ Cardinality(Active) + Cardinality(shells)
       <= MaxActive + Cardinality(Requests) - 1 + vain
  /\ \A d \in live : demo[d].days <= MaxVirtualDays + (Cardinality(Requests) - 1) * Week

\* Every demo is deleted in the end, those left behind by a creation that
\* failed included, unless the database never lets it be.  A batch made up of
\* nothing but such demos would be listed over and over.
DemosComeToAnEnd ==
  \A d \in Demos \ Stuck : d \in live ~> d \notin live

=============================================================================
