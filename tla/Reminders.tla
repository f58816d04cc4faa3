----------------------------- MODULE Reminders -----------------------------
(***************************************************************************)
(* The scheduled tasks that remind (worker/tasks.go, notify/digest.go): the *)
(* daily digest, the reminder before a supplier's cutoff and the alert about *)
(* late deliveries.  Every task goes through all tenants, one transaction    *)
(* each; a task that failed for any of them is run again as a whole, so      *)
(* several passes of one task may be under way.                              *)
(***************************************************************************)
EXTENDS Integers, Sequences, FiniteSets, SequencesExt

CONSTANTS
  Kinds,        \* the tasks: of "digest", "cutoff", "late"
  Tenants,      \* in the order of their creation, each with one supplier
  Zone,         \* hours ahead of UTC
  DayLength,    \* bound: hours of a day
  DigestAt,     \* the hour of the digest
  Cutoff,       \* the hour of the supplier's cutoff
  Lead,         \* CutoffLeadTime
  Orders,       \* orders sent before the first day
  OrdersOf,     \* whose they are
  Due,          \* expected_at, a day
  Workers,       \* workers
  MaxTime,      \* bound: the last hour
  MaxFailures,  \* bound: failures
  NoPass

ASSUME RemindersAssumption ==
  /\ Kinds \subseteq {"digest", "cutoff", "late"}
  /\ DayLength \in Nat \ {0} /\ DigestAt \in Nat /\ Lead \in Nat /\ MaxTime \in Nat
  /\ Tenants \in Seq(Range(Tenants)) /\ IsFiniteSet(Orders)
  /\ \A t \in Range(Tenants) :
       Zone[t] \in Nat /\ Cutoff[t] \in Nat /\ OrdersOf[t] \subseteq Orders

VARIABLES
  now,       \* the hour, in UTC
  tasks,     \* queued tasks: kind and the hour they were scheduled in
  again,     \* failed tasks, queued again after a delay
  pass,      \* what each worker is doing
  told,      \* notifications, by their deduplication key
  marks,     \* orders with late_notified_at
  received,  \* orders received or cancelled
  open,      \* tenant and day: an order sent that day is still sent
  whole,     \* kind and hour of every pass that began and ended in one hour
  excused,   \* kind, tenant and hour in which there was a reason not to remind
  failures

remindersData == <<told, marks, received, open>>
history == <<whole, excused, failures>>
reminderVars == <<now, tasks, again, pass, remindersData, history>>

-----------------------------------------------------------------------------

HourOf(t, at) == (at + Zone[t]) % DayLength
DayOf(t, at) == (at + Zone[t]) \div DayLength

Busy(p) == pass[p] # NoPass
PassAt(p, kind, at) == Busy(p) /\ pass[p].kind = kind /\ pass[p].at = at
Visited(p) == Head(pass[p].todo)

DigestKey(t, d) == <<"digest", t, d>>
CutoffKey(t, d) == <<"cutoff", t, d>>
LateKey(o) == <<"late", o>>

\* Two hours before the cutoff of today, and before the cutoff.
InWindow(t, at) == HourOf(t, at) \in Cutoff[t] - Lead .. Cutoff[t] - 1

\* Late: still sent, expected before today, not yet told of.
Late(o, today) == o \notin received /\ Due[o] < today /\ o \notin marks

RemindersInit ==
  /\ now = 0
  /\ tasks = Kinds \X {0}
  /\ again = {}
  /\ pass = [p \in Workers |-> NoPass]
  /\ told = EmptyBag
  /\ marks = {} /\ received = {} /\ open = {}
  /\ whole = {} /\ excused = {} /\ failures = 0

-----------------------------------------------------------------------------
(* Around the passes.                                                        *)

\* The scheduler enqueues each task every hour.
Tick ==
  /\ now < MaxTime
  /\ now' = now + 1
  /\ tasks' = tasks \cup (Kinds \X {now + 1})
  /\ UNCHANGED <<again, pass, remindersData, history>>

\* What passes under way have not seen: receipts and orders since they looked.
Notice(fact) == [p \in Workers |->
  IF Busy(p) /\ fact \in Range(pass[p].keys) \cup pass[p].written
  THEN [pass[p] EXCEPT !.since = @ \cup {fact}] ELSE pass[p]]

\* Marking an order holds its row to the end of the transaction.
OrderFree(o) == \A p \in Workers : Busy(p) => o \notin pass[p].marked

Receive(o) ==
  /\ o \notin received
  /\ OrderFree(o)
  /\ received' = received \cup {o}
  /\ pass' = Notice(LateKey(o))
  /\ UNCHANGED <<now, tasks, again, told, marks, open, history>>

SendOrder(t) ==
  LET today == <<t, DayOf(t, now)>> IN
  /\ today \notin open
  /\ open' = open \cup {today}
  /\ pass' = Notice(CutoffKey(t, DayOf(t, now)))
  /\ UNCHANGED <<now, tasks, again, told, marks, received, history>>

\* What was sent that day is received or cancelled.
CloseOrder(sentOn) ==
  /\ open' = open \ {sentOn}
  /\ UNCHANGED <<now, tasks, again, pass, told, marks, received, history>>

-----------------------------------------------------------------------------
(* forEachTenant                                                             *)

\* A free worker takes a queued task.  One that failed is delayed, by 1, 2, 4 ...
\* minutes, which is taken to outlast the passes under way.
TakeTask(p, task) ==
  /\ ~ Busy(p)
  /\ \/ task \in tasks
     \/ task \in again /\ \A q \in Workers : Busy(q) => pass[q].kind # task[1]
  /\ tasks' = tasks \ {task}
  /\ again' = again \ {task}
  /\ pass' = [pass EXCEPT ![p] =
       [kind |-> task[1], hour |-> task[2], began |-> now, todo |-> Tenants, at |-> "look",
        keys |-> <<>>, written |-> {}, marked |-> {}, since |-> {}, failed |-> FALSE]]
  /\ UNCHANGED <<now, remindersData, history>>

\* On to the next tenant.
Leave(rec) == [rec EXCEPT !.todo = Tail(@), !.at = "look", !.keys = <<>>,
                          !.written = {}, !.marked = {}, !.since = {}]

\* A reason not to remind the tenant in this hour.
Excuse(p) == excused' = excused \cup {<<pass[p].kind, Visited(p), pass[p].began>>}

\* Mutant: the pass ends with the first tenant that fails.
FailAndStop(p) ==
  /\ Busy(p) /\ pass[p].todo # <<>>
  /\ failures < MaxFailures
  /\ failures' = failures + 1
  /\ Excuse(p)
  /\ pass' = [pass EXCEPT ![p] = [Leave(@) EXCEPT !.failed = TRUE, !.todo = <<>>]]
  /\ UNCHANGED <<now, tasks, again, remindersData, whole>>

\* An error for one tenant is counted, the pass goes on.
FailVisit(p) ==
  /\ Busy(p) /\ pass[p].todo # <<>>
  /\ failures < MaxFailures
  /\ failures' = failures + 1
  /\ Excuse(p)
  /\ pass' = [pass EXCEPT ![p] = [Leave(@) EXCEPT !.failed = TRUE]]
  /\ UNCHANGED <<now, tasks, again, remindersData, whole>>

\* A failed task is queued again.
EndPass(p) ==
  /\ Busy(p) /\ pass[p].todo = <<>>
  /\ again' = IF pass[p].failed
              THEN again \cup {<<pass[p].kind, pass[p].hour>>} ELSE again
  /\ whole' = IF pass[p].began = now
              THEN whole \cup {<<pass[p].kind, now>>} ELSE whole
  /\ pass' = [pass EXCEPT ![p] = NoPass]
  /\ UNCHANGED <<now, tasks, remindersData, excused, failures>>

-----------------------------------------------------------------------------
(* What each task looks at in a tenant.                                      *)

\* Nothing to say to this tenant now.
Skip(p) ==
  /\ pass' = [pass EXCEPT ![p] = Leave(@)]
  /\ UNCHANGED <<now, tasks, again, remindersData, history>>

SkipWithReason(p) ==
  /\ pass' = [pass EXCEPT ![p] = Leave(@)]
  /\ Excuse(p)
  /\ UNCHANGED <<now, tasks, again, remindersData, whole, failures>>

ToSay(p, keys) ==
  /\ pass' = [pass EXCEPT ![p].keys = keys, ![p].at = "emit", ![p].since = {}]
  /\ UNCHANGED <<now, tasks, again, remindersData, history>>

\* RunDigest, SendDigest: in the tenant's hour only, and not an empty one.
LookDigest(p) ==
  LET t == Visited(p) IN
  /\ PassAt(p, "digest", "look") /\ pass[p].todo # <<>>
  /\ \/ HourOf(t, now) # DigestAt /\ Skip(p)
     \/ HourOf(t, now) = DigestAt /\ SkipWithReason(p)
     \/ HourOf(t, now) = DigestAt /\ ToSay(p, <<DigestKey(t, DayOf(t, now))>>)

\* SendCutoffReminders: a supplier of whom something is suggested, in its window,
\* unless an order sent today is open (HasOpenOrderForSupplier).
LookCutoff(p) ==
  LET t     == Visited(p)
      today == DayOf(t, now)
  IN
  /\ PassAt(p, "cutoff", "look") /\ pass[p].todo # <<>>
  /\ \E suggested \in BOOLEAN :
       \/ ~ InWindow(t, now) /\ Skip(p)
       \/ InWindow(t, now) /\ (~ suggested \/ <<t, today>> \in open) /\ SkipWithReason(p)
       \/ /\ InWindow(t, now) /\ suggested /\ <<t, today>> \notin open
          /\ ToSay(p, <<CutoffKey(t, today)>>)

\* Mutant: only the orders that were due yesterday.
LookLateYesterday(p) ==
  LET t     == Visited(p)
      today == DayOf(t, now)
      late  == {LateKey(o) : o \in {x \in OrdersOf[t] : Late(x, today) /\ Due[x] = today - 1}}
  IN
  /\ PassAt(p, "late", "look") /\ pass[p].todo # <<>>
  /\ \E list \in SetToSeqs(late) : IF list = <<>> THEN Skip(p) ELSE ToSay(p, list)

\* Mutant: received orders are listed as well.
LookLateReceived(p) ==
  LET t     == Visited(p)
      today == DayOf(t, now)
      late  == {LateKey(o) : o \in {x \in OrdersOf[t] : Due[x] < today /\ x \notin marks}}
  IN
  /\ PassAt(p, "late", "look") /\ pass[p].todo # <<>>
  /\ \E list \in SetToSeqs(late) : IF list = <<>> THEN Skip(p) ELSE ToSay(p, list)

\* SendLateAlerts: the list has no order of its own.
LookLate(p) ==
  LET t     == Visited(p)
      today == DayOf(t, now)
      late  == {LateKey(o) : o \in {x \in OrdersOf[t] : Late(x, today)}}
  IN
  /\ PassAt(p, "late", "look") /\ pass[p].todo # <<>>
  /\ \E list \in SetToSeqs(late) : IF list = <<>> THEN Skip(p) ELSE ToSay(p, list)

-----------------------------------------------------------------------------
(* Emit, and what follows it in the same transaction.                        *)

KeyFree(key) == \A p \in Workers : Busy(p) => key \notin pass[p].written

\* Mutant: no ON CONFLICT, no unique key.
InsertAlways(p) ==
  LET key == Head(pass[p].keys) IN
  /\ Busy(p) /\ pass[p].at = "emit"
  /\ pass' = [pass EXCEPT ![p].written = @ \cup {key},
                          ![p].at = IF pass[p].kind = "late" THEN "mark" ELSE "commit"]
  /\ UNCHANGED <<now, tasks, again, remindersData, history>>

\* InsertNotification waits for an uncommitted twin, and is silent about a
\* committed one.
InsertNotification(p) ==
  LET key == Head(pass[p].keys) IN
  /\ Busy(p) /\ pass[p].at = "emit"
  /\ KeyFree(key)
  /\ pass' = [pass EXCEPT ![p].written = IF BagIn(key, told) THEN @ ELSE @ \cup {key},
                          ![p].at = IF pass[p].kind = "late" THEN "mark" ELSE "commit"]
  /\ UNCHANGED <<now, tasks, again, remindersData, history>>

NextKey(rec) ==
  [rec EXCEPT !.keys = Tail(@), !.at = IF Len(rec.keys) = 1 THEN "commit" ELSE "emit"]

MarkOrderLateNotified(p) ==
  LET o == Head(pass[p].keys)[2] IN
  /\ Busy(p) /\ pass[p].at = "mark"
  /\ OrderFree(o)
  /\ pass' = [pass EXCEPT ![p] = [NextKey(@) EXCEPT !.marked = pass[p].marked \cup {o}]]
  /\ UNCHANGED <<now, tasks, again, remindersData, history>>

CommitVisit(p) ==
  /\ Busy(p) /\ pass[p].at = "commit"
  /\ told' = told (+) SetToBag(pass[p].written)
  /\ marks' = marks \cup pass[p].marked
  /\ pass' = [pass EXCEPT ![p] = Leave(@)]
  /\ UNCHANGED <<now, tasks, again, received, open, history>>

\* Two passes over late orders, each waiting for what the other has written.
Entangled(p, q) ==
  /\ PassAt(p, "late", "emit") /\ PassAt(q, "late", "emit")
  /\ Head(pass[p].keys) \in pass[q].written
  /\ Head(pass[q].keys) \in pass[p].written

\* PostgreSQL ends one of them, which is a failure like any other.
DeadlockVictim(p) ==
  /\ \E q \in Workers \ {p} : Entangled(p, q)
  /\ Excuse(p)
  /\ pass' = [pass EXCEPT ![p] = [Leave(@) EXCEPT !.failed = TRUE]]
  /\ UNCHANGED <<now, tasks, again, remindersData, whole, failures>>

-----------------------------------------------------------------------------

PassStep(p) ==
  \/ LookDigest(p)
  \/ LookCutoff(p)
  \/ LookLate(p)
  \/ InsertNotification(p)
  \/ MarkOrderLateNotified(p)
  \/ CommitVisit(p)
  \/ DeadlockVictim(p)
  \/ EndPass(p)

RemindersNext ==
  \/ Tick
  \/ \E o \in Orders : Receive(o)
  \/ \E t \in Range(Tenants) : SendOrder(t)
  \/ \E sentOn \in open : CloseOrder(sentOn)
  \/ \E p \in Workers :
       \/ \E task \in tasks \cup again : TakeTask(p, task)
       \/ PassStep(p)
       \/ FailVisit(p)

\* Workers take queued tasks and get on with them.  Hours need not pass.
RemindersFairness == \A p \in Workers :
  /\ SF_reminderVars(PassStep(p))
  /\ WF_reminderVars(\E task \in tasks \cup again : TakeTask(p, task))

RemindersSpec == RemindersInit /\ [][RemindersNext]_reminderVars
FairRemindersSpec == RemindersSpec /\ RemindersFairness

-----------------------------------------------------------------------------
(* Properties *)

Keys == {DigestKey(t, DayOf(t, at)) : t \in Range(Tenants), at \in 0..MaxTime}
        \cup {CutoffKey(t, DayOf(t, at)) : t \in Range(Tenants), at \in 0..MaxTime}
        \cup {LateKey(o) : o \in Orders}

\* Types, and: however often a task is repeated, whatever passes overlap,
\* nobody is reminded twice of one thing.
RemindedOnce ==
  /\ BagToSet(told) \subseteq Keys
  /\ \A key \in BagToSet(told) : told[key] = 1

\* A pass that ran within one hour has told every tenant what that hour asks
\* for, unless there was a reason not to: whatever happens to one tenant is no
\* reason for another.
EveryTenantIsServed ==
  \A t \in Range(Tenants), h \in 0..MaxTime :
    /\ <<"digest", h>> \in whole /\ HourOf(t, h) = DigestAt =>
         BagIn(DigestKey(t, DayOf(t, h)), told) \/ <<"digest", t, h>> \in excused
    /\ <<"cutoff", h>> \in whole /\ InWindow(t, h) =>
         BagIn(CutoffKey(t, DayOf(t, h)), told) \/ <<"cutoff", t, h>> \in excused

\* Nobody is reminded of an order that had been received or cancelled, or to send
\* one while one sent that day was open, when the pass looked: a reminder is out
\* of date by what happened after that only.
RemindersWereTrue ==
  [][\A p \in Workers : pass[p] # NoPass /\ told' # told /\ pass'[p] # pass[p] =>
       \A key \in pass[p].written :
         \/ key[1] = "digest"
         \/ key[1] = "late" /\ key[2] \notin received
         \/ key[1] = "cutoff" /\ <<key[2], key[3]>> \notin open
         \/ key \in pass[p].since]_reminderVars

\* An order that is late when a day begins is told of, received or cancelled.
LateOrdersAreToldOf ==
  \A t \in Range(Tenants) : \A o \in OrdersOf[t] :
    Due[o] < DayOf(t, now) ~> BagIn(LateKey(o), told) \/ o \in received

=============================================================================
