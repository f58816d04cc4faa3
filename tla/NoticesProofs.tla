---------------------------- MODULE NoticesProofs ----------------------------
(***************************************************************************)
(* Proofs about Reminders, for any tenants, orders, workers and hours, and *)
(* about Outbox, for any number of messages, passes, attempts and slips.   *)
(* The first argument follows one pass through the tenants: whom it has    *)
(* served, and what it is about to say.  The second follows one message:   *)
(* what each pass that holds it may still do to it.                        *)
(***************************************************************************)
EXTENDS Outbox, Reminders, FiniteSetTheorems, SequenceTheorems, TLAPS

-----------------------------------------------------------------------------
(* The reminding tasks.                                                     *)

PassStages == {"look", "emit", "mark", "commit"}

PassType ==
  [kind : Kinds, hour : 0..MaxTime, began : 0..MaxTime, todo : Seq(Range(Tenants)),
   at : PassStages, keys : Seq(Keys), written : SUBSET Keys, marked : SUBSET Orders,
   since : SUBSET Keys, failed : BOOLEAN]

RemindersTypeOK ==
  /\ now \in 0..MaxTime
  /\ tasks \subseteq Kinds \X (0..MaxTime)
  /\ again \subseteq Kinds \X (0..MaxTime)
  /\ pass \in [Workers -> PassType \cup {NoPass}]
  /\ marks \subseteq Orders /\ received \subseteq Orders

\* What a tenant is told in an hour that asks for it.
KeyNow(kind, t, h) ==
  IF kind = "digest" THEN DigestKey(t, DayOf(t, h)) ELSE CutoffKey(t, DayOf(t, h))

Asked(kind, t, h) ==
  \/ kind = "digest" /\ HourOf(t, h) = DigestAt
  \/ kind = "cutoff" /\ InWindow(t, h)

Served(kind, t, h, said, reasons) ==
  Asked(kind, t, h) => KeyNow(kind, t, h) \in said \/ <<kind, t, h>> \in reasons

\* Where a pass can be, and with what.
StageFits(p) ==
  /\ IF pass[p].at = "look" THEN pass[p].written = {} ELSE pass[p].todo # <<>>
  /\ pass[p].at \in {"emit", "mark"} => pass[p].keys # <<>>
  /\ pass[p].at = "mark" => pass[p].kind = "late"
  /\ \A key \in Range(pass[p].keys) : key[1] = pass[p].kind
  /\ pass[p].began <= now

\* What a pass is about to say was so when it looked, or it has been noted since.
IsSo(key) ==
  \/ key[1] = "digest"
  \/ key[1] = "late" /\ key[2] \notin received
  \/ key[1] = "cutoff" /\ <<key[2], key[3]>> \notin open

Heeds(p) ==
  \A key \in Range(pass[p].keys) \cup pass[p].written : IsSo(key) \/ key \in pass[p].since

\* A pass in the hour in which it began has served the tenants it has left, and
\* is about to serve the one it visits.
ServedSoFar(p) ==
  pass[p].began = now =>
    /\ \A t \in Range(Tenants) \ Range(pass[p].todo) :
         Served(pass[p].kind, t, now, DOMAIN told, excused)
    /\ pass[p].kind # "late" /\ pass[p].at = "emit" =>
         pass[p].keys = <<KeyNow(pass[p].kind, Visited(p), now)>>
    /\ pass[p].kind # "late" /\ pass[p].at = "commit" =>
         KeyNow(pass[p].kind, Visited(p), now) \in DOMAIN told \cup pass[p].written

PassFits(p) == Busy(p) => StageFits(p) /\ Heeds(p) /\ ServedSoFar(p)

\* A notification is written by one transaction, and by none once it is there.
WrittenApart ==
  /\ \A p \in Workers : Busy(p) => pass[p].written \cap DOMAIN told = {}
  /\ \A p \in Workers, q \in Workers :
       Busy(p) /\ Busy(q) /\ p # q => pass[p].written \cap pass[q].written = {}

\* RemindedOnce speaks of what is committed only, and EveryTenantIsServed of
\* passes that have ended.
RemindersInv ==
  /\ RemindersTypeOK
  /\ \A p \in Workers : PassFits(p)
  /\ WrittenApart
  /\ RemindedOnce
  /\ EveryTenantIsServed

-----------------------------------------------------------------------------

\* A sequence is its head and the others.
LEMMA HeadAndTail ==
  ASSUME NEW S, NEW s \in Seq(S), s # <<>>
  PROVE  /\ Tail(s) \in Seq(S) /\ Head(s) \in S /\ Head(s) \in Range(s)
         /\ Range(s) = {Head(s)} \cup Range(Tail(s))
<1>1. Len(s) \in Nat \ {0} /\ s \in [1..Len(s) -> S] /\ Head(s) = s[1]
  BY EmptySeq, LenProperties
<1>2. /\ Tail(s) \in Seq(S) /\ Len(Tail(s)) = Len(s) - 1
      /\ \A i \in 1..Len(Tail(s)) : Tail(s)[i] = s[i+1]
  BY HeadTailProperties
<1>3. DOMAIN s = 1..Len(s) /\ DOMAIN Tail(s) = 1..(Len(s) - 1)
  BY <1>1, <1>2, LenProperties
<1>4. 1 \in DOMAIN s
  BY <1>1, <1>3
<1>5. \A i \in DOMAIN s : i = 1 \/ (i - 1 \in DOMAIN Tail(s) /\ Tail(s)[i - 1] = s[i])
  BY <1>1, <1>2, <1>3
<1>6. \A i \in DOMAIN Tail(s) : i + 1 \in DOMAIN s /\ Tail(s)[i] = s[i + 1]
  BY <1>1, <1>2, <1>3
<1>7. Range(s) = {Head(s)} \cup Range(Tail(s))
  <2>1. Range(s) \subseteq {Head(s)} \cup Range(Tail(s))
    BY <1>1, <1>5 DEF Range
  <2>2. {Head(s)} \cup Range(Tail(s)) \subseteq Range(s)
    BY <1>1, <1>4, <1>6 DEF Range
  <2> QED BY <2>1, <2>2
<1>8. Head(s) \in Range(s)
  BY <1>7
<1>9. Head(s) \in S
  BY <1>1, <1>4
<1> QED BY <1>2, <1>7, <1>8, <1>9

LEMMA EmptyRange == Range(<<>>) = {}
  BY DEF Range

LEMMA SingletonRange ==
  ASSUME NEW k
  PROVE  <<k>> # <<>> /\ Range(<<k>>) = {k} /\ Head(<<k>>) = k
  BY DEF Range

\* The kinds of keys.
LEMMA KeysOfTenants ==
  ASSUME NEW t \in Range(Tenants), NEW h \in 0..MaxTime
  PROVE  /\ DigestKey(t, DayOf(t, h)) \in Keys /\ CutoffKey(t, DayOf(t, h)) \in Keys
         /\ \A kind : KeyNow(kind, t, h) \in Keys
  BY DEF Keys, KeyNow

LEMMA KeysAre ==
  ASSUME NEW key \in Keys
  PROVE  /\ key[1] = "late" => key[2] \in Orders /\ key = LateKey(key[2])
         /\ key[1] = "cutoff" => key = CutoffKey(key[2], key[3])
  BY DEF Keys, LateKey, CutoffKey, DigestKey

\* What a busy pass is.
LEMMA BusyPass ==
  ASSUME RemindersInv, NEW p \in Workers, Busy(p)
  PROVE  /\ pass[p] \in PassType
         /\ StageFits(p) /\ Heeds(p) /\ ServedSoFar(p)
         /\ pass[p].written \cap DOMAIN told = {}
         /\ now \in 0..MaxTime
  BY DEF RemindersInv, RemindersTypeOK, PassFits, WrittenApart, Busy

LEMMA VisitedTenant ==
  ASSUME RemindersInv, NEW p \in Workers, Busy(p), pass[p].todo # <<>>
  PROVE  /\ Visited(p) \in Range(Tenants)
         /\ Tail(pass[p].todo) \in Seq(Range(Tenants))
         /\ Range(pass[p].todo) = {Visited(p)} \cup Range(Tail(pass[p].todo))
<1>1. pass[p].todo \in Seq(Range(Tenants))
  BY BusyPass DEF PassType
<1> QED BY <1>1, HeadAndTail DEF Visited

-----------------------------------------------------------------------------
(* What one step leaves alone.                                              *)

\* One worker goes on, and nothing is taken away from what others rely on.
OthersRest(p) ==
  /\ \A q \in Workers \ {p} : pass'[q] = pass[q]
  /\ UNCHANGED <<now, received, open>>
  /\ DOMAIN told \subseteq DOMAIN told' /\ excused \subseteq excused'

LEMMA StaysServed ==
  ASSUME NEW kind, NEW t, NEW h, NEW said, NEW reasons, NEW more \in SUBSET said,
         NEW others \in SUBSET reasons, Served(kind, t, h, more, others)
  PROVE  Served(kind, t, h, said, reasons)
  BY DEF Served

LEMMA OthersFit ==
  ASSUME RemindersInv, NEW p \in Workers, OthersRest(p), PassFits(p)'
  PROVE  \A q \in Workers : PassFits(q)'
<1>1. ASSUME NEW q \in Workers \ {p}, Busy(q)' PROVE PassFits(q)'
  <2>1. pass'[q] = pass[q] /\ Busy(q) /\ now' = now
    BY <1>1 DEF OthersRest, Busy
  <2>2. StageFits(q) /\ Heeds(q) /\ ServedSoFar(q)
    BY <2>1, BusyPass
  <2>3. StageFits(q)'
    BY <2>1, <2>2 DEF StageFits
  <2>4. Heeds(q)'
    <3>1. \A key : IsSo(key) => IsSo(key)'
      BY DEF IsSo, OthersRest
    <3> QED BY <2>1, <2>2, <3>1 DEF Heeds
  <2>5. ServedSoFar(q)'
    <3>1. \A t : Served(pass[q].kind, t, now, DOMAIN told, excused) =>
                   Served(pass[q].kind, t, now, DOMAIN told', excused')
      BY DEF OthersRest, Served
    <3>3. Visited(q)' = Visited(q)
      BY <2>1 DEF Visited
    <3>4. ASSUME pass[q].began = now
          PROVE  /\ \A t \in Range(Tenants) \ Range(pass[q].todo) :
                      Served(pass[q].kind, t, now, DOMAIN told', excused')
                 /\ pass[q].kind # "late" /\ pass[q].at = "emit" =>
                      pass[q].keys = <<KeyNow(pass[q].kind, Visited(q), now)>>
                 /\ pass[q].kind # "late" /\ pass[q].at = "commit" =>
                      KeyNow(pass[q].kind, Visited(q), now)
                        \in DOMAIN told' \cup pass[q].written
      BY <2>2, <3>1, <3>4 DEF ServedSoFar, OthersRest
    <3> QED BY <2>1, <3>3, <3>4 DEF ServedSoFar
  <2> QED BY <2>3, <2>4, <2>5 DEF PassFits
<1> QED BY <1>1 DEF PassFits

\* What an hour asks for has been said, in the words of Served.
ServedIn(ended, said, reasons) ==
  \A t \in Range(Tenants), h \in 0..MaxTime, kind \in {"digest", "cutoff"} :
    <<kind, h>> \in ended => Served(kind, t, h, said, reasons)

LEMMA ServedWhole ==
  /\ EveryTenantIsServed <=> ServedIn(whole, DOMAIN told, excused)
  /\ EveryTenantIsServed' <=> ServedIn(whole', DOMAIN told', excused')
<1>1. \A t, h, said, reasons : Served("digest", t, h, said, reasons) <=>
        (HourOf(t, h) = DigestAt =>
          DigestKey(t, DayOf(t, h)) \in said \/ <<"digest", t, h>> \in reasons)
  BY DEF Served, Asked, KeyNow
<1>2. \A t, h, said, reasons : Served("cutoff", t, h, said, reasons) <=>
        (InWindow(t, h) =>
          CutoffKey(t, DayOf(t, h)) \in said \/ <<"cutoff", t, h>> \in reasons)
  BY DEF Served, Asked, KeyNow
<1> QED BY <1>1, <1>2 DEF EveryTenantIsServed, BagIn, BagToSet, ServedIn

LEMMA StayServed ==
  ASSUME RemindersInv, DOMAIN told \subseteq DOMAIN told', excused \subseteq excused',
         whole' = whole
  PROVE  EveryTenantIsServed'
<1>1. ServedIn(whole, DOMAIN told, excused)
  BY ServedWhole DEF RemindersInv
<1>2. ServedIn(whole', DOMAIN told', excused')
  BY <1>1 DEF ServedIn, Served
<1> QED BY <1>2, ServedWhole

\* A step of one worker that commits nothing.
LEMMA WorkerKeeps ==
  ASSUME RemindersInv, NEW p \in Workers, OthersRest(p), told' = told, whole' = whole,
         RemindersTypeOK', PassFits(p)',
         Busy(p)' => \/ pass'[p].written = {}
                     \/ Busy(p) /\ pass'[p].written = pass[p].written
  PROVE  RemindersInv'
<1>1. \A q \in Workers : PassFits(q)'
  BY OthersFit
<1>2. WrittenApart'
  <2>1. \A q \in Workers : Busy(q)' =>
          pass'[q].written = {} \/ (Busy(q) /\ pass'[q].written = pass[q].written)
    BY DEF OthersRest, Busy
  <2>2. \A q \in Workers : Busy(q)' => pass'[q].written \cap DOMAIN told = {}
    BY <2>1 DEF RemindersInv, WrittenApart
  <2>3. \A q \in Workers, o \in Workers :
          Busy(q)' /\ Busy(o)' /\ q # o => pass'[q].written \cap pass'[o].written = {}
    BY <2>1 DEF RemindersInv, WrittenApart
  <2> QED BY <2>2, <2>3 DEF WrittenApart
<1>3. RemindedOnce'
  BY DEF RemindersInv, RemindedOnce, BagToSet
<1>4. EveryTenantIsServed'
  BY StayServed DEF OthersRest
<1> QED BY <1>1, <1>2, <1>3, <1>4 DEF RemindersInv

-----------------------------------------------------------------------------
(* One lemma per kind of step.                                              *)

\* On to the next tenant, having served this one.
LEMMA LeaveFits ==
  ASSUME RemindersInv, NEW p \in Workers, Busy(p), pass[p].todo # <<>>, NEW rec,
         rec = Leave(pass[p]) \/ rec = [Leave(pass[p]) EXCEPT !.failed = TRUE],
         pass' = [pass EXCEPT ![p] = rec],
         now' = now, DOMAIN told \subseteq DOMAIN told', excused \subseteq excused',
         pass[p].began = now =>
           Served(pass[p].kind, Visited(p), now, DOMAIN told', excused')
  PROVE  /\ pass' \in [Workers -> PassType \cup {NoPass}]
         /\ \A q \in Workers \ {p} : pass'[q] = pass[q]
         /\ pass'[p].written = {}
         /\ PassFits(p)'
<1>1. /\ Tail(pass[p].todo) \in Seq(Range(Tenants))
      /\ Range(pass[p].todo) = {Visited(p)} \cup Range(Tail(pass[p].todo))
  BY VisitedTenant
<1>2. pass[p] \in PassType /\ StageFits(p) /\ ServedSoFar(p)
  BY BusyPass
<1>3. <<>> \in Seq(Keys)
  BY EmptySeq
<1> DEFINE left == Leave(pass[p])
<1>10. /\ left \in PassType /\ left.kind = pass[p].kind /\ left.began = pass[p].began
      /\ left.todo = Tail(pass[p].todo) /\ left.at = "look" /\ left.keys = <<>>
      /\ left.written = {}
  BY <1>1, <1>2, <1>3 DEF Leave, PassType, PassStages
<1> HIDE DEF left
<1>4. /\ rec \in PassType /\ rec.kind = pass[p].kind /\ rec.began = pass[p].began
      /\ rec.todo = Tail(pass[p].todo) /\ rec.at = "look" /\ rec.keys = <<>>
      /\ rec.written = {}
  <2>1. rec = left \/ rec = [left EXCEPT !.failed = TRUE]
    BY DEF left
  <2> QED BY <1>10, <2>1 DEF PassType
<1>5. /\ pass' \in [Workers -> PassType \cup {NoPass}] /\ pass'[p] = rec
      /\ \A q \in Workers \ {p} : pass'[q] = pass[q]
  BY <1>4 DEF RemindersInv, RemindersTypeOK
<1>6. StageFits(p)'
  BY <1>2, <1>4, <1>5, EmptyRange DEF StageFits
<1>7. Heeds(p)'
  BY <1>4, <1>5, EmptyRange DEF Heeds
<1>8. ServedSoFar(p)'
  <2>1. ASSUME pass[p].began = now, NEW t \in Range(Tenants) \ Range(rec.todo)
        PROVE  Served(rec.kind, t, now, DOMAIN told', excused')
    <3>1. CASE t = Visited(p)
      BY <1>4, <2>1, <3>1
    <3>2. CASE t # Visited(p)
      BY <1>1, <1>2, <1>4, <2>1, <3>2, StaysServed DEF ServedSoFar
    <3> QED BY <3>1, <3>2
  <2>2. rec.at = "look" /\ rec.began = pass[p].began
    BY <1>4
  <2> QED BY <1>5, <2>1, <2>2 DEF ServedSoFar
<1> QED BY <1>4, <1>5, <1>6, <1>7, <1>8 DEF PassFits

\* Failing, skipping and being ended by the database.
LEMMA LeaveKeeps ==
  ASSUME RemindersInv, NEW p \in Workers, Busy(p), pass[p].todo # <<>>, NEW rec,
         rec = Leave(pass[p]) \/ rec = [Leave(pass[p]) EXCEPT !.failed = TRUE],
         pass' = [pass EXCEPT ![p] = rec],
         UNCHANGED <<now, tasks, again, remindersData, whole>>,
         excused \subseteq excused',
         pass[p].began = now =>
           Served(pass[p].kind, Visited(p), now, DOMAIN told', excused')
  PROVE  RemindersInv'
<1>1. told' = told
  BY DEF remindersData
<1>2. /\ pass' \in [Workers -> PassType \cup {NoPass}]
      /\ \A q \in Workers \ {p} : pass'[q] = pass[q]
      /\ pass'[p].written = {}
      /\ PassFits(p)'
  BY <1>1, LeaveFits
<1>3. RemindersTypeOK'
  BY <1>2 DEF RemindersInv, RemindersTypeOK, remindersData
<1>4. OthersRest(p)
  BY <1>2 DEF OthersRest, remindersData
<1> QED BY <1>1, <1>2, <1>3, <1>4, WorkerKeeps

\* A reason not to remind is as good as a reminder.
LEMMA ExcusedIsServed ==
  ASSUME RemindersInv, NEW p \in Workers, Busy(p), Excuse(p), now' = now
  PROVE  /\ excused \subseteq excused'
         /\ pass[p].began = now =>
              Served(pass[p].kind, Visited(p), now, DOMAIN told', excused')
<1>1. /\ excused \subseteq excused'
      /\ <<pass[p].kind, Visited(p), pass[p].began>> \in excused'
  BY DEF Excuse
<1>2. pass[p].began = now => <<pass[p].kind, Visited(p), now>> \in excused'
  BY <1>1
<1> QED BY <1>1, <1>2 DEF Served

LEMMA FailKeeps ==
  ASSUME RemindersInv, NEW p \in Workers,
         FailVisit(p) \/ DeadlockVictim(p)
  PROVE  RemindersInv'
<1>1. Busy(p) /\ pass[p].todo # <<>>
  BY BusyPass DEF FailVisit, DeadlockVictim, Entangled, PassAt, StageFits
<1>2. /\ pass' = [pass EXCEPT ![p] = [Leave(pass[p]) EXCEPT !.failed = TRUE]]
      /\ Excuse(p)
      /\ UNCHANGED <<now, tasks, again, remindersData, whole>>
  BY DEF FailVisit, DeadlockVictim
<1> QED BY <1>1, <1>2, ExcusedIsServed, LeaveKeeps

LEMMA SkipKeeps ==
  ASSUME RemindersInv, NEW p \in Workers, Busy(p), pass[p].todo # <<>>, Skip(p),
         ~ Asked(pass[p].kind, Visited(p), now)
  PROVE  RemindersInv'
<1>1. /\ pass' = [pass EXCEPT ![p] = Leave(pass[p])] /\ excused' = excused
      /\ UNCHANGED <<now, tasks, again, remindersData, whole>>
  BY DEF Skip, history
<1>2. Served(pass[p].kind, Visited(p), now, DOMAIN told', excused')
  BY DEF Served
<1> QED BY <1>1, <1>2, LeaveKeeps

LEMMA SkipWithReasonKeeps ==
  ASSUME RemindersInv, NEW p \in Workers, Busy(p), pass[p].todo # <<>>, SkipWithReason(p)
  PROVE  RemindersInv'
<1>1. /\ pass' = [pass EXCEPT ![p] = Leave(pass[p])] /\ Excuse(p)
      /\ UNCHANGED <<now, tasks, again, remindersData, whole>>
  BY DEF SkipWithReason
<1> QED BY <1>1, ExcusedIsServed, LeaveKeeps

\* A pass that has found something to say.
LEMMA ToSayKeeps ==
  ASSUME RemindersInv, NEW p \in Workers, Busy(p), pass[p].at = "look",
         pass[p].todo # <<>>, NEW keys \in Seq(Keys), keys # <<>>, ToSay(p, keys),
         \A key \in Range(keys) : key[1] = pass[p].kind /\ IsSo(key),
         pass[p].kind # "late" => keys = <<KeyNow(pass[p].kind, Visited(p), now)>>
  PROVE  RemindersInv'
<1>1. pass[p] \in PassType /\ StageFits(p) /\ ServedSoFar(p)
  BY BusyPass
<1> DEFINE rec == [pass[p] EXCEPT !.keys = keys, !.at = "emit", !.since = {}]
<1>2. /\ rec \in PassType /\ rec.keys = keys /\ rec.at = "emit"
      /\ rec.kind = pass[p].kind /\ rec.began = pass[p].began /\ rec.todo = pass[p].todo
      /\ rec.written = pass[p].written
  BY <1>1 DEF PassType, PassStages
<1>3. /\ pass' = [pass EXCEPT ![p] = rec]
      /\ UNCHANGED <<now, tasks, again, told, marks, received, open, whole, excused>>
  BY DEF ToSay, remindersData, history
<1> HIDE DEF rec
<1>4. /\ pass' \in [Workers -> PassType \cup {NoPass}] /\ pass'[p] = rec
      /\ \A q \in Workers \ {p} : pass'[q] = pass[q]
  BY <1>2, <1>3 DEF RemindersInv, RemindersTypeOK
<1>5. StageFits(p)'
  BY <1>1, <1>2, <1>3, <1>4 DEF StageFits
<1>6. Heeds(p)'
  <2>1. pass'[p].written = {} /\ pass'[p].keys = keys
    BY <1>1, <1>2, <1>4 DEF StageFits
  <2>2. \A key \in Range(keys) : IsSo(key)'
    BY <1>3 DEF IsSo
  <2> QED BY <2>1, <2>2 DEF Heeds
<1>7. ServedSoFar(p)'
  <2>1. Visited(p)' = Visited(p)
    BY <1>2, <1>4 DEF Visited
  <2> QED BY <1>1, <1>2, <1>3, <1>4, <2>1 DEF ServedSoFar
<1>8. RemindersTypeOK'
  BY <1>3, <1>4 DEF RemindersInv, RemindersTypeOK
<1> QED BY <1>2, <1>3, <1>4, <1>5, <1>6, <1>7, <1>8, WorkerKeeps DEF OthersRest, PassFits

LEMMA LookDigestKeeps ==
  ASSUME RemindersInv, NEW p \in Workers, LookDigest(p)
  PROVE  RemindersInv'
<1> DEFINE t == Visited(p)
           key == DigestKey(t, DayOf(t, now))
<1>1. Busy(p) /\ pass[p].at = "look" /\ pass[p].todo # <<>> /\ pass[p].kind = "digest"
  BY DEF LookDigest, PassAt
<1>2. CASE HourOf(t, now) # DigestAt /\ Skip(p)
  BY <1>1, <1>2, SkipKeeps DEF Asked
<1>3. CASE SkipWithReason(p)
  BY <1>1, <1>3, SkipWithReasonKeeps
<1>4. CASE ToSay(p, <<key>>)
  <2>1. t \in Range(Tenants) /\ now \in 0..MaxTime
    BY <1>1, BusyPass, VisitedTenant
  <2>2. key \in Keys /\ key = KeyNow("digest", t, now) /\ key[1] = "digest" /\ IsSo(key)
    BY <2>1, KeysOfTenants DEF KeyNow, DigestKey, IsSo
  <2> HIDE DEF key, t
  <2>3. <<key>> \in Seq(Keys) /\ <<key>> # <<>> /\ Range(<<key>>) = {key}
    BY <2>2, SingletonRange
  <2> QED BY <1>1, <1>4, <2>2, <2>3, ToSayKeeps DEF t
<1> QED BY <1>2, <1>3, <1>4 DEF LookDigest

LEMMA LookCutoffKeeps ==
  ASSUME RemindersInv, NEW p \in Workers, LookCutoff(p)
  PROVE  RemindersInv'
<1> DEFINE t == Visited(p)
           today == DayOf(t, now)
           key == CutoffKey(t, today)
<1>1. Busy(p) /\ pass[p].at = "look" /\ pass[p].todo # <<>> /\ pass[p].kind = "cutoff"
  BY DEF LookCutoff, PassAt
<1>2. CASE ~ InWindow(t, now) /\ Skip(p)
  BY <1>1, <1>2, SkipKeeps DEF Asked
<1>3. CASE SkipWithReason(p)
  BY <1>1, <1>3, SkipWithReasonKeeps
<1>4. CASE <<t, today>> \notin open /\ ToSay(p, <<key>>)
  <2>1. t \in Range(Tenants) /\ now \in 0..MaxTime
    BY <1>1, BusyPass, VisitedTenant
  <2>2. key \in Keys /\ key = KeyNow("cutoff", t, now) /\ key[1] = "cutoff" /\ IsSo(key)
    BY <1>4, <2>1, KeysOfTenants DEF KeyNow, CutoffKey, IsSo
  <2> HIDE DEF key, t
  <2>3. <<key>> \in Seq(Keys) /\ <<key>> # <<>> /\ Range(<<key>>) = {key}
    BY <2>2, SingletonRange
  <2> QED BY <1>1, <1>4, <2>2, <2>3, ToSayKeeps DEF t
<1> QED BY <1>2, <1>3, <1>4 DEF LookCutoff

LEMMA LookLateKeeps ==
  ASSUME RemindersInv, NEW p \in Workers, LookLate(p)
  PROVE  RemindersInv'
<1> DEFINE t == Visited(p)
           orders == {o \in OrdersOf[t] : Late(o, DayOf(t, now))}
           late == {LateKey(o) : o \in orders}
<1>1. Busy(p) /\ pass[p].at = "look" /\ pass[p].todo # <<>> /\ pass[p].kind = "late"
  BY DEF LookLate, PassAt
<1>2. PICK list \in SetToSeqs(late) : IF list = <<>> THEN Skip(p) ELSE ToSay(p, list)
  BY DEF LookLate
<1>3. orders \subseteq Orders /\ \A o \in orders : o \notin received
  BY <1>1, VisitedTenant, RemindersAssumption DEF Late
<1>4. late \subseteq Keys /\ \A key \in late : key[1] = "late" /\ IsSo(key)
  BY <1>3 DEF Keys, LateKey, IsSo
<1>5. IsFiniteSet(late)
  <2>1. IsFiniteSet(orders)
    BY <1>3, RemindersAssumption, FS_Subset
  <2>2. [o \in orders |-> LateKey(o)] \in Surjection(orders, late)
    BY DEF Surjection
  <2> QED BY <2>1, <2>2, FS_Surjection
<1> HIDE DEF late, t
<1>6. list \in Seq(Keys) /\ Range(list) \subseteq late
  <2>1. Cardinality(late) \in Nat
    BY <1>5, FS_CardinalityType
  <2>2. list \in [1..Cardinality(late) -> late]
    BY DEF SetToSeqs
  <2>3. list \in Seq(late)
    BY <2>1, <2>2
  <2> QED BY <1>4, <2>2, <2>3, SeqMonotonic DEF Range
<1>7. CASE list = <<>>
  BY <1>1, <1>2, <1>7, SkipKeeps DEF Asked
<1>8. CASE list # <<>>
  BY <1>1, <1>2, <1>4, <1>6, <1>8, ToSayKeeps
<1> QED BY <1>7, <1>8

LEMMA InsertNotificationKeeps ==
  ASSUME RemindersInv, NEW p \in Workers, InsertNotification(p)
  PROVE  RemindersInv'
<1> DEFINE key == Head(pass[p].keys)
           next == IF pass[p].kind = "late" THEN "mark" ELSE "commit"
           written == IF key \in DOMAIN told THEN pass[p].written
                                             ELSE pass[p].written \cup {key}
           rec == [pass[p] EXCEPT !.written = written, !.at = next]
<1>1. Busy(p) /\ pass[p].at = "emit" /\ KeyFree(key)
  BY DEF InsertNotification
<1>2. /\ pass[p] \in PassType /\ StageFits(p) /\ Heeds(p) /\ ServedSoFar(p)
      /\ pass[p].keys # <<>> /\ pass[p].todo # <<>>
      /\ pass[p].written \cap DOMAIN told = {}
  BY <1>1, BusyPass DEF StageFits
<1>3. key \in Keys /\ key \in Range(pass[p].keys)
  BY <1>2, HeadAndTail DEF PassType
<1>4. /\ written \subseteq Keys /\ written \subseteq pass[p].written \cup {key}
      /\ key \in DOMAIN told \cup written /\ written \cap DOMAIN told = {}
  BY <1>2, <1>3 DEF PassType
<1>5. /\ pass' = [pass EXCEPT ![p] = rec]
      /\ UNCHANGED <<now, tasks, again, told, marks, received, open, whole, excused>>
  BY DEF InsertNotification, remindersData, history, BagIn, BagToSet
<1> HIDE DEF key, written
<1>6. /\ rec \in PassType /\ rec.keys = pass[p].keys /\ rec.at = next
      /\ rec.kind = pass[p].kind /\ rec.began = pass[p].began /\ rec.todo = pass[p].todo
      /\ rec.written = written /\ rec.since = pass[p].since
  BY <1>2, <1>4 DEF PassType, PassStages
<1> HIDE DEF rec
<1>7. /\ pass' \in [Workers -> PassType \cup {NoPass}] /\ pass'[p] = rec
      /\ \A q \in Workers \ {p} : pass'[q] = pass[q]
  BY <1>5, <1>6 DEF RemindersInv, RemindersTypeOK
<1>8. StageFits(p)'
  BY <1>2, <1>5, <1>6, <1>7 DEF StageFits
<1>9. Heeds(p)'
  <2>1. \A k : IsSo(k) => IsSo(k)'
    BY <1>5 DEF IsSo
  <2> QED BY <1>2, <1>3, <1>4, <1>6, <1>7, <2>1 DEF Heeds
<1>10. ServedSoFar(p)'
  <2>1. Visited(p)' = Visited(p)
    BY <1>6, <1>7 DEF Visited
  <2>2. pass[p].began = now /\ pass[p].kind # "late" =>
          key = KeyNow(pass[p].kind, Visited(p), now)
    BY <1>1, <1>2, SingletonRange DEF ServedSoFar, key
  <2>3. pass[p].kind # "late" => rec.at = "commit"
    BY <1>6
  <2>4. pass[p].kind # "late" => rec.at # "emit"
    BY <1>6
  <2> QED BY <1>2, <1>4, <1>5, <1>6, <1>7, <2>1, <2>2, <2>3, <2>4 DEF ServedSoFar
<1>11. RemindersTypeOK'
  BY <1>5, <1>7 DEF RemindersInv, RemindersTypeOK
<1>12. \A q \in Workers : PassFits(q)'
  BY <1>5, <1>7, <1>8, <1>9, <1>10, OthersFit DEF OthersRest, PassFits
<1>13. WrittenApart'
  <2>1. \A q \in Workers \ {p} :
          Busy(q)' => Busy(q) /\ pass'[q].written = pass[q].written
    BY <1>7 DEF Busy
  <2>2. \A q \in Workers \ {p} : Busy(q)' =>
          pass'[q].written \cap pass'[p].written = {}
    BY <1>1, <1>4, <1>6, <1>7, <2>1 DEF RemindersInv, WrittenApart, KeyFree
  <2>3. \A q \in Workers : Busy(q)' => pass'[q].written \cap DOMAIN told = {}
    BY <1>4, <1>6, <1>7, <2>1 DEF RemindersInv, WrittenApart
  <2>4. \A q \in Workers \ {p}, o \in Workers \ {p} : Busy(q)' /\ Busy(o)' /\ q # o =>
          pass'[q].written \cap pass'[o].written = {}
    BY <2>1 DEF RemindersInv, WrittenApart
  <2> QED BY <1>5, <2>2, <2>3, <2>4 DEF WrittenApart
<1>14. RemindedOnce' /\ EveryTenantIsServed'
  BY <1>5, StayServed DEF RemindersInv, RemindedOnce, BagToSet
<1> QED BY <1>11, <1>12, <1>13, <1>14 DEF RemindersInv

LEMMA MarkOrderKeeps ==
  ASSUME RemindersInv, NEW p \in Workers, MarkOrderLateNotified(p)
  PROVE  RemindersInv'
<1> DEFINE key == Head(pass[p].keys)
           next == IF Len(pass[p].keys) = 1 THEN "commit" ELSE "emit"
           rec == [pass[p] EXCEPT !.keys = Tail(pass[p].keys), !.at = next,
                                  !.marked = pass[p].marked \cup {key[2]}]
<1>1. Busy(p) /\ pass[p].at = "mark"
  BY DEF MarkOrderLateNotified
<1>2. /\ pass[p] \in PassType /\ StageFits(p) /\ Heeds(p) /\ ServedSoFar(p)
      /\ pass[p].keys # <<>> /\ pass[p].todo # <<>> /\ pass[p].kind = "late"
  BY <1>1, BusyPass DEF StageFits
<1>3. /\ key \in Keys /\ key \in Range(pass[p].keys)
      /\ Tail(pass[p].keys) \in Seq(Keys)
      /\ Range(Tail(pass[p].keys)) \subseteq Range(pass[p].keys)
      /\ pass[p].keys \in Seq(Keys)
  BY <1>2, HeadAndTail DEF PassType
<1>4. key[2] \in Orders
  BY <1>2, <1>3, KeysAre DEF StageFits
<1>5. next = "emit" => Tail(pass[p].keys) # <<>>
  <2> DEFINE keys == pass[p].keys
  <2>1. keys \in Seq(Keys) /\ keys # <<>>
    BY <1>2, <1>3
  <2> HIDE DEF keys
  <2>2. Len(keys) \in Nat \ {0} /\ Len(Tail(keys)) = Len(keys) - 1
    BY <2>1, EmptySeq, HeadTailProperties
  <2>3. Len(keys) # 1 => Len(Tail(keys)) # 0
    BY <2>2
  <2>4. Len(<<>>) = 0
    OBVIOUS
  <2>5. Len(keys) # 1 => Tail(keys) # <<>>
    BY <2>3, <2>4
  <2> QED BY <2>5 DEF keys
<1>6. /\ pass' = [pass EXCEPT ![p] = rec]
      /\ UNCHANGED <<now, tasks, again, told, marks, received, open, whole, excused>>
  <2> DEFINE step == [NextKey(pass[p]) EXCEPT !.marked = pass[p].marked \cup {key[2]}]
  <2>1. /\ pass' = [pass EXCEPT ![p] = step]
        /\ UNCHANGED <<now, tasks, again, told, marks, received, open, whole, excused>>
    BY DEF MarkOrderLateNotified, remindersData, history
  <2>2. NextKey(pass[p]) = [pass[p] EXCEPT !.keys = Tail(pass[p].keys), !.at = next]
    BY DEF NextKey
  <2>3. step = rec
    <3> HIDE DEF next, key
    <3> QED BY <1>2, <2>2 DEF PassType
  <2> QED BY <2>1, <2>3
<1> HIDE DEF key
<1>7. /\ rec \in PassType /\ rec.keys = Tail(pass[p].keys) /\ rec.at = next
      /\ rec.kind = pass[p].kind /\ rec.began = pass[p].began /\ rec.todo = pass[p].todo
      /\ rec.written = pass[p].written /\ rec.since = pass[p].since
      /\ next \in {"commit", "emit"}
  BY <1>2, <1>3, <1>4 DEF PassType, PassStages
<1> HIDE DEF rec, next
<1>8. /\ pass' \in [Workers -> PassType \cup {NoPass}] /\ pass'[p] = rec
      /\ \A q \in Workers \ {p} : pass'[q] = pass[q]
  BY <1>6, <1>7 DEF RemindersInv, RemindersTypeOK
<1>9. StageFits(p)'
  BY <1>2, <1>3, <1>5, <1>6, <1>7, <1>8 DEF StageFits
<1>10. Heeds(p)'
  <2>1. \A k : IsSo(k) => IsSo(k)'
    BY <1>6 DEF IsSo
  <2> QED BY <1>2, <1>3, <1>7, <1>8, <2>1 DEF Heeds
<1>11. ServedSoFar(p)'
  BY <1>2, <1>6, <1>7, <1>8 DEF ServedSoFar
<1>12. RemindersTypeOK'
  BY <1>6, <1>8 DEF RemindersInv, RemindersTypeOK
<1> QED BY <1>1, <1>6, <1>7, <1>8, <1>9, <1>10, <1>11, <1>12, WorkerKeeps
        DEF OthersRest, PassFits

\* What a transaction commits was told to nobody, and no other is writing it.
LEMMA CommitVisitKeeps ==
  ASSUME RemindersInv, NEW p \in Workers, CommitVisit(p)
  PROVE  RemindersInv'
<1> DEFINE written == pass[p].written
<1>1. Busy(p) /\ pass[p].at = "commit"
  BY DEF CommitVisit
<1>2. /\ pass[p] \in PassType /\ StageFits(p) /\ Heeds(p) /\ ServedSoFar(p)
      /\ pass[p].todo # <<>> /\ written \cap DOMAIN told = {}
  BY <1>1, BusyPass DEF StageFits
<1>3. /\ told' = told (+) SetToBag(written) /\ marks' = marks \cup pass[p].marked
      /\ pass' = [pass EXCEPT ![p] = Leave(pass[p])]
      /\ UNCHANGED <<now, tasks, again, received, open, whole, excused>>
  BY DEF CommitVisit, history
<1>4. /\ DOMAIN told' = DOMAIN told \cup written
      /\ \A k \in DOMAIN told' :
           told'[k] = (IF k \in DOMAIN told THEN told[k] ELSE 0)
                        + (IF k \in written THEN 1 ELSE 0)
  BY <1>3 DEF (+), SetToBag
<1>5. /\ \A k \in DOMAIN told : told[k] = 1 /\ k \notin written
      /\ DOMAIN told \subseteq Keys /\ written \subseteq Keys
  BY <1>2 DEF RemindersInv, RemindedOnce, BagToSet, PassType
<1>6. RemindedOnce'
  <2>1. ASSUME NEW k \in DOMAIN told' PROVE told'[k] = 1
    <3>1. CASE k \in DOMAIN told
      BY <1>4, <1>5, <3>1
    <3>2. CASE k \notin DOMAIN told
      BY <1>4, <3>2
    <3> QED BY <3>1, <3>2
  <2> QED BY <1>4, <1>5, <2>1 DEF RemindedOnce, BagToSet
<1>7. pass[p].began = now =>
        Served(pass[p].kind, Visited(p), now, DOMAIN told', excused')
  BY <1>1, <1>2, <1>4 DEF ServedSoFar, Served, Asked
<1>8. /\ pass' \in [Workers -> PassType \cup {NoPass}]
      /\ \A q \in Workers \ {p} : pass'[q] = pass[q]
      /\ pass'[p].written = {}
      /\ PassFits(p)'
  BY <1>1, <1>2, <1>3, <1>4, <1>7, LeaveFits
<1>9. \A q \in Workers : PassFits(q)'
  BY <1>3, <1>4, <1>8, OthersFit DEF OthersRest
<1>10. RemindersTypeOK'
  BY <1>2, <1>3, <1>8 DEF RemindersInv, RemindersTypeOK, PassType
<1>11. WrittenApart'
  <2>1. \A q \in Workers \ {p} : Busy(q)' =>
          /\ Busy(q) /\ pass'[q].written = pass[q].written
          /\ pass[q].written \cap DOMAIN told = {} /\ pass[q].written \cap written = {}
    BY <1>1, <1>8 DEF RemindersInv, WrittenApart, Busy
  <2>2. \A q \in Workers : Busy(q)' => pass'[q].written \cap DOMAIN told' = {}
    BY <1>4, <1>8, <2>1
  <2>3. \A q \in Workers, o \in Workers :
          Busy(q)' /\ Busy(o)' /\ q # o => pass'[q].written \cap pass'[o].written = {}
    BY <1>8, <2>1 DEF RemindersInv, WrittenApart
  <2> QED BY <2>2, <2>3 DEF WrittenApart
<1>12. EveryTenantIsServed'
  BY <1>3, <1>4, StayServed
<1> QED BY <1>6, <1>9, <1>10, <1>11, <1>12 DEF RemindersInv

LEMMA TakeTaskKeeps ==
  ASSUME RemindersInv, NEW p \in Workers, NEW task \in tasks \cup again, TakeTask(p, task)
  PROVE  RemindersInv'
<1> DEFINE rec == [kind |-> task[1], hour |-> task[2], began |-> now, todo |-> Tenants,
                   at |-> "look", keys |-> <<>>, written |-> {}, marked |-> {},
                   since |-> {}, failed |-> FALSE]
<1>1. task[1] \in Kinds /\ task[2] \in 0..MaxTime /\ now \in 0..MaxTime
  BY DEF RemindersInv, RemindersTypeOK
<1>2. <<>> \in Seq(Keys)
  BY EmptySeq
<1>3. rec \in PassType
  BY <1>1, <1>2, RemindersAssumption DEF PassType, PassStages
<1>4. /\ pass' = [pass EXCEPT ![p] = rec] /\ tasks' \subseteq tasks /\ again' \subseteq again
      /\ UNCHANGED <<now, told, marks, received, open, whole, excused>>
  BY DEF TakeTask, remindersData, history
<1>5. /\ rec.at = "look" /\ rec.keys = <<>> /\ rec.written = {} /\ rec.began = now
      /\ rec.todo = Tenants
  OBVIOUS
<1> HIDE DEF rec
<1>6. /\ pass' \in [Workers -> PassType \cup {NoPass}] /\ pass'[p] = rec
      /\ \A q \in Workers \ {p} : pass'[q] = pass[q]
  BY <1>3, <1>4 DEF RemindersInv, RemindersTypeOK
<1>7. StageFits(p)' /\ Heeds(p)'
  BY <1>1, <1>4, <1>5, <1>6, EmptyRange DEF StageFits, Heeds
<1>8. ServedSoFar(p)'
  BY <1>5, <1>6 DEF ServedSoFar
<1>9. RemindersTypeOK'
  BY <1>4, <1>6 DEF RemindersInv, RemindersTypeOK
<1> QED BY <1>4, <1>5, <1>6, <1>7, <1>8, <1>9, WorkerKeeps DEF OthersRest, PassFits

\* A pass that ends in its hour has left no tenant behind.
LEMMA EndPassKeeps ==
  ASSUME RemindersInv, NEW p \in Workers, EndPass(p)
  PROVE  RemindersInv'
<1>1. /\ Busy(p) /\ pass[p].todo = <<>> /\ pass' = [pass EXCEPT ![p] = NoPass]
      /\ again' = IF pass[p].failed THEN again \cup {<<pass[p].kind, pass[p].hour>>}
                                    ELSE again
      /\ whole' = IF pass[p].began = now THEN whole \cup {<<pass[p].kind, now>>} ELSE whole
      /\ UNCHANGED <<now, tasks, told, marks, received, open, excused>>
  BY DEF EndPass, remindersData
<1>2. pass[p] \in PassType /\ ServedSoFar(p)
  BY <1>1, BusyPass
<1>3. /\ pass' \in [Workers -> PassType \cup {NoPass}] /\ ~ Busy(p)'
      /\ \A q \in Workers \ {p} : pass'[q] = pass[q]
  BY <1>1 DEF RemindersInv, RemindersTypeOK, Busy
<1>4. again' \subseteq Kinds \X (0..MaxTime)
  BY <1>1, <1>2 DEF RemindersInv, RemindersTypeOK, PassType
<1>5. RemindersTypeOK'
  BY <1>1, <1>3, <1>4 DEF RemindersInv, RemindersTypeOK
<1>6. \A q \in Workers : PassFits(q)'
  BY <1>1, <1>3, OthersFit DEF OthersRest, PassFits
<1>7. WrittenApart'
  BY <1>1, <1>3 DEF RemindersInv, WrittenApart, Busy
<1>8. RemindedOnce'
  BY <1>1 DEF RemindersInv, RemindedOnce, BagToSet
<1>9. EveryTenantIsServed'
  <2>1. ServedIn(whole, DOMAIN told, excused)
    BY ServedWhole DEF RemindersInv
  <2>2. pass[p].began = now => \A t \in Range(Tenants) :
          Served(pass[p].kind, t, now, DOMAIN told, excused)
    BY <1>1, <1>2, EmptyRange DEF ServedSoFar
  <2>3. ServedIn(whole', DOMAIN told', excused')
    <3>1. ASSUME NEW t \in Range(Tenants), NEW h \in 0..MaxTime,
                 NEW kind \in {"digest", "cutoff"}, <<kind, h>> \in whole'
          PROVE  Served(kind, t, h, DOMAIN told, excused)
      <4>1. CASE <<kind, h>> \in whole
        BY <2>1, <4>1 DEF ServedIn
      <4>2. CASE pass[p].began = now /\ kind = pass[p].kind /\ h = now
        BY <2>2, <4>2
      <4> QED BY <1>1, <3>1, <4>1, <4>2
    <3> QED BY <1>1, <3>1 DEF ServedIn
  <2> QED BY <2>3, ServedWhole
<1> QED BY <1>5, <1>6, <1>7, <1>8, <1>9 DEF RemindersInv

\* A new hour: no pass has begun in it.
LEMMA TickKeeps ==
  ASSUME RemindersInv, Tick
  PROVE  RemindersInv'
<1>1. /\ now < MaxTime /\ now' = now + 1 /\ tasks' = tasks \cup (Kinds \X {now + 1})
      /\ UNCHANGED <<again, pass, told, marks, received, open, whole, excused>>
  BY DEF Tick, remindersData, history
<1>2. now \in 0..MaxTime /\ now' \in 0..MaxTime
  BY <1>1, RemindersAssumption DEF RemindersInv, RemindersTypeOK
<1>3. RemindersTypeOK'
  BY <1>1, <1>2 DEF RemindersInv, RemindersTypeOK
<1>4. ASSUME NEW p \in Workers, Busy(p) PROVE StageFits(p)' /\ Heeds(p)' /\ ServedSoFar(p)'
  <2>1. /\ StageFits(p) /\ Heeds(p) /\ pass[p].began \in 0..MaxTime
        /\ pass[p].began <= now
    BY <1>4, BusyPass DEF PassType, StageFits
  <2>2. pass[p].began <= now' /\ pass[p].began # now'
    BY <1>1, <1>2, <2>1
  <2>3. \A k : IsSo(k) => IsSo(k)'
    BY <1>1 DEF IsSo
  <2>4. StageFits(p)'
    BY <1>1, <2>1, <2>2 DEF StageFits
  <2>5. Heeds(p)'
    BY <1>1, <2>1, <2>3 DEF Heeds
  <2>6. ServedSoFar(p)'
    BY <1>1, <2>2 DEF ServedSoFar
  <2> QED BY <2>4, <2>5, <2>6
<1>5. \A p \in Workers : PassFits(p)'
  BY <1>1, <1>4 DEF PassFits, Busy
<1>6. WrittenApart' /\ RemindedOnce'
  BY <1>1 DEF RemindersInv, WrittenApart, Busy, RemindedOnce, BagToSet
<1>7. EveryTenantIsServed'
  BY <1>1, StayServed
<1> QED BY <1>3, <1>5, <1>6, <1>7 DEF RemindersInv

\* A receipt or an order is noted by the passes that are about to speak of it.
LEMMA NoticeKeeps ==
  ASSUME RemindersInv, NEW fact, pass' = Notice(fact),
         \A key \in Keys : IsSo(key) => IsSo(key)' \/ key = fact,
         received' \subseteq Orders,
         UNCHANGED <<now, tasks, again, told, marks, whole, excused>>
  PROVE  RemindersInv'
<1>1. ASSUME NEW p \in Workers
      PROVE  IF Busy(p) /\ fact \in Range(pass[p].keys) \cup pass[p].written
             THEN pass'[p] = [pass[p] EXCEPT !.since = @ \cup {fact}]
             ELSE pass'[p] = pass[p]
  BY DEF Notice
<1>2. ASSUME NEW p \in Workers, Busy(p)
      PROVE  /\ pass'[p] \in PassType
             /\ pass'[p].kind = pass[p].kind /\ pass'[p].began = pass[p].began
             /\ pass'[p].todo = pass[p].todo /\ pass'[p].at = pass[p].at
             /\ pass'[p].keys = pass[p].keys /\ pass'[p].written = pass[p].written
             /\ pass'[p].since \subseteq pass[p].since \cup {fact}
             /\ pass[p].since \subseteq pass'[p].since
             /\ fact \in Range(pass[p].keys) \cup pass[p].written =>
                  fact \in pass'[p].since
  <2>1. pass[p] \in PassType
    BY <1>2, BusyPass
  <2>2. Range(pass[p].keys) \cup pass[p].written \subseteq Keys
    BY <2>1, RangeOfSeq DEF PassType
  <2>3. CASE fact \in Range(pass[p].keys) \cup pass[p].written
    <3> DEFINE since == pass[p].since \cup {fact}
               rec == [pass[p] EXCEPT !.since = since]
    <3>1. fact \in Keys /\ pass'[p] = rec
      BY <1>1, <1>2, <2>2, <2>3
    <3>2. since \in SUBSET Keys /\ pass[p].since \subseteq since /\ fact \in since
      BY <2>1, <3>1 DEF PassType
    <3> HIDE DEF since
    <3>3. rec \in PassType /\ rec.since = since
      BY <2>1, <3>2 DEF PassType
    <3>4. /\ rec.kind = pass[p].kind /\ rec.began = pass[p].began
          /\ rec.todo = pass[p].todo /\ rec.at = pass[p].at
          /\ rec.keys = pass[p].keys /\ rec.written = pass[p].written
      BY <2>1 DEF PassType
    <3> HIDE DEF rec
    <3> QED BY <3>1, <3>2, <3>3, <3>4 DEF since
  <2>4. CASE fact \notin Range(pass[p].keys) \cup pass[p].written
    BY <1>1, <1>2, <2>1, <2>4
  <2> QED BY <2>3, <2>4
<1>3. \A p \in Workers : ~ Busy(p) => pass'[p] = NoPass
  BY <1>1 DEF Busy
<1>4. pass' \in [Workers -> PassType \cup {NoPass}]
  <2>1. DOMAIN pass' = Workers /\ pass' = [p \in Workers |-> pass'[p]]
    BY DEF Notice
  <2> QED BY <1>2, <1>3, <2>1
<1>5. RemindersTypeOK'
  BY <1>4 DEF RemindersInv, RemindersTypeOK
<1>6. ASSUME NEW p \in Workers, Busy(p) PROVE StageFits(p)' /\ Heeds(p)' /\ ServedSoFar(p)'
  <2>1. pass[p] \in PassType /\ StageFits(p) /\ Heeds(p) /\ ServedSoFar(p)
    BY <1>6, BusyPass
  <2>2. Range(pass[p].keys) \cup pass[p].written \subseteq Keys
    BY <2>1, RangeOfSeq DEF PassType
  <2>3. StageFits(p)'
    BY <1>2, <1>6, <2>1 DEF StageFits
  <2>4. Heeds(p)'
    BY <1>2, <1>6, <2>1, <2>2 DEF Heeds
  <2>5. ServedSoFar(p)'
    BY <1>2, <1>6, <2>1 DEF ServedSoFar, Visited
  <2> QED BY <2>3, <2>4, <2>5
<1>7. \A p \in Workers : PassFits(p)'
  BY <1>3, <1>6 DEF PassFits, Busy
<1>8. WrittenApart'
  BY <1>2, <1>3 DEF RemindersInv, WrittenApart, Busy
<1>9. RemindedOnce' /\ EveryTenantIsServed'
  BY StayServed DEF RemindersInv, RemindedOnce, BagToSet
<1> QED BY <1>5, <1>7, <1>8, <1>9 DEF RemindersInv

LEMMA ReceiveKeeps ==
  ASSUME RemindersInv, NEW o \in Orders, Receive(o)
  PROVE  RemindersInv'
<1>1. /\ received' = received \cup {o} /\ pass' = Notice(LateKey(o))
      /\ UNCHANGED <<now, tasks, again, told, marks, open, whole, excused>>
  BY DEF Receive, history
<1>2. \A key \in Keys : IsSo(key) => IsSo(key)' \/ key = LateKey(o)
  BY <1>1, KeysAre DEF IsSo
<1>3. received' \subseteq Orders
  BY <1>1 DEF RemindersInv, RemindersTypeOK
<1> QED BY <1>1, <1>2, <1>3, NoticeKeeps

LEMMA SendOrderKeeps ==
  ASSUME RemindersInv, NEW t \in Range(Tenants), SendOrder(t)
  PROVE  RemindersInv'
<1> DEFINE d == DayOf(t, now)
<1>1. /\ open' = open \cup {<<t, d>>} /\ pass' = Notice(CutoffKey(t, d))
      /\ UNCHANGED <<now, tasks, again, told, marks, received, whole, excused>>
  BY DEF SendOrder, history
<1> HIDE DEF d
<1>2. \A key \in Keys : IsSo(key) => IsSo(key)' \/ key = CutoffKey(t, d)
  BY <1>1, KeysAre DEF IsSo
<1>3. received' \subseteq Orders
  BY <1>1 DEF RemindersInv, RemindersTypeOK
<1> QED BY <1>1, <1>2, <1>3, NoticeKeeps

\* What is received or cancelled makes no reminder untrue.
LEMMA CloseOrderKeeps ==
  ASSUME RemindersInv, NEW sentOn, CloseOrder(sentOn)
  PROVE  RemindersInv'
<1>1. /\ open' \subseteq open
      /\ UNCHANGED <<now, tasks, again, pass, told, marks, received, whole, excused>>
  BY DEF CloseOrder, history
<1>2. \A key : IsSo(key) => IsSo(key)'
  BY <1>1 DEF IsSo
<1>3. \A p \in Workers : Visited(p)' = Visited(p) /\ (Busy(p)' <=> Busy(p))
  BY <1>1 DEF Visited, Busy
<1>4. ASSUME NEW p \in Workers, Busy(p) PROVE StageFits(p)' /\ Heeds(p)' /\ ServedSoFar(p)'
  <2>1. StageFits(p) /\ Heeds(p) /\ ServedSoFar(p)
    BY <1>4, BusyPass
  <2>2. Heeds(p)'
    BY <1>1, <1>2, <2>1 DEF Heeds
  <2> QED BY <1>1, <1>3, <2>1, <2>2 DEF StageFits, ServedSoFar
<1>5. \A p \in Workers : PassFits(p)'
  BY <1>3, <1>4 DEF PassFits
<1>6. RemindersTypeOK' /\ WrittenApart' /\ RemindedOnce'
  BY <1>1 DEF RemindersInv, RemindersTypeOK, WrittenApart, Busy, RemindedOnce, BagToSet
<1>7. EveryTenantIsServed'
  BY <1>1, StayServed
<1> QED BY <1>5, <1>6, <1>7 DEF RemindersInv

LEMMA RemindersBegin ==
  ASSUME RemindersInit
  PROVE  RemindersInv
<1>1. told = EmptyBag /\ whole = {} /\ \A p \in Workers : ~ Busy(p)
  BY DEF RemindersInit, Busy
<1>2. DOMAIN told = {}
  BY <1>1 DEF EmptyBag, SetToBag
<1>3. RemindersTypeOK
  BY RemindersAssumption DEF RemindersInit, RemindersTypeOK
<1>4. (\A p \in Workers : PassFits(p)) /\ WrittenApart
  BY <1>1 DEF PassFits, WrittenApart
<1>5. RemindedOnce
  BY <1>2 DEF RemindedOnce, BagToSet
<1>6. EveryTenantIsServed
  BY <1>1 DEF EveryTenantIsServed
<1> QED BY <1>3, <1>4, <1>5, <1>6 DEF RemindersInv

LEMMA RemindersInvariant == RemindersSpec => []RemindersInv
<1>1. RemindersInit => RemindersInv
  BY RemindersBegin
<1>2. RemindersInv /\ [RemindersNext]_reminderVars => RemindersInv'
  <2> SUFFICES ASSUME RemindersInv, [RemindersNext]_reminderVars
               PROVE  RemindersInv'
    OBVIOUS
  <2>1. CASE Tick
    BY <2>1, TickKeeps
  <2>2. CASE \E o \in Orders : Receive(o)
    BY <2>2, ReceiveKeeps
  <2>3. CASE \E t \in Range(Tenants) : SendOrder(t)
    BY <2>3, SendOrderKeeps
  <2>4. CASE \E sentOn \in open : CloseOrder(sentOn)
    BY <2>4, CloseOrderKeeps
  <2>5. CASE \E p \in Workers : \E task \in tasks \cup again : TakeTask(p, task)
    BY <2>5, TakeTaskKeeps
  <2>6. CASE \E p \in Workers : PassStep(p) \/ FailVisit(p)
    BY <2>6, LookDigestKeeps, LookCutoffKeeps, LookLateKeeps, InsertNotificationKeeps,
       MarkOrderKeeps, CommitVisitKeeps, EndPassKeeps, FailKeeps DEF PassStep
  <2>7. CASE UNCHANGED reminderVars
    <3>1. UNCHANGED <<now, tasks, again, pass, told, marks, received, open, whole, excused>>
      BY <2>7 DEF reminderVars, remindersData, history
    <3>2. \A p \in Workers : PassFits(p)'
      <4>1. \A p \in Workers : Visited(p)' = Visited(p) /\ (Busy(p)' <=> Busy(p))
        BY <3>1 DEF Visited, Busy
      <4>2. \A p \in Workers : Busy(p) => StageFits(p)' /\ Heeds(p)' /\ ServedSoFar(p)'
        BY <3>1, <4>1, BusyPass DEF StageFits, Heeds, IsSo, ServedSoFar
      <4> QED BY <4>1, <4>2 DEF PassFits
    <3>3. RemindersTypeOK' /\ WrittenApart' /\ RemindedOnce'
      BY <3>1 DEF RemindersInv, RemindersTypeOK, WrittenApart, Busy, RemindedOnce, BagToSet
    <3> QED BY <3>1, <3>2, <3>3, StayServed DEF RemindersInv
  <2> QED BY <2>1, <2>2, <2>3, <2>4, <2>5, <2>6, <2>7 DEF RemindersNext
<1> QED BY <1>1, <1>2, PTL DEF RemindersSpec

-----------------------------------------------------------------------------

\* Whatever passes overlap and however often a task is repeated, a notification
\* is there at most once (notify/service.go, Emit with its ON CONFLICT).
THEOREM ReminderIsGivenOnce == RemindersSpec => []RemindedOnce
<1>1. RemindersInv => RemindedOnce
  BY DEF RemindersInv
<1> QED BY <1>1, RemindersInvariant, PTL

\* A pass that began and ended in one hour has told every tenant what the hour
\* asks for, or has a reason for that tenant (worker/tasks.go, forEachTenant).
THEOREM NobodyIsPassedOver == RemindersSpec => []EveryTenantIsServed
<1>1. RemindersInv => EveryTenantIsServed
  BY DEF RemindersInv
<1> QED BY <1>1, RemindersInvariant, PTL

\* What is told was true when the pass looked: the order was neither received nor
\* cancelled, and no order sent that day was open (queries/orders.sql:108-111).
\* Whatever has made it untrue since happened while the pass was under way.
THEOREM RemindersAreTrue == RemindersSpec => RemindersWereTrue
<1> DEFINE Step == \A p \in Workers : pass[p] # NoPass /\ told' # told /\ pass'[p] # pass[p] =>
                     \A key \in pass[p].written : IsSo(key) \/ key \in pass[p].since
<1>1. RemindersInv => Step
  BY BusyPass DEF Heeds, Busy
<1>2. Step => \A p \in Workers : pass[p] # NoPass /\ told' # told /\ pass'[p] # pass[p] =>
                \A key \in pass[p].written :
                  \/ key[1] = "digest"
                  \/ key[1] = "late" /\ key[2] \notin received
                  \/ key[1] = "cutoff" /\ <<key[2], key[3]>> \notin open
                  \/ key \in pass[p].since
  BY DEF IsSo
<1> QED BY <1>1, <1>2, RemindersInvariant, PTL DEF RemindersWereTrue

-----------------------------------------------------------------------------
(* The outbox.                                                              *)

USE DeadAssumption, BatchAssumption, AttemptsAssumption, SlipsAssumption,
    NoReplyAssumption, PassesAssumption

\* The passes that hold a message and have not been told that it was taken.
Unsettled(m) == {p \in Holders(m) : reply[p] # <<m, "ok">>}

\* An answer is about a message the pass holds, and is what happened to it.
RepliesAreHeld ==
  \A p \in Passes, m \in Messages, result \in Results :
    reply[p] = <<m, result>> =>
      /\ Holds(p, m)
      /\ result = "ok" => delivered[m] > 0
      /\ result = "refused" => AddressOf(m) \in Dead

\* Nothing has happened to a message that is not queued.
UnqueuedRest ==
  \A m \in Messages : status[m] = "none" =>
    delivered[m] = 0 /\ attempts[m] = 0 /\ Holders(m) = {}

\* Every unsettled pass may deliver the message once more.
DeliveriesToCome ==
  \A m \in Messages : delivered[m] + Cardinality(Unsettled(m)) <= 1 + slips[m]

\* Claims made while a pass holds a message are slips.
AttemptsSince ==
  \A p \in Passes, m \in Messages :
    Holds(p, m) => attempts[m] <= try[p][m] + slips[m]

\* What lets a message be claimed once more.
FreeToClaim ==
  \A m \in Messages : status[m] = "pending" /\ Holders(m) = {} =>
    delivered[m] <= slips[m] /\ attempts[m] < MaxAttempts + slips[m]

OutboxInv ==
  /\ OutboxTypeOK
  /\ RepliesAreHeld
  /\ UnqueuedRest
  /\ DeliveriesToCome
  /\ AttemptsSince
  /\ FreeToClaim
  /\ RetriesAreBounded
  /\ MarksAreEarned

-----------------------------------------------------------------------------

\* A message is unsettled in a finite number of passes.
LEMMA UnsettledFinite ==
  ASSUME NEW m
  PROVE  /\ IsFiniteSet(Unsettled(m))
         /\ Cardinality(Unsettled(m)) \in Nat
<1>1. Unsettled(m) \subseteq Passes
  BY DEF Unsettled, Holders
<1> QED BY <1>1, FS_Subset, FS_CardinalityType

\* The primed form: what is unsettled after a step.
LEMMA UnsettledFiniteAfter ==
  ASSUME NEW m
  PROVE  /\ IsFiniteSet(Unsettled(m)')
         /\ Cardinality(Unsettled(m)') \in Nat
<1>1. Unsettled(m)' \subseteq Passes
  BY DEF Unsettled, Holders
<1> QED BY <1>1, FS_Subset, FS_CardinalityType

\* A pass that has just taken a message holds it unsettled besides the others.
LEMMA OneMoreUnsettled ==
  ASSUME NEW m, NEW p, p \notin Unsettled(m), Unsettled(m)' = Unsettled(m) \cup {p}
  PROVE  Cardinality(Unsettled(m)') = Cardinality(Unsettled(m)) + 1
  BY UnsettledFinite, FS_AddElement

\* Without a pass, one is unsettled less if that pass was.
LEMMA OneLessUnsettled ==
  ASSUME NEW m, NEW p, Unsettled(m)' = Unsettled(m) \ {p}
  PROVE  Cardinality(Unsettled(m)') =
           IF p \in Unsettled(m) THEN Cardinality(Unsettled(m)) - 1
                                 ELSE Cardinality(Unsettled(m))
  BY UnsettledFinite, FS_RemoveElement

\* No more are unsettled after a step that adds none.
LEMMA NoMoreUnsettled ==
  ASSUME NEW m, Unsettled(m)' \subseteq Unsettled(m)
  PROVE  Cardinality(Unsettled(m)') <= Cardinality(Unsettled(m))
  BY UnsettledFinite, FS_Subset

\* The initial states: nothing is queued, nothing is held.
LEMMA OutboxInitially == Init => OutboxInv
<1> SUFFICES ASSUME Init PROVE OutboxInv
  OBVIOUS
<1>1. \A m \in Messages : Holders(m) = {} /\ Unsettled(m) = {}
  BY DEF Init, Holders, Unsettled
<1>2. OutboxTypeOK
  BY DEF Init, OutboxTypeOK
<1>3. RepliesAreHeld
  BY DEF Init, RepliesAreHeld
<1>4. UnqueuedRest /\ FreeToClaim
  BY <1>1 DEF Init, UnqueuedRest, FreeToClaim
<1>5. DeliveriesToCome
  BY <1>1, FS_EmptySet DEF Init, DeliveriesToCome
<1>6. AttemptsSince /\ RetriesAreBounded /\ MarksAreEarned
  BY DEF Init, AttemptsSince, RetriesAreBounded, MarksAreEarned, Holds
<1> QED BY <1>2, <1>3, <1>4, <1>5, <1>6 DEF OutboxInv

\* Nothing about the passes and the world changes: what is held, and how much
\* is yet to be delivered, stays.
LEMMA SamePasses ==
  ASSUME OutboxInv, UNCHANGED <<attempts, try, reply, world>>
  PROVE  /\ RepliesAreHeld'
         /\ DeliveriesToCome'
         /\ AttemptsSince'
         /\ RetriesAreBounded'
         /\ \A m \in Messages : Holders(m)' = Holders(m)
<1>1. \A m \in Messages : Holders(m)' = Holders(m) /\ Unsettled(m)' = Unsettled(m)
  BY DEF Holders, Unsettled
<1>2. RepliesAreHeld'
  BY DEF OutboxInv, RepliesAreHeld, Holds, world
<1>3. DeliveriesToCome'
  BY <1>1 DEF OutboxInv, DeliveriesToCome, world
<1>4. AttemptsSince' /\ RetriesAreBounded'
  BY DEF OutboxInv, AttemptsSince, RetriesAreBounded, Holds, world
<1> QED BY <1>1, <1>2, <1>3, <1>4

\* Emit: its messages were not queued, so nothing has happened to them yet.
LEMMA EmitKeeps ==
  ASSUME OutboxInv, NEW n \in Notices, NEW to \in SUBSET Addresses,
         NEW soon \in BOOLEAN, Emit(n, to, soon)
  PROVE  OutboxInv'
<1> DEFINE posted == {n} \X to
<1>1. /\ posted \subseteq Messages
      /\ \A m \in posted : m[1] = n
  BY DEF Messages
<1>2. \A m \in posted : status[m] = "none"
  BY <1>1 DEF OutboxInv, OutboxTypeOK, Emit
<1>3. \A m \in Messages :
        status'[m] = IF m \in posted THEN "pending" ELSE status[m]
  BY DEF Emit
<1>4. /\ feed' = feed \cup {n}
      /\ due' \subseteq due \cup posted
      /\ status' = [m \in Messages |-> IF m \in posted THEN "pending" ELSE status[m]]
      /\ UNCHANGED <<attempts, try, reply, world>>
  BY DEF Emit
<1> HIDE DEF posted
<1>5. OutboxTypeOK'
  BY <1>1, <1>3, <1>4 DEF OutboxInv, OutboxTypeOK, world
<1>6. /\ RepliesAreHeld' /\ DeliveriesToCome' /\ AttemptsSince' /\ RetriesAreBounded'
      /\ \A m \in Messages : Holders(m)' = Holders(m)
  BY <1>4, SamePasses
<1>7. UnqueuedRest'
  BY <1>1, <1>2, <1>3, <1>4, <1>6 DEF OutboxInv, UnqueuedRest, world
<1>8. FreeToClaim'
  <2> SUFFICES ASSUME NEW m \in Messages, status'[m] = "pending", Holders(m)' = {}
               PROVE  delivered'[m] <= slips'[m] /\ attempts'[m] < MaxAttempts + slips'[m]
    BY DEF FreeToClaim
  <2>1. CASE m \in posted
    <3>1. delivered[m] = 0 /\ attempts[m] = 0
      BY <1>2, <2>1 DEF OutboxInv, UnqueuedRest
    <3>2. slips[m] \in Nat
      BY DEF OutboxInv, OutboxTypeOK
    <3> QED BY <1>4, <3>1, <3>2 DEF world
  <2>2. CASE m \notin posted
    BY <1>3, <1>4, <1>6, <2>2 DEF OutboxInv, FreeToClaim, world
  <2> QED BY <2>1, <2>2
<1>9. MarksAreEarned'
  BY <1>3, <1>4 DEF OutboxInv, MarksAreEarned, world
<1> QED BY <1>5, <1>6, <1>7, <1>8, <1>9 DEF OutboxInv

\* A message comes due: only the schedule changes.
LEMMA ComeDueKeeps ==
  ASSUME OutboxInv, NEW m \in Messages, ComeDue(m)
  PROVE  OutboxInv'
<1>1. /\ UNCHANGED <<feed, status, attempts, try, reply, world>>
      /\ due' = due \cup {m}
  BY DEF ComeDue
<1>2. OutboxTypeOK'
  BY <1>1 DEF OutboxInv, OutboxTypeOK, world
<1>3. /\ RepliesAreHeld' /\ DeliveriesToCome' /\ AttemptsSince' /\ RetriesAreBounded'
      /\ \A q \in Messages : Holders(q)' = Holders(q)
  BY <1>1, SamePasses
<1>4. UnqueuedRest' /\ FreeToClaim' /\ MarksAreEarned'
  BY <1>1, <1>3 DEF OutboxInv, UnqueuedRest, FreeToClaim, MarksAreEarned, world
<1> QED BY <1>2, <1>3, <1>4 DEF OutboxInv

\* ClaimOutbox: an attempt more for each message taken; if another pass holds it
\* already, that is a slip.
LEMMA ClaimKeeps ==
  ASSUME OutboxInv, NEW p \in Passes, NEW S \in SUBSET Claimable, Claim(p, S)
  PROVE  OutboxInv'
<1>1. /\ UNCHANGED <<feed, status, due, reply, delivered>>
      /\ attempts' = [m \in Messages |-> IF m \in S THEN attempts[m] + 1 ELSE attempts[m]]
      /\ try' = [try EXCEPT ![p] =
                   [m \in Messages |-> IF m \in S THEN attempts[m] + 1 ELSE 0]]
      /\ slips' = [m \in Messages |-> IF m \in S /\ Holders(m) # {}
                                      THEN slips[m] + 1 ELSE slips[m]]
      /\ \A m \in Messages : ~ Holds(p, m)
  BY DEF Claim
<1>2. /\ attempts \in [Messages -> Nat] /\ slips \in [Messages -> Nat]
      /\ delivered \in [Messages -> Nat]
      /\ try \in [Passes -> [Messages -> Nat]]
      /\ \A q \in Passes, m \in Messages : try[q][m] <= attempts[m]
  BY DEF OutboxInv, OutboxTypeOK
<1>3. \A m \in S : m \in Messages /\ status[m] = "pending"
  BY DEF OutboxInv, OutboxTypeOK, Claimable
<1>4. \A q \in Passes, m \in Messages :
        try'[q][m] = IF q = p THEN IF m \in S THEN attempts[m] + 1 ELSE 0 ELSE try[q][m]
  BY <1>1, <1>2
<1>5. \A m \in Messages : try[p][m] = 0
  BY <1>1, <1>2 DEF Holds
<1>6. \A m \in Messages :
        Holders(m)' = IF m \in S THEN Holders(m) \cup {p} ELSE Holders(m)
  BY <1>2, <1>4, <1>5 DEF Holders
<1>7. \A m \in Messages : reply[p] # <<m, "ok">>
  BY <1>1 DEF OutboxInv, RepliesAreHeld, Results
<1>8. \A m \in Messages :
        /\ m \in S => Unsettled(m)' = Unsettled(m) \cup {p} /\ p \notin Unsettled(m)
        /\ m \notin S => Unsettled(m)' = Unsettled(m)
  BY <1>1, <1>6, <1>7 DEF Unsettled, Holders, Holds
<1>9. OutboxTypeOK'
  <2>1. /\ attempts' \in [Messages -> Nat] /\ slips' \in [Messages -> Nat]
        /\ try' \in [Passes -> [Messages -> Nat]]
    BY <1>1, <1>2
  <2>2. \A q \in Passes, m \in Messages : try'[q][m] <= attempts'[m]
    BY <1>1, <1>2, <1>4
  <2> QED BY <1>1, <2>1, <2>2 DEF OutboxInv, OutboxTypeOK
<1>10. RepliesAreHeld'
  <2> SUFFICES ASSUME NEW q \in Passes, NEW m \in Messages, NEW result \in Results,
                      reply'[q] = <<m, result>>
               PROVE  /\ Holds(q, m)'
                      /\ result = "ok" => delivered'[m] > 0
                      /\ result = "refused" => AddressOf(m) \in Dead
    BY DEF RepliesAreHeld
  <2>1. /\ Holds(q, m)
        /\ result = "ok" => delivered[m] > 0
        /\ result = "refused" => AddressOf(m) \in Dead
    BY <1>1 DEF OutboxInv, RepliesAreHeld
  <2> QED BY <1>1, <1>4, <2>1 DEF Holds
<1>11. UnqueuedRest'
  BY <1>1, <1>2, <1>3, <1>6 DEF OutboxInv, UnqueuedRest
<1>12. DeliveriesToCome'
  <2> SUFFICES ASSUME NEW m \in Messages
               PROVE  delivered'[m] + Cardinality(Unsettled(m)') <= 1 + slips'[m]
    BY DEF DeliveriesToCome
  <2>1. CASE m \notin S
    BY <1>1, <1>8, <2>1 DEF OutboxInv, DeliveriesToCome
  <2>2. CASE m \in S
    <3>1. Cardinality(Unsettled(m)') = Cardinality(Unsettled(m)) + 1
      BY <1>8, <2>2, OneMoreUnsettled
    <3>2. CASE Holders(m) # {}
      BY <1>1, <1>2, <2>2, <3>1, <3>2, UnsettledFinite DEF OutboxInv, DeliveriesToCome
    <3>3. CASE Holders(m) = {}
      <4>1. Cardinality(Unsettled(m)) = 0
        BY <3>3, FS_EmptySet DEF Unsettled
      <4>2. delivered[m] <= slips[m]
        BY <1>3, <2>2, <3>3 DEF OutboxInv, FreeToClaim
      <4> QED BY <1>1, <1>2, <2>2, <3>1, <3>3, <4>1, <4>2
    <3> QED BY <3>2, <3>3
  <2> QED BY <2>1, <2>2
<1>13. AttemptsSince'
  <2> SUFFICES ASSUME NEW q \in Passes, NEW m \in Messages, Holds(q, m)'
               PROVE  attempts'[m] <= try'[q][m] + slips'[m]
    BY DEF AttemptsSince
  <2>1. CASE q = p
    BY <1>1, <1>2, <1>4, <2>1 DEF Holds
  <2>2. CASE q # p
    <3>1. Holds(q, m) /\ attempts[m] <= try[q][m] + slips[m]
      BY <1>4, <2>2 DEF OutboxInv, AttemptsSince, Holds
    <3>2. Holders(m) # {}
      BY <3>1 DEF Holders, Holds
    <3> QED BY <1>1, <1>2, <1>4, <2>2, <3>1, <3>2
  <2> QED BY <2>1, <2>2
<1>14. FreeToClaim'
  <2> SUFFICES ASSUME NEW m \in Messages, status'[m] = "pending", Holders(m)' = {}
               PROVE  delivered'[m] <= slips'[m] /\ attempts'[m] < MaxAttempts + slips'[m]
    BY DEF FreeToClaim
  <2>1. m \notin S /\ Holders(m) = {}
    BY <1>6
  <2> QED BY <1>1, <2>1 DEF OutboxInv, FreeToClaim
<1>15. RetriesAreBounded'
  <2> SUFFICES ASSUME NEW m \in Messages
               PROVE  attempts'[m] <= MaxAttempts + slips'[m]
    BY DEF RetriesAreBounded
  <2>1. CASE m \in S /\ Holders(m) = {}
    <3>1. attempts[m] < MaxAttempts + slips[m]
      BY <1>3, <2>1 DEF OutboxInv, FreeToClaim
    <3> QED BY <1>1, <1>2, <2>1, <3>1
  <2>2. CASE ~ (m \in S /\ Holders(m) = {})
    BY <1>1, <1>2, <2>2 DEF OutboxInv, RetriesAreBounded
  <2> QED BY <2>1, <2>2
<1>16. MarksAreEarned'
  BY <1>1, <1>2 DEF OutboxInv, MarksAreEarned
<1> QED BY <1>9, <1>10, <1>11, <1>12, <1>13, <1>14, <1>15, <1>16 DEF OutboxInv

\* A message is transmitted.  If it was taken, what the pass had yet to deliver
\* is delivered now.
LEMMA SendKeeps ==
  ASSUME OutboxInv, NEW p \in Passes, NEW m \in Messages, NEW result \in Results,
         Send(p, m, result)
  PROVE  OutboxInv'
<1>1. /\ Holds(p, m) /\ reply[p] = NoReply
      /\ (result = "refused") <=> (AddressOf(m) \in Dead)
      /\ reply' = [reply EXCEPT ![p] = <<m, result>>]
      /\ delivered' = IF result = "ok" THEN [delivered EXCEPT ![m] = @ + 1] ELSE delivered
      /\ UNCHANGED <<feed, status, attempts, due, try, slips>>
  BY DEF Send, rows
<1>2. /\ reply \in [Passes -> (Messages \X Results) \cup {NoReply}]
      /\ delivered \in [Messages -> Nat] /\ slips \in [Messages -> Nat]
  BY DEF OutboxInv, OutboxTypeOK
<1>3. /\ delivered' \in [Messages -> Nat]
      /\ \A n \in Messages : delivered[n] <= delivered'[n]
      /\ delivered'[m] = delivered[m] + IF result = "ok" THEN 1 ELSE 0
      /\ \A n \in Messages : n # m => delivered'[n] = delivered[n]
  BY <1>1, <1>2
<1>4. \A n \in Messages : Holders(n)' = Holders(n)
  BY <1>1 DEF Holders
<1>5. /\ status[m] # "none"
      /\ Holders(m) # {}
  BY <1>1 DEF OutboxInv, UnqueuedRest, Holders, Holds
<1>6. OutboxTypeOK'
  BY <1>1, <1>2, <1>3 DEF OutboxInv, OutboxTypeOK
<1>7. RepliesAreHeld'
  <2> SUFFICES ASSUME NEW q \in Passes, NEW n \in Messages, NEW r \in Results,
                      reply'[q] = <<n, r>>
               PROVE  /\ Holds(q, n)'
                      /\ r = "ok" => delivered'[n] > 0
                      /\ r = "refused" => AddressOf(n) \in Dead
    BY DEF RepliesAreHeld
  <2>1. CASE q = p
    <3>1. n = m /\ r = result
      BY <1>1, <1>2, <2>1
    <3> QED BY <1>1, <1>2, <1>3, <2>1, <3>1 DEF Holds
  <2>2. CASE q # p
    <3>1. reply[q] = <<n, r>>
      BY <1>1, <1>2, <2>2
    <3>2. /\ Holds(q, n)
          /\ r = "ok" => delivered[n] > 0
          /\ r = "refused" => AddressOf(n) \in Dead
      BY <3>1 DEF OutboxInv, RepliesAreHeld
    <3> QED BY <1>1, <1>2, <1>3, <3>2 DEF Holds
  <2> QED BY <2>1, <2>2
<1>8. UnqueuedRest'
  BY <1>1, <1>3, <1>4, <1>5 DEF OutboxInv, UnqueuedRest
<1>9. DeliveriesToCome'
  <2> SUFFICES ASSUME NEW n \in Messages
               PROVE  delivered'[n] + Cardinality(Unsettled(n)') <= 1 + slips'[n]
    BY DEF DeliveriesToCome
  <2>1. CASE n = m /\ result = "ok"
    <3>1. /\ Unsettled(m)' = Unsettled(m) \ {p}
          /\ p \in Unsettled(m)
      BY <1>1, <1>2, <1>4, <2>1, NoReplyAssumption DEF Unsettled, Holders, Holds, Results
    <3>2. Cardinality(Unsettled(m)') = Cardinality(Unsettled(m)) - 1
      BY <3>1, OneLessUnsettled
    <3> QED BY <1>1, <1>2, <1>3, <2>1, <3>2, UnsettledFinite DEF OutboxInv, DeliveriesToCome
  <2>2. CASE ~ (n = m /\ result = "ok")
    <3>1. Unsettled(n)' \subseteq Unsettled(n)
      BY <1>1, <1>2, <1>4, <2>2, NoReplyAssumption DEF Unsettled, Results
    <3>2. Cardinality(Unsettled(n)') <= Cardinality(Unsettled(n))
      BY <3>1, NoMoreUnsettled
    <3>3. delivered'[n] = delivered[n]
      BY <1>2, <1>3, <2>2
    <3> QED BY <1>1, <1>2, <3>2, <3>3, UnsettledFinite, UnsettledFiniteAfter
            DEF OutboxInv, DeliveriesToCome
  <2> QED BY <2>1, <2>2
<1>10. AttemptsSince' /\ RetriesAreBounded'
  BY <1>1 DEF OutboxInv, AttemptsSince, RetriesAreBounded, Holds
<1>11. FreeToClaim'
  BY <1>1, <1>3, <1>4, <1>5 DEF OutboxInv, FreeToClaim
<1>12. MarksAreEarned'
  BY <1>1, <1>2, <1>3 DEF OutboxInv, MarksAreEarned
<1> QED BY <1>6, <1>7, <1>8, <1>9, <1>10, <1>11, <1>12 DEF OutboxInv

\* The answer got lost on the way: a delivery more, a slip more.
LEMMA SendTimesOutKeeps ==
  ASSUME OutboxInv, NEW p \in Passes, NEW m \in Messages, SendTimesOut(p, m)
  PROVE  OutboxInv'
<1>1. /\ Holds(p, m) /\ reply[p] = NoReply
      /\ reply' = [reply EXCEPT ![p] = <<m, "error">>]
      /\ delivered' = [delivered EXCEPT ![m] = @ + 1]
      /\ slips' = [slips EXCEPT ![m] = @ + 1]
      /\ UNCHANGED <<feed, status, attempts, due, try>>
  BY DEF SendTimesOut, rows
<1>2. /\ reply \in [Passes -> (Messages \X Results) \cup {NoReply}]
      /\ delivered \in [Messages -> Nat] /\ slips \in [Messages -> Nat]
      /\ attempts \in [Messages -> Nat] /\ try \in [Passes -> [Messages -> Nat]]
  BY DEF OutboxInv, OutboxTypeOK
<1>3. \A n \in Messages :
        /\ delivered'[n] = delivered[n] + IF n = m THEN 1 ELSE 0
        /\ slips'[n] = slips[n] + IF n = m THEN 1 ELSE 0
  BY <1>1, <1>2
<1>4. \A n \in Messages : Holders(n)' = Holders(n)
  BY <1>1 DEF Holders
<1>5. /\ status[m] # "none"
      /\ Holders(m) # {}
  BY <1>1 DEF OutboxInv, UnqueuedRest, Holders, Holds
<1>6. OutboxTypeOK'
  BY <1>1, <1>2 DEF OutboxInv, OutboxTypeOK, Results
<1>7. RepliesAreHeld'
  <2> SUFFICES ASSUME NEW q \in Passes, NEW n \in Messages, NEW r \in Results,
                      reply'[q] = <<n, r>>
               PROVE  /\ Holds(q, n)'
                      /\ r = "ok" => delivered'[n] > 0
                      /\ r = "refused" => AddressOf(n) \in Dead
    BY DEF RepliesAreHeld
  <2>1. CASE q = p
    <3>1. n = m /\ r = "error"
      BY <1>1, <1>2, <2>1
    <3> QED BY <1>1, <2>1, <3>1 DEF Holds
  <2>2. CASE q # p
    <3>1. reply[q] = <<n, r>>
      BY <1>1, <1>2, <2>2
    <3>2. /\ Holds(q, n)
          /\ r = "ok" => delivered[n] > 0
          /\ r = "refused" => AddressOf(n) \in Dead
      BY <3>1 DEF OutboxInv, RepliesAreHeld
    <3> QED BY <1>1, <1>2, <1>3, <3>2 DEF Holds
  <2> QED BY <2>1, <2>2
<1>8. UnqueuedRest'
  BY <1>1, <1>2, <1>3, <1>4, <1>5 DEF OutboxInv, UnqueuedRest
<1>9. DeliveriesToCome'
  <2> SUFFICES ASSUME NEW n \in Messages
               PROVE  delivered'[n] + Cardinality(Unsettled(n)') <= 1 + slips'[n]
    BY DEF DeliveriesToCome
  <2>1. Unsettled(n)' \subseteq Unsettled(n)
    BY <1>1, <1>2, <1>4, NoReplyAssumption DEF Unsettled, Results
  <2>2. Cardinality(Unsettled(n)') <= Cardinality(Unsettled(n))
    BY <2>1, NoMoreUnsettled
  <2> QED BY <1>2, <1>3, <2>2, UnsettledFinite, UnsettledFiniteAfter
          DEF OutboxInv, DeliveriesToCome
<1>10. AttemptsSince'
  BY <1>1, <1>2, <1>3 DEF OutboxInv, AttemptsSince, Holds
<1>11. RetriesAreBounded'
  BY <1>1, <1>2, <1>3 DEF OutboxInv, RetriesAreBounded
<1>12. FreeToClaim'
  BY <1>1, <1>2, <1>3, <1>4 DEF OutboxInv, FreeToClaim
<1>13. MarksAreEarned'
  BY <1>1, <1>2, <1>3 DEF OutboxInv, MarksAreEarned
<1> QED BY <1>6, <1>7, <1>8, <1>9, <1>10, <1>11, <1>12, <1>13 DEF OutboxInv

\* A pass goes on to its next message: it holds the last one no longer.
LEMMA NextMessageLeaves ==
  ASSUME OutboxInv, NEW p \in Passes, NEW m \in Messages, NEW result \in Results,
         reply[p] = <<m, result>>, NextMessage(p, m)
  PROVE  /\ try' \in [Passes -> [Messages -> Nat]]
         /\ reply' \in [Passes -> (Messages \X Results) \cup {NoReply}]
         /\ \A q \in Passes, n \in Messages :
              try'[q][n] = IF q = p /\ n = m THEN 0 ELSE try[q][n]
         /\ \A q \in Passes : reply'[q] = IF q = p THEN NoReply ELSE reply[q]
         /\ \A n \in Messages :
              Holders(n)' = IF n = m THEN Holders(n) \ {p} ELSE Holders(n)
         /\ Unsettled(m)' = Unsettled(m) \ {p}
         /\ \A n \in Messages : n # m => Unsettled(n)' = Unsettled(n)
<1>1. /\ try \in [Passes -> [Messages -> Nat]]
      /\ reply \in [Passes -> (Messages \X Results) \cup {NoReply}]
  BY DEF OutboxInv, OutboxTypeOK
<1>2. /\ try' = [try EXCEPT ![p] = [try[p] EXCEPT ![m] = 0]]
      /\ reply' = [reply EXCEPT ![p] = NoReply]
  BY DEF NextMessage
<1>3. /\ try' \in [Passes -> [Messages -> Nat]]
      /\ reply' \in [Passes -> (Messages \X Results) \cup {NoReply}]
  BY <1>1, <1>2
<1>4. /\ \A q \in Passes, n \in Messages :
           try'[q][n] = IF q = p /\ n = m THEN 0 ELSE try[q][n]
      /\ \A q \in Passes : reply'[q] = IF q = p THEN NoReply ELSE reply[q]
  BY <1>1, <1>2
<1>5. \A n \in Messages :
        Holders(n)' = IF n = m THEN Holders(n) \ {p} ELSE Holders(n)
  BY <1>4 DEF Holders
<1>6. \A n \in Messages : NoReply # <<n, "ok">>
  BY NoReplyAssumption DEF Results
<1>7. Unsettled(m)' = Unsettled(m) \ {p}
  BY <1>4, <1>5 DEF Unsettled, Holders
<1>8. ASSUME NEW n \in Messages, n # m
      PROVE  Unsettled(n)' = Unsettled(n)
  <2>1. reply[p] # <<n, "ok">>
    BY <1>8
  <2> QED BY <1>4, <1>5, <1>6, <1>8, <2>1 DEF Unsettled, Holders
<1> QED BY <1>3, <1>4, <1>5, <1>7, <1>8

\* The answers of the other passes stay, and what they are about.
LEMMA RepliesStay ==
  ASSUME OutboxInv, NEW p \in Passes, NEW m \in Messages, NEW result \in Results,
         reply[p] = <<m, result>>, NextMessage(p, m), UNCHANGED delivered
  PROVE  RepliesAreHeld'
<1> SUFFICES ASSUME NEW q \in Passes, NEW n \in Messages, NEW r \in Results,
                    reply'[q] = <<n, r>>
             PROVE  /\ Holds(q, n)'
                    /\ r = "ok" => delivered'[n] > 0
                    /\ r = "refused" => AddressOf(n) \in Dead
  BY DEF RepliesAreHeld
<1>0. /\ reply'[q] = IF q = p THEN NoReply ELSE reply[q]
      /\ try'[q][n] = IF q = p /\ n = m THEN 0 ELSE try[q][n]
  BY NextMessageLeaves
<1>1. q # p /\ reply[q] = <<n, r>>
  BY <1>0, NoReplyAssumption
<1>2. /\ Holds(q, n)
      /\ r = "ok" => delivered[n] > 0
      /\ r = "refused" => AddressOf(n) \in Dead
  BY <1>1 DEF OutboxInv, RepliesAreHeld
<1> QED BY <1>0, <1>1, <1>2 DEF Holds

\* A pass that leaves a message was holding it, so the message was queued.
LEMMA HeldWasQueued ==
  ASSUME OutboxInv, NEW p \in Passes, NEW m \in Messages, NEW result \in Results,
         reply[p] = <<m, result>>
  PROVE  /\ Holds(p, m) /\ p \in Holders(m)
         /\ status[m] # "none"
         /\ result # "ok" => p \in Unsettled(m)
<1>1. Holds(p, m)
  BY DEF OutboxInv, RepliesAreHeld
<1>2. p \in Holders(m)
  BY <1>1 DEF Holds, Holders
<1>3. status[m] # "none"
  BY <1>2 DEF OutboxInv, UnqueuedRest
<1> QED BY <1>1, <1>2, <1>3 DEF Unsettled

\* The result is recorded.  A message put off has used up the attempt of its
\* pass, and with it one delivery to come.
LEMMA MarkKeeps ==
  ASSUME OutboxInv, NEW p \in Passes, NEW m \in Messages, NEW result \in Results,
         Mark(p, m, result)
  PROVE  OutboxInv'
<1>1. /\ reply[p] = <<m, result>>
      /\ NextMessage(p, m)
      /\ status' = [status EXCEPT ![m] = StatusAfter(p, m, result)]
      /\ due' \subseteq due
      /\ UNCHANGED <<feed, attempts, delivered, slips>>
  BY DEF Mark, world
<1>2. /\ delivered \in [Messages -> Nat] /\ slips \in [Messages -> Nat]
      /\ attempts \in [Messages -> Nat] /\ try \in [Passes -> [Messages -> Nat]]
      /\ status \in [Messages -> {"none", "pending", "sent", "failed"}]
      /\ \A q \in Passes, n \in Messages : try[q][n] <= attempts[n]
  BY DEF OutboxInv, OutboxTypeOK
<1>3. /\ Holds(p, m) /\ p \in Holders(m)
      /\ status[m] # "none"
      /\ result # "ok" => p \in Unsettled(m)
  BY <1>1, HeldWasQueued
<1>4. /\ status'[m] = StatusAfter(p, m, result)
      /\ \A n \in Messages : n # m => status'[n] = status[n]
      /\ StatusAfter(p, m, result) \in {"sent", "failed", status[m]}
      /\ status' \in [Messages -> {"none", "pending", "sent", "failed"}]
  BY <1>1, <1>2 DEF StatusAfter
<1>5. OutboxTypeOK'
  <2>1. /\ try' \in [Passes -> [Messages -> Nat]]
        /\ reply' \in [Passes -> (Messages \X Results) \cup {NoReply}]
        /\ \A q \in Passes, n \in Messages : try'[q][n] <= attempts[n]
    BY <1>1, <1>2, NextMessageLeaves
  <2>2. \A n \in Messages : status'[n] # "none" => status[n] # "none"
    BY <1>3, <1>4
  <2> QED BY <1>1, <1>4, <2>1, <2>2 DEF OutboxInv, OutboxTypeOK
<1>6. RepliesAreHeld'
  BY <1>1, RepliesStay
<1>7. \A n \in Messages : status'[n] = "none" => status[n] = "none" /\ n # m
  BY <1>3, <1>4
<1>8. UnqueuedRest'
  BY <1>1, <1>7, NextMessageLeaves DEF OutboxInv, UnqueuedRest
<1>9. \A n \in Messages : Cardinality(Unsettled(n)') <= Cardinality(Unsettled(n))
  <2> SUFFICES ASSUME NEW n \in Messages
               PROVE  Unsettled(n)' \subseteq Unsettled(n)
    BY NoMoreUnsettled
  <2> QED BY <1>1, NextMessageLeaves
<1>10. DeliveriesToCome'
  <2> SUFFICES ASSUME NEW n \in Messages
               PROVE  delivered'[n] + Cardinality(Unsettled(n)') <= 1 + slips'[n]
    BY DEF DeliveriesToCome
  <2> QED BY <1>1, <1>2, <1>9, UnsettledFinite, UnsettledFiniteAfter
          DEF OutboxInv, DeliveriesToCome
<1>11. AttemptsSince' /\ RetriesAreBounded'
  <2>1. \A q \in Passes, n \in Messages :
          Holds(q, n)' => Holds(q, n) /\ try'[q][n] = try[q][n]
    BY <1>1, <1>2, NextMessageLeaves DEF Holds
  <2> QED BY <1>1, <2>1 DEF OutboxInv, AttemptsSince, RetriesAreBounded
<1>12. FreeToClaim'
  <2> SUFFICES ASSUME NEW n \in Messages, status'[n] = "pending", Holders(n)' = {}
               PROVE  delivered[n] <= slips[n] /\ attempts[n] < MaxAttempts + slips[n]
    BY <1>1 DEF FreeToClaim
  <2>1. CASE n # m
    BY <1>1, <1>4, <2>1, NextMessageLeaves DEF OutboxInv, FreeToClaim
  <2>2. CASE n = m
    <3>1. result = "error" /\ ~ (try[p][m] >= MaxAttempts)
      BY <1>4, <2>2 DEF StatusAfter, GivesUp, Results
    <3>2. Cardinality(Unsettled(m)') = Cardinality(Unsettled(m)) - 1
      BY <1>1, <1>3, <3>1, NextMessageLeaves, OneLessUnsettled
    <3>3. delivered[m] <= slips[m]
      BY <1>2, <3>2, UnsettledFinite, UnsettledFiniteAfter
         DEF OutboxInv, DeliveriesToCome
    <3>4. attempts[m] <= try[p][m] + slips[m]
      BY <1>3 DEF OutboxInv, AttemptsSince
    <3> QED BY <1>2, <2>2, <3>1, <3>3, <3>4
  <2> QED BY <2>1, <2>2
<1>13. MarksAreEarned'
  <2> SUFFICES ASSUME NEW n \in Messages
               PROVE  /\ status'[n] = "sent" => delivered[n] > 0
                      /\ status'[n] = "failed" => \/ AddressOf(n) \in Dead
                                                  \/ attempts[n] >= MaxAttempts
    BY <1>1 DEF MarksAreEarned
  <2>1. /\ status[n] = "sent" => delivered[n] > 0
        /\ status[n] = "failed" => \/ AddressOf(n) \in Dead
                                   \/ attempts[n] >= MaxAttempts
    BY DEF OutboxInv, MarksAreEarned
  <2>2. CASE status'[n] = status[n]
    BY <2>1, <2>2
  <2>3. CASE status'[n] # status[n]
    <3>1. n = m
      BY <1>4, <2>3
    <3>2. CASE result = "ok"
      BY <1>1, <1>4, <3>1, <3>2 DEF OutboxInv, RepliesAreHeld, StatusAfter
    <3>3. CASE result = "refused"
      BY <1>1, <1>4, <3>1, <3>3 DEF OutboxInv, RepliesAreHeld, StatusAfter, GivesUp
    <3>4. CASE result = "error"
      <4>1. status'[m] = "failed" /\ try[p][m] >= MaxAttempts
        BY <1>4, <2>3, <3>1, <3>4 DEF StatusAfter, GivesUp
      <4> QED BY <1>2, <3>1, <4>1
    <3> QED BY <3>2, <3>3, <3>4 DEF Results
  <2> QED BY <2>2, <2>3
<1> QED BY <1>5, <1>6, <1>8, <1>10, <1>11, <1>12, <1>13 DEF OutboxInv

\* The result is lost: the message is left as it was, with a slip more.
LEMMA MarkLostKeeps ==
  ASSUME OutboxInv, NEW p \in Passes, NEW m \in Messages, NEW result \in Results,
         reply[p] = <<m, result>>, MarkLost(p, m)
  PROVE  OutboxInv'
<1>1. /\ NextMessage(p, m)
      /\ slips' = [slips EXCEPT ![m] = @ + 1]
      /\ UNCHANGED <<feed, status, attempts, due, delivered>>
  BY DEF MarkLost, rows
<1>2. /\ delivered \in [Messages -> Nat] /\ slips \in [Messages -> Nat]
      /\ attempts \in [Messages -> Nat] /\ try \in [Passes -> [Messages -> Nat]]
      /\ \A q \in Passes, n \in Messages : try[q][n] <= attempts[n]
  BY DEF OutboxInv, OutboxTypeOK
<1>3. /\ slips' \in [Messages -> Nat]
      /\ \A n \in Messages : slips'[n] = slips[n] + IF n = m THEN 1 ELSE 0
  BY <1>1, <1>2
<1>4. Holders(m) # {} /\ status[m] # "none"
  BY HeldWasQueued
<1>5. OutboxTypeOK'
  <2>1. /\ try' \in [Passes -> [Messages -> Nat]]
        /\ reply' \in [Passes -> (Messages \X Results) \cup {NoReply}]
        /\ \A q \in Passes, n \in Messages : try'[q][n] <= attempts[n]
    BY <1>1, <1>2, NextMessageLeaves
  <2> QED BY <1>1, <1>3, <2>1 DEF OutboxInv, OutboxTypeOK
<1>6. RepliesAreHeld'
  BY <1>1, RepliesStay
<1>7. UnqueuedRest'
  BY <1>1, <1>4, NextMessageLeaves DEF OutboxInv, UnqueuedRest
<1>8. DeliveriesToCome'
  <2> SUFFICES ASSUME NEW n \in Messages
               PROVE  delivered'[n] + Cardinality(Unsettled(n)') <= 1 + slips'[n]
    BY DEF DeliveriesToCome
  <2>1. Unsettled(n)' \subseteq Unsettled(n)
    BY <1>1, NextMessageLeaves
  <2>2. Cardinality(Unsettled(n)') <= Cardinality(Unsettled(n))
    BY <2>1, NoMoreUnsettled
  <2> QED BY <1>1, <1>2, <1>3, <2>2, UnsettledFinite, UnsettledFiniteAfter
          DEF OutboxInv, DeliveriesToCome
<1>9. AttemptsSince' /\ RetriesAreBounded'
  <2>1. \A q \in Passes, n \in Messages :
          Holds(q, n)' => Holds(q, n) /\ try'[q][n] = try[q][n]
    BY <1>1, <1>2, NextMessageLeaves DEF Holds
  <2> QED BY <1>1, <1>2, <1>3, <2>1 DEF OutboxInv, AttemptsSince, RetriesAreBounded
<1>10. FreeToClaim'
  <2> SUFFICES ASSUME NEW n \in Messages, status[n] = "pending", Holders(n)' = {}
               PROVE  delivered[n] <= slips'[n] /\ attempts[n] < MaxAttempts + slips'[n]
    BY <1>1 DEF FreeToClaim
  <2>1. CASE n # m
    BY <1>1, <1>2, <1>3, <2>1, NextMessageLeaves DEF OutboxInv, FreeToClaim
  <2>2. CASE n = m
    <3>1. delivered[m] <= 1 + slips[m] /\ attempts[m] <= MaxAttempts + slips[m]
      BY <1>2, UnsettledFinite DEF OutboxInv, DeliveriesToCome, RetriesAreBounded
    <3> QED BY <1>2, <1>3, <2>2, <3>1
  <2> QED BY <2>1, <2>2
<1>11. MarksAreEarned'
  BY <1>1 DEF OutboxInv, MarksAreEarned
<1> QED BY <1>5, <1>6, <1>7, <1>8, <1>9, <1>10, <1>11 DEF OutboxInv

\* The worker stops: everything it held is let go, with a slip more each.
LEMMA CrashKeeps ==
  ASSUME OutboxInv, NEW p \in Passes, Crash(p)
  PROVE  OutboxInv'
<1>1. /\ slips' = [n \in Messages |-> IF Holds(p, n) THEN slips[n] + 1 ELSE slips[n]]
      /\ try' = [try EXCEPT ![p] = [n \in Messages |-> 0]]
      /\ reply' = [reply EXCEPT ![p] = NoReply]
      /\ UNCHANGED <<feed, status, attempts, due, delivered>>
  BY DEF Crash, rows
<1>2. /\ delivered \in [Messages -> Nat] /\ slips \in [Messages -> Nat]
      /\ attempts \in [Messages -> Nat] /\ try \in [Passes -> [Messages -> Nat]]
      /\ reply \in [Passes -> (Messages \X Results) \cup {NoReply}]
      /\ \A q \in Passes, n \in Messages : try[q][n] <= attempts[n]
  BY DEF OutboxInv, OutboxTypeOK
<1>3. /\ slips' \in [Messages -> Nat]
      /\ \A n \in Messages : slips'[n] = slips[n] + IF Holds(p, n) THEN 1 ELSE 0
  BY <1>1, <1>2
<1>4. \A q \in Passes, n \in Messages : try'[q][n] = IF q = p THEN 0 ELSE try[q][n]
  BY <1>1, <1>2
<1>5. \A q \in Passes : reply'[q] = IF q = p THEN NoReply ELSE reply[q]
  BY <1>1, <1>2
<1>6. \A n \in Messages : Holders(n)' = Holders(n) \ {p}
  BY <1>4 DEF Holders
<1>7. \A n \in Messages : Unsettled(n)' \subseteq Unsettled(n)
  BY <1>5, <1>6 DEF Unsettled, Holders
<1>8. OutboxTypeOK'
  <2>1. /\ try' \in [Passes -> [Messages -> Nat]]
        /\ reply' \in [Passes -> (Messages \X Results) \cup {NoReply}]
        /\ \A q \in Passes, n \in Messages : try'[q][n] <= attempts[n]
    BY <1>1, <1>2, <1>4
  <2> QED BY <1>1, <1>3, <2>1 DEF OutboxInv, OutboxTypeOK
<1>9. RepliesAreHeld'
  <2> SUFFICES ASSUME NEW q \in Passes, NEW n \in Messages, NEW r \in Results,
                      reply'[q] = <<n, r>>
               PROVE  /\ Holds(q, n)'
                      /\ r = "ok" => delivered'[n] > 0
                      /\ r = "refused" => AddressOf(n) \in Dead
    BY DEF RepliesAreHeld
  <2>1. q # p /\ reply[q] = <<n, r>>
    BY <1>5, NoReplyAssumption
  <2>2. /\ Holds(q, n)
        /\ r = "ok" => delivered[n] > 0
        /\ r = "refused" => AddressOf(n) \in Dead
    BY <2>1 DEF OutboxInv, RepliesAreHeld
  <2> QED BY <1>1, <1>4, <2>1, <2>2 DEF Holds
<1>10. UnqueuedRest'
  BY <1>1, <1>6 DEF OutboxInv, UnqueuedRest
<1>11. DeliveriesToCome'
  <2> SUFFICES ASSUME NEW n \in Messages
               PROVE  delivered'[n] + Cardinality(Unsettled(n)') <= 1 + slips'[n]
    BY DEF DeliveriesToCome
  <2>1. Cardinality(Unsettled(n)') <= Cardinality(Unsettled(n))
    BY <1>7, NoMoreUnsettled
  <2> QED BY <1>1, <1>2, <1>3, <2>1, UnsettledFinite, UnsettledFiniteAfter
          DEF OutboxInv, DeliveriesToCome
<1>12. AttemptsSince' /\ RetriesAreBounded'
  <2>1. \A q \in Passes, n \in Messages :
          Holds(q, n)' => Holds(q, n) /\ try'[q][n] = try[q][n]
    BY <1>2, <1>4 DEF Holds
  <2> QED BY <1>1, <1>2, <1>3, <2>1 DEF OutboxInv, AttemptsSince, RetriesAreBounded
<1>13. FreeToClaim'
  <2> SUFFICES ASSUME NEW n \in Messages, status[n] = "pending", Holders(n)' = {}
               PROVE  delivered[n] <= slips'[n] /\ attempts[n] < MaxAttempts + slips'[n]
    BY <1>1 DEF FreeToClaim
  <2>1. CASE Holds(p, n)
    <3>1. delivered[n] <= 1 + slips[n] /\ attempts[n] <= MaxAttempts + slips[n]
      BY <1>2, UnsettledFinite DEF OutboxInv, DeliveriesToCome, RetriesAreBounded
    <3> QED BY <1>2, <1>3, <2>1, <3>1
  <2>2. CASE ~ Holds(p, n)
    <3>1. Holders(n) = {}
      BY <1>6, <2>2 DEF Holders, Holds
    <3> QED BY <1>2, <1>3, <2>2, <3>1 DEF OutboxInv, FreeToClaim
  <2> QED BY <2>1, <2>2
<1>14. MarksAreEarned'
  BY <1>1 DEF OutboxInv, MarksAreEarned
<1> QED BY <1>8, <1>9, <1>10, <1>11, <1>12, <1>13, <1>14 DEF OutboxInv

-----------------------------------------------------------------------------

\* The invariant is inductive: one step per action.
LEMMA OutboxStep == OutboxInv /\ [Next]_vars => OutboxInv'
<1> SUFFICES ASSUME OutboxInv, [Next]_vars PROVE OutboxInv'
  OBVIOUS
<1>1. CASE UNCHANGED vars
  <2>1. UNCHANGED <<feed, status, attempts, due, try, reply, world>>
    BY <1>1 DEF vars, rows
  <2>2. OutboxTypeOK'
    BY <2>1 DEF OutboxInv, OutboxTypeOK, world
  <2>3. /\ RepliesAreHeld' /\ DeliveriesToCome' /\ AttemptsSince' /\ RetriesAreBounded'
        /\ \A m \in Messages : Holders(m)' = Holders(m)
    BY <2>1, SamePasses
  <2>4. UnqueuedRest' /\ FreeToClaim' /\ MarksAreEarned'
    BY <2>1, <2>3 DEF OutboxInv, UnqueuedRest, FreeToClaim, MarksAreEarned, world
  <2> QED BY <2>2, <2>3, <2>4 DEF OutboxInv
<1>2. ASSUME NEW n \in Notices, NEW to \in SUBSET Addresses, NEW soon \in BOOLEAN,
             Emit(n, to, soon)
      PROVE  OutboxInv'
  BY <1>2, EmitKeeps
<1>3. ASSUME NEW n \in Notices, EmitAgain(n)
      PROVE  OutboxInv'
  BY <1>1, <1>3 DEF EmitAgain
<1>4. ASSUME NEW m \in Messages, ComeDue(m)
      PROVE  OutboxInv'
  BY <1>4, ComeDueKeeps
<1>5. ASSUME NEW p \in Passes, StartPass(p)
      PROVE  OutboxInv'
  BY <1>5, ClaimKeeps DEF StartPass
<1>6. ASSUME NEW p \in Passes, Transmit(p)
      PROVE  OutboxInv'
  BY <1>6, SendKeeps DEF Transmit
<1>7. ASSUME NEW p \in Passes, Record(p)
      PROVE  OutboxInv'
  BY <1>7, MarkKeeps DEF Record
<1>8. ASSUME NEW p \in Passes, Mishap(p)
      PROVE  OutboxInv'
  <2>1. ASSUME NEW m \in Messages, SendTimesOut(p, m)
        PROVE  OutboxInv'
    BY <2>1, SendTimesOutKeeps
  <2>2. ASSUME NEW m \in Messages, MarkLost(p, m)
        PROVE  OutboxInv'
    <3>1. PICK result \in Results : reply[p] = <<m, result>>
      BY <2>2 DEF MarkLost
    <3> QED BY <2>2, <3>1, MarkLostKeeps
  <2>3. CASE Crash(p)
    BY <2>3, CrashKeeps
  <2> QED BY <1>8, <2>1, <2>2, <2>3 DEF Mishap
<1> QED BY <1>1, <1>2, <1>3, <1>4, <1>5, <1>6, <1>7, <1>8 DEF Next

\* The inductive invariant holds throughout.
THEOREM OutboxInvariant == Spec => []OutboxInv
  BY OutboxInitially, OutboxStep, PTL DEF Spec

\* Types, and what relates attempts under way and rows (notify/outbox.go).
THEOREM OutboxTypes == Spec => []OutboxTypeOK
<1>1. OutboxInv => OutboxTypeOK
  BY DEF OutboxInv
<1> QED BY <1>1, OutboxInvariant, PTL

\* However many passes overlap and whatever they lose, a recipient gets a
\* message once, and once more at most for every slip (notify/outbox.go,
\* Dispatch).
THEOREM OutboxDuplicates == Spec => []DuplicatesHaveReasons
<1>1. OutboxInv => DuplicatesHaveReasons
  <2> SUFFICES ASSUME OutboxInv, NEW m \in Messages
               PROVE  delivered[m] <= 1 + slips[m]
    BY DEF DuplicatesHaveReasons
  <2> QED BY UnsettledFinite DEF OutboxInv, OutboxTypeOK, DeliveriesToCome
<1> QED BY <1>1, OutboxInvariant, PTL

\* The limit on attempts holds but for slips, although a pass decides by the
\* attempt it claimed and not by the row (notify/outbox.go, fail).
THEOREM OutboxRetries == Spec => []RetriesAreBounded
<1>1. OutboxInv => RetriesAreBounded
  BY DEF OutboxInv
<1> QED BY <1>1, OutboxInvariant, PTL

\* No message is marked sent that was not, and none is given up early
\* (notify/outbox.go, markSent, markFailed).
THEOREM OutboxMarks == Spec => []MarksAreEarned
<1>1. OutboxInv => MarksAreEarned
  BY DEF OutboxInv
<1> QED BY <1>1, OutboxInvariant, PTL

=============================================================================
