------------------------------ MODULE Nightly ------------------------------
(***************************************************************************)
(* The nightly recomputation (forecast/pipeline, replenishment/batch.go)   *)
(* and the reconciliation of balances (stock/query.go) next to the         *)
(* transactions that move stock.  Both recompute statuses and raise        *)
(* alerts, at READ COMMITTED: each statement sees what is committed when it *)
(* runs.                                                                   *)
(*                                                                         *)
(* The forecast is the quantity below which an item does not last until    *)
(* the next delivery; the statuses above it are one level.                 *)
(***************************************************************************)
EXTENDS Integers, FiniteSets, SequencesExt

CONSTANTS
  Items,      \* items by id
  Movers,     \* transactions that may be open at once
  Batches,    \* the items one transaction may move, in its order
  Forecasts,  \* quantities a forecast may ask for
  MaxHand,    \* bound: quantity on hand
  MaxDay,     \* bound: days
  MaxNights,  \* bound: recomputations begun
  NoTx, NoRow

ASSUME NightlyAssumption ==
  /\ Items \subseteq Nat /\ IsFiniteSet(Items)
  /\ Forecasts \subseteq Nat
  /\ MaxHand \in Nat /\ MaxDay \in Nat \ {0}
  /\ \A b \in Batches : b \in Seq(Items) /\ b # <<>> /\ IsInjective(b)

VARIABLES
  hand,      \* stock_balances
  total,     \* the sum of the journal
  forecast,  \* forecasts of the days to come
  status,    \* item_status, with the inputs it was computed from
  alerts,    \* critical alerts in the feed, by their deduplication key
  reds,      \* item and day of every status committed as red
  day,       \* today
  tx,        \* transactions that move stock
  night,     \* the recomputation of the whole tenant
  nights,    \* recomputations begun
  check      \* the reconciliation: sums read, and items moved since

tables == <<hand, total, forecast, status, alerts, reds>>
others == <<day, nights, check>>
nightlyVars == <<tables, others, tx, night>>

-----------------------------------------------------------------------------

\* What some of the items have, and one more of them, or another value for it.
Some(V) == UNION {[S -> V] : S \in SUBSET Items}
With(f, i, v) == [j \in DOMAIN f \cup {i} |-> IF j = i THEN v ELSE f[j]]

\* A row of item_status; the statuses and alerts a transaction has written.
Rows   == [level : 0..2, hand : 0..MaxHand, by : {"movement", "night"}, day : 1..MaxDay]
Alerts == SUBSET (Items \X (1..MaxDay))

Move == [at : {"lock", "previous", "forecast", "write", "commit"},
         todo : Seq(Items), q : {-1, 1}, hand : Some(0..MaxHand),
         rows : Some(Rows), alerts : Alerts, previous : 0..2, need : Nat]
Night == [at : {"store", "items", "forecasts", "previous", "write", "commit"},
          forecast : [Items -> Forecasts], hand : Some(0..MaxHand),
          need : Some(Nat), previous : Some(0..2), todo : Seq(Items),
          rows : Some(Rows), alerts : Alerts]
Check == [sums : [Items -> Int], moved : SUBSET Items]

ASSUME NoTxAssumption  == NoTx \notin Move \cup Night \cup Check
ASSUME NoRowAssumption == NoRow \notin Rows

\* severity: in stock, critical, out of stock.
Level(h, f) == IF h = 0 THEN 2 ELSE IF h <= f THEN 1 ELSE 0
IsRed(level) == level > 0

\* No row counts as in stock.
LevelOf(row) == IF row = NoRow THEN 0 ELSE row.level

NightlyInit ==
  /\ hand = [i \in Items |-> 0]
  /\ total = [i \in Items |-> 0]
  /\ forecast = [i \in Items |-> 0]
  /\ status = [i \in Items |-> NoRow]
  /\ alerts = {} /\ reds = {}
  /\ day = 1
  /\ tx = [m \in Movers |-> NoTx]
  /\ night = NoTx /\ nights = 0
  /\ check = NoTx

Open(m) == tx[m] # NoTx
TxAt(m, at) == Open(m) /\ tx[m].at = at

\* Row locks: the balance from its SELECT ... FOR UPDATE, the status from its
\* upsert, both to the end of the transaction.
BalanceFree(i) == \A m \in Movers : Open(m) => i \notin DOMAIN tx[m].hand
StatusFree(i) ==
  /\ \A m \in Movers : Open(m) => i \notin DOMAIN tx[m].rows
  /\ night # NoTx => i \notin DOMAIN night.rows

\* Mutant: the deduplication key has no date.
AlertOnce(i, level, previous) ==
  IF IsRed(level) /\ level > previous THEN {<<i, 1>>} ELSE {}

\* A transaction's alert for an item: red, and worse than what it had read.
AlertFor(i, level, previous) ==
  IF IsRed(level) /\ level > previous THEN {<<i, day>>} ELSE {}

\* What a transaction wrote becomes visible.
CommitWrites(t) ==
  /\ status' = [i \in Items |-> IF i \in DOMAIN t.rows THEN t.rows[i] ELSE status[i]]
  /\ alerts' = alerts \cup t.alerts
  /\ reds' = reds \cup {<<i, t.rows[i].day>> : i \in {j \in DOMAIN t.rows : IsRed(t.rows[j].level)}}

-----------------------------------------------------------------------------
(* Movements: Record, or the receipt of an order with several lines.         *)

StartMove(m, items, q) ==
  /\ ~ Open(m)
  /\ tx' = [tx EXCEPT ![m] = [at |-> "lock", todo |-> items, q |-> q, hand |-> <<>>,
                              rows |-> <<>>, alerts |-> {}, previous |-> 0, need |-> 0]]
  /\ UNCHANGED <<tables, others, night>>

\* Mutant: the balance is read without a lock.
ReadBalance(m) ==
  LET i == Head(tx[m].todo)
      h == hand[i] + tx[m].q
  IN
  /\ TxAt(m, "lock")
  /\ h \in 0..MaxHand
  /\ tx' = [tx EXCEPT ![m].hand = With(@, i, h), ![m].at = "previous"]
  /\ UNCHANGED <<tables, others, night>>

\* LockBalance, the check for enough stock, and the update.
LockBalance(m) ==
  LET i == Head(tx[m].todo)
      h == hand[i] + tx[m].q
  IN
  /\ TxAt(m, "lock")
  /\ BalanceFree(i)
  /\ h \in 0..MaxHand
  /\ tx' = [tx EXCEPT ![m].hand = With(@, i, h), ![m].at = "previous"]
  /\ UNCHANGED <<tables, others, night>>

\* Not enough stock, or more than the bound.
Refuse(m) ==
  /\ TxAt(m, "lock")
  /\ BalanceFree(Head(tx[m].todo))
  /\ hand[Head(tx[m].todo)] + tx[m].q \notin 0..MaxHand
  /\ tx' = [tx EXCEPT ![m] = NoTx]
  /\ UNCHANGED <<tables, others, night>>

\* The status it may get worse than.
ReadPrevious(m) ==
  /\ TxAt(m, "previous")
  /\ tx' = [tx EXCEPT ![m].previous = LevelOf(status[Head(tx[m].todo)]),
                      ![m].at = "forecast"]
  /\ UNCHANGED <<tables, others, night>>

ReadForecast(m) ==
  /\ TxAt(m, "forecast")
  /\ tx' = [tx EXCEPT ![m].need = forecast[Head(tx[m].todo)], ![m].at = "write"]
  /\ UNCHANGED <<tables, others, night>>

\* Mutant: the item is read outside the transaction.
WriteFromCommitted(m) ==
  LET i     == Head(tx[m].todo)
      level == Level(hand[i], tx[m].need)
  IN
  /\ TxAt(m, "write")
  /\ StatusFree(i)
  /\ tx' = [tx EXCEPT
       ![m].rows = With(@, i, [level |-> level, hand |-> hand[i], by |-> "movement", day |-> day]),
       ![m].todo = Tail(@),
       ![m].at = IF Len(tx[m].todo) = 1 THEN "commit" ELSE "lock"]
  /\ UNCHANGED <<tables, others, night>>

\* Mutant: the alert is written by a transaction of its own.
WriteAndAlert(m) ==
  LET i     == Head(tx[m].todo)
      h     == tx[m].hand[i]
      level == Level(h, tx[m].need)
  IN
  /\ TxAt(m, "write")
  /\ StatusFree(i)
  /\ tx' = [tx EXCEPT
       ![m].rows = With(@, i, [level |-> level, hand |-> h, by |-> "movement", day |-> day]),
       ![m].todo = Tail(@),
       ![m].at = IF Len(tx[m].todo) = 1 THEN "commit" ELSE "lock"]
  /\ alerts' = alerts \cup AlertFor(i, level, tx[m].previous)
  /\ UNCHANGED <<hand, total, forecast, status, reds, others, night>>

\* The upsert of the status, and the alert if it got worse.
WriteStatus(m) ==
  LET i     == Head(tx[m].todo)
      h     == tx[m].hand[i]
      level == Level(h, tx[m].need)
  IN
  /\ TxAt(m, "write")
  /\ StatusFree(i)
  /\ tx' = [tx EXCEPT
       ![m].rows = With(@, i, [level |-> level, hand |-> h, by |-> "movement", day |-> day]),
       ![m].alerts = @ \cup AlertFor(i, level, tx[m].previous),
       ![m].todo = Tail(@),
       ![m].at = IF Len(tx[m].todo) = 1 THEN "commit" ELSE "lock"]
  /\ UNCHANGED <<tables, others, night>>

CommitMove(m) ==
  LET moved == DOMAIN tx[m].hand IN
  /\ TxAt(m, "commit")
  /\ hand' = [i \in Items |-> IF i \in moved THEN tx[m].hand[i] ELSE hand[i]]
  /\ total' = [i \in Items |-> IF i \in moved THEN total[i] + tx[m].q ELSE total[i]]
  /\ CommitWrites(tx[m])
  /\ check' = IF check = NoTx THEN NoTx ELSE [check EXCEPT !.moved = @ \cup moved]
  /\ tx' = [tx EXCEPT ![m] = NoTx]
  /\ UNCHANGED <<forecast, day, nights, night>>

\* Failed, or chosen to break a deadlock: nothing of it remains.
AbortMove(m) ==
  /\ Open(m)
  /\ tx' = [tx EXCEPT ![m] = NoTx]
  /\ UNCHANGED <<tables, others, night>>

-----------------------------------------------------------------------------
(* pipeline.Run: the series are rebuilt, the forecasts stored, the statuses  *)
(* recomputed, each in a transaction of its own.                             *)

StartNight ==
  /\ night = NoTx
  /\ nights < MaxNights
  /\ nights' = nights + 1
  /\ \E computed \in [Items -> Forecasts] :
       night' = [at |-> "store", forecast |-> computed, hand |-> <<>>, need |-> <<>>,
                 previous |-> <<>>, todo |-> <<>>, rows |-> <<>>, alerts |-> {}]
  /\ UNCHANGED <<tables, day, check, tx>>

NightAt(at) == night # NoTx /\ night.at = at
NightGoes(n) == night' = n /\ UNCHANGED <<tables, others, tx>>

StoreAll ==
  /\ NightAt("store")
  /\ forecast' = night.forecast
  /\ night' = [night EXCEPT !.at = "items"]
  /\ UNCHANGED <<hand, total, status, alerts, reds, others, tx>>

\* The items in the order of their ids.
InIdOrder ==
  {s \in [1..Cardinality(Items) -> Items] : \A k, l \in DOMAIN s : k < l => s[k] < s[l]}

\* RecalculateAll reads the items with their balances, then the forecasts,
\* then the statuses as they are; without items it is done.
ReadItems ==
  /\ NightAt("items")
  /\ \E ids \in InIdOrder :
       NightGoes([night EXCEPT !.hand = hand, !.todo = ids,
                               !.at = IF Items = {} THEN "commit" ELSE "forecasts"])

LoadForecasts ==
  /\ NightAt("forecasts")
  /\ NightGoes([night EXCEPT !.need = forecast, !.at = "previous"])

LoadPreviousStatuses ==
  /\ NightAt("previous")
  /\ NightGoes([night EXCEPT !.previous = [i \in Items |-> LevelOf(status[i])], !.at = "write"])

PersistNext ==
  LET i     == Head(night.todo)
      level == Level(night.hand[i], night.need[i])
  IN
  /\ NightAt("write")
  /\ StatusFree(i)
  /\ NightGoes([night EXCEPT
       !.rows = With(@, i, [level |-> level, hand |-> night.hand[i], by |-> "night", day |-> day]),
       !.alerts = @ \cup AlertFor(i, level, night.previous[i]),
       !.todo = Tail(@),
       !.at = IF Len(night.todo) = 1 THEN "commit" ELSE "write"])

CommitNight ==
  /\ NightAt("commit")
  /\ CommitWrites(night)
  /\ night' = NoTx
  /\ UNCHANGED <<hand, total, forecast, others, tx>>

\* Mutant: the transaction is left open after an error.
FailWithoutRollback ==
  /\ night # NoTx
  /\ NightGoes([night EXCEPT !.at = "failed"])

\* Failed at any statement; the worker runs the whole of it again.
FailNight ==
  /\ night # NoTx
  /\ NightGoes(NoTx)

\* A movement and the recomputation that wait for each other's status rows.
Crossed(m) ==
  /\ TxAt(m, "write") /\ NightAt("write")
  /\ Head(tx[m].todo) \in DOMAIN night.rows
  /\ Head(night.todo) \in DOMAIN tx[m].rows

\* PostgreSQL ends one of them.
CrossedVictim(m) == Crossed(m) /\ (AbortMove(m) \/ FailNight)

-----------------------------------------------------------------------------
(* Reconcile                                                                 *)

ReadSums ==
  /\ check = NoTx
  /\ check' = [sums |-> total, moved |-> {}]
  /\ UNCHANGED <<tables, day, nights, tx, night>>

\* What reading the balances now would report.
Drifted == {i \in Items : check.sums[i] # hand[i]}

\* The balances are read, the report is logged and counted.
ReadBalances ==
  /\ check # NoTx
  /\ check' = NoTx
  /\ UNCHANGED <<tables, day, nights, tx, night>>

NextDay ==
  /\ day < MaxDay
  /\ day' = day + 1
  /\ UNCHANGED <<tables, nights, check, tx, night>>

-----------------------------------------------------------------------------

MoveStep(m) ==
  \/ LockBalance(m)
  \/ Refuse(m)
  \/ ReadPrevious(m)
  \/ ReadForecast(m)
  \/ WriteStatus(m)
  \/ CommitMove(m)
  \/ CrossedVictim(m)

NightStep ==
  \/ StoreAll
  \/ ReadItems
  \/ LoadForecasts
  \/ LoadPreviousStatuses
  \/ PersistNext
  \/ CommitNight

Reconcile == ReadSums \/ ReadBalances

MoverNext(m) ==
  \/ \E items \in Batches, q \in {-1, 1} : StartMove(m, items, q)
  \/ MoveStep(m)
  \/ AbortMove(m)

NightNext == StartNight \/ NightStep \/ FailNight \/ NextDay

NightlyNext == (\E m \in Movers : MoverNext(m)) \/ NightNext \/ Reconcile

\* What has begun goes on, row locks are queued for, and deadlocks are found.
NightlyFairness ==
  /\ \A m \in Movers : SF_nightlyVars(MoveStep(m))
  /\ SF_nightlyVars(NightStep)

NightlySpec == NightlyInit /\ [][NightlyNext]_nightlyVars

-----------------------------------------------------------------------------
(* Properties *)

NightlyTypeOK ==
  /\ hand     \in [Items -> 0..MaxHand]
  /\ total    \in [Items -> Int]
  /\ forecast \in [Items -> Nat]
  /\ status   \in [Items -> Rows \cup {NoRow}]
  /\ alerts   \in Alerts /\ reds \in Alerts
  /\ day      \in 1..MaxDay
  /\ check    \in Check \cup {NoTx}
  /\ night # NoTx => DOMAIN night.rows \subseteq Items

\* A movement holds its balance while it computes the status from it, the
\* night does not: a status that disagrees with the balance was written by the
\* night, whatever is under way.
StalenessIsTheNights ==
  \A i \in Items :
    (status[i] # NoRow /\ status[i].hand # hand[i]) => status[i].by = "night"

\* Whoever is told that an item is red when a status is first seen red: no
\* status is red without an alert that said so, although previous statuses are
\* read without a lock and alerts of one day are merged into one.
RedIsAlerted ==
  \A i \in Items : IsRed(LevelOf(status[i])) => \E d \in 1..day : <<i, d>> \in alerts

\* The invariant of the tables: well-formed, stale only by the night, and red only
\* where an alert has said so.
NightlyInv == NightlyTypeOK /\ StalenessIsTheNights /\ RedIsAlerted

\* A status the night has stored.
ByNight(row) == row # NoRow /\ row.by = "night"

\* An item turns red with an alert of that very day, whoever else moves it, unless
\* the night came between: it stored the status that is replaced after a movement
\* had read another, or it stores a status after a movement had replaced the one
\* it had read.
UntoldMetTheNight ==
  [][\A i \in Items :
       ~ IsRed(LevelOf(status[i])) /\ IsRed(LevelOf(status'[i])) =>
         \/ <<i, status'[i].day>> \in alerts'
         \/ ByNight(status[i]) \/ ByNight(status'[i])]_nightlyVars

\* An alert and the status it is about are committed together: there is none
\* about a status that was rolled back.
AlertsAreTrue == alerts \subseteq reds

\* The reconciliation reads sums and balances in two statements.  What it
\* reports is a movement committed in between, never a balance gone astray.
DriftsAreRaces == check # NoTx => Drifted \subseteq check.moved

\* The recomputation and a movement take status rows in different orders.  The
\* database ends one of them, and the recomputation comes to its end.
NightsEnd == night # NoTx ~> night = NoTx

=============================================================================
