# Zapas: formal models

Zapas is a Go service that keeps the stock of cafés: what is on the shelf, what is
on order, how long it will last and what to order today. It is one process with an
HTTP API and a worker, PostgreSQL (READ COMMITTED, one organisation per
transaction) and Redis. This directory holds TLA+ models of the parts where
several transactions, requests or worker passes meet, the TLC runs that check
them, and proofs of the core.

    tlc -workers 2 -config MCMovements.cfg MCMovements     # a run
    tlapm MovementsProofs.tla                              # the proofs

PROJECT.json lists every component, run, mutant, finding, hazard and theorem, and
maps each definition to the source lines it models.

## 1. Inventory

| component | state | operations | what is hard | what makes it correct |
|---|---|---|---|---|
| **stock movements** (internal/stock/service.go) | journal `stock_movements` (append-only), `stock_balances`, `item_status` | Record (with Idempotency-Key), RecordInTx, Reverse | concurrent usage of one item, retries, double reversal, archiving, broken-off transactions | balance = sum of the journal, never negative; a key makes one movement; a movement is reversed once; replies tell the truth; status goes with the balance |
| **stock counts** (internal/stock/counts.go) | `stock_counts`, `stock_count_lines` | CreateCount, SetCountLines, PostCount (force) | entry against posting, two postings, movements while a count is posted, lines locked in no order | posted once, as a whole, exact at the commit |
| **stock queries, reconciliation** (internal/stock/query.go) | reads only | journal page, balances, Reconcile | two reads at READ COMMITTED | a drift it reports is a drift, or a movement between its reads |
| **purchase orders** (internal/orders) | `purchase_orders`, lines, what is on order | Create, UpdateLines, Send, Cancel, Receive | receive against receive, cancel and edit; receipts that fail half-way; locks of many items | received once and as a whole; what is on order is what sent orders ask for |
| **notification outbox** (internal/notify/outbox.go) | `notifications`, `outbox` | Emit, Dispatch, Send, mark / reschedule / give up | overlapping passes, crashes, timeouts after acceptance, lost results | nothing lost, retries bounded, duplicates explained, marks earned |
| **reminders** (internal/notify/digest.go, worker/tasks.go) | deduplication keys, `late_notified_at` | digest, cutoff reminder, late orders | time zones, read-then-emit, a task that fails for one tenant and is repeated for all | one notification per key, about something that was true; nobody is passed over |
| **Telegram links** (internal/notify/link.go, webhook.go) | codes, chat of each user | code, link, unlink | one code sent from two chats, one chat linked twice | a code buys one link; a chat is of one user |
| **replenishment: status** (internal/replenishment/service.go, batch.go) | `item_status`, alerts | Recalculate, RecalculateAll, alert on red | nightly batch against movements, lost worsening | no item is red that nobody was ever told of; one turns red without an alert of that day only where the night came between; an alert is about a committed status; a stale one is the night's doing |
| **replenishment: arithmetic** (window.go, reorder.go) | - | window, need, safety stock, order quantity, status | days counted once too often or too seldom, rounding up to packs | what is advised lasts until the delivery after the next, and is not more than that needs |
| **catalogue** (internal/catalog) | items, groups, suppliers, terms | create, PATCH, archive, import of a file | parallel imports, PATCH against PATCH, archiving against movements | an import is whole; no change is lost; archived items rest |
| **forecast** (internal/forecast) | forecasts, metrics | models, series, back-test, pipeline | numerical | the pipeline's order of transactions |
| **worker** (internal/worker) | schedule in Redis | hourly per-tenant tasks, outbox every 30 s, clean-up | overlap, retries, local hours | every task has its turn |
| **sandbox** (internal/sandbox) | demo organisations, shifted clock | create, reset, advance, guide, autopilot, clean up | several transactions per request, each may be the last | templates applied once, limits overrun only by what was in flight, nothing left behind |
| **auth and rate limiter** (internal/auth, platform/ratelimit) | sessions, marks of attempts in Redis | sign in, sign out, Allow, Reset | parallel attempts, Redis failing half-way | no more attempts than the limit in a window |
| tenants, clock | shifted clock, zone | InTenantTx | - | parts of the models above |
| HTTP, dashboard, generated queries, web | - | reading, routing, wording | - | not modelled |

The components meet in the database. A movement recomputes the status of its item
in its own transaction; receiving an order records its receipts with the stock
module's RecordInTx inside the order's transaction; posting a count runs the same
statements for every adjustment; a status that turned red, a digest or a late order
writes a notification and its outbox rows in the same transaction; the worker sends
outbox rows later, outside any transaction. An import records opening stock with
RecordInTx. The sandbox drives all of it: a virtual day records usage, receives
orders, runs the night's pipeline and sends orders for what is advised.

## 2. Modules

| module | models |
|---|---|
| `Journal` | the movements, their CHECKs, sums, unique indexes: constant-level operators shared by all stock modules |
| `Ledger` | the abstract specification: a batch of lawful movements is posted in one step |
| `Movements` | Record and Reverse, statement by statement |
| `Counts`, `Orders` | Movements composed with stock counts, with purchase orders |
| `Nightly` | RecalculateAll, alerts, Reconcile, next to transactions that move stock |
| `Replenishment` | the arithmetic of the advice: operators |
| `Autopilot` | an item whose orders follow that advice, day by day |
| `Outbox` | Emit and the dispatcher |
| `Reminders` | the scheduled tasks that end in Emit |
| `Linking` | codes and chats |
| `Catalogue` | items, groups, imports |
| `Access` | signing in under the limiter |
| `Sandbox` | demo organisations |
| `MCMovements`, `MCCounts`, `MCOrders` | symmetry and starting points for TLC |
| `MCWaits` | Counts and Orders together: who waits for whom |
| `MCNotices` | Outbox and Reminders, a scenario each |
| `MCNightly`, `MCAutopilot` | Nightly and Autopilot, a scenario each |
| `MCSandbox` | Sandbox in two scenarios |
| `MCOffice` | Catalogue, Linking and Access, one desk at work per behaviour |
| `SumTheorems` | induction over numbers and finite sets, least numbers; sums over finite sets, proved |
| `MovementsProofs` | sums of a journal; invariants and refinement of Movements, proved |
| `CountsProofs` | invariants, exactness and refinement of Counts, proved |
| `OrdersProofs` | invariants and refinement of Orders, proved |
| `NightlyProofs` | the window and the recommended quantity of Replenishment; Autopilot's promises; invariants of Nightly, proved |
| `NoticesProofs` | invariants of Reminders and of Outbox, proved |
| `OfficeProofs` | links of Telegram chats (Linking), the limiter (Access) and imports and changes (Catalogue), proved |
| `SandboxProofs` | invariants of Sandbox, proved |

Where an MC module holds modules that share nothing, a behaviour picks one at its
start (`scenario`, `desk`, `place`) and the others rest. Their properties then
cost one run, and each is still about one module.

### Movements

Every request is a transaction. `pc[c]` names the statement client c executes next
and `req[c]` the movement it is about. What it has written and not committed is its
workspace: `held` (locked balance rows), `rows` (inserted movements), `newHand`
(updated balances), `newBasis` (upserted statuses). Others see the workspace only as
locks: `LockBalance` waits for `held`, `InsertMovement` waits for a pending entry of
the two unique indexes and fails on a committed one, `Recalculate` waits for the
status row. `Commit` publishes the workspace at once, `Abort` drops it before any
statement. `basis[i]` is the balance the stored status of item i was computed from.

Choices a reader should know:
- a request that is rejected before its transaction (type, sign, reason, time of the
  event, missing key) changes nothing and is not a step;
- EnsureBalance is a no-op where the row exists, and where it does not, its insert
  makes others wait exactly as the lock does: a missing row is a zero;
- quantities are whole numbers; `numeric(14,3)` is the same arithmetic in thousandths,
  and its upper bound is out of scope;
- the Idempotency-Key is mandatory for POST /movements; for reversing
  (internal/stock/http.go:142) and posting (http.go:341) it is demanded and not used;
- the alert a status may emit is an insert with a unique key in the same transaction;
  it is in `Nightly`.

### Counts

`docStatus` and `lines` are the documents; `task[c]` is what client c does to one.
`CreateCount` is one step, at the moment it reads the balances. `SetCountLines` is
two: the status is read without a lock, then the lines are upserted and committed.
`PostCount` locks the document, takes its counted lines in any order (the query has
no ORDER BY), locks and compares each balance, and runs the statements of Movements
for each adjustment. Transactions that wait in a circle are broken by
`DeadlockVictim`, PostgreSQL's detector.

### Orders

`orderStatus`, `orderLines`, `onOrder` (committed `item_status.on_order`), and per
client `job`, `newOnOrder`, `seen`. Sending, cancelling and receiving lock the order
and go through its lines by name. Because sending and cancelling do not lock
balances, a status is computed in two steps here: `ReadInputs`, `UpsertStatus`.
`EndJob` is what ends with the transaction. The `WHERE status = ...` guards of the
UPDATEs repeat the check under the lock. NULL and 0 in `qty_received` are merged.
The balance and what is on order are read in one step (two statements in the code).
Lines are gone through in the order of `ByName`; `Listed` is the one listing of a set
of items that goes by it. A receipt's key names header, order and item
(receive.go:109-112), and no client sends one of that form as a key of its own
(`UserKeysAssumption`).
The `order_id` that POST /movements takes along is informational and left out.

### Nightly

`hand` and `total` are the balances and the sums of the journal, `status` the rows of
item_status together with the inputs they were computed from, `alerts` the
deduplication keys in the feed, `reds` every red ever committed. A mover
(`StartMove` to `CommitMove`) moves the items of its batch in order and recomputes
each one's status in its transaction: the balance under its lock, the forecast, the
previous status without one, the upsert, and the alert when the status has become
red. The night goes through its transactions one statement at a time: `StoreAll`
the forecasts, then `ReadItems`, `LoadForecasts`, `LoadPreviousStatuses`,
`PersistNext` for each item by id, `CommitNight`; `FailNight` sends it back to its
beginning. `ReadSums` and `ReadBalances` are Reconcile. What a transaction has of
some items only - balances, rows - is a function on those items, which `With`
extends by one.

A forecast is reduced to the quantity below which the item is red; the levels above
red are one. An item without a status counts as OK in Recalculate and as nothing in
RecalculateAll (service.go:73, batch.go:62), and is modelled so.

### Replenishment and Autopilot

`Replenishment` is the code's arithmetic in whole numbers, definition by definition:
the window (`DeliveryDate`, `WindowFor`), need, safety stock, shortage day, order
quantity, and the statuses of `Decide` with and without a forecast. `ZFactor` is
in hundredths, and the square root in the safety stock is rounded up to a whole number.

`Autopilot` closes the loop. A state is a day of the week, what is on hand, what is
coming and in how many days; a step is a part of the sandbox's virtual day: the
clock moves and what is due is received (`ShiftClock`), the day is consumed
(`ConsumeDay`), the status is recomputed and the advice ordered (`AutoOrder`). Days are relative, so
behaviours have no end and the state space is finite. Demand is anything up to the
forecast. The variable `lasting` records the conditions under which the code can
promise anything: the first delivery is not too late for the stock at the start,
orders come in full, and the hour at which orders are sent has not moved past the
supplier's cutoff since the last one.

### Outbox

A message is a notification and an address. `Claim` counts an attempt and nothing
else, as ClaimOutbox does; `try[p][m]` is the attempt number the pass carries;
`Send`, `Mark`, `MarkLost`, `SendTimesOut`, `Crash`. The clock is reduced to `due`.
`slips` counts what went wrong with a message: a timeout after acceptance, a result
that could not be stored, a crash, a claim while another pass held it. The safety
properties say that attempts and duplicates are explained by slips, one each.

### Reminders

`tasks` are queued by the hour; a worker takes one (`TakeTask`) and visits the
tenants in their order, one transaction per statement group: it computes the
tenant's local hour, reads what is to be told (the suggestions, the suppliers whose
cutoff is near, the late orders), and emits one notification per key. Each tenant has one
supplier. Whether something is suggested of it is left open at each look
(`suggested`); `open` has the days on which an order was sent that is still "sent",
which `HasOpenOrderForSupplier` asks for, and `CloseOrder` takes a day out of it when
what was sent is received or cancelled. `FailVisit` fails a tenant: the pass goes on,
and the whole task is put into `again`. `told` is a bag, so that a second
notification with one key would show. A task that failed is taken again only when no
pass of its kind is under way, and a day has `DayLength` hours.

### Linking, Catalogue, Access

In `Linking` a message's handler is the three statements of LinkChat - spend the
code, take the chat from its owner, give it - with row locks and the unique index on
chats. `expired` codes are refused by the first.

`Catalogue` runs an import statement by statement: the file is parsed
(`ParseLine`), the names that exist are read, the groups that rows ask for and that are
neither read nor made since (`Missing`) are inserted in the order of the rows, then
items and their opening stock; an insert waits for an open transaction's row of the
same name and fails on a committed one. A PATCH is one UPDATE that sets only the
fields it was given. Two transactions that wait for each other are broken by the
detector; with two requests there are no longer circles.

`Access` has the pipeline of the limiter (mark, count, expire) as one step, which
Redis makes it, and the failure of Redis before or after it. The clock is read in
that step.

### Sandbox

`demo[d]` holds the traces the guide looks for, the virtual days, the autopilot.
A request (`req[r]`) is a list of transactions: `CreateStep` (capacity, drop of the
old demo, shell, template, session), `FillStep`, `AdvanceStep`; `Fail` ends it
between any two, with the clean-up the code attempts. `Expire` and the actions of
`Cleanup` are the hourly task: list a batch, delete one after the other, list again
if the batch was full. `vain` counts the resets whose demo was no longer active when
they dropped it, which is when one demo more comes into being than was counted.

## 3. Runs

| run | expected | bounds | shows |
|---|---|---|---|
| `movements` | pass | 2 items, 2 clients (one owner), 2 keys, receipt and usage of 1, one item can be archived | types, balance = journal, CHECK never reached, status current, replies truthful, refines Ledger |
| `counts` | pass | 2 items, 2 clients; 1 document to be opened, 1 key; or 2 filled-in documents of the same items, which can be archived; 1 million states | posting exact, once, one batch; refines Ledger |
| `orders` | pass | 2 items, 2 clients, 1 order, 1 header, usage, one item can be archived | received once and as a whole; refines Ledger |
| `waits` | pass | the journal, 2 filled-in counts or 2 drafted orders of the same 2 items; 344 thousand states | every request ends |
| `nightly` | pass | night: 2 items, 1 mover, stock up to 1, 2 days, 1 night and 2 alternatives of a batch, or 2 nights and movements of one item; check: 2 movers; days: 4 suppliers, packs 0 and 3, least orders 0 and 4, sigma 0 and 1, stock up to 5, any demand up to the forecast; 761 thousand states | reds are alerted, on their day unless the night came between, alerts and drifts true, nights end, the advice suffices and is modest |
| `notices` | pass | Outbox: 1 notification, a live and a dead address, 2 passes, batch 2, 3 attempts, 2 slips each; Reminders: 2 tenants 2 hours apart, days of 3 hours, 2 orders, 2 workers, 1 failure | settles, bounded, explained, earned; reminded once, of what was true, nobody passed over |
| `sandbox` | pass | 1 visitor, 2 requests, 3 demos of which 1 may live and 1 cannot be deleted, 2 virtual days, batch 2 | templates once, days lived, overruns explained, finished demos entered, demos deleted |
| `office` | pass | 2 requests with 6 files; 2 messages, codes, users, chats; 2 attempts, limit 1, window 2; 405 thousand states | imports whole, patches survive, one link per code, admissions bounded, everything answered |
| `replay` | **violation** | 1 item, 2 keys | a repeat is refused although its movement exists |
| `outbox_twice` | **violation** | no slips but overlap | a message is sent twice |
| `orders_incoming` | **violation** | 1 client, 1 order | a received order still counted as on order |
| `advised_twice` | **violation** | the suppliers of `nightly`, no packs, no least order | a shortage is ordered again while its order is on its way |

Why the bounds suffice. Conflicts are between two transactions: about one balance,
one key, one movement to reverse, one document, one order, one code, one name, one
demo. Two clients give each of them; nothing stops a client from sending further
requests, and histories grow as long as keys and reversals last, so a balance
rises, falls and is corrected. Keys bound the number of recorded movements,
documents the number of counts. `MaxQty = 1` makes every usage compete for the last
unit. Two items give two lines to lock in either order, and a journal an error must
not leak into. `notices` uses 3 attempts where the code has MaxAttempts = 5:
reached, kept and exceeded are all there; its two zones put one tenant's hour of
the digest before the other's and on another day. `sandbox` has a demo to replace,
one in the making and one that cannot be deleted, and a limit of one that two
requests can overrun. `nightly` runs Autopilot on the terms the sandbox's own
suppliers have (generator.go) with a busy and a closed day; a least order above and a
pack that does not divide a day's usage make every branch of the rounding matter.
Its second night is what takes an alert away between a movement's reading and its
writing: without either of the two excuses, `UntoldMetTheNight` fails in this run.
`office` was explored once with three messages (17.8 million states) and once
with three attempts (19.7 million) without an error; two are kept to stay within
minutes. The constants named `Max...`, `Archivable`, `DayLength` and the sets of
quantities exist for bounding only. Symmetry is used in runs of safety properties
only.

`CHECK_DEADLOCK FALSE` stands where the bounded instance really stops: when all
messages are settled, all demos created and deleted, the last hour or day is over,
or every request has been answered. Elsewhere some request can always be made.

Fairness.
- Movements, Counts, Orders (`MCWaits`): strong fairness of each client's next
  statement. A transaction that has begun goes on, and PostgreSQL queues waiters of
  a lock, so a statement whose lock becomes free again and again gets its turn.
  Nobody is obliged to send a request; aborts may happen and are not fair.
  `DeadlockVictim` is part of a step because the detector runs after a second of
  waiting.
- Outbox: time passes (`ComeDue`), a free pass starts (the scheduler's 30 seconds),
  and a pass sends and records: weak fairness. Slips are finite, because a queue
  that crashes at every message settles nothing.
- Reminders: a pass takes its next step (strong, as it may wait for a row another
  pass inserted), a queued task is taken (weak). That hours pass is not assumed.
- Nightly: strong fairness of the movers and of the night, for the same locks.
- Sandbox: demos expire and the clean-up is run (weak). Requests are not fair: a
  visitor may go away at any moment.
- Catalogue, Linking: weak fairness of each request's next step, which waits only for
  one that goes on. Access claims no liveness.

### Violations

They are disagreements between the code and its own documents; "findings" in
PROJECT.json quotes both.
- `replay`: the key of a request is looked up before the balance is locked, so a
  repeat whose twin commits in between is refused for want of stock, where FR-10
  promises the movement.
- `outbox_twice`: two passes that overlap send a message twice, where ADR-004 says
  never. A claim does not move the time at which a message is due.
- `orders_incoming`: a line of which nothing came keeps its quantity "on order",
  where the acceptance protocol says that it goes to zero.
- `advised_twice`: when the orders of today and tomorrow come with the same
  delivery, d1 = d2, and the order of today is not counted as coming. An item that
  is red is then advised again each day until it comes, which the acceptance
  protocol says the system does not do.

Other disagreements met on the way, described here because no run states them:
- the reminder before the cutoff is held back by an order of today that is still open
  (queries/orders.sql:108-111). One that was sent today and has been received or
  cancelled since does not hold it back, where the comments (notify/digest.go:191,
  queries/orders.sql:107) and docs/spec.md:259 say that an order sent today leaves
  nothing to remind of. `RemindersWereTrue` says what the query asks;
- a movement reads that its item is red, from another day; the night stores "in stock"
  (batch.go:73-98); the movement stores red again, rightly, and inserts no alert, since
  it has not got worse than what it had read (replenishment/service.go:72-75, 92).
  docs/architecture.md:74 and docs/spec.md:254-257 have an alert when an item turns red.
  `UntoldMetTheNight` says that nothing but the night costs an alert, and
  `RedIsAlerted`, a part of `NightlyInv`, that the first red is alerted even then;
- an item archived after Record has read `archived_at` (stock/service.go:151-160)
  still takes the movement, and Reverse does not read it at all;
- an entry that read "draft" rewrites the lines of a count posted meanwhile
  (counts.go:141-177), and an order's lines change after it was sent
  (orders/service.go:158) in the same way;
- sandbox/create.go:59 speaks of one transaction; there are several, and a demo
  that neither fills nor gets deleted waits for its expiry;
- an import whose category is inserted by somebody else in between ends in an
  internal error, not in a conflict (catalog/import.go:153-158);
- a full batch of demos that cannot be deleted is listed over and over
  (sandbox/cleanup.go:48);
- Decide looks 14 days ahead, and a supplier may take up to 60 (catalog/service.go:290);
- a cutoff soon after midnight has no reminding window on its own day
  (notify/digest.go:184-190);
- the limits on items and movements of a demo, MaxItems and MaxMovements, are not
  enforced anywhere, and a session's `Touch` is never called;
- a session whose Resolve fails stays in the table; refused attempts count for the
  limiter, and a success clears the marks of everybody at that address; an expired
  cookie is cleared by an answer that may come after a new login (auth/http.go:171);
- a critical alert is told once per item and day, however often it turned red;
- an item without a status counts as being in stock in Recalculate and as
  being nothing in RecalculateAll.

## 4. Proofs

### Movements

`MovementsProofs` proves, for any sets of items, clients, keys and any quantities:

| theorem | says |
|---|---|
| `TypeCorrect` | `Spec => []TypeOK` |
| `BalanceCorrect` | `Spec => []BalanceIsJournalSum` |
| `CheckNeverNeeded` | `Spec => []CheckNeverFires` |
| `StatusCorrect` | `Spec => []StatusIsCurrent` |
| `AnswersAreTruthful` | `Spec => RepliesAreTruthful` |
| `ImplementsLedger` | `Spec => RefinesLedger` |

The assumptions are the named ASSUMEs of Journal and Movements (null values are not
values; owners are clients; client-made types are receipt, usage, writeoff).

The argument. `BalanceIsJournalSum` is not inductive: a commit appends `rows[c]` and
installs `newHand[c]`, computed several statements earlier. `BalanceInv` adds what
carries the fact across: balance locks are exclusive, and for each client
(`ClientInv`) what its workspace may hold at each statement - no lock before
`insert`; from `insert` on, the lock and a balance that still covers the movement;
from `apply` on, the row it inserted; from `status` on, the new balance equal to the
committed one plus the row; and at `done` a status computed from it. Because nobody
else changes the committed balance of a locked row, the equation stays true until
the commit, where the sum of the appended journal is the new balance
(`AppendTotal`). `CheckNeverFires` and `StatusIsCurrent` are corollaries.

The refinement needs `LedgerInv` on top: a pending reversal is lawful, and a pending
row has a key and a `reverses` that no committed and no other pending row has
(`InsertIsFresh`). `CommitPosts` shows that a commit is a step of the ledger, and
`OthersStutter` that every other step leaves journal and balances alone.

`RunningTotals` is a recursive function, so its existence and uniqueness are proved by
induction and give `EmptyTotal` and `AppendTotal`. The library's induction theorems
take a predicate, which no installed prover can instantiate; `SetInduction`
(`SumTheorems`) states induction for a set of numbers instead, and
`FewInduction` for a set of finite sets, so that a proof can cite them with the set it
is about. From the second come the sums over a finite set: what one element adds
(`SumTakeOut`), that they are monotone and bounded (`SumMonotone`, `SumBounded`).
Orders, the limiter and the sandbox use them. What counts and orders need about
listing a set is in `ListingProperties` and `TailProperties`.

`AnswersAreTruthful` is an action property: each answer is given in the step that
checks what it says, under the locks the request holds (`BalanceInv` again).

### Counts

`CountsProofs` proves, for any items, clients, documents and quantities:

| theorem | says |
|---|---|
| `CountsTypeCorrect` | `CountsSpec => []CountsTypeOK` |
| `PostedOnce` | `CountsSpec => []AdjustmentsFollowPosting` |
| `CountsAreExact` | `CountsSpec => PostingIsExact` |
| `CountsKeepBalances` | `CountsSpec => [](BalanceIsJournalSum /\ StatusIsCurrent)` |
| `CountsImplementLedger` | `CountsSpec => CountsRefineLedger` |

It assumes that the items are a finite set, that the null document is no document
and that no task is not a task.

The argument. A posting writes one row after another, and nothing of it shows before
its commit; `AdjustmentsFollowPosting` says nothing of it. `CountInv` says, for each
transaction under way, what it holds. `WorkInv`: every row it has inserted is of an
item whose balance it holds, with the new balance and status that go with it, except
for the item it is at, where they are as far as the statement it has reached.
`RowsFit`: a posting inserts adjustments of its document and others insert none.
`DocInv` and `DocumentsExclusive`: whoever works on a document's lines holds the
document, a draft. `LinesInv`: a line that was compared is locked and either reported
as changed or going to the quantity counted; a line still to be compared has no
row. `LawInv` and `NoClashes`: rows that will be committed have keys and reverses no
other row has. Each is kept by a transaction that rests (`RestingClient`,
`RestingLaw`) because what it relies on is locked, and by each statement of the one
that moves; `PublishCount` is the commit. `PostingIsExact` is then what `LinesInv`
says when no line is left and none was reported.

### Orders

`OrdersProofs` proves, for any items, clients, orders, headers and quantities:

| theorem | says |
|---|---|
| `OrdersTypeCorrect` | `OrdersSpec => []OrdersTypeOK` |
| `ReceivedOnce` | `OrdersSpec => []ReceiptsMatchOrder` |
| `OrdersKeepBalances` | `OrdersSpec => []BalanceIsJournalSum` |
| `OrdersImplementLedger` | `OrdersSpec => OrdersRefineLedger` |

It assumes that `ByName` lists every item once (so items are finite), that orders are a
finite set - what is on order is a sum over them - that clients' own keys are not
receipts' keys, and that null values are not values.

The argument. The journal is as it was until an order's commit, so
`ReceiptsMatchOrder` says nothing of the receipts of an order that is being received,
nor why a second delivery cannot add them once more. `OrderInvs` does.
`OrderInv` and `OrdersExclusive`: an order a transaction has locked is in the status
it was found in, so whoever receives one receives an order that is still sent - of
which, by `ReceiptsMatchOrder` itself, no receipts exist. That is also why the key
check of a line always goes on (`ReceiptKeyIsNew`). `WorkInv`, as in Counts: rows and
balances of all lines but the current one are finished and their balances locked.
`RowsFit`: what a receiving transaction inserts is a receipt with the key of its
line and the quantity taken; what others insert has no such key. `LinesInv`: a line
still to come has no row, and one that was passed has, if anything of it came. So at
the commit (`FinishOrderReceipts`) exactly the lines of which something came have
their one receipt, and say how much. `KeysInPlace` keeps a receipt's key to the
journal of its own item, and `LawfulBatch` shows the keys of a batch distinct. Edits
of a draft (`LinesKept`), new orders (`StatusKept`) and transactions that rest
(`RestingClient`) leave all of it alone.

`StatusIsCurrent` is not claimed of Orders, where it is false: sending and cancelling
compute a status from a balance they do not lock.

### Nightly

`NightlyProofs` proves, for any items, batches, forecasts, movers, days and nights:

| theorem | says |
|---|---|
| `NightlyIsSound` | `NightlySpec => []NightlyInv` |
| `RedsUntoldMetTheNight` | `NightlySpec => UntoldMetTheNight` |
| `AlertsAreAboutReds` | `NightlySpec => []AlertsAreTrue` |
| `DriftIsAlwaysARace` | `NightlySpec => []DriftsAreRaces` |

It assumes that items are a finite set of numbers (their ids are sorted), that a
transaction names an item once, and that null values are not values.

The argument. `Inv` adds what transactions have read and not committed.
`MoveFits`: a movement holds exactly the balances it has changed, each is the
committed one plus its quantity, and the statuses it has written were computed from
them - so at its commit no status of its own is stale. `LocksDisjoint` keeps a
commit from moving a balance another holds. `WritesFit`, for a movement and the night
alike: each red row is alerted, by the transaction's own alerts or by committed ones,
and each alert is about one of its red rows. The case that matters is the alert that is
not sent because the previous status was red already. The previous status was read
without a lock and may be another by the time of the upsert; but what was read was
committed, and an alert once committed stays (`AlertedStays`). `CheckInv`: a sum the
reconciliation has read is out of date only where a movement was committed since.

`UntoldMetTheNight` is about the day of the alert, and an alert of an earlier day is
no answer. `Compared` says of a movement that has read a previous status that it is
still the committed one, or one the night has stored; and of each red row it has
written that it has an alert of its day, or that the committed status is red or the
night's. The locks give it (`CommitLeavesHeld`): another movement would need the balance
this one holds, so only the night can change the status meanwhile
(`CommitNightIsKnown`).

### Outbox

`NoticesProofs` proves, for any number of messages, addresses, passes and slips:

| theorem | says |
|---|---|
| `OutboxTypes` | `Spec => []OutboxTypeOK` |
| `OutboxDuplicates` | `Spec => []DuplicatesHaveReasons` |
| `OutboxRetries` | `Spec => []RetriesAreBounded` |
| `OutboxMarks` | `Spec => []MarksAreEarned` |

It assumes what the code fixes (the batch and the number of attempts are positive),
that dead addresses are addresses, and that the passes are a finite set: they are
counted.

The argument. None of the three is inductive: a pass decides by the attempt it
claimed, long after others may have claimed the same message. `OutboxInv` follows
one message. A pass that holds it and has not been told that it was taken is
unsettled and may deliver it once more, so `DeliveriesToCome` bounds deliveries and
unsettled passes together by one plus the slips. `AttemptsSince` says that the
attempts counted since a pass's claim are slips, as only a claim of a message
held by another pass can count one: so a pass that sees its last attempt and gives
up, or an earlier one and does not, is right but for slips. `FreeToClaim` is what
both are for a message nobody holds: it may be claimed once more. `RepliesAreHeld`
carries what happened to a message until its result is recorded, which gives
`MarksAreEarned`. Each action has its step, and under it one for each of these.

### Reminders

`NoticesProofs` proves, for any tenants, zones, orders, workers and any number of hours
and failures:

| theorem | says |
|---|---|
| `ReminderIsGivenOnce` | `RemindersSpec => []RemindedOnce` |
| `NobodyIsPassedOver` | `RemindersSpec => []EveryTenantIsServed` |
| `RemindersAreTrue` | `RemindersSpec => RemindersWereTrue` |

It assumes that hours are numbers, that a day has at least one, and that orders are
a finite set (a pass goes through them by id).

The argument. `RemindedOnce` is about committed notifications, and a task that failed
for one tenant is run again for all, next to other passes of it. `WrittenApart` is
what the unique key gives: what a pass has written is written by nobody else and
not yet told. `EveryTenantIsServed` is about passes that ended within an hour, so
`ServedSoFar` follows one that is still going: every tenant it has left has been
told what the hour asks for or has a reason of its own, and at each stage of a visit the
key of that hour is what it is about to write, or has written, or was there before.
An hour that ends makes it say nothing, a failure adds a reason for one tenant
only. `Heeds` says that whatever a pass is about to say was so when it looked, or has
been noted since: receipts and orders by others are the only steps that disturb it,
and an order that is closed makes nothing untrue. That a reminder is held back by an
order since closed is not claimed: the code sends it. Each action has its lemma, shown for one worker, and
`OthersFit` for the rest.

### Links

`OfficeProofs` proves `CodesAreBoughtOnce`, which is `CodesBuyOneLink`, for any number
of messages, codes, users and chats, with transactions that overlap, fail or are ended
by the database at any point. `LinkingInv` has the types and three arguments. The code:
`SpentIsGood` and `SpentOnce` say that a transaction past the first statement has spent
a code no other is spending and no link has used, so the link it commits is the
code's first; `LinksAreBought` carries that to the committed rows. The answer:
`RepliesAreLast` ties what the bot says to what is committed. The chat: the unique index
only ever sees committed rows and the transaction's own, so `RowsAreLocked`,
`OneChatGiven` and `GivenChatIsFree` say what uncommitted transactions may have
written - nothing, or one chat which no committed row but the transaction's own and no
other transaction has - and `ChatsAreSingle` follows at the commit.

### The limiter

`OfficeProofs` proves `LimitIsKept`, which is `AccessSpec => []AdmissionsAreBounded`, for
any number of attempts, addresses, e-mails and hours, any limit and any window. It assumes
what ratelimit.go is given: a limit that is a number, a window of at least one unit.

The argument. The property is about what was let in, in every window, and the code
counts marks, in the window that ends now. `MarksCoverAdmissions` relates them: what was
let in within the current window has its mark, as marking and counting are one step
and marks are removed only when they have left the window or when a success clears the
key. So an attempt that is let in finds at most the limit, its own mark included,
in the window that ends now (`LetIn`, a sum compared with a sum). Every later window has
no more of the past than this one (`LaterWindows`), and earlier ones do not
have this attempt (`WindowsMeet`): that is where a fixed window would fail. Refused
attempts are marked too, which only makes the sum of marks larger. `SessionFollows` ties
the steps after the limiter to the session.

### Imports and changes

`OfficeProofs` proves, for any number of requests, any files and any sets of names:

| theorem | says |
|---|---|
| `CatalogueHolds` | `CatalogueSpec => []CatalogueInv` |
| `ImportsAreAllOrNothing` | `CatalogueSpec => []ImportsAreWhole` |
| `ChangesAreKept` | `CatalogueSpec => []PatchesSurvive` |

It assumes that files are sequences of lines, each blank, wrong or a row of names and a
number, that the bound on rows is a number, and that there is a name for an item and one
for a group.

The argument for imports. `Fits` says what a request's transaction contains at each
statement. The lines of the items it has made are those of the rows it has passed, so
at the commit they are all of them (`ImportFits`); it has counted the groups it has made;
every row's group is known before the first item (`AllKnown`: when nothing is `Missing`),
and what is known is committed or the transaction's own (`MakerFits`) - the clause that
`ReadUncommitted` breaks. Until it commits, no committed row is its. Afterwards
(`ImportStands`) others may rewrite its items, but put in their place rows with the same id
and maker, whose groups are committed (`CommitLeavesImports`), and groups are never
deleted. What an accepted row is follows from reading a file line by line, by induction over
its lines (`RowsAreParsed`).

The argument for changes. `PatchesSurvive` is about some row with an item's id;
`PatchesStand` says it of every row with that id, which makes it inductive. An update's row
is the committed row with one field changed, and stays so until it commits
(`UpdateFits`), because the update statement reads it under the row lock and no other
transaction then changes the item (`UpdatesApart`). The commit thus changes the
field it was asked to and copies the others as they were last changed
(`CommitKeepsPatches`, `ChangeOfOneField`).

### Sandbox

`SandboxProofs` proves, for any number of visitors, requests and demos, any limits,
and with the clean-up at work between any two transactions:

| theorem | says |
|---|---|
| `SandboxIsInductive` | `Spec => []SandboxInductive` |
| `TemplatesAreAppliedOnce` | `Spec => []SandboxInv` |
| `NoDayIsSkipped` | `Spec => []DaysAreLived` |
| `LimitsAreOverrunByOthersOnly` | `Spec => []OverrunsAreExplained` |
| `DemosAreFinishedFirst` | `Spec => VisitorsEnterFinishedDemos` |

It assumes that the limits are numbers, that requests are a finite set with a member
(they are counted), and that no request is not a request.

The argument is about ownership. A demo that is being made belongs to the request that
makes it: nobody has a session in it and no other request works in it (`Apart`), so
`ReqFits` can say at each stage what it contains, up to the stage that opens the session.
That is `DemosAreFinishedFirst`; the request's own deletion after a failure and the
clean-up are the only others to touch it, and leave nothing to enter. A step of
the guide belongs to whoever holds the lock of the demo (the second half of `Apart`): what
it read of the history or the count, in a transaction of its own, is still so when it
writes. A day belongs to the request that moved the clock to it, until it has written
its usage or failed: `DaysAreLived` is inductive given that. The bounds count what has
been promised and not yet used: `ActiveBounded` the requests that have passed the
check and not yet made their demo, `DaysBounded` the days requests still owe
(`Owed`, a sum over requests, bounded by a week each with `SumBounded`). The last
request to pass a check found the limit respected, so the others are what overruns it. The
inductive invariant was checked by TLC in the run's instance before it was proved.

### Replenishment

`NightlyProofs` begins with the arithmetic, and proves, for any supplier and item:
`DeliveriesKeepOrder` (an order placed later is not delivered earlier),
`WindowIsOrdered` (d1 and d2 exist, respect the lead time and come in order within
eight days of it; the cutoff moves the window on by one order day) and
`RecommendationIsSufficient` (the recommended quantity makes up for the shortfall in
whole packs, is no less than the least order, and exceeds it by at most a least
order and a pack). The lemmas are about rounding (`CeilToPositive`) and the days of
the week (`EveryWeekday`, `FirstOfSeven`): among seven days in a row each weekday
occurs, so the search for a day of delivery always ends.

Then come Autopilot's promises, for every calendar, usage, horizon, pack and least
order, and for ever:

| theorem | says |
|---|---|
| `AdviceIsEnough` | `AutopilotSpec => []AdvicePreventsShortage` |
| `AdviceIsNeverMuch` | `AutopilotSpec => AdviceIsModest` |

The assumptions are `AutopilotAssumption` (the lead time of a day at least, the
deliveries within the forecast, quantities natural numbers) and `NoDayAssumption`
(the value for "no shortage in sight" is not a day).

`AdvicePreventsShortage` says nothing of the stock and is not inductive. `StockLasts` is:
with `Stock(k)` the quantity left after `k` more days if all of them ask for the most,
it is not negative for any `k` before the next delivery (d1), and, once the day's
advice has been followed, for any before the one after it (d2). Each step has a reason of its own:
- `ConsumeDay`: today's usage is in `Stock(0)`, so what is asked for is there, and a
  smaller usage leaves no more to be used (`Due`) than has been counted;
- `AutoOrder`: nothing on its way comes later than d1, so from d1 to d2 the stock only
  falls, and its last value is at least minus the shortfall (`NeedIs`, `AdviceIs`).
  If there is no shortfall it is not negative; if there is one, an item that cannot wait is
  suggested whatever its colour, and the order makes up for all of it on d1;
- `ShiftClock`: an order sent today is for d1, and the first delivery of tomorrow is no
  later than today's d2 (`NextWindow`), unless the hour has moved past the cutoff; so
  `Stock` of tomorrow is that of today from a day later on. This is where the definition of
  d2 (an order placed one day later) is needed.

That `lasting` at the start implies the invariant is the correctness of
`ProjectStockout` (`ProjectedIs`). The sums over days are recursive functions; the lemmas on
them (`SumOfStep`, `SumOfFirst`, `SumOfShift`, `SumOfStill`, `SumOfOneMore`) are proved by
`DayInduction`, and `SumOfIsSumOver` equates the sum over a set of orders with the sum
over the days. `UsageNext` and `DeliveryNextWeek` say that the calendar repeats, which
is why days can be counted from today. The invariant was checked by TLC on the constants of
the run `nightly` before it was proved.

### Only model-checked

- Liveness (`NightsEnd`, `DemosComeToAnEnd`, the requests that end, the messages that
  settle, the late orders that are told of): fairness and ENABLED are
  beyond the prover.
- The runs that expect a violation.

## 5. Not modelled, and hazards without a property

Components left out: dashboard and insights (read-only views), HTTP, configuration,
metrics and logging, generated queries (one statement each, part of the action that
runs it), the web client, seed data and deployment.

Of components that are modelled in part:
- forecasts are floating-point arithmetic over a series without a state of its own;
  only the order in which the pipeline's transactions commit is modelled;
- a supplier's terms (`SetTerms`, one upsert) and reading the catalogue;
- sign-out is there, invitations, passwords and the audit are not;
- the daily removal of old sessions and series: single statements;
- the journal page, read marks, the wording of messages and explanations.

What a model assumes that the code does not say:
- Autopilot: a lead time of at least a day, and deliveries within the 14 days the
  forecast covers; with a longer lead time, or after the hour at which the autopilot
  orders has moved past the cutoff, nothing is promised;
- Reminders: a failed task is repeated after the passes of its kind under way;
- Access: the clock is read at the moment the limiter's pipeline runs;
- Linking and Catalogue: with two transactions a circle of waits has two members.

Hazards without a property, in PROJECT.json with reasons: an entry that upserts lines
in random map order can deadlock with another; archiving, an entry and an order's
edit race with what they were checked against (described above); the statuses that
sending and cancelling compute can be stale, so `StatusIsCurrent` is claimed for
movements only, and `NightlyInv` says that stale statuses are the night's.

## 6. Plan

1. *done* Journal, Ledger, Movements with proofs; Counts; Orders; Outbox with proofs.
2. *done* Replenishment with proofs, Autopilot; Nightly; Reminders; Linking
   with proofs; Catalogue; Access; Sandbox; Counts and Orders together (`MCWaits`).
3. *done* `CountsProofs`, `OrdersProofs` and `NightlyProofs`.
4. *done* `NoticesProofs` with the reminders, `OfficeProofs` with the limiter and the
   catalogue, `SandboxProofs`; Autopilot in `NightlyProofs`.
