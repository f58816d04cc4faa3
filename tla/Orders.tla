------------------------------- MODULE Orders -------------------------------
(***************************************************************************)
(* Purchase orders (internal/orders: service.go, receive.go) next to the   *)
(* recording and reversing of movements.                                   *)
(*                                                                         *)
(* Sending, cancelling and receiving lock the order and then go through    *)
(* its lines in the order of the items' names, all in one transaction.     *)
(* Receiving a line records a receipt with the statements of Movements;    *)
(* sending and cancelling only recompute the status of its item.  Here the *)
(* status has both its stock inputs - the balance and what is on order -   *)
(* and is computed in two steps, because sending and cancelling do not     *)
(* lock the balance: inputs are read, then the row is upserted.            *)
(*                                                                         *)
(* Naming an order that does not exist changes nothing and is not a step.  *)
(* Suppliers, prices and dates are left out, and so is the order_id that   *)
(* POST /movements takes along for information: a receipt of an order is   *)
(* known by its key.                                                       *)
(*                                                                         *)
(* A lost reply needs no step: the client that repeats its request is a    *)
(* client with a new request.                                              *)
(***************************************************************************)
EXTENDS Movements, SequencesExt

CONSTANTS
  ByName,     \* the items, sorted by name
  UserKeys,   \* idempotency keys of POST /movements
  Headers,    \* idempotency keys of POST /orders/{id}/receive
  NoOrderLine,     \* the order has no line for an item
  NoJob,      \* the client is not working on an order
  NoSight     \* no inputs of a status have been read

\* The key of a receipt: header, order, item.
ReceiptKey(h, d, i) == <<h, d, i>>

ASSUME KeysAssumption ==
  Keys = UserKeys \cup {ReceiptKey(h, d, i) : h \in Headers, d \in Docs, i \in Items}

ASSUME ByNameAssumption ==
  ByName \in Seq(Items) /\ IsInjective(ByName) /\ ToSet(ByName) = Items

\* A receipt's key names its header and order; no client makes up one like it.
ASSUME UserKeysAssumption ==
  \A h \in Headers, d \in Docs, i \in Items : ReceiptKey(h, d, i) \notin UserKeys

ASSUME DocsAssumption == IsFiniteSet(Docs)

VARIABLES
  orderStatus,  \* purchase_orders.status; "none" before the order is created
  orderLines,   \* purchase_order_lines of each order
  onOrder,      \* item_status.on_order: committed
  newOnOrder,   \* ... and upserted by each transaction
  seen,         \* the inputs a transaction has read for a status
  job           \* what a client's transaction is doing to an order

orders    == <<orderStatus, orderLines>>
orderWork == <<newOnOrder, seen, job>>
orderVars == <<vars, orders, onOrder, orderWork>>

\* received is 0 until the order is received: NULL and 0 differ only in what the
\* mismatch notification says.
OrderLine == [ordered : 1..MaxQty, received : 0..MaxQty]

\* Quantities for some of the items.
Some == UNION {[S -> 0..MaxQty] : S \in SUBSET Items}

\* What a transaction does to an order: edit its lines, or send, cancel or
\* receive it.
Editing == [order : Docs, op : {"update"}, wanted : Some]
Processing == [order : Docs, op : {"send", "cancel", "receive"},
               header : Headers \cup {NoKey}, actual : Some \cup {<<>>},
               taken : [Items -> 0..MaxQty \cup {NoOrderLine}], todo : Seq(Items)]

ASSUME NoOrderLineAssumption == NoOrderLine \notin OrderLine \cup Nat
ASSUME NoJobAssumption == NoJob \notin Editing \cup Processing

OrdersInit ==
  /\ Init
  /\ orderStatus = [d \in Docs |-> "none"]
  /\ orderLines  = [d \in Docs |-> Empty(NoOrderLine)]
  /\ onOrder     = Empty(0)
  /\ newOnOrder  = [c \in Clients |-> Empty(Unset)]
  /\ seen        = [c \in Clients |-> NoSight]
  /\ job         = [c \in Clients |-> NoJob]

StatusOf(op) == CASE op = "send"    -> "sent"
                  [] op = "receive" -> "received"
                  [] op = "cancel"  -> "cancelled"

\* The transaction holds the order's row and has changed its status.
HoldsOrder(c) == job[c] # NoJob /\ pc[c] \notin {"order", "update"}

OrderFree(c, d) == \A e \in Clients \ {c} : HoldsOrder(e) => job[e].order # d

SumOverDocs(f) == MapThenSumSet(LAMBDA d : f[d], Docs)

\* ListIncomingForItem, as a transaction sees it: what sent orders ask for.
Incoming(c, i) ==
  LET statusSeen(d) == IF HoldsOrder(c) /\ job[c].order = d
                       THEN StatusOf(job[c].op) ELSE orderStatus[d]
  IN  SumOverDocs([d \in Docs |->
        IF statusSeen(d) = "sent" /\ orderLines[d][i] # NoOrderLine
        THEN orderLines[d][i].ordered ELSE 0])

\* Mutant: statuses upserted by a transaction outlive its rollback.
EndJobKeepsStatuses(c) ==
  /\ seen' = [seen EXCEPT ![c] = NoSight]
  /\ job'  = [job EXCEPT ![c] = NoJob]
  /\ UNCHANGED newOnOrder

\* What ends with the transaction, besides what ends in Movements.
EndJob(c) ==
  /\ newOnOrder' = [newOnOrder EXCEPT ![c] = Empty(Unset)]
  /\ seen'       = [seen EXCEPT ![c] = NoSight]
  /\ job'        = [job EXCEPT ![c] = NoJob]

-----------------------------------------------------------------------------
(* Create and UpdateLines                                                   *)

\* Nobody knows the order before it is committed.  Quantities of zero add no
\* line.
Create(d, wanted) ==
  /\ orderStatus[d] = "none"
  /\ orderStatus' = [orderStatus EXCEPT ![d] = "draft"]
  /\ orderLines' = [orderLines EXCEPT ![d] =
       [i \in Items |-> IF wanted[i] = 0 THEN NoOrderLine
                        ELSE [ordered |-> wanted[i], received |-> 0]]]
  /\ UNCHANGED <<vars, onOrder, orderWork>>

\* The status is read without a lock.
StartUpdateLines(c, d, wanted) ==
  /\ orderStatus[d] = "draft"
  /\ Begin(c, NoReq, "update")
  /\ job' = [job EXCEPT ![c] = [order |-> d, op |-> "update", wanted |-> wanted]]
  /\ UNCHANGED <<orders, onOrder, newOnOrder, seen>>

\* A line that a receiving transaction has written is locked until it ends; the
\* foreign key of a new line waits for whoever has locked the order.
LinesFree(c, d, S) ==
  /\ (\E i \in S : orderLines[d][i] = NoOrderLine) => OrderFree(c, d)
  /\ \A e \in Clients \ {c} :
       (HoldsOrder(e) /\ job[e].order = d /\ job[e].op = "receive") =>
          \A i \in S : i \in ToSet(job[e].todo) \/ job[e].taken[i] = NoOrderLine

\* The upserts and deletes, and the commit.
WriteOrderLines(c) ==
  LET d      == job[c].order
      wanted == job[c].wanted
      was(i) == IF orderLines[d][i] = NoOrderLine THEN 0 ELSE orderLines[d][i].received
  IN
  /\ pc[c] = "update"
  /\ LinesFree(c, d, {i \in DOMAIN wanted : wanted[i] > 0 \/ orderLines[d][i] # NoOrderLine})
  /\ orderLines' = [orderLines EXCEPT ![d] =
       [i \in Items |->
          IF i \notin DOMAIN wanted THEN orderLines[d][i]
          ELSE IF wanted[i] = 0 THEN NoOrderLine
          ELSE [ordered |-> wanted[i], received |-> was(i)]]]
  /\ Rollback(c, "done")
  /\ EndJob(c)
  /\ UNCHANGED <<archived, orderStatus, onOrder>>

-----------------------------------------------------------------------------
(* Send, Cancel, Receive                                                    *)

StartOrderJob(c, d, op, header, actual) ==
  /\ orderStatus[d] # "none"
  /\ Begin(c, NoReq, "order")
  /\ job' = [job EXCEPT ![c] = [order |-> d, op |-> op, header |-> header,
                                actual |-> actual, taken |-> Empty(NoOrderLine),
                                todo |-> <<>>]]
  /\ UNCHANGED <<orders, onOrder, newOnOrder, seen>>

Allowed(op) == CASE op = "send"    -> {"draft"}
                 [] op = "receive" -> {"sent"}
                 [] op = "cancel"  -> {"draft", "sent"}

\* Mutant: lines in no particular order.
ListedAnyhow(S) == SetToSeqs(S)

Before(i, j) ==
  \E m, n \in DOMAIN ByName : m < n /\ ByName[m] = i /\ ByName[n] = j

\* ListPurchaseOrderLines has ORDER BY name.
Listed(S) ==
  {s \in SetToSeqs(S) : \A m, n \in DOMAIN s : m < n => Before(s[m], s[n])}

\* What is received of the lines l: what the request says, or what was ordered.
Taken(l, actual) ==
  [i \in Items |-> IF l[i] = NoOrderLine THEN NoOrderLine
                   ELSE IF i \in DOMAIN actual THEN actual[i] ELSE l[i].ordered]

\* The lines are read, and are what the rest of the transaction goes by.
ListLines(c) ==
  LET d == job[c].order
      S == {i \in Items : orderLines[d][i] # NoOrderLine}
  IN  \E todo \in Listed(S) :
        job' = [job EXCEPT ![c].taken = Taken(orderLines[d], job[c].actual),
                           ![c].actual = <<>>, ![c].todo = todo]

\* Mutant: the order is read without FOR UPDATE.
ReadOrder(c) ==
  /\ pc[c] = "order"
  /\ orderStatus[job[c].order] \in Allowed(job[c].op)
  /\ ListLines(c)
  /\ Goto(c, "line")
  /\ UNCHANGED <<committed, archived, req, workspace, outcome, orders, onOrder,
                 newOnOrder, seen>>

\* GetPurchaseOrderForUpdate, the checks, the new status and the list of lines.
\* Cancelling a cancelled order is no error and no change either.
LockOrder(c) ==
  LET d == job[c].order
      ok == /\ orderStatus[d] \in Allowed(job[c].op)
            /\ orderLines[d] # Empty(NoOrderLine) \/ job[c].op = "cancel"
  IN
  /\ pc[c] = "order"
  /\ OrderFree(c, d)
  /\ \/ /\ ~ ok
        /\ Rollback(c, "refused")
        /\ EndJob(c)
     \/ /\ ok
        /\ ListLines(c)
        /\ Goto(c, "line")
        /\ UNCHANGED <<committed, req, workspace, outcome, newOnOrder, seen>>
  /\ UNCHANGED <<archived, orders, onOrder>>

\* Between two lines.
AtOrderLine(c) == pc[c] = "line" /\ job[c].todo # <<>>

\* The item whose status is being computed.
CurrentItem(c) == IF job[c] # NoJob /\ job[c].op # "receive"
                  THEN Head(job[c].todo) ELSE req[c].item

\* Sending or cancelling a line, and recording any movement, ends with the
\* status of the item: its inputs are read, with no lock of their own ...
ReadInputs(c) ==
  LET i == CurrentItem(c) IN
  /\ pc[c] = "status" \/ (AtOrderLine(c) /\ job[c].op # "receive")
  /\ seen' = [seen EXCEPT ![c] = [hand |-> Hand(c, i), onOrder |-> Incoming(c, i)]]
  /\ Goto(c, "upsert")
  /\ UNCHANGED <<committed, archived, req, workspace, outcome, orders, onOrder,
                 newOnOrder, job>>

\* ... and the row is upserted, after whoever is writing it.
UpsertStatus(c) ==
  LET i == CurrentItem(c) IN
  /\ pc[c] = "upsert"
  /\ StatusFree(c, i)
  /\ newBasis'   = [newBasis EXCEPT ![c][i] = seen[c].hand]
  /\ newOnOrder' = [newOnOrder EXCEPT ![c][i] = seen[c].onOrder]
  /\ seen'       = [seen EXCEPT ![c] = NoSight]
  /\ \/ /\ job[c] = NoJob
        /\ Goto(c, "done")
        /\ UNCHANGED <<job, req>>
     \/ /\ job[c] # NoJob
        /\ Goto(c, "line")
        /\ req' = [req EXCEPT ![c] = NoReq]
        /\ job' = IF job[c].op = "receive" THEN job
                  ELSE [job EXCEPT ![c].todo = Tail(@)]
  /\ UNCHANGED <<committed, archived, held, rows, newHand, outcome, orders,
                 onOrder>>

\* A line of a receipt.  What did not come at all makes no movement and leaves
\* the status of its item as it is.
ReceiveLine(c) ==
  LET i == Head(job[c].todo)
      n == job[c].taken[i]
  IN
  /\ AtOrderLine(c)
  /\ job[c].op = "receive"
  /\ job' = [job EXCEPT ![c].todo = Tail(@)]
  /\ \/ /\ n = 0
        /\ UNCHANGED <<pc, req>>
     \/ /\ n > 0
        /\ req' = [req EXCEPT ![c] =
             [op |-> "receive", item |-> i,
              row |-> [type |-> "receipt", qty |-> n,
                       key |-> ReceiptKey(job[c].header, job[c].order, i),
                       reverses |-> 0, by |-> c, doc |-> job[c].order]]]
        /\ Goto(c, "key")
  /\ UNCHANGED <<committed, archived, workspace, outcome, orders, onOrder,
                 newOnOrder, seen>>

\* A receipt whose key is in the journal already is not an error.
CheckReceiptKey(c) ==
  /\ pc[c] = "key"
  /\ job[c] # NoJob
  /\ Goto(c, IF KeyUsed(journal, req[c].row.key) THEN "line" ELSE "item")
  /\ UNCHANGED <<committed, archived, req, workspace, outcome, orders, onOrder,
                 orderWork>>

\* The commit: status, lines, movements, balances and statuses at once.
FinishOrder(c) ==
  LET j == job[c]
      receivedOf(i) == IF j.op = "receive" /\ j.taken[i] # NoOrderLine
                       THEN j.taken[i] ELSE orderLines[j.order][i].received
  IN
  /\ pc[c] = "line"
  /\ j.todo = <<>>
  /\ orderStatus' = [orderStatus EXCEPT ![j.order] = StatusOf(j.op)]
  /\ orderLines' = [orderLines EXCEPT ![j.order] =
       [i \in Items |-> IF orderLines[j.order][i] = NoOrderLine THEN NoOrderLine
                        ELSE [ordered |-> orderLines[j.order][i].ordered,
                              received |-> receivedOf(i)]]]
  /\ onOrder' = Merged(newOnOrder[c], onOrder)
  /\ Publish(c)
  /\ End(c, "done")
  /\ EndJob(c)
  /\ UNCHANGED archived

-----------------------------------------------------------------------------

\* The statements of Movements, for a request of its own or a received line;
\* an error ends the whole transaction.
OrderMovementStep(c) ==
  /\ \/ job[c] = NoJob /\ (CheckKey(c) \/ CheckReversal(c))
     \/ ReadItem(c) \/ LockBalance(c) \/ InsertMovement(c) \/ ApplyMovement(c)
  /\ IF pc'[c] = "idle" THEN EndJob(c) ELSE UNCHANGED orderWork
  /\ UNCHANGED <<orders, onOrder>>

CommitMovement(c) ==
  /\ Commit(c)
  /\ onOrder' = Merged(newOnOrder[c], onOrder)
  /\ EndJob(c)
  /\ UNCHANGED orders

OrderStep(c) ==
  \/ OrderMovementStep(c)
  \/ CommitMovement(c)
  \/ WriteOrderLines(c)
  \/ LockOrder(c)
  \/ ReadInputs(c)
  \/ UpsertStatus(c)
  \/ ReceiveLine(c)
  \/ CheckReceiptKey(c)
  \/ FinishOrder(c)

BeginOrderMovement(c) ==
  /\ \/ \E i \in Items, type \in Kinds, n \in 1..MaxQty, k \in UserKeys :
          StartRecord(c, i, type, n, k)
     \/ \E i \in Items : \E n \in DOMAIN journal[i] :
          StartReverse(c, i, n) \/ RefuseReverse(c, i, n)
  /\ UNCHANGED <<orders, onOrder, orderWork>>

BeginOrder(c, d) ==
  \/ \E wanted \in Some : StartUpdateLines(c, d, wanted)
  \/ \E op \in {"send", "cancel"} : StartOrderJob(c, d, op, NoKey, <<>>)
  \/ \E h \in Headers, actual \in Some : StartOrderJob(c, d, "receive", h, actual)

OrdersNext ==
  \/ \E c \in Clients :
       \/ BeginOrderMovement(c)
       \/ \E d \in Docs : BeginOrder(c, d)
       \/ OrderStep(c)
       \/ Abort(c) /\ EndJob(c) /\ UNCHANGED <<orders, onOrder>>
  \/ \E d \in Docs, wanted \in [Items -> 0..MaxQty] : Create(d, wanted)
  \/ \E i \in Items : ArchiveItem(i) /\ UNCHANGED <<orders, onOrder, orderWork>>

OrdersSpec == OrdersInit /\ [][OrdersNext]_orderVars

-----------------------------------------------------------------------------
(* Properties *)

\* Orders, their lines, and what transactions hold of them.
OrdersTypeOK ==
  /\ orderStatus \in [Docs -> {"none", "draft", "sent", "received", "cancelled"}]
  /\ orderLines \in [Docs -> [Items -> OrderLine \cup {NoOrderLine}]]
  /\ onOrder \in [Items -> Nat]
  /\ newOnOrder \in [Clients -> [Items -> Nat \cup {Unset}]]
  /\ \A c \in Clients : pc[c] = "idle" => job[c] = NoJob /\ seen[c] = NoSight
  /\ \A c \in Clients : \A i \in Items :
       newOnOrder[c][i] = Unset <=> newBasis[c][i] = Unset

\* The receipts of order d for item i: the movements with its keys.
ReceiptsOf(d, i) ==
  {n \in DOMAIN journal[i] : \E h \in Headers : journal[i][n].key = ReceiptKey(h, d, i)}

\* FR-20: an order is received once and as a whole.  Receipts of an order exist
\* only when it is received, one for each line at most, and a line says how
\* much its receipt brought in.
ReceiptsMatchOrder ==
  \A d \in Docs, i \in Items :
    /\ Cardinality(ReceiptsOf(d, i)) <= 1
    /\ ReceiptsOf(d, i) # {} => orderStatus[d] = "received"
    /\ (orderLines[d][i] # NoOrderLine /\ orderLines[d][i].received > 0) =>
          \E n \in ReceiptsOf(d, i) : journal[i][n].qty = orderLines[d][i].received

\* Movements and orders together implement the ledger: a received order is one
\* batch of receipts.
OrdersRefineLedger == L!Spec

\* The acceptance check list: after an order is received nothing of it is on
\* order any more.  A line of which nothing came keeps counting, because its
\* item's status is not recomputed.
ReceivingClearsOnOrder ==
  [][\A d \in Docs :
       (orderStatus[d] = "sent" /\ orderStatus'[d] = "received"
          /\ \A e \in Docs \ {d} : orderStatus[e] # "sent") =>
         \A i \in Items : orderLines[d][i] # NoOrderLine => onOrder'[i] = 0]_orderVars

=============================================================================
