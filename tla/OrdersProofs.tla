---------------------------- MODULE OrdersProofs ----------------------------
(***************************************************************************)
(* Proofs about Orders, for any number of items, clients, orders, keys and *)
(* quantities.  Unlike a movement of its own, a received order inserts     *)
(* several movements before it commits, and nothing but the order's row    *)
(* lock keeps a second delivery of it from doing the same.                 *)
(***************************************************************************)
EXTENDS Orders, MovementsProofs

USE KeysAssumption, ByNameAssumption, UserKeysAssumption, DocsAssumption,
    NoOrderLineAssumption, NoJobAssumption

-----------------------------------------------------------------------------
(* Types.                                                                   *)

OrderRequest ==
  [op : {"record", "reverse", "receive"}, item : Items, row : Movement]

Inputs == [hand : Nat, onOrder : Nat]

OrderStatements == Statements \cup {"idle", "update", "order", "line", "upsert"}

\* The lines of an order have been read: what is left of them to do is listed
\* once each, and how much of each is taken is known.
Listing == {j \in Processing : /\ IsInjective(j.todo)
                               /\ \A i \in ToSet(j.todo) : j.taken[i] # NoOrderLine}

\* Client c's transaction is sending or cancelling an order.
Restates(c) == job[c] # NoJob /\ job[c].op # "receive"

\* It is about a movement: one of its own or a line of an order it receives.
Moving(c) == pc[c] \in Statements \cup {"upsert"} /\ ~ Restates(c)

\* What a client's transaction does at the statement it has reached.
ClientFits(c) ==
  /\ pc[c] = "idle" => job[c] = NoJob
  /\ pc[c] = "update" => job[c] \in Editing
  /\ pc[c] = "order" => job[c] \in Processing
  /\ pc[c] = "line" => job[c] # NoJob
  /\ HoldsOrder(c) => job[c] \in Listing
  /\ (job[c] # NoJob /\ job[c].op = "receive") => job[c].header \in Headers
  /\ pc[c] \in {"reversal", "done"} => job[c] = NoJob
  /\ pc[c] \in Statements => ~ Restates(c)
  /\ pc[c] = "upsert" => seen[c] \in Inputs
  /\ pc[c] # "upsert" => seen[c] = NoSight
  /\ (pc[c] = "upsert" /\ Restates(c)) => job[c].todo # <<>>
  /\ Moving(c) => /\ req[c] \in OrderRequest
                  /\ (req[c].op = "receive") <=> (job[c] # NoJob)

ClientType(c) ==
  /\ pc[c] \in OrderStatements
  /\ req[c] \in OrderRequest \cup {NoReq}
  /\ held[c] \in SUBSET Items
  /\ rows[c] \in [Items -> Movement \cup {NoRow}]
  /\ newHand[c] \in [Items -> Nat \cup {Unset}]
  /\ newBasis[c] \in [Items -> Nat \cup {Unset}]
  /\ newOnOrder[c] \in [Items -> Nat \cup {Unset}]
  /\ \A i \in Items : (newOnOrder[c][i] = Unset) <=> (newBasis[c][i] = Unset)
  /\ job[c] \in Editing \cup Processing \cup {NoJob}
  /\ ClientFits(c)

\* Every client has a workspace of its own.
ByClient ==
  /\ pc         = [c \in Clients |-> pc[c]]
  /\ req        = [c \in Clients |-> req[c]]
  /\ held       = [c \in Clients |-> held[c]]
  /\ rows       = [c \in Clients |-> rows[c]]
  /\ newHand    = [c \in Clients |-> newHand[c]]
  /\ newBasis   = [c \in Clients |-> newBasis[c]]
  /\ newOnOrder = [c \in Clients |-> newOnOrder[c]]
  /\ seen       = [c \in Clients |-> seen[c]]
  /\ job        = [c \in Clients |-> job[c]]
  /\ outcome    = [c \in Clients |-> outcome[c]]

TablesType ==
  /\ journal \in [Items -> Seq(Movement)]
  /\ onHand  \in [Items -> Nat]
  /\ basis   \in [Items -> Nat]
  /\ onOrder \in [Items -> Nat]
  /\ orderStatus \in [Docs -> {"none", "draft", "sent", "received", "cancelled"}]
  /\ orderLines \in [Docs -> [Items -> OrderLine \cup {NoOrderLine}]]

OrderType ==
  /\ TablesType
  /\ ByClient
  /\ \A c \in Clients : ClientType(c)

-----------------------------------------------------------------------------
(* Movements and orders.                                                    *)

\* What is on order of an item is a number.
LEMMA SumType ==
  ASSUME NEW f \in [Docs -> Nat]
  PROVE  SumOverDocs(f) \in Nat
<1>1. SumOverDocs(f) = SumOver(f, Docs)
  BY DEF SumOverDocs, SumOver
<1>2. /\ \A d \in Docs : f[d] \in Int /\ f[d] \in Nat
      /\ Docs \in SUBSET Docs /\ \A d \in Docs : f[d] <= f[d]
  OBVIOUS
<1>3. SumOver(f, Docs) \in Nat
  BY <1>2, DocsAssumption, SumMonotone
<1> QED BY <1>1, <1>3

LEMMA OrderRequestParts ==
  ASSUME NEW r \in OrderRequest
  PROVE  /\ r.item \in Items /\ r.op \in {"record", "reverse", "receive"}
         /\ r.row \in Movement /\ r.row \in Row /\ r.row # NoRow
         /\ r.row.qty \in Int /\ r.row.reverses \in Nat
  BY NoRowAssumption DEF OrderRequest, Movement, Row

\* A line of an order that came in is a movement with a key of its own.
LEMMA ReceiptRequest ==
  ASSUME NEW c \in Clients, NEW i \in Items, NEW n \in 1..MaxQty,
         NEW h \in Headers, NEW d \in Docs
  PROVE  [op |-> "receive", item |-> i,
          row |-> [type |-> "receipt", qty |-> n, key |-> ReceiptKey(h, d, i),
                   reverses |-> 0, by |-> c, doc |-> d]] \in OrderRequest
<1> DEFINE m == [type |-> "receipt", qty |-> n, key |-> ReceiptKey(h, d, i),
                 reverses |-> 0, by |-> c, doc |-> d]
<1>1. ReceiptKey(h, d, i) \in Keys
  OBVIOUS
<1>2. n \in Nat /\ n > 0
  OBVIOUS
<1>3. m \in Row
  <2> HIDE DEF ReceiptKey
  <2> QED BY <1>1, <1>2 DEF Row, Types, Increasing
<1>4. SatisfiesChecks(m)
  BY <1>2 DEF SatisfiesChecks, Increasing, Decreasing
<1>5. m \in Movement
  BY <1>3, <1>4 DEF Movement
<1> QED BY <1>5 DEF OrderRequest

LEMMA ItemsFinite == IsFiniteSet(Items)
<1>1. /\ Len(ByName) \in Nat /\ DOMAIN ByName = 1..Len(ByName)
      /\ ByName \in [1..Len(ByName) -> Items]
  BY LenProperties
<1>2. ByName \in Surjection(1..Len(ByName), Items)
  BY <1>1 DEF Surjection, ToSet
<1>3. IsFiniteSet(1..Len(ByName))
  BY <1>1, FS_Interval
<1> QED BY <1>2, <1>3, FS_Surjection

\* The job of a transaction that has locked its order, or of one that has not
\* begun to: what it is not.
LEMMA JobKinds ==
  /\ NoJob \notin Editing /\ NoJob \notin Processing
  /\ \A j \in Editing : j.op = "update" /\ j.order \in Docs /\ j.wanted \in Some
  /\ \A j \in Processing : /\ j.op \in {"send", "cancel", "receive"}
                           /\ j.order \in Docs
                           /\ j.taken \in [Items -> 0..MaxQty \cup {NoOrderLine}]
                           /\ j.todo \in Seq(Items)
                           /\ j.actual \in Some \cup {<<>>}
  BY DEF Editing, Processing

\* What is taken of the lines is a number for each of them.
LEMMA TakenType ==
  ASSUME NEW l \in [Items -> OrderLine \cup {NoOrderLine}],
         NEW actual \in Some \cup {<<>>}
  PROVE  /\ Taken(l, actual) \in [Items -> 0..MaxQty \cup {NoOrderLine}]
         /\ \A i \in Items : Taken(l, actual)[i] = NoOrderLine <=> l[i] = NoOrderLine
<1>1. ASSUME NEW i \in DOMAIN actual PROVE actual[i] \in 0..MaxQty
  <2>1. CASE actual = <<>>
    <3>1. <<>> \in Seq(Items) /\ Len(<<>>) = 0
      BY EmptySeq
    <3>2. DOMAIN <<>> = 1..0
      BY <3>1, LenProperties, Zenon
    <3>3. 1..0 = {}
      OBVIOUS
    <3> QED BY <1>1, <2>1, <3>2, <3>3, Zenon
  <2>2. CASE actual \in Some
    <3>1. PICK S \in SUBSET Items : actual \in [S -> 0..MaxQty]
      BY <2>2 DEF Some
    <3> QED BY <1>1, <3>1
  <2> QED BY <2>1, <2>2
<1>2. ASSUME NEW i \in Items, l[i] # NoOrderLine
      PROVE  /\ l[i].ordered \in 0..MaxQty
             /\ Taken(l, actual)[i] \in 0..MaxQty
  <2>1. l[i].ordered \in 1..MaxQty
    BY <1>2 DEF OrderLine
  <2>2. l[i].ordered \in 0..MaxQty
    BY <2>1
  <2>3. CASE i \in DOMAIN actual
    <3>1. Taken(l, actual)[i] = actual[i]
      BY <1>2, <2>3 DEF Taken
    <3> QED BY <1>1, <2>2, <2>3, <3>1
  <2>4. CASE i \notin DOMAIN actual
    BY <1>2, <2>2, <2>4 DEF Taken
  <2> QED BY <2>3, <2>4
<1>3. \A i \in Items : l[i] = NoOrderLine => Taken(l, actual)[i] = NoOrderLine
  BY DEF Taken
<1>4. NoOrderLine \notin 0..MaxQty
  OBVIOUS
<1>5. Taken(l, actual) = [i \in Items |-> Taken(l, actual)[i]]
  BY DEF Taken
<1>6. \A i \in Items : Taken(l, actual)[i] \in 0..MaxQty \cup {NoOrderLine}
  BY <1>2, <1>3
<1>7. Taken(l, actual) \in [Items -> 0..MaxQty \cup {NoOrderLine}]
  <2> HIDE DEF Taken
  <2> QED BY <1>5, <1>6
<1> QED BY <1>2, <1>3, <1>4, <1>7

-----------------------------------------------------------------------------
(* Every step is one client's.                                              *)

\* The transaction of client d is left alone.
Rests(d) ==
  /\ pc'[d] = pc[d] /\ req'[d] = req[d] /\ held'[d] = held[d]
  /\ rows'[d] = rows[d] /\ newHand'[d] = newHand[d]
  /\ newBasis'[d] = newBasis[d] /\ newOnOrder'[d] = newOnOrder[d]
  /\ seen'[d] = seen[d] /\ job'[d] = job[d]

Alone(c) == ByClient' /\ \A d \in Clients \ {c} : Rests(d)

LEMMA AloneType ==
  ASSUME OrderType, TablesType', NEW c \in Clients, Alone(c), ClientType(c)'
  PROVE  OrderType'
<1>1. ASSUME NEW d \in Clients \ {c} PROVE ClientType(d)'
  <2>1. Rests(d) /\ ClientType(d)
    BY DEF Alone, OrderType
  <2>2. /\ Restates(d)' = Restates(d) /\ Moving(d)' = Moving(d)
        /\ HoldsOrder(d)' = HoldsOrder(d)
    BY <2>1 DEF Rests, Restates, Moving, HoldsOrder
  <2>3. ClientFits(d)'
    BY <2>1, <2>2 DEF Rests, ClientType, ClientFits
  <2> QED BY <2>1, <2>3 DEF Rests, ClientType
<1>2. \A d \in Clients : ClientType(d)'
  BY <1>1
<1> QED BY <1>2 DEF OrderType, Alone

\* Nothing is left of a transaction that has ended.
LEMMA EndedClient ==
  ASSUME OrderType, NEW c \in Clients, NEW result, End(c, result), EndJob(c)
  PROVE  /\ Alone(c) /\ ClientType(c)'
         /\ pc'[c] = "idle" /\ held'[c] = {} /\ job'[c] = NoJob
         /\ seen'[c] = NoSight /\ outcome'[c] = result
         /\ \A i \in Items : /\ rows'[c][i] = NoRow
                             /\ newHand'[c][i] = Unset
                             /\ newBasis'[c][i] = Unset
                             /\ newOnOrder'[c][i] = Unset
<1>1. Alone(c)
  BY DEF OrderType, ByClient, End, EndJob, Alone, Rests
<1>2. /\ pc'[c] = "idle" /\ held'[c] = {} /\ job'[c] = NoJob
      /\ req'[c] = NoReq /\ seen'[c] = NoSight /\ outcome'[c] = result
      /\ rows'[c] = Empty(NoRow) /\ newHand'[c] = Empty(Unset)
      /\ newBasis'[c] = Empty(Unset) /\ newOnOrder'[c] = Empty(Unset)
  BY DEF OrderType, ByClient, End, EndJob
<1>3. ClientFits(c)'
  BY <1>2 DEF ClientFits, Restates, Moving, HoldsOrder, Statements
<1>4. ClientType(c)'
  BY <1>2, <1>3 DEF ClientType, OrderStatements, Empty
<1> QED BY <1>1, <1>2, <1>4 DEF Empty

LEMMA RollbackOrderType ==
  ASSUME OrderType, NEW c \in Clients, NEW result, Rollback(c, result), EndJob(c),
         UNCHANGED <<orderStatus, onOrder>>,
         orderLines' \in [Docs -> [Items -> OrderLine \cup {NoOrderLine}]]
  PROVE  OrderType'
<1>1. End(c, result) /\ UNCHANGED committed
  BY DEF Rollback
<1>2. TablesType'
  BY <1>1 DEF OrderType, TablesType, committed
<1> QED BY <1>1, <1>2, EndedClient, AloneType

\* A request arrives.
LEMMA BegunClient ==
  ASSUME OrderType, NEW c \in Clients, NEW r, NEW statement,
         Begin(c, r, statement), UNCHANGED <<newOnOrder, seen>>,
         \/ /\ statement \in {"key", "reversal"} /\ job' = job
            /\ r \in OrderRequest /\ r.op # "receive"
         \/ /\ r = NoReq /\ statement = "update"
            /\ \E j \in Editing : job' = [job EXCEPT ![c] = j]
         \/ /\ r = NoReq /\ statement = "order"
            /\ \E j \in Processing :
                 /\ job' = [job EXCEPT ![c] = j]
                 /\ j.op = "receive" => j.header \in Headers
  PROVE  /\ Alone(c) /\ ClientType(c)'
         /\ pc[c] = "idle" /\ pc'[c] = statement /\ req'[c] = r
         /\ job[c] = NoJob /\ ~ HoldsOrder(c)'
         /\ outcome'[c] = "none" /\ UNCHANGED <<committed, workspace>>
<1>1. /\ pc[c] = "idle" /\ pc'[c] = statement /\ req'[c] = r
      /\ outcome'[c] = "none"
  BY DEF OrderType, ByClient, Begin, Goto
<1>2. Alone(c)
  BY DEF OrderType, ByClient, Begin, Goto, Alone, Rests, workspace
<1>3. job[c] = NoJob /\ seen'[c] = NoSight /\ ClientType(c)
  BY <1>1 DEF OrderType, ClientType, ClientFits
<1>4. UNCHANGED <<committed, held, rows, newHand, newBasis, newOnOrder>>
  BY DEF Begin, workspace
<1>5. CASE /\ statement \in {"key", "reversal"} /\ job' = job
           /\ r \in OrderRequest /\ r.op # "receive"
  <2>1. ClientFits(c)'
    BY <1>1, <1>3, <1>5 DEF ClientFits, Restates, Moving, HoldsOrder, Statements
  <2> QED BY <1>1, <1>2, <1>3, <1>4, <1>5, <2>1
          DEF ClientType, OrderStatements, Statements, HoldsOrder, workspace
<1>6. ASSUME NEW j \in Editing, r = NoReq, statement = "update",
             job' = [job EXCEPT ![c] = j]
      PROVE  ClientType(c)' /\ ~ HoldsOrder(c)'
  <2>1. job'[c] = j /\ j.op = "update" /\ j # NoJob
    BY <1>6, JobKinds DEF OrderType, ByClient
  <2>2. ClientFits(c)'
    BY <1>1, <1>3, <1>6, <2>1
       DEF ClientFits, Restates, Moving, HoldsOrder, Statements
  <2> QED BY <1>1, <1>3, <1>4, <1>6, <2>1, <2>2
          DEF ClientType, OrderStatements, HoldsOrder
<1>7. ASSUME NEW j \in Processing, r = NoReq, statement = "order",
             job' = [job EXCEPT ![c] = j], j.op = "receive" => j.header \in Headers
      PROVE  ClientType(c)' /\ ~ HoldsOrder(c)'
  <2>1. job'[c] = j
    BY <1>7 DEF OrderType, ByClient
  <2>2. ClientFits(c)'
    BY <1>1, <1>3, <1>7, <2>1
       DEF ClientFits, Restates, Moving, HoldsOrder, Statements
  <2> QED BY <1>1, <1>3, <1>4, <1>7, <2>1, <2>2
          DEF ClientType, OrderStatements, HoldsOrder
<1> QED BY <1>1, <1>2, <1>3, <1>4, <1>5, <1>6, <1>7 DEF workspace

LEMMA OrderHandType ==
  ASSUME OrderType, NEW c \in Clients, NEW i \in Items
  PROVE  Hand(c, i) \in Nat
  BY DEF OrderType, TablesType, ClientType, Hand

\* A transaction about a movement knows its item and quantity.
LEMMA MovingParts ==
  ASSUME OrderType, NEW c \in Clients, Moving(c)
  PROVE  /\ req[c] \in OrderRequest /\ req[c].item \in Items
         /\ req[c].row \in Movement /\ req[c].row # NoRow
         /\ req[c].row.qty \in Int /\ req[c].row.reverses \in Nat
         /\ onHand[req[c].item] \in Nat /\ journal[req[c].item] \in Seq(Movement)
         /\ Hand(c, req[c].item) \in Nat
<1>1. req[c] \in OrderRequest
  BY DEF OrderType, ClientType, ClientFits
<1> QED BY <1>1, OrderRequestParts, OrderHandType DEF OrderType, TablesType

\* Who executes a statement of Movements is about a movement.
LEMMA StatementMoves ==
  ASSUME OrderType, NEW c \in Clients, pc[c] \in Statements
  PROVE  Moving(c) /\ (job[c] # NoJob => HoldsOrder(c) /\ job[c] \in Listing
                                           /\ job[c].op = "receive")
  BY DEF OrderType, ClientType, ClientFits, Moving, HoldsOrder, Restates, Statements

\* The order goes with the transaction of a statement of Movements.
LEMMA MovementJob ==
  ASSUME OrderType, NEW c \in Clients, OrderMovementStep(c)
  PROVE  /\ \A result : End(c, result) => EndJob(c)
         /\ \A statement \in Statements : Goto(c, statement) => UNCHANGED orderWork
         /\ pc[c] \in Statements
         /\ UNCHANGED <<orders, onOrder>>
<1>1. pc[c] \in Statements
  BY DEF OrderMovementStep, CheckKey, CheckReversal, ReadItem, LockBalance,
         InsertMovement, ApplyMovement, Statements
<1>2. IF pc'[c] = "idle" THEN EndJob(c) ELSE UNCHANGED orderWork
  BY DEF OrderMovementStep
<1>3. ASSUME NEW result, End(c, result) PROVE EndJob(c)
  BY <1>2, <1>3 DEF OrderType, ByClient, End
<1>4. ASSUME NEW statement \in Statements, Goto(c, statement)
      PROVE  UNCHANGED orderWork
  BY <1>2, <1>4 DEF OrderType, ByClient, Goto, Statements
<1>5. UNCHANGED <<orders, onOrder>>
  BY DEF OrderMovementStep
<1> QED BY <1>1, <1>3, <1>4, <1>5

\* A statement of Movements that leads to another one.
LEMMA StatementClient ==
  ASSUME OrderType, NEW c \in Clients, OrderMovementStep(c),
         NEW statement \in Statements \ {"key", "reversal", "done"},
         Goto(c, statement), UNCHANGED <<committed, req, outcome>>,
         \/ UNCHANGED workspace
         \/ /\ held' = [held EXCEPT ![c] = @ \cup {req[c].item}]
            /\ UNCHANGED <<rows, newHand, newBasis>>
         \/ /\ rows' = [rows EXCEPT ![c][req[c].item] = req[c].row]
            /\ UNCHANGED <<held, newHand, newBasis>>
         \/ /\ held' = [held EXCEPT ![c] = @ \cup {req[c].item}]
            /\ \E n \in Nat : newHand' = [newHand EXCEPT ![c][req[c].item] = n]
            /\ UNCHANGED <<rows, newBasis>>
  PROVE  /\ OrderType' /\ Alone(c) /\ pc'[c] = statement /\ Moving(c)'
         /\ job' = job /\ req' = req
         /\ HoldsOrder(c)' = HoldsOrder(c)
         /\ UNCHANGED <<orders, onOrder, committed>>
<1> DEFINE i == req[c].item
<1>1. /\ UNCHANGED orderWork /\ pc[c] \in Statements
      /\ UNCHANGED <<orders, onOrder>>
  BY MovementJob
<1>2. Moving(c) /\ i \in Items /\ req[c].row \in Movement
  BY <1>1, StatementMoves, MovingParts
<1>3. pc'[c] = statement /\ job' = job /\ seen' = seen /\ newOnOrder' = newOnOrder
  BY <1>1 DEF OrderType, ByClient, Goto, orderWork
<1>4. /\ \A d \in Clients \ {c} :
           /\ held'[d] = held[d] /\ rows'[d] = rows[d] /\ newHand'[d] = newHand[d]
           /\ newBasis'[d] = newBasis[d]
      /\ held' = [d \in Clients |-> held'[d]]
      /\ rows' = [d \in Clients |-> rows'[d]]
      /\ newHand' = [d \in Clients |-> newHand'[d]]
      /\ newBasis' = [d \in Clients |-> newBasis'[d]]
  BY DEF OrderType, ByClient, workspace
<1>5. Alone(c)
  BY <1>3, <1>4 DEF OrderType, ByClient, Goto, Alone, Rests
<1>6. newBasis' = newBasis
  BY DEF workspace
<1>7. ClientType(c)
  BY DEF OrderType
<1>8. held'[c] \in SUBSET Items
  <2>1. held'[c] = held[c] \/ held'[c] = held[c] \cup {i}
    BY DEF OrderType, ByClient, workspace
  <2> QED BY <1>2, <1>7, <2>1 DEF ClientType
<1>9. rows'[c] \in [Items -> Movement \cup {NoRow}]
  <2>1. rows'[c] = rows[c] \/ rows'[c] = [rows[c] EXCEPT ![i] = req[c].row]
    BY DEF OrderType, ByClient, workspace
  <2> QED BY <1>2, <1>7, <2>1 DEF ClientType
<1>10. newHand'[c] \in [Items -> Nat \cup {Unset}]
  <2>1. newHand'[c] = newHand[c]
        \/ \E n \in Nat : newHand'[c] = [newHand[c] EXCEPT ![i] = n]
    BY DEF OrderType, ByClient, workspace
  <2> QED BY <1>2, <1>7, <2>1 DEF ClientType
<1>11. /\ Restates(c)' = Restates(c) /\ Moving(c)'
       /\ HoldsOrder(c)' = HoldsOrder(c)
  BY <1>1, <1>2, <1>3 DEF Restates, Moving, HoldsOrder, Statements
<1>12. ClientFits(c)'
  BY <1>1, <1>2, <1>3, <1>7, <1>11 DEF ClientType, ClientFits, Statements
<1>13. ClientType(c)'
  <2>1. pc'[c] \in OrderStatements
    BY <1>3 DEF OrderStatements
  <2> QED BY <1>3, <1>6, <1>7, <1>8, <1>9, <1>10, <1>12, <2>1 DEF ClientType
<1>14. TablesType'
  BY <1>1 DEF OrderType, TablesType, committed, orders
<1> QED BY <1>1, <1>3, <1>5, <1>11, <1>13, <1>14, AloneType

\* A statement of Movements that ends the transaction.
LEMMA MovementEnds ==
  ASSUME OrderType, NEW c \in Clients, OrderMovementStep(c), NEW result,
         Rollback(c, result)
  PROVE  OrderType' /\ EndJob(c) /\ UNCHANGED <<committed, orders, onOrder>>
<1>1. EndJob(c) /\ UNCHANGED <<orders, onOrder>>
  BY MovementJob DEF Rollback
<1>2. orderLines' \in [Docs -> [Items -> OrderLine \cup {NoOrderLine}]]
  BY <1>1 DEF OrderType, TablesType, orders
<1> QED BY <1>1, <1>2, RollbackOrderType DEF Rollback, orders

LEMMA MovementStepType ==
  ASSUME OrderType, NEW c \in Clients, OrderMovementStep(c)
  PROVE  OrderType'
<1>1. ASSUME NEW result, Rollback(c, result) PROVE OrderType'
  BY <1>1, MovementEnds
<1>2. ASSUME NEW statement \in {"item", "lock"}, Goto(c, statement),
             UNCHANGED <<committed, req, workspace, outcome>>
      PROVE  OrderType'
  BY <1>2, StatementClient DEF Statements
<1>3. CASE CheckKey(c)
  BY <1>1, <1>2, <1>3 DEF CheckKey
<1>4. CASE ReadItem(c)
  BY <1>1, <1>2, <1>4 DEF ReadItem
<1>5. CASE CheckReversal(c)
  BY <1>1, <1>2, <1>5 DEF CheckReversal
<1>6. CASE LockBalance(c)
  <2>1. "insert" \in Statements \ {"key", "reversal", "done"}
    BY DEF Statements
  <2> QED BY <1>1, <1>6, <2>1, StatementClient DEF LockBalance
<1>7. CASE InsertMovement(c)
  <2>1. "apply" \in Statements \ {"key", "reversal", "done"}
    BY DEF Statements
  <2> QED BY <1>1, <1>7, <2>1, StatementClient DEF InsertMovement
<1>8. CASE ApplyMovement(c)
  <2> DEFINE n == Hand(c, req[c].item) + req[c].row.qty
  <2>1. "status" \in Statements \ {"key", "reversal", "done"}
    BY DEF Statements
  <2>2. CASE /\ n >= 0 /\ Goto(c, "status")
             /\ held'    = [held EXCEPT ![c] = @ \cup {req[c].item}]
             /\ newHand' = [newHand EXCEPT ![c][req[c].item] = n]
             /\ UNCHANGED <<committed, req, rows, newBasis, outcome>>
    <3>1. n \in Nat
      BY <1>8, <2>2, MovementJob, StatementMoves, MovingParts
    <3> HIDE DEF n
    <3> QED BY <2>1, <2>2, <3>1, StatementClient
  <2> QED BY <1>1, <1>8, <2>2 DEF ApplyMovement
<1> QED BY <1>3, <1>4, <1>5, <1>6, <1>7, <1>8 DEF OrderMovementStep

\* What a transaction publishes keeps the types.
LEMMA PublishType ==
  ASSUME OrderType, NEW c \in Clients, Publish(c)
  PROVE  /\ journal' \in [Items -> Seq(Movement)]
         /\ onHand' \in [Items -> Nat] /\ basis' \in [Items -> Nat]
         /\ Merged(newOnOrder[c], onOrder) \in [Items -> Nat]
<1>1. /\ rows[c] \in [Items -> Movement \cup {NoRow}]
      /\ newHand[c] \in [Items -> Nat \cup {Unset}]
      /\ newBasis[c] \in [Items -> Nat \cup {Unset}]
      /\ newOnOrder[c] \in [Items -> Nat \cup {Unset}]
      /\ TablesType
  BY DEF OrderType, ClientType
<1> QED BY <1>1 DEF TablesType, Publish, Extended, Merged

LEMMA CommitMovementType ==
  ASSUME OrderType, NEW c \in Clients, CommitMovement(c)
  PROVE  OrderType'
<1>1. PICK result \in {"created", "lost"} : End(c, result)
  BY DEF CommitMovement, Commit
<1>2. EndJob(c) /\ Publish(c)
  BY DEF CommitMovement, Commit
<1>3. TablesType'
  BY <1>2, PublishType DEF CommitMovement, OrderType, TablesType, orders
<1> QED BY <1>1, <1>2, <1>3, EndedClient, AloneType

\* A movement of a client's own has no job to hold an order for.
LEMMA CommitMovementClient ==
  ASSUME OrderType, NEW c \in Clients, CommitMovement(c)
  PROVE  pc[c] = "done" /\ Moving(c) /\ job[c] = NoJob /\ ~ HoldsOrder(c)
<1>1. pc[c] = "done"
  BY DEF CommitMovement, Commit
<1> QED BY <1>1, StatementMoves DEF OrderType, ClientType, ClientFits,
                                    HoldsOrder, Statements

\* What sent orders ask for of an item is a number.
LEMMA IncomingType ==
  ASSUME OrderType, NEW c \in Clients, NEW i \in Items
  PROVE  Incoming(c, i) \in Nat
<1> DEFINE statusSeen(d) == IF HoldsOrder(c) /\ job[c].order = d
                            THEN StatusOf(job[c].op) ELSE orderStatus[d]
           f == [d \in Docs |->
                   IF statusSeen(d) = "sent" /\ orderLines[d][i] # NoOrderLine
                   THEN orderLines[d][i].ordered ELSE 0]
<1>1. Incoming(c, i) = SumOverDocs(f)
  BY Zenon DEF Incoming
<1>2. ASSUME NEW d \in Docs, orderLines[d][i] # NoOrderLine
      PROVE  orderLines[d][i].ordered \in Nat
  <2>1. orderLines[d][i] \in OrderLine
    BY <1>2 DEF OrderType, TablesType
  <2> QED BY <2>1 DEF OrderLine
<1>3. f \in [Docs -> Nat]
  <2> HIDE DEF statusSeen
  <2> QED BY <1>2
<1> HIDE DEF f
<1> QED BY <1>1, <1>3, SumType

\* The item whose status is computed, and what becomes of the transaction.
LEMMA ReadInputsClient ==
  ASSUME OrderType, NEW c \in Clients, ReadInputs(c)
  PROVE  /\ OrderType' /\ Alone(c) /\ pc'[c] = "upsert"
         /\ pc[c] = "status" \/ (pc[c] = "line" /\ Restates(c))
         /\ Moving(c)' = Moving(c) /\ HoldsOrder(c)' = HoldsOrder(c)
         /\ job' = job /\ req' = req
         /\ UNCHANGED <<committed, workspace, orders, outcome>>
<1> DEFINE i == CurrentItem(c)
<1>1. /\ pc[c] = "status" \/ (pc[c] = "line" /\ Restates(c) /\ job[c].todo # <<>>)
      /\ Restates(c) => pc[c] = "line"
      /\ pc[c] # "line" => Moving(c)
  <2>1. pc[c] = "status" \/ (AtOrderLine(c) /\ job[c].op # "receive")
    BY DEF ReadInputs
  <2>2. pc[c] = "line" => job[c] # NoJob
    BY DEF OrderType, ClientType, ClientFits
  <2>3. pc[c] = "status" => Moving(c) /\ ~ Restates(c)
    BY StatementMoves DEF Moving, Statements
  <2> QED BY <2>1, <2>2, <2>3 DEF AtOrderLine, Restates
<1>2. i \in Items
  <2>1. CASE pc[c] = "status"
    BY <1>1, <2>1, MovingParts DEF CurrentItem, Restates
  <2>2. CASE pc[c] = "line" /\ Restates(c) /\ job[c].todo # <<>>
    <3>1. HoldsOrder(c)
      BY <2>2 DEF Restates, HoldsOrder
    <3>2. job[c].todo \in Seq(Items)
      BY <3>1, JobKinds DEF OrderType, ClientType, ClientFits, Listing
    <3> QED BY <2>2, <3>2, HeadTailProperties DEF CurrentItem, Restates
  <2> QED BY <1>1, <2>1, <2>2
<1> HIDE DEF i
<1>3. seen' = [seen EXCEPT ![c] = [hand |-> Hand(c, i), onOrder |-> Incoming(c, i)]]
  BY DEF ReadInputs, i
<1>4. [hand |-> Hand(c, i), onOrder |-> Incoming(c, i)] \in Inputs
  BY <1>2, OrderHandType, IncomingType DEF Inputs
<1>5. seen'[c] \in Inputs
  BY <1>3, <1>4 DEF OrderType, ByClient
<1>6. /\ Goto(c, "upsert")
      /\ UNCHANGED <<committed, archived, req, workspace, outcome, orders, onOrder,
                     newOnOrder, job>>
  BY DEF ReadInputs
<1>7. pc'[c] = "upsert" /\ Alone(c)
  BY <1>3, <1>6 DEF OrderType, ByClient, Goto, Alone, Rests, workspace
<1>8. /\ Restates(c)' = Restates(c) /\ Moving(c)' = Moving(c)
      /\ HoldsOrder(c)' = HoldsOrder(c)
  BY <1>1, <1>6, <1>7 DEF Restates, Moving, HoldsOrder, Statements
<1>9. ClientType(c)
  BY DEF OrderType
<1>10. ClientFits(c)'
  BY <1>1, <1>5, <1>6, <1>7, <1>8, <1>9 DEF ClientType, ClientFits, Statements
<1>11. ClientType(c)'
  BY <1>6, <1>7, <1>9, <1>10 DEF ClientType, OrderStatements, workspace
<1>12. TablesType'
  BY <1>6 DEF OrderType, TablesType, committed, orders
<1> QED BY <1>1, <1>6, <1>7, <1>8, <1>11, <1>12, AloneType

\* One line less to do.
LEMMA TailJob ==
  ASSUME NEW j \in Listing, j.todo # <<>>
  PROVE  LET t == [j EXCEPT !.todo = Tail(@)] IN
         /\ t \in Listing /\ t \in Processing
         /\ t.order = j.order /\ t.op = j.op /\ t.header = j.header
         /\ t.taken = j.taken
         /\ Head(j.todo) \in Items /\ Head(j.todo) \in ToSet(j.todo)
         /\ ToSet(t.todo) = ToSet(j.todo) \ {Head(j.todo)}
<1> DEFINE t == [j EXCEPT !.todo = Tail(@)]
<1>1. /\ j \in Processing /\ j.todo \in Seq(Items) /\ IsInjective(j.todo)
      /\ \A i \in ToSet(j.todo) : j.taken[i] # NoOrderLine
  BY DEF Listing, Processing
<1>2. /\ Head(j.todo) \in Items /\ Head(j.todo) \in ToSet(j.todo)
      /\ Tail(j.todo) \in Seq(Items) /\ IsInjective(Tail(j.todo))
      /\ ToSet(Tail(j.todo)) = ToSet(j.todo) \ {Head(j.todo)}
  BY <1>1, TailProperties
<1>3. /\ t \in Processing /\ t.todo = Tail(j.todo)
      /\ t.order = j.order /\ t.op = j.op /\ t.header = j.header
      /\ t.taken = j.taken
  BY <1>1, <1>2 DEF Processing
<1> HIDE DEF t
<1>4. t \in Listing
  BY <1>1, <1>2, <1>3 DEF Listing
<1> QED BY <1>2, <1>3, <1>4 DEF t

\* The status is written, and the transaction turns to the next line or to its
\* commit.
LEMMA UpsertClient ==
  ASSUME OrderType, NEW c \in Clients, UpsertStatus(c)
  PROVE  /\ OrderType' /\ Alone(c) /\ pc[c] = "upsert"
         /\ UNCHANGED <<committed, held, rows, newHand, orders, onOrder, outcome>>
         /\ job[c] = NoJob => /\ pc'[c] = "done" /\ job'[c] = NoJob
                              /\ req'[c] = req[c] /\ Moving(c) /\ Moving(c)'
         /\ job[c] # NoJob => /\ pc'[c] = "line" /\ HoldsOrder(c)
                              /\ job'[c] \in Listing
                              /\ job'[c].order = job[c].order
                              /\ job'[c].op = job[c].op
                              /\ job[c].op = "receive" => job'[c] = job[c]
<1> DEFINE i == CurrentItem(c)
           basis1 == [newBasis[c] EXCEPT ![i] = seen[c].hand]
           onOrder1 == [newOnOrder[c] EXCEPT ![i] = seen[c].onOrder]
<1>1. /\ pc[c] = "upsert" /\ ClientType(c) /\ seen[c] \in Inputs
  BY DEF UpsertStatus, OrderType, ClientType, ClientFits
<1>2. /\ newBasis'[c] = basis1 /\ newOnOrder'[c] = onOrder1
      /\ seen'[c] = NoSight
      /\ UNCHANGED <<committed, held, rows, newHand, orders, onOrder, outcome>>
  BY DEF UpsertStatus, OrderType, ByClient
<1>3. /\ newBasis'[c] \in [Items -> Nat \cup {Unset}]
      /\ newOnOrder'[c] \in [Items -> Nat \cup {Unset}]
      /\ \A k \in Items : (newOnOrder'[c][k] = Unset) <=> (newBasis'[c][k] = Unset)
  <2>1. seen[c].hand \in Nat /\ seen[c].onOrder \in Nat
    BY <1>1 DEF Inputs
  <2>2. seen[c].hand # Unset /\ seen[c].onOrder # Unset
    BY <2>1, UnsetAssumption
  <2>3. basis1 \in [Items -> Nat \cup {Unset}] /\ onOrder1 \in [Items -> Nat \cup {Unset}]
    <3> HIDE DEF i
    <3> QED BY <1>1, <2>1 DEF ClientType
  <2>4. ASSUME NEW k \in Items PROVE (onOrder1[k] = Unset) <=> (basis1[k] = Unset)
    <3> HIDE DEF i
    <3> QED BY <1>1, <2>2 DEF ClientType
  <2> HIDE DEF basis1, onOrder1
  <2> QED BY <1>2, <2>3, <2>4
<1> HIDE DEF basis1, onOrder1, i
<1>4. ByClient'
  BY DEF UpsertStatus, OrderType, ByClient, Goto
<1>5. \A d \in Clients \ {c} : Rests(d)
  BY DEF UpsertStatus, OrderType, ByClient, Goto, Rests
<1>6. TablesType'
  BY <1>2 DEF OrderType, TablesType, committed, orders
<1>7. CASE job[c] = NoJob
  <2>1. pc'[c] = "done" /\ job'[c] = job[c] /\ req'[c] = req[c]
    BY <1>7 DEF UpsertStatus, OrderType, ByClient, Goto
  <2>2. /\ Moving(c) /\ ~ Restates(c) /\ Moving(c)' /\ ~ Restates(c)'
        /\ ~ HoldsOrder(c)'
    BY <1>1, <1>7, <2>1 DEF Moving, Restates, Statements, HoldsOrder
  <2>3. ClientFits(c)'
    BY <1>1, <1>2, <1>7, <2>1, <2>2 DEF ClientType, ClientFits, Statements
  <2>4. ClientType(c)'
    BY <1>1, <1>2, <1>3, <2>1, <2>3 DEF ClientType, OrderStatements, Statements
  <2> QED BY <1>1, <1>2, <1>4, <1>5, <1>6, <1>7, <2>1, <2>2, <2>4, AloneType DEF Alone
<1>8. CASE job[c] # NoJob
  <2>1. /\ pc'[c] = "line" /\ req'[c] = NoReq
        /\ IF job[c].op = "receive" THEN job'[c] = job[c]
           ELSE job'[c] = [job[c] EXCEPT !.todo = Tail(@)]
    BY <1>8 DEF UpsertStatus, OrderType, ByClient, Goto
  <2>2. HoldsOrder(c) /\ job[c] \in Listing /\ job[c] \in Processing
    BY <1>1, <1>8 DEF HoldsOrder, ClientType, ClientFits, Listing
  <2>3. /\ job'[c] \in Listing /\ job'[c].order = job[c].order
        /\ job'[c].op = job[c].op /\ job'[c].header = job[c].header
    <3>1. CASE job[c].op = "receive"
      BY <2>1, <2>2, <3>1
    <3>2. CASE job[c].op # "receive"
      <4>1. job[c].todo # <<>>
        BY <1>1, <1>8, <3>2 DEF ClientType, ClientFits, Restates
      <4> QED BY <2>1, <2>2, <3>2, <4>1, TailJob
    <3> QED BY <3>1, <3>2
  <2>4. job'[c] # NoJob /\ job'[c] \in Processing /\ ~ Moving(c)'
    BY <2>1, <2>3 DEF Listing, Moving, Statements
  <2>5. ClientFits(c)'
    BY <1>1, <1>2, <2>1, <2>3, <2>4 DEF ClientType, ClientFits, Statements
  <2>6. ClientType(c)'
    BY <1>1, <1>2, <1>3, <2>1, <2>4, <2>5 DEF ClientType, OrderStatements
  <2> QED BY <1>1, <1>2, <1>4, <1>5, <1>6, <1>8, <2>1, <2>2, <2>3, <2>6, AloneType
          DEF Alone
<1> QED BY <1>7, <1>8

\* The next line of a receipt: nothing came, or its movement begins.
LEMMA ReceiveLineClient ==
  ASSUME OrderType, NEW c \in Clients, ReceiveLine(c)
  PROVE  LET i == Head(job[c].todo)
             n == job[c].taken[i]
         IN
         /\ OrderType' /\ Alone(c) /\ pc[c] = "line"
         /\ HoldsOrder(c) /\ HoldsOrder(c)' /\ job[c].op = "receive"
         /\ job[c] \in Listing
         /\ UNCHANGED <<committed, workspace, orders, onOrder, outcome>>
         /\ job'[c].order = job[c].order /\ job'[c].op = "receive"
         /\ job'[c].header = job[c].header /\ job'[c].taken = job[c].taken
         /\ i \in ToSet(job[c].todo) /\ i \in Items
         /\ ToSet(job'[c].todo) = ToSet(job[c].todo) \ {i}
         /\ \/ n = 0 /\ pc'[c] = "line"
            \/ /\ n > 0 /\ pc'[c] = "key" /\ Moving(c)' /\ req'[c].item = i
               /\ req'[c].row.type = "receipt" /\ req'[c].row.reverses = 0
               /\ req'[c].row.key = ReceiptKey(job[c].header, job[c].order, i)
               /\ req'[c].row.qty = n
<1>0. PICK i : i = Head(job[c].todo)
  OBVIOUS
<1> DEFINE n == job[c].taken[i]
           r == [op |-> "receive", item |-> i,
                 row |-> [type |-> "receipt", qty |-> n,
                          key |-> ReceiptKey(job[c].header, job[c].order, i),
                          reverses |-> 0, by |-> c, doc |-> job[c].order]]
<1>1. /\ pc[c] = "line" /\ job[c].op = "receive" /\ job[c].todo # <<>>
      /\ UNCHANGED <<committed, archived, workspace, outcome, orders, onOrder,
                     newOnOrder, seen>>
      /\ job' = [job EXCEPT ![c].todo = Tail(@)]
      /\ \/ n = 0 /\ UNCHANGED <<pc, req>>
         \/ n > 0 /\ req' = [req EXCEPT ![c] = r] /\ Goto(c, "key")
  BY <1>0 DEF ReceiveLine, AtOrderLine
<1>2. ClientType(c)
  BY DEF OrderType
<1>3. /\ HoldsOrder(c) /\ job[c] \in Listing /\ job[c] # NoJob
      /\ job[c].header \in Headers
  BY <1>1, <1>2 DEF ClientType, ClientFits, HoldsOrder
<1>4. /\ job'[c] \in Listing /\ job'[c] \in Processing
      /\ job'[c].order = job[c].order /\ job'[c].op = "receive"
      /\ job'[c].header = job[c].header /\ job'[c].taken = job[c].taken
      /\ i \in ToSet(job[c].todo) /\ i \in Items
      /\ ToSet(job'[c].todo) = ToSet(job[c].todo) \ {i}
  <2>1. job'[c] = [job[c] EXCEPT !.todo = Tail(@)]
    BY <1>1 DEF OrderType, ByClient
  <2> HIDE DEF r, n
  <2>2. job[c] \in Listing /\ job[c].todo # <<>> /\ job[c].op = "receive"
    BY <1>1, <1>3
  <2> QED BY <1>0, <2>1, <2>2, TailJob
<1>5. /\ ByClient' /\ seen'[c] = seen[c] /\ newOnOrder'[c] = newOnOrder[c]
      /\ \/ n = 0 /\ pc'[c] = "line" /\ req'[c] = req[c]
         \/ n > 0 /\ pc'[c] = "key" /\ req'[c] = r
  <2> HIDE DEF r, n
  <2> QED BY <1>1 DEF OrderType, ByClient, Goto, workspace
<1>6. \A d \in Clients \ {c} : Rests(d)
  <2> HIDE DEF r, n
  <2> QED BY <1>1 DEF OrderType, ByClient, Goto, Rests, workspace
<1>7. TablesType'
  BY <1>1 DEF OrderType, TablesType, committed, orders
<1>8. job'[c] # NoJob
  BY <1>4
<1>9. CASE n = 0 /\ pc'[c] = "line" /\ req'[c] = req[c]
  <2>1. ~ Moving(c)' /\ HoldsOrder(c)'
    BY <1>8, <1>9 DEF Moving, Statements, HoldsOrder
  <2>2. ClientFits(c)'
    BY <1>1, <1>2, <1>3, <1>4, <1>5, <1>8, <1>9, <2>1
       DEF ClientType, ClientFits, Statements
  <2>3. ClientType(c)'
    BY <1>1, <1>2, <1>4, <1>5, <1>9, <2>2
       DEF ClientType, OrderStatements, workspace
  <2> QED BY <1>0, <1>1, <1>3, <1>4, <1>5, <1>6, <1>7, <1>9, <2>1, <2>3, AloneType
          DEF Alone
<1>10. CASE n > 0 /\ pc'[c] = "key" /\ req'[c] = r
  <2>1. job[c].order \in Docs /\ n \in 1..MaxQty
    <3>1. /\ job[c].taken[i] \in 0..MaxQty \cup {NoOrderLine}
          /\ job[c].taken[i] # NoOrderLine /\ job[c].order \in Docs
      BY <1>3, <1>4, JobKinds DEF Listing
    <3> QED BY <1>10, <3>1, MaxQtyAssumption
  <2>2. r \in OrderRequest
    <3> HIDE DEF n
    <3> QED BY <1>3, <1>4, <2>1, ReceiptRequest
  <2>3. /\ Moving(c)' /\ HoldsOrder(c)' /\ ~ Restates(c)'
    BY <1>4, <1>8, <1>10 DEF Moving, Statements, HoldsOrder, Restates
  <2>4. /\ req'[c].op = "receive" /\ req'[c].item = i
        /\ req'[c].row.type = "receipt" /\ req'[c].row.reverses = 0
        /\ req'[c].row.key = ReceiptKey(job[c].header, job[c].order, i)
        /\ req'[c].row.qty = n
    BY <1>10
  <2>5. req'[c] \in OrderRequest
    BY <1>10, <2>2
  <2> HIDE DEF r, n
  <2>6. ClientFits(c)'
    BY <1>1, <1>2, <1>3, <1>4, <1>5, <1>8, <1>10, <2>3, <2>4, <2>5
       DEF ClientType, ClientFits, Statements
  <2>7. ClientType(c)'
    BY <1>1, <1>2, <1>4, <1>5, <1>10, <2>5, <2>6
       DEF ClientType, OrderStatements, Statements, workspace
  <2>8. n > 0
    BY <1>10
  <2>9. OrderType' /\ Alone(c)
    BY <1>5, <1>6, <1>7, <2>7, AloneType DEF Alone
  <2> QED BY <1>0, <1>1, <1>3, <1>4, <1>10, <2>3, <2>4, <2>8, <2>9 DEF n
<1> QED BY <1>5, <1>9, <1>10

\* The receipt's key: either way the transaction still holds the order.
LEMMA CheckReceiptKeyClient ==
  ASSUME OrderType, NEW c \in Clients, CheckReceiptKey(c)
  PROVE  /\ OrderType' /\ Alone(c) /\ pc[c] = "key" /\ Moving(c)
         /\ HoldsOrder(c) /\ HoldsOrder(c)' /\ job[c].op = "receive"
         /\ UNCHANGED <<committed, workspace, orders, onOrder, outcome>>
         /\ job' = job /\ req' = req
         /\ \/ KeyUsed(journal, req[c].row.key) /\ pc'[c] = "line"
            \/ /\ ~ KeyUsed(journal, req[c].row.key) /\ pc'[c] = "item"
               /\ Moving(c)'
<1>1. /\ pc[c] = "key" /\ job[c] # NoJob
      /\ pc' = [pc EXCEPT ![c] = IF KeyUsed(journal, req[c].row.key)
                                 THEN "line" ELSE "item"]
      /\ UNCHANGED <<committed, archived, req, workspace, outcome, orders,
                     onOrder, orderWork>>
  BY DEF CheckReceiptKey, Goto
<1>2. /\ Moving(c) /\ HoldsOrder(c) /\ job[c] \in Listing /\ job[c].op = "receive"
  BY <1>1, StatementMoves DEF Statements
<1>3. /\ pc'[c] = IF KeyUsed(journal, req[c].row.key) THEN "line" ELSE "item"
      /\ \A d \in Clients \ {c} : pc'[d] = pc[d]
      /\ pc' = [d \in Clients |-> pc'[d]]
  BY <1>1 DEF OrderType, ByClient
<1>4. /\ job' = job /\ req' = req /\ seen' = seen /\ newOnOrder' = newOnOrder
  BY <1>1 DEF orderWork
<1>5. Alone(c)
  BY <1>1, <1>3, <1>4 DEF OrderType, ByClient, Alone, Rests, workspace
<1>6. TablesType'
  BY <1>1 DEF OrderType, TablesType, committed, orders
<1>7. ClientType(c)
  BY DEF OrderType
<1>8. pc'[c] \in {"line", "item"} /\ (pc'[c] = "item" => Moving(c)')
      /\ (pc'[c] = "line" => ~ Moving(c)') /\ HoldsOrder(c)' /\ ~ Restates(c)'
  BY <1>1, <1>2, <1>3, <1>4 DEF Moving, Restates, HoldsOrder, Statements
<1>9. ClientFits(c)'
  BY <1>1, <1>2, <1>4, <1>7, <1>8 DEF ClientType, ClientFits, Statements
<1>10. ClientType(c)'
  BY <1>1, <1>4, <1>7, <1>8, <1>9
     DEF ClientType, OrderStatements, Statements, workspace
<1> QED BY <1>1, <1>2, <1>3, <1>4, <1>5, <1>6, <1>8, <1>10, AloneType

\* The lines of the order, read once it is locked.
LEMMA LockedJob ==
  ASSUME OrderType, NEW c \in Clients, pc[c] = "order", ListLines(c)
  PROVE  LET d == job[c].order
             j == job'[c]
         IN
         /\ job' = [job EXCEPT ![c] = j] /\ job[c] \in Processing
         /\ j \in Listing /\ j.order = d /\ j.op = job[c].op
         /\ j.header = job[c].header
         /\ ToSet(j.todo) = {i \in Items : orderLines[d][i] # NoOrderLine}
         /\ \A i \in Items : (j.taken[i] = NoOrderLine) <=>
                               (orderLines[d][i] = NoOrderLine)
<1> DEFINE d == job[c].order
           S == {i \in Items : orderLines[d][i] # NoOrderLine}
<1>1. job[c] \in Processing /\ d \in Docs /\ job[c].actual \in Some \cup {<<>>}
  BY JobKinds DEF OrderType, ClientType, ClientFits
<1>2. orderLines[d] \in [Items -> OrderLine \cup {NoOrderLine}]
  BY <1>1 DEF OrderType, TablesType
<1>3. S \subseteq Items /\ IsFiniteSet(S)
  BY ItemsFinite, FS_Subset
<1>4. PICK todo \in Listed(S) :
         job' = [job EXCEPT ![c].taken = Taken(orderLines[d], job[c].actual),
                            ![c].actual = <<>>, ![c].todo = todo]
  BY DEF ListLines
<1> HIDE DEF S
<1>5. todo \in SetToSeqs(S)
  BY <1>4 DEF Listed
<1>6. todo \in Seq(S) /\ IsInjective(todo) /\ ToSet(todo) = S
  BY <1>3, <1>5, ListingProperties
<1>7. todo \in Seq(Items)
  BY <1>3, <1>6, SeqMonotonic
<1>8. PICK taken : taken = Taken(orderLines[d], job[c].actual)
  OBVIOUS
<1>9. /\ taken \in [Items -> 0..MaxQty \cup {NoOrderLine}]
      /\ \A i \in Items : (taken[i] = NoOrderLine) <=>
                            (orderLines[d][i] = NoOrderLine)
  BY <1>1, <1>2, <1>8, TakenType
<1> DEFINE t == [job[c] EXCEPT !.taken = taken, !.actual = <<>>, !.todo = todo]
<1>10. job' = [job EXCEPT ![c] = t] /\ job'[c] = t
  BY <1>4, <1>8 DEF OrderType, ByClient
<1>11. /\ t \in Processing /\ t.order = d /\ t.op = job[c].op
       /\ t.header = job[c].header /\ t.todo = todo /\ t.taken = taken
  BY <1>1, <1>7, <1>9 DEF Processing
<1> HIDE DEF t
<1>12. t \in Listing
  BY <1>6, <1>9, <1>11 DEF Listing, S
<1> QED BY <1>1, <1>6, <1>9, <1>10, <1>11, <1>12 DEF S

LEMMA LockOrderClient ==
  ASSUME OrderType, NEW c \in Clients, LockOrder(c)
  PROVE  /\ OrderType' /\ Alone(c) /\ pc[c] = "order"
         /\ UNCHANGED <<committed, orders, onOrder>>
         /\ \/ Rollback(c, "refused") /\ EndJob(c)
            \/ LET d == job[c].order
                   j == job'[c]
               IN
               /\ orderStatus[d] \in Allowed(job[c].op) /\ OrderFree(c, d)
               /\ HoldsOrder(c)' /\ pc'[c] = "line"
               /\ UNCHANGED <<workspace, outcome>>
               /\ j \in Listing /\ j.order = d /\ j.op = job[c].op
               /\ ToSet(j.todo) = {i \in Items : orderLines[d][i] # NoOrderLine}
               /\ \A i \in Items : (j.taken[i] = NoOrderLine) <=>
                                     (orderLines[d][i] = NoOrderLine)
<1> DEFINE d == job[c].order
           j == job'[c]
<1>1. pc[c] = "order" /\ OrderFree(c, d) /\ UNCHANGED <<orders, onOrder>>
  BY DEF LockOrder
<1>2. CASE Rollback(c, "refused") /\ EndJob(c)
  <2>1. OrderType'
    BY <1>1, <1>2, RollbackOrderType DEF OrderType, TablesType, orders
  <2>2. Alone(c) /\ UNCHANGED committed
    BY <1>2, EndedClient DEF Rollback
  <2> QED BY <1>1, <1>2, <2>1, <2>2
<1>3. CASE /\ orderStatus[d] \in Allowed(job[c].op)
           /\ ListLines(c)
           /\ Goto(c, "line")
           /\ UNCHANGED <<committed, req, workspace, outcome, newOnOrder, seen>>
  <2>1. /\ job' = [job EXCEPT ![c] = j] /\ job[c] \in Processing
        /\ j \in Listing /\ j.order = d /\ j.op = job[c].op
        /\ j.header = job[c].header
        /\ ToSet(j.todo) = {i \in Items : orderLines[d][i] # NoOrderLine}
        /\ \A i \in Items : (j.taken[i] = NoOrderLine) <=>
                              (orderLines[d][i] = NoOrderLine)
    BY <1>1, <1>3, LockedJob
  <2>2. j \in Processing /\ j # NoJob /\ job[c] # NoJob
    BY <2>1 DEF Listing
  <2>3. PICK k : job' = [job EXCEPT ![c] = k]
    BY <2>1
  <2>4. Alone(c) /\ pc'[c] = "line"
    BY <1>3, <2>3 DEF OrderType, ByClient, Goto, Alone, Rests, workspace
  <2>5. TablesType'
    BY <1>1, <1>3 DEF OrderType, TablesType, committed, orders
  <2>6. ~ Moving(c)' /\ HoldsOrder(c)'
    BY <2>2, <2>4 DEF Moving, HoldsOrder, Statements
  <2>7. ClientType(c)
    BY DEF OrderType
  <2>8. ClientFits(c)'
    BY <1>1, <1>3, <2>1, <2>2, <2>4, <2>6, <2>7
       DEF ClientType, ClientFits, Statements
  <2>9. ClientType(c)'
    BY <1>3, <2>2, <2>4, <2>7, <2>8 DEF ClientType, OrderStatements, workspace
  <2>10. OrderType'
    BY <2>4, <2>5, <2>9, AloneType
  <2> HIDE DEF j
  <2> QED BY <1>1, <1>3, <2>1, <2>4, <2>6, <2>10 DEF j
<1> QED BY <1>2, <1>3 DEF LockOrder

\* The status an order is left with.
LEMMA StatusOfType ==
  \A j \in Processing : StatusOf(j.op) \in {"sent", "received", "cancelled"}
  BY JobKinds DEF StatusOf

\* The order's lines at the commit: what was ordered stands, and if the order is
\* received, each line says what was taken of it.
LEMMA FinishOrderClient ==
  ASSUME OrderType, NEW c \in Clients, FinishOrder(c)
  PROVE  LET j == job[c] IN
         /\ OrderType' /\ pc[c] = "line" /\ HoldsOrder(c) /\ j \in Listing
         /\ j.order \in Docs
         /\ j.op \in {"send", "cancel", "receive"}
         /\ ToSet(j.todo) = {} /\ Publish(c) /\ End(c, "done") /\ EndJob(c)
         /\ orderStatus' = [orderStatus EXCEPT ![j.order] = StatusOf(j.op)]
         /\ \A d \in Docs \ {j.order} : orderLines'[d] = orderLines[d]
         /\ \A i \in Items :
              LET l == orderLines[j.order][i]
                  m == orderLines'[j.order][i]
              IN
              /\ (m # NoOrderLine) <=> (l # NoOrderLine)
              /\ l # NoOrderLine =>
                   m.received = IF j.op = "receive" /\ j.taken[i] # NoOrderLine
                                THEN j.taken[i] ELSE l.received
<1> DEFINE j == job[c]
           receivedOf(i) == IF j.op = "receive" /\ j.taken[i] # NoOrderLine
                            THEN j.taken[i] ELSE orderLines[j.order][i].received
           new == [i \in Items |->
                     IF orderLines[j.order][i] = NoOrderLine THEN NoOrderLine
                     ELSE [ordered |-> orderLines[j.order][i].ordered,
                           received |-> receivedOf(i)]]
<1>1. /\ pc[c] = "line" /\ j.todo = <<>> /\ Publish(c)
      /\ orderStatus' = [orderStatus EXCEPT ![j.order] = StatusOf(j.op)]
      /\ orderLines' = [orderLines EXCEPT ![j.order] = new]
      /\ onOrder' = Merged(newOnOrder[c], onOrder)
      /\ End(c, "done") /\ EndJob(c)
  BY DEF FinishOrder
<1>2. HoldsOrder(c) /\ j \in Listing
  BY <1>1 DEF OrderType, ClientType, ClientFits, HoldsOrder
<1>3. /\ j \in Processing /\ j.order \in Docs
      /\ j.op \in {"send", "cancel", "receive"}
      /\ j.taken \in [Items -> 0..MaxQty \cup {NoOrderLine}]
  BY <1>2, JobKinds DEF Listing
<1>4. ASSUME NEW i \in Items
      PROVE  LET l == orderLines[j.order][i] IN
             l # NoOrderLine => /\ new[i] \in OrderLine /\ new[i] # NoOrderLine
                                /\ new[i].received = receivedOf(i)
  <2> DEFINE l == orderLines[j.order][i]
  <2>1. SUFFICES ASSUME l # NoOrderLine
                 PROVE  /\ new[i] \in OrderLine /\ new[i] # NoOrderLine
                        /\ new[i].received = receivedOf(i)
    OBVIOUS
  <2>2. l \in OrderLine
    BY <1>3, <2>1 DEF OrderType, TablesType
  <2>3. l.ordered \in 1..MaxQty /\ l.received \in 0..MaxQty
    BY <2>2 DEF OrderLine
  <2>4. receivedOf(i) \in 0..MaxQty
    BY <1>3, <2>3
  <2>5. new[i] = [ordered |-> l.ordered, received |-> receivedOf(i)]
    BY <2>1
  <2> HIDE DEF receivedOf, new, l
  <2>6. new[i] \in OrderLine
    BY <2>3, <2>4, <2>5 DEF OrderLine
  <2> QED BY <2>5, <2>6
<1>5. \A i \in Items : orderLines[j.order][i] = NoOrderLine => new[i] = NoOrderLine
  OBVIOUS
<1>6. new \in [Items -> OrderLine \cup {NoOrderLine}]
  <2>1. new = [i \in Items |-> new[i]]
    OBVIOUS
  <2> HIDE DEF new
  <2> QED BY <1>4, <1>5, <2>1
<1> HIDE DEF new
<1>7. /\ orderLines'[j.order] = new
      /\ \A d \in Docs \ {j.order} : orderLines'[d] = orderLines[d]
      /\ orderLines' \in [Docs -> [Items -> OrderLine \cup {NoOrderLine}]]
  BY <1>1, <1>3, <1>6 DEF OrderType, TablesType
<1>8. TablesType'
  <2>1. StatusOf(j.op) \in {"sent", "received", "cancelled"}
    BY <1>3, StatusOfType
  <2> HIDE DEF j
  <2>2. orderStatus' \in
          [Docs -> {"none", "draft", "sent", "received", "cancelled"}]
    BY <1>1, <2>1 DEF OrderType, TablesType
  <2> QED BY <1>1, <1>7, <2>2, PublishType DEF TablesType
<1>9. OrderType'
  BY <1>1, <1>8, EndedClient, AloneType
<1>10. ToSet(j.todo) = {}
  <2>1. <<>> \in Seq(Items) /\ Len(<<>>) = 0
    BY EmptySeq
  <2>2. DOMAIN <<>> = 1..0
    BY <2>1, LenProperties, Zenon
  <2>3. DOMAIN j.todo = {}
    <3>1. 1..0 = {}
      OBVIOUS
    <3> QED BY <1>1, <2>2, <3>1, Zenon
  <2> QED BY <2>3 DEF ToSet
<1> QED BY <1>1, <1>2, <1>3, <1>4, <1>5, <1>7, <1>9, <1>10

\* Editing a draft writes whole lines; what was received of a line stays, unless
\* the line is taken out.
LEMMA WriteOrderLinesType ==
  ASSUME OrderType, NEW c \in Clients, WriteOrderLines(c)
  PROVE  /\ OrderType' /\ pc[c] = "update" /\ ~ HoldsOrder(c)
         /\ Rollback(c, "done") /\ EndJob(c) /\ UNCHANGED orderStatus
         /\ \A d \in Docs, i \in Items :
              (orderLines'[d][i] # NoOrderLine /\ orderLines'[d][i].received > 0)
                => /\ orderLines[d][i] # NoOrderLine
                   /\ orderLines[d][i].received = orderLines'[d][i].received
<1> DEFINE d == job[c].order
           wanted == job[c].wanted
           was(i) == IF orderLines[d][i] = NoOrderLine THEN 0
                     ELSE orderLines[d][i].received
           new == [i \in Items |->
                     IF i \notin DOMAIN wanted THEN orderLines[d][i]
                     ELSE IF wanted[i] = 0 THEN NoOrderLine
                     ELSE [ordered |-> wanted[i], received |-> was(i)]]
<1>1. /\ pc[c] = "update" /\ Rollback(c, "done") /\ EndJob(c)
      /\ UNCHANGED <<orderStatus, onOrder>>
      /\ orderLines' = [orderLines EXCEPT ![d] = new]
  BY DEF WriteOrderLines
<1>2. d \in Docs /\ wanted \in Some
  BY <1>1, JobKinds DEF OrderType, ClientType, ClientFits
<1>3. PICK S \in SUBSET Items : wanted \in [S -> 0..MaxQty]
  BY <1>2 DEF Some
<1>4. orderLines[d] \in [Items -> OrderLine \cup {NoOrderLine}]
  BY <1>2 DEF OrderType, TablesType
<1>5. ASSUME NEW i \in Items
      PROVE  /\ new[i] \in OrderLine \cup {NoOrderLine}
             /\ (new[i] # NoOrderLine /\ new[i].received > 0) =>
                  /\ orderLines[d][i] # NoOrderLine
                  /\ orderLines[d][i].received = new[i].received
  <2>1. CASE i \notin DOMAIN wanted
    BY <1>4, <2>1
  <2>2. CASE i \in DOMAIN wanted /\ wanted[i] = 0
    BY <2>2
  <2>3. CASE i \in DOMAIN wanted /\ wanted[i] # 0
    <3>1. new[i] = [ordered |-> wanted[i], received |-> was(i)]
      BY <2>3
    <3>2. wanted[i] \in 1..MaxQty
      BY <1>3, <2>3
    <3>3. orderLines[d][i] # NoOrderLine => orderLines[d][i].received \in 0..MaxQty
      BY <1>4 DEF OrderLine
    <3>4. was(i) \in 0..MaxQty
      BY <3>3, MaxQtyAssumption
    <3>5. was(i) > 0 => /\ orderLines[d][i] # NoOrderLine
                        /\ orderLines[d][i].received = was(i)
      OBVIOUS
    <3> HIDE DEF new, was
    <3>6. new[i] \in OrderLine /\ new[i].received = was(i)
      BY <3>1, <3>2, <3>4 DEF OrderLine
    <3> QED BY <3>5, <3>6
  <2> QED BY <2>1, <2>2, <2>3
<1>6. new \in [Items -> OrderLine \cup {NoOrderLine}]
  <2>1. new = [i \in Items |-> new[i]]
    OBVIOUS
  <2> HIDE DEF new
  <2> QED BY <1>5, <2>1
<1> HIDE DEF new, d
<1>7. /\ orderLines'[d] = new
      /\ \A e \in Docs \ {d} : orderLines'[e] = orderLines[e]
      /\ orderLines' \in [Docs -> [Items -> OrderLine \cup {NoOrderLine}]]
  BY <1>1, <1>2, <1>6 DEF OrderType, TablesType
<1>8. OrderType'
  BY <1>1, <1>7, RollbackOrderType
<1>9. ~ HoldsOrder(c)
  BY <1>1 DEF HoldsOrder
<1> QED BY <1>1, <1>5, <1>7, <1>8, <1>9

\* A request of a client's own, and its answer when it may not cancel.
LEMMA BeginOrderMovementClient ==
  ASSUME OrderType, NEW c \in Clients, BeginOrderMovement(c)
  PROVE  /\ OrderType' /\ Alone(c) /\ UNCHANGED <<orders, onOrder>>
         /\ ~ HoldsOrder(c)' /\ ~ HoldsOrder(c) /\ pc[c] = "idle"
         /\ UNCHANGED <<committed, workspace>>
         /\ \/ UNCHANGED <<pc, req, workspace, orderWork>>
            \/ LET m == req'[c].row
                   i == req'[c].item
               IN
               /\ Moving(c)' /\ pc'[c] \in {"key", "reversal"} /\ job'[c] = NoJob
               /\ m.key \in UserKeys \cup {NoKey}
               /\ m.reverses # 0 =>
                    /\ m.reverses \in DOMAIN journal[i]
                    /\ journal[i][m.reverses].type # "reversal"
                    /\ m.qty = - journal[i][m.reverses].qty
                    /\ m.by \in Owners \/ m.by = journal[i][m.reverses].by
<1>1. UNCHANGED <<orders, onOrder, orderWork>>
  BY DEF BeginOrderMovement
<1>2. UNCHANGED <<newOnOrder, seen>> /\ job' = job
  BY <1>1 DEF orderWork
<1>3. ASSUME NEW r \in OrderRequest, r.op # "receive",
             NEW statement \in {"key", "reversal"}, Begin(c, r, statement)
      PROVE  /\ OrderType' /\ Alone(c) /\ pc[c] = "idle"
             /\ ~ HoldsOrder(c)' /\ ~ HoldsOrder(c)
             /\ UNCHANGED <<committed, workspace>>
             /\ Moving(c)' /\ pc'[c] = statement /\ job'[c] = NoJob /\ req'[c] = r
  <2>1. /\ Alone(c) /\ ClientType(c)' /\ pc[c] = "idle" /\ pc'[c] = statement
        /\ req'[c] = r /\ job[c] = NoJob /\ ~ HoldsOrder(c)'
        /\ UNCHANGED <<committed, workspace>>
    BY <1>2, <1>3, BegunClient
  <2>2. TablesType'
    BY <1>1, <2>1 DEF OrderType, TablesType, committed, orders
  <2>3. ~ HoldsOrder(c) /\ Moving(c)'
    BY <1>2, <2>1 DEF HoldsOrder, Moving, Restates, Statements
  <2> QED BY <1>2, <2>1, <2>2, <2>3, AloneType
<1>4. ASSUME NEW i \in Items, NEW type \in Kinds, NEW n \in 1..MaxQty,
             NEW k \in UserKeys, StartRecord(c, i, type, n, k)
      PROVE  \E r \in OrderRequest :
               /\ r.op # "receive" /\ Begin(c, r, "key")
               /\ r.row.key \in UserKeys /\ r.row.reverses = 0
  <2> DEFINE r == [op |-> "record", item |-> i,
                   row |-> [type |-> type, qty |-> signedQty(type, n),
                            key |-> k, reverses |-> 0, by |-> c, doc |-> NoDoc]]
  <2>0. k \in Keys
    OBVIOUS
  <2>1. r \in Request
    BY <2>0, RecordRequest
  <2>2. Begin(c, r, "key")
    BY <1>4 DEF StartRecord
  <2>3. r.op = "record" /\ r.row.key = k /\ r.row.reverses = 0
    OBVIOUS
  <2> HIDE DEF r
  <2>4. r \in OrderRequest
    BY <2>1 DEF Request, OrderRequest
  <2> QED BY <2>2, <2>3, <2>4
<1>5. ASSUME NEW i \in Items, NEW n \in DOMAIN journal[i], StartReverse(c, i, n)
      PROVE  \E r \in OrderRequest :
               /\ r.op # "receive" /\ Begin(c, r, "reversal")
               /\ r.row.key = NoKey /\ r.item = i /\ r.row.reverses = n
               /\ r.row.qty = - journal[i][n].qty /\ r.row.by = c
               /\ journal[i][n].type # "reversal"
               /\ c \in Owners \/ c = journal[i][n].by
  <2> DEFINE r == [op |-> "reverse", item |-> i,
                   row |-> [type |-> "reversal", qty |-> - journal[i][n].qty,
                            key |-> NoKey, reverses |-> n, by |-> c,
                            doc |-> NoDoc]]
  <2>1. r \in Request
    BY ReverseRequest DEF OrderType, TablesType
  <2>2. /\ Begin(c, r, "reversal") /\ journal[i][n].type # "reversal"
        /\ c \in Owners \/ c = journal[i][n].by
    BY <1>5 DEF StartReverse
  <2>3. /\ r.op = "reverse" /\ r.row.key = NoKey /\ r.item = i
        /\ r.row.reverses = n /\ r.row.qty = - journal[i][n].qty /\ r.row.by = c
    OBVIOUS
  <2> HIDE DEF r
  <2>4. r \in OrderRequest
    BY <2>1 DEF Request, OrderRequest
  <2> QED BY <2>2, <2>3, <2>4
<1>6. ASSUME NEW i \in Items, NEW n \in DOMAIN journal[i], RefuseReverse(c, i, n)
      PROVE  /\ OrderType' /\ Alone(c) /\ pc[c] = "idle"
             /\ ~ HoldsOrder(c)' /\ ~ HoldsOrder(c)
             /\ UNCHANGED <<committed, workspace>>
             /\ UNCHANGED <<pc, req, workspace, orderWork>>
  <2>1. /\ UNCHANGED <<committed, pc, req, workspace>> /\ pc[c] = "idle"
        /\ outcome' = [outcome EXCEPT ![c] = "cannot-reverse"]
    BY <1>6 DEF RefuseReverse
  <2>2. Alone(c)
    BY <1>2, <2>1 DEF OrderType, ByClient, Alone, Rests, workspace
  <2>3. ClientType(c)
    BY DEF OrderType
  <2>4. ~ HoldsOrder(c)' /\ ~ HoldsOrder(c)
    BY <1>2, <2>1, <2>3 DEF HoldsOrder, ClientType, ClientFits
  <2>5. ClientType(c)'
    BY <1>2, <2>1, <2>3
       DEF ClientType, ClientFits, Restates, Moving, HoldsOrder, workspace
  <2>6. TablesType'
    BY <1>1, <2>1 DEF OrderType, TablesType, committed, orders
  <2> QED BY <1>1, <2>1, <2>2, <2>4, <2>5, <2>6, AloneType
<1>7. \/ \E i \in Items, type \in Kinds, n \in 1..MaxQty, k \in UserKeys :
           StartRecord(c, i, type, n, k)
      \/ \E i \in Items : \E n \in DOMAIN journal[i] :
           StartReverse(c, i, n) \/ RefuseReverse(c, i, n)
  BY DEF BeginOrderMovement
<1>8. CASE \E i \in Items, type \in Kinds, n \in 1..MaxQty, k \in UserKeys :
             StartRecord(c, i, type, n, k)
  <2>1. PICK r \in OrderRequest :
               /\ r.op # "receive" /\ Begin(c, r, "key")
               /\ r.row.key \in UserKeys /\ r.row.reverses = 0
    BY <1>4, <1>8
  <2> QED BY <1>1, <1>3, <2>1
<1>9. CASE \E i \in Items : \E n \in DOMAIN journal[i] : StartReverse(c, i, n)
  <2>0. PICK i \in Items : \E n \in DOMAIN journal[i] : StartReverse(c, i, n)
    BY <1>9
  <2>1. PICK n \in DOMAIN journal[i] : StartReverse(c, i, n)
    BY <2>0
  <2>2. PICK r \in OrderRequest :
               /\ r.op # "receive" /\ Begin(c, r, "reversal")
               /\ r.row.key = NoKey /\ r.item = i /\ r.row.reverses = n
               /\ r.row.qty = - journal[i][n].qty /\ r.row.by = c
               /\ journal[i][n].type # "reversal"
               /\ c \in Owners \/ c = journal[i][n].by
    BY <1>5, <2>1
  <2>3. /\ OrderType' /\ Alone(c) /\ pc[c] = "idle"
        /\ ~ HoldsOrder(c)' /\ ~ HoldsOrder(c)
        /\ UNCHANGED <<committed, workspace>>
        /\ Moving(c)' /\ pc'[c] = "reversal" /\ job'[c] = NoJob /\ req'[c] = r
    BY <1>3, <2>2
  <2> QED BY <1>1, <2>2, <2>3
<1>10. CASE \E i \in Items : \E n \in DOMAIN journal[i] : RefuseReverse(c, i, n)
  BY <1>1, <1>6, <1>10
<1> QED BY <1>7, <1>8, <1>9, <1>10

\* A request about an order.
LEMMA BeginOrderClient ==
  ASSUME OrderType, NEW c \in Clients, NEW d \in Docs, BeginOrder(c, d)
  PROVE  /\ OrderType' /\ Alone(c) /\ UNCHANGED <<orders, onOrder>>
         /\ ~ HoldsOrder(c)' /\ ~ HoldsOrder(c) /\ pc[c] = "idle" /\ ~ Moving(c)'
         /\ UNCHANGED <<committed, workspace>>
<1>1. UNCHANGED <<orders, onOrder, newOnOrder, seen>>
  BY DEF BeginOrder, StartUpdateLines, StartOrderJob
<1>2. ASSUME NEW statement \in {"update", "order"}, Begin(c, NoReq, statement),
             \/ /\ statement = "update"
                /\ \E j \in Editing : job' = [job EXCEPT ![c] = j]
             \/ /\ statement = "order"
                /\ \E j \in Processing :
                     /\ job' = [job EXCEPT ![c] = j]
                     /\ j.op = "receive" => j.header \in Headers
      PROVE  /\ OrderType' /\ Alone(c) /\ ~ HoldsOrder(c)' /\ ~ HoldsOrder(c)
             /\ pc[c] = "idle" /\ ~ Moving(c)' /\ UNCHANGED <<committed, workspace>>
  <2>1. /\ Alone(c) /\ ClientType(c)' /\ pc[c] = "idle" /\ pc'[c] = statement
        /\ job[c] = NoJob /\ ~ HoldsOrder(c)'
        /\ UNCHANGED <<committed, workspace>>
    BY <1>1, <1>2, BegunClient
  <2>2. TablesType'
    BY <1>1, <2>1 DEF OrderType, TablesType, committed, orders
  <2>3. ~ HoldsOrder(c) /\ ~ Moving(c)'
    BY <2>1 DEF HoldsOrder, Moving, Statements
  <2> QED BY <2>1, <2>2, <2>3, AloneType
<1>3. ASSUME NEW wanted \in Some, StartUpdateLines(c, d, wanted)
      PROVE  Begin(c, NoReq, "update")
             /\ \E j \in Editing : job' = [job EXCEPT ![c] = j]
  <2> DEFINE j == [order |-> d, op |-> "update", wanted |-> wanted]
  <2>1. j \in Editing
    BY DEF Editing
  <2>2. Begin(c, NoReq, "update") /\ job' = [job EXCEPT ![c] = j]
    BY <1>3 DEF StartUpdateLines
  <2> HIDE DEF j
  <2> QED BY <2>1, <2>2
<1>4. ASSUME NEW op \in {"send", "cancel", "receive"},
             NEW h \in Headers \cup {NoKey}, op = "receive" => h \in Headers,
             NEW actual \in Some \cup {<<>>}, StartOrderJob(c, d, op, h, actual)
      PROVE  Begin(c, NoReq, "order")
             /\ \E j \in Processing : /\ job' = [job EXCEPT ![c] = j]
                                      /\ j.op = "receive" => j.header \in Headers
  <2> DEFINE j == [order |-> d, op |-> op, header |-> h, actual |-> actual,
                   taken |-> Empty(NoOrderLine), todo |-> <<>>]
  <2>1. Empty(NoOrderLine) \in [Items -> 0..MaxQty \cup {NoOrderLine}]
    BY DEF Empty
  <2>2. <<>> \in Seq(Items)
    BY EmptySeq
  <2>3. j \in Processing /\ (j.op = "receive" => j.header \in Headers)
    BY <1>4, <2>1, <2>2 DEF Processing
  <2>4. Begin(c, NoReq, "order") /\ job' = [job EXCEPT ![c] = j]
    BY <1>4 DEF StartOrderJob
  <2> HIDE DEF j
  <2> QED BY <2>3, <2>4
<1>5. CASE \E wanted \in Some : StartUpdateLines(c, d, wanted)
  BY <1>1, <1>2, <1>3, <1>5
<1>6. CASE \E op \in {"send", "cancel"} : StartOrderJob(c, d, op, NoKey, <<>>)
  BY <1>1, <1>2, <1>4, <1>6
<1>7. CASE \E h \in Headers, actual \in Some :
             StartOrderJob(c, d, "receive", h, actual)
  BY <1>1, <1>2, <1>4, <1>7
<1> QED BY <1>5, <1>6, <1>7 DEF BeginOrder

\* A new order: nothing of it has been received.
LEMMA CreateType ==
  ASSUME OrderType, NEW d \in Docs, NEW wanted \in [Items -> 0..MaxQty],
         Create(d, wanted)
  PROVE  /\ OrderType' /\ orderStatus[d] = "none"
         /\ \A e \in Docs \ {d} : /\ orderStatus'[e] = orderStatus[e]
                                  /\ orderLines'[e] = orderLines[e]
         /\ \A i \in Items : orderLines'[d][i] # NoOrderLine =>
                               orderLines'[d][i].received = 0
         /\ UNCHANGED <<vars, onOrder, orderWork>>
<1> DEFINE new == [i \in Items |-> IF wanted[i] = 0 THEN NoOrderLine
                                   ELSE [ordered |-> wanted[i], received |-> 0]]
<1>1. /\ orderStatus[d] = "none"
      /\ orderStatus' = [orderStatus EXCEPT ![d] = "draft"]
      /\ orderLines' = [orderLines EXCEPT ![d] = new]
      /\ UNCHANGED <<vars, onOrder, orderWork>>
  BY DEF Create
<1>2. ASSUME NEW i \in Items
      PROVE  /\ new[i] \in OrderLine \cup {NoOrderLine}
             /\ new[i] # NoOrderLine => new[i].received = 0
  <2>1. CASE wanted[i] = 0
    BY <2>1
  <2>2. CASE wanted[i] # 0
    <3>1. new[i] = [ordered |-> wanted[i], received |-> 0]
      BY <2>2
    <3>2. wanted[i] \in 1..MaxQty /\ 0 \in 0..MaxQty
      BY <2>2, MaxQtyAssumption
    <3> HIDE DEF new
    <3> QED BY <3>1, <3>2 DEF OrderLine
  <2> QED BY <2>1, <2>2
<1>3. new \in [Items -> OrderLine \cup {NoOrderLine}]
  <2>1. new = [i \in Items |-> new[i]]
    OBVIOUS
  <2> HIDE DEF new
  <2> QED BY <1>2, <2>1
<1> HIDE DEF new
<1>4. /\ orderLines'[d] = new
      /\ \A e \in Docs \ {d} : /\ orderStatus'[e] = orderStatus[e]
                               /\ orderLines'[e] = orderLines[e]
      /\ orderLines' \in [Docs -> [Items -> OrderLine \cup {NoOrderLine}]]
      /\ orderStatus' \in
           [Docs -> {"none", "draft", "sent", "received", "cancelled"}]
  BY <1>1, <1>3 DEF OrderType, TablesType
<1>5. TablesType'
  BY <1>1, <1>4 DEF OrderType, TablesType, vars, committed
<1>6. ByClient' /\ \A c \in Clients : Rests(c)
  BY <1>1 DEF OrderType, ByClient, Rests, vars, workspace, orderWork
<1>7. ASSUME NEW c \in Clients PROVE ClientType(c)'
  <2>1. ClientType(c) /\ Rests(c)
    BY <1>6 DEF OrderType
  <2> QED BY <2>1 DEF ClientType, ClientFits, Restates, Moving, HoldsOrder, Rests
<1> QED BY <1>1, <1>2, <1>4, <1>5, <1>6, <1>7 DEF OrderType

\* Nobody's transaction moves, and the tables stand as they are.
LEMMA NothingType ==
  ASSUME OrderType,
         UNCHANGED <<committed, pc, req, workspace, outcome, orders, onOrder,
                     orderWork>>
  PROVE  OrderType'
<1>1. TablesType' /\ ByClient' /\ \A c \in Clients : Rests(c)
  BY DEF OrderType, TablesType, ByClient, Rests, committed, orders, workspace,
         orderWork
<1>2. ASSUME NEW c \in Clients PROVE ClientType(c)'
  <2>1. ClientType(c) /\ Rests(c)
    BY <1>1 DEF OrderType
  <2> QED BY <2>1 DEF ClientType, ClientFits, Restates, Moving, HoldsOrder, Rests
<1> QED BY <1>1, <1>2 DEF OrderType

LEMMA AbortOrderType ==
  ASSUME OrderType, NEW c \in Clients, Abort(c), EndJob(c),
         UNCHANGED <<orders, onOrder>>
  PROVE  OrderType' /\ Rollback(c, "lost") /\ UNCHANGED <<orderStatus, orderLines>>
<1>1. Rollback(c, "lost") /\ UNCHANGED <<orderStatus, orderLines>>
  BY DEF Abort, orders
<1>2. orderLines' \in [Docs -> [Items -> OrderLine \cup {NoOrderLine}]]
  BY <1>1 DEF OrderType, TablesType
<1> QED BY <1>1, <1>2, RollbackOrderType

LEMMA NextOrderType ==
  ASSUME OrderType, [OrdersNext]_orderVars
  PROVE  OrderType'
<1>1. ASSUME NEW c \in Clients, OrderStep(c) PROVE OrderType'
  BY <1>1, MovementStepType, CommitMovementType, WriteOrderLinesType,
     LockOrderClient, ReadInputsClient, UpsertClient, ReceiveLineClient,
     CheckReceiptKeyClient, FinishOrderClient DEF OrderStep
<1>2. ASSUME NEW i \in Items, ArchiveItem(i), UNCHANGED <<orders, onOrder, orderWork>>
      PROVE  OrderType'
  BY <1>2, NothingType DEF ArchiveItem
<1>3. CASE UNCHANGED orderVars
  <2>1. UNCHANGED <<committed, pc, req, workspace, outcome, orders, onOrder,
                    orderWork>>
    BY <1>3 DEF orderVars, vars
  <2> QED BY <2>1, NothingType
<1>4. ASSUME NEW c \in Clients, BeginOrderMovement(c) PROVE OrderType'
  BY <1>4, BeginOrderMovementClient
<1>5. ASSUME NEW c \in Clients, NEW d \in Docs, BeginOrder(c, d) PROVE OrderType'
  BY <1>5, BeginOrderClient
<1>6. ASSUME NEW c \in Clients, Abort(c) /\ EndJob(c) /\ UNCHANGED <<orders, onOrder>>
      PROVE  OrderType'
  BY <1>6, AbortOrderType
<1>7. ASSUME NEW d \in Docs, NEW wanted \in [Items -> 0..MaxQty], Create(d, wanted)
      PROVE  OrderType'
  BY <1>7, CreateType
<1> QED BY <1>1, <1>2, <1>3, <1>4, <1>5, <1>6, <1>7 DEF OrdersNext

LEMMA OrderTypeInvariant == OrdersSpec => []OrderType
<1>1. ASSUME OrdersInit PROVE OrderType
  <2>1. TablesType
    <3>1. <<>> \in Seq(Movement)
      BY EmptySeq
    <3> QED BY <1>1, <3>1 DEF OrdersInit, Init, TablesType, Empty
  <2>2. ByClient
    BY <1>1 DEF OrdersInit, Init, ByClient
  <2>3. ASSUME NEW c \in Clients PROVE ClientType(c)
    <3>1. /\ pc[c] = "idle" /\ job[c] = NoJob /\ req[c] = NoReq
          /\ seen[c] = NoSight /\ held[c] = {} /\ rows[c] = Empty(NoRow)
          /\ newHand[c] = Empty(Unset) /\ newBasis[c] = Empty(Unset)
          /\ newOnOrder[c] = Empty(Unset)
      BY <1>1 DEF OrdersInit, Init
    <3>2. ClientFits(c)
      BY <3>1 DEF ClientFits, Restates, Moving, HoldsOrder, Statements
    <3> QED BY <3>1, <3>2 DEF ClientType, OrderStatements, Empty
  <2> QED BY <2>1, <2>2, <2>3 DEF OrderType
<1>2. OrderType /\ [OrdersNext]_orderVars => OrderType'
  BY NextOrderType
<1> QED BY <1>1, <1>2, PTL DEF OrdersSpec

-----------------------------------------------------------------------------
(* The invariant.                                                           *)

\* The balance has been locked and checked; the movement has been inserted; the
\* balance has been updated.
Pending  == {"insert", "apply", "status", "upsert", "done"}
Inserted == {"apply", "status", "upsert", "done"}
Updated  == {"status", "upsert", "done"}

\* The item of the movement a transaction is about.
Current(c, i) == Moving(c) /\ i = req[c].item

\* An order a transaction has locked is as it found it.
OrderInv(c) == HoldsOrder(c) => orderStatus[job[c].order] \in Allowed(job[c].op)

\* What a transaction has locked and written, by the statement it has reached:
\* the movements of items other than the current one are applied.
WorkInv(c) ==
  /\ (Moving(c) /\ pc[c] \in Pending) =>
       /\ req[c].item \in held[c]
       /\ onHand[req[c].item] + req[c].row.qty >= 0
  /\ \A i \in Items :
       /\ Current(c, i) => rows[c][i] = IF pc[c] \in Inserted
                                          THEN req[c].row ELSE NoRow
       /\ rows[c][i] # NoRow =>
            /\ i \in held[c]
            /\ onHand[i] + rows[c][i].qty >= 0
            /\ Current(c, i) \/ (HoldsOrder(c) /\ job[c].op = "receive")
       /\ newHand[c][i] =
            IF rows[c][i] # NoRow /\ (Current(c, i) => pc[c] \in Updated)
              THEN onHand[i] + rows[c][i].qty ELSE Unset

\* The key a transaction's movement of item i has: that of its line, or one of
\* the client's own.
Fits(c, i, m) ==
  IF job[c] = NoJob
    THEN m.key \in UserKeys \cup {NoKey}
    ELSE /\ m.type = "receipt" /\ m.reverses = 0
         /\ m.key = ReceiptKey(job[c].header, job[c].order, i)
         /\ m.qty = job[c].taken[i]

RowsFit(c) ==
  /\ Moving(c) => Fits(c, req[c].item, req[c].row)
  /\ \A i \in Items : rows[c][i] # NoRow => Fits(c, i, rows[c][i])

\* A line that is still to be received has no movement; one that has been, or
\* is being received has one, if anything of it came.
LinesInv(c) ==
  (HoldsOrder(c) /\ job[c].op = "receive") =>
    /\ \A i \in ToSet(job[c].todo) : rows[c][i] = NoRow /\ ~ Current(c, i)
    /\ \A i \in Items \ ToSet(job[c].todo) :
         job[c].taken[i] \notin {0, NoOrderLine} =>
           rows[c][i] # NoRow \/ Current(c, i)

CanReverse(i, m) ==
  m.reverses # 0 =>
    /\ m.reverses \in DOMAIN journal[i]
    /\ journal[i][m.reverses].type # "reversal"
    /\ m.qty = - journal[i][m.reverses].qty
    /\ m.by \in Owners \/ m.by = journal[i][m.reverses].by

IsFresh(i, m) ==
  /\ m.key # NoKey => ~ KeyUsed(journal, m.key)
  /\ m.reverses # 0 => ~ IsReversed(journal[i], m.reverses)

\* A movement may cancel what it names; nobody has used its key or cancelled
\* the same movement before.
LawInv(c) ==
  /\ Moving(c) => CanReverse(req[c].item, req[c].row)
  /\ \A i \in Items : rows[c][i] # NoRow =>
       CanReverse(i, rows[c][i]) /\ IsFresh(i, rows[c][i])

\* Two transactions do not hold the same order.
OrdersExclusive ==
  \A c, d \in Clients : (c # d /\ HoldsOrder(c) /\ HoldsOrder(d)) =>
    job[c].order # job[d].order

\* The unique indexes, for movements not yet committed.
NoClashes ==
  \A c, d \in Clients : c # d => \A i, j \in Items :
    rows[c][i] # NoRow => ~ Clash(i, rows[c][i], j, rows[d][j])

\* The key of a receipt is used for a movement of its own item only.
KeysInPlace ==
  \A i, j \in Items, h \in Headers, d \in Docs : \A n \in DOMAIN journal[i] :
    journal[i][n].key = ReceiptKey(h, d, j) => i = j

\* ReceiptsMatchOrder alone says nothing of the receipts that are under way,
\* nor that the order they belong to is still to be received.
OrderInvs ==
  /\ OrderType
  /\ LocksExclusive /\ OrdersExclusive /\ NoClashes
  /\ \A c \in Clients : OrderInv(c)
  /\ \A c \in Clients : WorkInv(c)
  /\ \A c \in Clients : RowsFit(c)
  /\ \A c \in Clients : LinesInv(c)
  /\ \A c \in Clients : LawInv(c)
  /\ KeysInPlace /\ ReceiptsMatchOrder

\* An order that exists keeps its status; what a line says was received, it
\* said before.
StatusKept == \A d \in Docs : orderStatus[d] # "none" => orderStatus'[d] = orderStatus[d]

LinesKept ==
  \A d \in Docs, i \in Items :
    (orderLines'[d][i] # NoOrderLine /\ orderLines'[d][i].received > 0)
      => /\ orderLines[d][i] # NoOrderLine
         /\ orderLines[d][i].received = orderLines'[d][i].received

\* Whoever is left alone, with the balances and the order it has locked, stands
\* where it stood.
LEMMA RestingClient ==
  ASSUME OrderInvs, NEW d \in Clients, Rests(d),
         \A i \in held[d] : onHand'[i] = onHand[i],
         HoldsOrder(d) => orderStatus'[job[d].order] = orderStatus[job[d].order]
  PROVE  OrderInv(d)' /\ WorkInv(d)' /\ RowsFit(d)' /\ LinesInv(d)'
<1> USE DEF Rests
<1>1. /\ OrderType /\ OrderInv(d) /\ WorkInv(d) /\ RowsFit(d) /\ LinesInv(d)
      /\ ClientType(d)
  BY DEF OrderInvs, OrderType
<1>2. HoldsOrder(d)' = HoldsOrder(d) /\ Moving(d)' = Moving(d)
  BY DEF HoldsOrder, Moving, Restates
<1>3. \A i \in Items : Current(d, i)' = Current(d, i)
  BY <1>2 DEF Current
<1>4. OrderInv(d)'
  BY <1>1, <1>2 DEF OrderInv
<1>5. WorkInv(d)'
  <2>1. (Moving(d) /\ pc[d] \in Pending) => onHand'[req[d].item] = onHand[req[d].item]
    BY <1>1 DEF WorkInv
  <2>2. \A i \in Items : rows[d][i] # NoRow => onHand'[i] = onHand[i]
    BY <1>1 DEF WorkInv
  <2> QED BY <1>1, <1>2, <1>3, <2>1, <2>2 DEF WorkInv
<1>6. RowsFit(d)'
  BY <1>1, <1>2 DEF RowsFit, Fits
<1>7. LinesInv(d)'
  <2>1. ASSUME HoldsOrder(d), NEW i \in ToSet(job[d].todo) PROVE i \in Items
    <3>1. job[d] \in Listing
      BY <1>1, <2>1 DEF ClientType, ClientFits
    <3>2. job[d].todo \in Seq(Items)
      BY <3>1, JobKinds DEF Listing
    <3> QED BY <2>1, <3>2, ElementOfSeq DEF ToSet
  <2> QED BY <1>1, <1>2, <1>3, <2>1 DEF LinesInv
<1> QED BY <1>4, <1>5, <1>6, <1>7

\* While the journal stands, a client obeys the law by its new request and rows.
LEMMA LawStands ==
  ASSUME journal' = journal, NEW c \in Clients,
         Moving(c)' => CanReverse(req'[c].item, req'[c].row),
         \A k \in Items : rows'[c][k] # NoRow =>
           CanReverse(k, rows'[c][k]) /\ IsFresh(k, rows'[c][k])
  PROVE  LawInv(c)'
<1>1. (Moving(c)') => CanReverse(req[c].item, req[c].row)'
  BY DEF CanReverse
<1>2. ASSUME NEW k \in Items, rows'[c][k] # NoRow
      PROVE  CanReverse(k, rows[c][k])' /\ IsFresh(k, rows[c][k])'
  <2>1. CanReverse(k, rows'[c][k]) /\ IsFresh(k, rows'[c][k])
    BY <1>2
  <2>2. CanReverse(k, rows[c][k])'
    BY <2>1 DEF CanReverse
  <2>3. IsFresh(k, rows[c][k])'
    BY <2>1 DEF IsFresh, KeyUsed, IsReversed
  <2> QED BY <2>2, <2>3
<1> QED BY <1>1, <1>2 DEF LawInv

\* So does its part of the law, while the journal stands.
LEMMA RestingLaw ==
  ASSUME OrderInvs, NEW d \in Clients, Rests(d), journal' = journal
  PROVE  LawInv(d)'
<1>1. Moving(d)' = Moving(d) /\ LawInv(d)
  BY DEF OrderInvs, Moving, Restates, Rests
<1>2. req'[d] = req[d] /\ rows'[d] = rows[d]
  BY DEF Rests
<1>3. Moving(d)' => CanReverse(req'[d].item, req'[d].row)
  BY <1>1, <1>2 DEF LawInv
<1>4. \A k \in Items : rows'[d][k] # NoRow =>
        CanReverse(k, rows'[d][k]) /\ IsFresh(k, rows'[d][k])
  BY <1>1, <1>2 DEF LawInv
<1> QED BY <1>3, <1>4, LawStands

\* Whoever holds an order keeps it as it is, unless it changes hands.
LEMMA HeldOrderStays ==
  ASSUME OrderInvs, NEW d \in Clients, HoldsOrder(d), StatusKept
  PROVE  orderStatus'[job[d].order] = orderStatus[job[d].order]
<1>1. job[d] \in Listing /\ OrderInv(d)
  BY DEF OrderInvs, OrderType, ClientType, ClientFits
<1>2. job[d].order \in Docs /\ job[d].op \in {"send", "cancel", "receive"}
  BY <1>1, JobKinds DEF Listing
<1>3. orderStatus[job[d].order] # "none"
  BY <1>1, <1>2 DEF OrderInv, Allowed
<1> QED BY <1>2, <1>3 DEF StatusKept

\* Receipts and orders match while the journal stands.
LEMMA ReceiptsStand ==
  ASSUME KeysInPlace, ReceiptsMatchOrder, journal' = journal, StatusKept, LinesKept
  PROVE  KeysInPlace' /\ ReceiptsMatchOrder'
<1>1. KeysInPlace'
  BY DEF KeysInPlace
<1>2. \A d, i : ReceiptsOf(d, i)' = ReceiptsOf(d, i)
  BY DEF ReceiptsOf
<1>3. ASSUME NEW d \in Docs, NEW i \in Items
      PROVE  /\ Cardinality(ReceiptsOf(d, i)) <= 1
             /\ ReceiptsOf(d, i) # {} => orderStatus'[d] = "received"
             /\ (orderLines'[d][i] # NoOrderLine /\ orderLines'[d][i].received > 0)
                   => \E n \in ReceiptsOf(d, i) :
                        journal[i][n].qty = orderLines'[d][i].received
  <2> HIDE DEF ReceiptsOf
  <2> QED BY DEF ReceiptsMatchOrder, StatusKept, LinesKept
<1> QED BY <1>1, <1>2, <1>3 DEF ReceiptsMatchOrder

-----------------------------------------------------------------------------
(* Steps that publish nothing.                                              *)

\* A step of client c alone that publishes nothing keeps the invariant when it
\* keeps c's own part of it, takes no lock that somebody else holds, and
\* inserts nothing that clashes.
LEMMA QuietOrder ==
  ASSUME OrderInvs, OrderType', NEW c \in Clients, Alone(c),
         UNCHANGED committed, StatusKept, LinesKept,
         OrderInv(c)', WorkInv(c)', RowsFit(c)', LinesInv(c)', LawInv(c)',
         \A d \in Clients \ {c} :
           /\ held'[c] \cap held[d] = {}
           /\ (HoldsOrder(c)' /\ HoldsOrder(d)) => job'[c].order # job[d].order
           /\ \A i, j \in Items :
                /\ rows'[c][i] # NoRow => ~ Clash(i, rows'[c][i], j, rows[d][j])
                /\ rows[d][j] # NoRow => ~ Clash(j, rows[d][j], i, rows'[c][i])
  PROVE  OrderInvs'
<1>0. \A d \in Clients \ {c} : Rests(d)
  BY DEF Alone
<1>1. ASSUME NEW d \in Clients
      PROVE  OrderInv(d)' /\ WorkInv(d)' /\ RowsFit(d)' /\ LinesInv(d)' /\ LawInv(d)'
  <2>1. CASE d = c
    BY <2>1
  <2>2. CASE d # c
    <3>1. Rests(d) /\ journal' = journal /\ onHand' = onHand
      BY <1>0, <2>2 DEF committed
    <3> QED BY <3>1, RestingClient, RestingLaw, HeldOrderStays
  <2> QED BY <2>1, <2>2
<1>2. LocksExclusive'
  BY <1>0 DEF OrderInvs, LocksExclusive, Rests
<1>3. OrdersExclusive'
  <2>1. \A d \in Clients \ {c} : HoldsOrder(d)' = HoldsOrder(d) /\ job'[d] = job[d]
    BY <1>0 DEF Rests, HoldsOrder
  <2> QED BY <2>1 DEF OrderInvs, OrdersExclusive
<1>4. NoClashes'
  <2>1. ASSUME NEW d \in Clients, NEW e \in Clients, d # e,
               NEW i \in Items, NEW j \in Items, rows'[d][i] # NoRow
        PROVE  ~ Clash(i, rows'[d][i], j, rows'[e][j])
    BY <1>0, <2>1 DEF OrderInvs, NoClashes, Rests
  <2> QED BY <2>1 DEF NoClashes, Clash
<1>5. KeysInPlace' /\ ReceiptsMatchOrder'
  BY ReceiptsStand DEF OrderInvs, committed
<1> QED BY <1>1, <1>2, <1>3, <1>4, <1>5 DEF OrderInvs

\* Nothing is left of a transaction that has ended.
LEMMA EndedInvs ==
  ASSUME OrderType, NEW c \in Clients, NEW result, End(c, result), EndJob(c)
  PROVE  /\ Alone(c) /\ ~ HoldsOrder(c)'
         /\ held'[c] = {} /\ \A i \in Items : rows'[c][i] = NoRow
         /\ OrderInv(c)' /\ WorkInv(c)' /\ RowsFit(c)' /\ LinesInv(c)' /\ LawInv(c)'
<1>1. /\ Alone(c) /\ pc'[c] = "idle" /\ held'[c] = {} /\ job'[c] = NoJob
      /\ \A i \in Items : rows'[c][i] = NoRow /\ newHand'[c][i] = Unset
  BY EndedClient
<1>2. ~ HoldsOrder(c)' /\ ~ Moving(c)'
  BY <1>1 DEF HoldsOrder, Moving, Statements
<1>3. OrderInv(c)' /\ LinesInv(c)'
  BY <1>2 DEF OrderInv, LinesInv
<1>4. WorkInv(c)' /\ RowsFit(c)' /\ LawInv(c)'
  BY <1>1, <1>2 DEF WorkInv, Current, RowsFit, LawInv
<1> QED BY <1>1, <1>2, <1>3, <1>4

LEMMA RollbackOrder ==
  ASSUME OrderInvs, OrderType', NEW c \in Clients, NEW result,
         Rollback(c, result), EndJob(c), StatusKept, LinesKept
  PROVE  OrderInvs'
<1>1. End(c, result) /\ UNCHANGED committed /\ OrderType
  BY DEF Rollback, OrderInvs
<1>2. /\ Alone(c) /\ ~ HoldsOrder(c)'
      /\ held'[c] = {} /\ \A i \in Items : rows'[c][i] = NoRow
      /\ OrderInv(c)' /\ WorkInv(c)' /\ RowsFit(c)' /\ LinesInv(c)' /\ LawInv(c)'
  BY <1>1, EndedInvs
<1>3. \A i, j, m : ~ Clash(i, m, j, NoRow)
  BY DEF Clash
<1> QED BY <1>1, <1>2, <1>3, QuietOrder

LEMMA OrdersStand ==
  UNCHANGED orders => StatusKept /\ LinesKept
  BY DEF orders, StatusKept, LinesKept

\* A transaction that has not locked anything yet has written nothing.
LEMMA NothingWritten ==
  ASSUME OrderInvs, NEW c \in Clients, ~ HoldsOrder(c), pc[c] \notin Pending
  PROVE  \A i \in Items : rows[c][i] = NoRow /\ newHand[c][i] = Unset
<1>1. pc[c] \notin Inserted
  BY DEF Pending, Inserted
<1> QED BY <1>1 DEF OrderInvs, WorkInv, Current

\* Nobody's transaction moves.
LEMMA NobodyMoves ==
  ASSUME OrderInvs, OrderType',
         UNCHANGED <<committed, pc, req, workspace, orderWork>>,
         StatusKept, LinesKept
  PROVE  OrderInvs'
<1>1. ASSUME NEW d \in Clients PROVE Rests(d)
  BY DEF Rests, workspace, orderWork
<1>2. journal' = journal /\ onHand' = onHand
  BY DEF committed
<1>3. ASSUME NEW d \in Clients
      PROVE  OrderInv(d)' /\ WorkInv(d)' /\ RowsFit(d)' /\ LinesInv(d)' /\ LawInv(d)'
  BY <1>1, <1>2, RestingClient, RestingLaw, HeldOrderStays
<1>4. LocksExclusive' /\ NoClashes'
  BY DEF OrderInvs, LocksExclusive, NoClashes, Clash, workspace
<1>5. OrdersExclusive'
  BY DEF OrderInvs, OrdersExclusive, HoldsOrder, orderWork
<1>6. KeysInPlace' /\ ReceiptsMatchOrder'
  BY <1>2, ReceiptsStand DEF OrderInvs
<1> QED BY <1>3, <1>4, <1>5, <1>6 DEF OrderInvs

\* Beginning a request: nothing is locked yet.
LEMMA BegunOrder ==
  ASSUME OrderInvs, OrderType', NEW c \in Clients, Alone(c),
         ~ HoldsOrder(c), pc[c] = "idle", ~ HoldsOrder(c)', pc'[c] \notin Pending,
         UNCHANGED <<committed, workspace, orders>>,
         Moving(c)' =>
           /\ job'[c] = NoJob /\ req'[c].row.key \in UserKeys \cup {NoKey}
           /\ CanReverse(req'[c].item, req'[c].row)
  PROVE  OrderInvs'
<1>1. \A i \in Items : rows'[c][i] = NoRow /\ newHand'[c][i] = Unset
  BY NothingWritten DEF Pending, workspace
<1>2. journal' = journal /\ onHand' = onHand /\ held' = held
  BY DEF committed, workspace
<1>3. OrderInv(c)' /\ LinesInv(c)'
  BY DEF OrderInv, LinesInv
<1>4. WorkInv(c)'
  <2>1. pc'[c] \notin Inserted
    BY DEF Pending, Inserted
  <2> QED BY <1>1, <2>1 DEF WorkInv, Current
<1>5. RowsFit(c)'
  BY <1>1 DEF RowsFit, Fits
<1>6. LawInv(c)'
  BY <1>1, <1>2 DEF LawInv, CanReverse
<1>7. \A d \in Clients \ {c} : held'[c] \cap held[d] = {}
  BY <1>2 DEF OrderInvs, LocksExclusive
<1>8. \A i, j, m : ~ Clash(i, m, j, NoRow)
  BY DEF Clash
<1> QED BY <1>1, <1>3, <1>4, <1>5, <1>6, <1>7, <1>8, OrdersStand, QuietOrder

\* A transaction that stays with its movement, and keeps the locks, keeps the
\* rest as well, if what it inserts is that movement and clashes with nothing.
LEMMA StatementOrder ==
  ASSUME OrderInvs, OrderType', NEW c \in Clients, Alone(c),
         Moving(c), Moving(c)', job'[c] = job[c], req'[c] = req[c],
         HoldsOrder(c)' = HoldsOrder(c),
         UNCHANGED <<committed, orders>>,
         WorkInv(c)',
         \A d \in Clients \ {c} : held'[c] \cap held[d] = {},
         \A k \in Items :
           \/ rows'[c][k] = rows[c][k]
           \/ /\ k = req[c].item /\ rows'[c][k] = req[c].row
              /\ IsFresh(k, req[c].row)
              /\ \A d \in Clients \ {c}, j \in Items :
                   ~ Clash(k, req[c].row, j, rows[d][j])
  PROVE  OrderInvs'
<1> DEFINE i == req[c].item
           m == req[c].row
<1>1. /\ journal' = journal /\ onHand' = onHand /\ orderStatus' = orderStatus
  BY DEF committed, orders
<1>2. i \in Items /\ m \in Movement /\ Fits(c, i, m) /\ CanReverse(i, m)
  BY MovingParts DEF OrderInvs, RowsFit, LawInv
<1>3. \A k \in Items : Current(c, k)' = Current(c, k)
  BY DEF Current
<1>4. OrderInv(c)'
  BY <1>1 DEF OrderInvs, OrderInv
<1>5. RowsFit(c)'
  BY <1>2 DEF OrderInvs, RowsFit, Fits
<1>6. LinesInv(c)'
  <2>1. ASSUME HoldsOrder(c), job[c].op = "receive", NEW k \in ToSet(job[c].todo)
        PROVE  (rows[c][k] = NoRow /\ ~ Current(c, k))'
    <3>1. job[c] \in Listing
      BY <2>1 DEF OrderInvs, OrderType, ClientType, ClientFits
    <3>2. job[c].todo \in Seq(Items)
      BY <3>1, JobKinds DEF Listing
    <3>3. k \in Items
      BY <2>1, <3>2, ElementOfSeq DEF ToSet
    <3>4. rows[c][k] = NoRow /\ ~ Current(c, k) /\ k # i
      BY <2>1 DEF OrderInvs, LinesInv, Current
    <3> QED BY <1>3, <3>3, <3>4
  <2>2. ASSUME HoldsOrder(c), job[c].op = "receive",
               NEW k \in Items \ ToSet(job[c].todo),
               job[c].taken[k] \notin {0, NoOrderLine}
        PROVE  (rows[c][k] # NoRow \/ Current(c, k))'
    <3>1. rows[c][k] # NoRow \/ Current(c, k)
      BY <2>2 DEF OrderInvs, LinesInv
    <3>2. m # NoRow
      BY MovingParts DEF OrderInvs
    <3> QED BY <1>3, <3>1, <3>2
  <2> QED BY <2>1, <2>2 DEF LinesInv
<1>7. LawInv(c)'
  <2>1. \A k \in Items : rows'[c][k] # NoRow =>
           CanReverse(k, rows'[c][k]) /\ IsFresh(k, rows'[c][k])
    BY <1>2 DEF OrderInvs, LawInv
  <2>2. CanReverse(req'[c].item, req'[c].row)
    BY <1>2
  <2> QED BY <1>1, <2>1, <2>2, LawStands
<1>8. ASSUME NEW d \in Clients \ {c}, NEW k \in Items, NEW j \in Items
      PROVE  /\ rows'[c][k] # NoRow => ~ Clash(k, rows'[c][k], j, rows[d][j])
             /\ rows[d][j] # NoRow => ~ Clash(j, rows[d][j], k, rows'[c][k])
  <2>1. CASE rows'[c][k] = rows[c][k]
    BY <2>1 DEF OrderInvs, NoClashes
  <2>2. CASE k = i /\ rows'[c][k] = m /\ ~ Clash(k, m, j, rows[d][j])
    <3>1. rows[d][j] # NoRow => rows[d][j] \in Movement
      BY DEF OrderInvs, OrderType, ClientType
    <3> QED BY <1>2, <2>2, <3>1, ClashSymmetric
  <2> QED BY <2>1, <2>2
<1>9. \A d \in Clients \ {c} : (HoldsOrder(c)' /\ HoldsOrder(d)) =>
          job'[c].order # job[d].order
  BY DEF OrderInvs, OrdersExclusive
<1> QED BY <1>4, <1>5, <1>6, <1>7, <1>8, <1>9, OrdersStand, QuietOrder

\* From one statement to another before the balance is locked, and from the
\* balance's update to the commit, the work done stays the same.
LEMMA SameWork ==
  ASSUME OrderInvs, OrderType', NEW c \in Clients, Alone(c),
         Moving(c), Moving(c)', job'[c] = job[c], req'[c] = req[c],
         HoldsOrder(c)' = HoldsOrder(c),
         UNCHANGED <<committed, orders, held, rows, newHand>>,
         (pc'[c] \in Pending) <=> (pc[c] \in Pending),
         (pc'[c] \in Inserted) <=> (pc[c] \in Inserted),
         (pc'[c] \in Updated) <=> (pc[c] \in Updated)
  PROVE  OrderInvs'
<1>1. WorkInv(c) /\ onHand' = onHand
  BY DEF OrderInvs, committed
<1>2. \A k \in Items : Current(c, k)' = Current(c, k)
  BY DEF Current
<1>3. WorkInv(c)'
  BY <1>1, <1>2 DEF WorkInv
<1>4. \A d \in Clients \ {c} : held'[c] \cap held[d] = {}
  BY DEF OrderInvs, LocksExclusive
<1> QED BY <1>3, <1>4, StatementOrder

LEMMA LockBalanceOrder ==
  ASSUME OrderInvs, OrderType', NEW c \in Clients, OrderMovementStep(c),
         LockBalance(c)
  PROVE  OrderInvs'
<1> DEFINE i == req[c].item
           m == req[c].row
<1>0. OrderType
  BY DEF OrderInvs
<1>1. CASE Rollback(c, "insufficient")
  BY <1>0, <1>1, MovementEnds, OrdersStand, RollbackOrder
<1>2. CASE /\ Hand(c, i) + m.qty >= 0
           /\ held' = [held EXCEPT ![c] = @ \cup {i}]
           /\ Goto(c, "insert")
           /\ UNCHANGED <<committed, req, rows, newHand, newBasis, outcome>>
  <2>1. pc[c] = "lock" /\ BalanceFree(c, i)
    BY DEF LockBalance
  <2>2. /\ Alone(c) /\ pc'[c] = "insert" /\ Moving(c)' /\ job' = job /\ req' = req
        /\ HoldsOrder(c)' = HoldsOrder(c) /\ UNCHANGED <<orders, committed>>
    <3>1. "insert" \in Statements \ {"key", "reversal", "done"}
      BY DEF Statements
    <3> QED BY <1>0, <1>2, <3>1, StatementClient
  <2>3. Moving(c) /\ i \in Items /\ m.qty \in Int /\ onHand[i] \in Nat
    BY <1>0, <2>1, StatementMoves, MovingParts DEF Statements
  <2>4. WorkInv(c) /\ Current(c, i) /\ rows[c][i] = NoRow /\ newHand[c][i] = Unset
    BY <2>1, <2>3 DEF OrderInvs, WorkInv, Current, Inserted, Updated
  <2>5. onHand[i] + m.qty >= 0
    BY <1>2, <2>4 DEF Hand
  <2>6. /\ held'[c] = held[c] \cup {i}
        /\ \A d \in Clients \ {c} : held'[d] = held[d]
    BY <1>0, <1>2 DEF OrderType, ByClient
  <2>7. \A k \in Items : Current(c, k)' = Current(c, k)
    BY <2>2, <2>3 DEF Current
  <2>8. WorkInv(c)'
    BY <1>2, <2>1, <2>2, <2>4, <2>5, <2>6, <2>7
       DEF WorkInv, Pending, Inserted, Updated, committed
  <2>9. \A d \in Clients \ {c} : held'[c] \cap held[d] = {}
    BY <2>1, <2>6 DEF OrderInvs, LocksExclusive, BalanceFree
  <2> QED BY <1>2, <2>2, <2>3, <2>8, <2>9, StatementOrder
<1> QED BY <1>1, <1>2 DEF LockBalance

LEMMA InsertOrder ==
  ASSUME OrderInvs, OrderType', NEW c \in Clients, OrderMovementStep(c),
         InsertMovement(c)
  PROVE  OrderInvs'
<1> DEFINE i == req[c].item
           m == req[c].row
<1>0. OrderType
  BY DEF OrderInvs
<1>1. CASE Rollback(c, "duplicate-key") \/ Rollback(c, "already-reversed")
  BY <1>0, <1>1, MovementEnds, OrdersStand, RollbackOrder
<1>2. CASE /\ IsFresh(i, m)
           /\ rows' = [rows EXCEPT ![c][i] = m]
           /\ Goto(c, "apply")
           /\ UNCHANGED <<committed, req, held, newHand, newBasis, outcome>>
  <2>1. /\ pc[c] = "insert"
        /\ \A d \in Clients \ {c}, j \in Items : ~ Clash(i, m, j, rows[d][j])
    BY DEF InsertMovement
  <2>2. /\ Alone(c) /\ pc'[c] = "apply" /\ Moving(c)' /\ job' = job /\ req' = req
        /\ HoldsOrder(c)' = HoldsOrder(c) /\ UNCHANGED <<orders, committed>>
    <3>1. "apply" \in Statements \ {"key", "reversal", "done"}
      BY DEF Statements
    <3> QED BY <1>0, <1>2, <3>1, StatementClient
  <2>3. Moving(c) /\ i \in Items /\ m # NoRow /\ m.qty \in Int
    BY <1>0, <2>1, StatementMoves, MovingParts DEF Statements
  <2>4. /\ WorkInv(c) /\ Current(c, i) /\ rows[c][i] = NoRow
        /\ newHand[c][i] = Unset /\ i \in held[c] /\ onHand[i] + m.qty >= 0
    BY <2>1, <2>3 DEF OrderInvs, WorkInv, Current, Pending, Inserted, Updated
  <2>5. \A k \in Items : rows'[c][k] = IF k = i THEN m ELSE rows[c][k]
    <3>1. rows'[c] = [rows[c] EXCEPT ![i] = m]
      BY <1>0, <1>2 DEF OrderType, ByClient
    <3> QED BY <1>0, <3>1 DEF OrderType, ClientType
  <2>6. \A k \in Items : Current(c, k)' = Current(c, k)
    BY <2>2, <2>3 DEF Current
  <2>7. WorkInv(c)'
    BY <1>2, <2>1, <2>2, <2>3, <2>4, <2>5, <2>6
       DEF WorkInv, Current, Pending, Inserted, Updated, committed
  <2>8. \A d \in Clients \ {c} : held'[c] \cap held[d] = {}
    BY <1>2 DEF OrderInvs, LocksExclusive
  <2> QED BY <1>2, <2>1, <2>2, <2>3, <2>5, <2>7, <2>8, StatementOrder
<1> QED BY <1>1, <1>2 DEF InsertMovement, IsFresh

\* The balance has been checked when it was locked.
LEMMA ApplyOrder ==
  ASSUME OrderInvs, OrderType', NEW c \in Clients, OrderMovementStep(c),
         ApplyMovement(c)
  PROVE  OrderInvs'
<1> DEFINE i == req[c].item
           m == req[c].row
<1>0. OrderType
  BY DEF OrderInvs
<1>1. pc[c] = "apply"
  BY DEF ApplyMovement
<1>2. /\ Moving(c) /\ i \in Items /\ m # NoRow /\ m.qty \in Int
      /\ onHand[i] \in Nat
  BY <1>0, <1>1, StatementMoves, MovingParts DEF Statements
<1>3. /\ WorkInv(c) /\ Current(c, i) /\ rows[c][i] = m /\ i \in held[c]
      /\ newHand[c][i] = Unset /\ onHand[i] + m.qty >= 0
  BY <1>1, <1>2 DEF OrderInvs, WorkInv, Current, Pending, Inserted, Updated
<1>4. Hand(c, i) + m.qty = onHand[i] + m.qty
  BY <1>3 DEF Hand
<1>5. /\ held'    = [held EXCEPT ![c] = @ \cup {i}]
      /\ newHand' = [newHand EXCEPT ![c][i] = onHand[i] + m.qty]
      /\ Goto(c, "status")
      /\ UNCHANGED <<committed, req, rows, newBasis, outcome>>
  <2>1. ~ (Hand(c, i) + m.qty < 0)
    BY <1>2, <1>3, <1>4
  <2> QED BY <1>4, <2>1 DEF ApplyMovement
<1>6. /\ Alone(c) /\ pc'[c] = "status" /\ Moving(c)' /\ job' = job /\ req' = req
      /\ HoldsOrder(c)' = HoldsOrder(c) /\ UNCHANGED <<orders, committed>>
  <2>1. "status" \in Statements \ {"key", "reversal", "done"}
    BY DEF Statements
  <2>2. PICK n \in Nat : n = onHand[i] + m.qty
    BY <1>2, <1>3
  <2> QED BY <1>0, <1>5, <2>1, <2>2, StatementClient
<1>7. held'[c] = held[c]
  BY <1>0, <1>3, <1>5 DEF OrderType, ByClient
<1>8. \A k \in Items : newHand'[c][k] = IF k = i THEN onHand[i] + m.qty
                                                 ELSE newHand[c][k]
  <2>1. newHand'[c] = [newHand[c] EXCEPT ![i] = onHand[i] + m.qty]
    BY <1>0, <1>5 DEF OrderType, ByClient
  <2> QED BY <1>0, <2>1 DEF OrderType, ClientType
<1>9. \A k \in Items : Current(c, k)' = Current(c, k)
  BY <1>2, <1>6 DEF Current
<1>10. WorkInv(c)'
  BY <1>1, <1>2, <1>3, <1>5, <1>6, <1>7, <1>8, <1>9
     DEF WorkInv, Current, Pending, Inserted, Updated, committed
<1>11. \A d \in Clients \ {c} : held'[c] \cap held[d] = {}
  BY <1>7 DEF OrderInvs, LocksExclusive
<1> QED BY <1>2, <1>5, <1>6, <1>10, <1>11, StatementOrder

LEMMA MovementStepOrder ==
  ASSUME OrderInvs, OrderType', NEW c \in Clients, OrderMovementStep(c)
  PROVE  OrderInvs'
<1>0. OrderType
  BY DEF OrderInvs
<1>1. ASSUME NEW result, Rollback(c, result) PROVE OrderInvs'
  BY <1>0, <1>1, MovementEnds, OrdersStand, RollbackOrder
<1>2. ASSUME NEW statement \in {"item", "lock"},
             pc[c] \in {"key", "item", "reversal"}, Goto(c, statement),
             UNCHANGED <<committed, req, workspace, outcome>>
      PROVE  OrderInvs'
  <2>1. /\ Alone(c) /\ pc'[c] = statement /\ Moving(c)' /\ job' = job /\ req' = req
        /\ HoldsOrder(c)' = HoldsOrder(c) /\ UNCHANGED <<orders, committed>>
    <3>1. statement \in Statements \ {"key", "reversal", "done"}
      BY DEF Statements
    <3> QED BY <1>0, <1>2, <3>1, StatementClient
  <2>2. Moving(c)
    BY <1>0, <1>2, StatementMoves DEF Statements
  <2> QED BY <1>2, <2>1, <2>2, SameWork DEF Pending, Inserted, Updated, workspace
<1>3. CASE CheckKey(c)
  BY <1>1, <1>2, <1>3 DEF CheckKey
<1>4. CASE ReadItem(c)
  BY <1>1, <1>2, <1>4 DEF ReadItem
<1>5. CASE CheckReversal(c)
  BY <1>1, <1>2, <1>5 DEF CheckReversal
<1> QED BY <1>3, <1>4, <1>5, LockBalanceOrder, InsertOrder, ApplyOrder
        DEF OrderMovementStep

\* Between the lines of an order nothing is inserted or locked.
LEMMA LineOrder ==
  ASSUME OrderInvs, OrderType', NEW c \in Clients, Alone(c),
         UNCHANGED <<committed, orders, held, rows, newHand>>,
         OrderInv(c)', WorkInv(c)', RowsFit(c)', LinesInv(c)',
         Moving(c)' => req'[c].row.reverses = 0,
         \A d \in Clients \ {c} : HoldsOrder(d) => job'[c].order # job[d].order
  PROVE  OrderInvs'
<1>1. journal' = journal
  BY DEF committed
<1>2. LawInv(c)'
  <2>1. Moving(c)' => CanReverse(req'[c].item, req'[c].row)
    BY DEF CanReverse
  <2>2. \A k \in Items : rows'[c][k] # NoRow =>
          CanReverse(k, rows'[c][k]) /\ IsFresh(k, rows'[c][k])
    BY DEF OrderInvs, LawInv
  <2> QED BY <1>1, <2>1, <2>2, LawStands
<1>3. \A d \in Clients \ {c} : held'[c] \cap held[d] = {}
  BY DEF OrderInvs, LocksExclusive
<1>4. ASSUME NEW d \in Clients \ {c}, NEW i \in Items, NEW j \in Items
      PROVE  /\ rows'[c][i] # NoRow => ~ Clash(i, rows'[c][i], j, rows[d][j])
             /\ rows[d][j] # NoRow => ~ Clash(j, rows[d][j], i, rows'[c][i])
  BY DEF OrderInvs, NoClashes
<1> QED BY <1>2, <1>3, <1>4, OrdersStand, QuietOrder

\* Sending or cancelling an order inserts no movements.
LEMMA RestatesNothing ==
  ASSUME OrderInvs, NEW c \in Clients, HoldsOrder(c), Restates(c)
  PROVE  \A i \in Items : rows[c][i] = NoRow /\ newHand[c][i] = Unset
  BY DEF OrderInvs, WorkInv, Current, Moving, Restates

LEMMA RestatesOrder ==
  ASSUME OrderInvs, OrderType', NEW c \in Clients, Alone(c),
         UNCHANGED <<committed, orders, held, rows, newHand>>,
         HoldsOrder(c), Restates(c), Restates(c)',
         job'[c].order = job[c].order, job'[c].op = job[c].op
  PROVE  OrderInvs'
<1>1. \A i \in Items : rows'[c][i] = NoRow /\ newHand'[c][i] = Unset
  BY RestatesNothing
<1>2. ~ Moving(c)'
  BY DEF Moving
<1>3. WorkInv(c)' /\ RowsFit(c)' /\ LinesInv(c)'
  BY <1>1, <1>2 DEF WorkInv, Current, RowsFit, LinesInv, Restates
<1>4. OrderInv(c)'
  BY DEF OrderInvs, OrderInv, orders
<1>5. \A d \in Clients \ {c} : HoldsOrder(d) => job'[c].order # job[d].order
  BY DEF OrderInvs, OrdersExclusive
<1> QED BY <1>2, <1>3, <1>4, <1>5, LineOrder

LEMMA ReadInputsOrder ==
  ASSUME OrderInvs, OrderType', NEW c \in Clients, ReadInputs(c)
  PROVE  OrderInvs'
<1>1. /\ Alone(c) /\ pc'[c] = "upsert"
      /\ pc[c] = "status" \/ (pc[c] = "line" /\ Restates(c))
      /\ Moving(c)' = Moving(c) /\ HoldsOrder(c)' = HoldsOrder(c)
      /\ job' = job /\ req' = req
      /\ UNCHANGED <<committed, workspace, orders, outcome>>
  BY ReadInputsClient DEF OrderInvs
<1>2. CASE pc[c] = "status"
  <2>1. Moving(c)
    BY <1>2, StatementMoves DEF OrderInvs, Statements
  <2> QED BY <1>1, <1>2, <2>1, SameWork DEF Pending, Inserted, Updated, workspace
<1>3. CASE pc[c] = "line" /\ Restates(c)
  <2>1. Restates(c)' /\ HoldsOrder(c)
    BY <1>1, <1>3 DEF Restates, HoldsOrder
  <2> QED BY <1>1, <1>3, <2>1, RestatesOrder DEF workspace
<1> QED BY <1>1, <1>2, <1>3

LEMMA UpsertOrder ==
  ASSUME OrderInvs, OrderType', NEW c \in Clients, UpsertStatus(c)
  PROVE  OrderInvs'
<1>0. OrderType
  BY DEF OrderInvs
<1>1. /\ Alone(c) /\ pc[c] = "upsert"
      /\ UNCHANGED <<committed, held, rows, newHand, orders, onOrder, outcome>>
  BY <1>0, UpsertClient
<1>2. CASE job[c] = NoJob
  <2>1. /\ pc'[c] = "done" /\ job'[c] = job[c] /\ req'[c] = req[c]
        /\ Moving(c) /\ Moving(c)'
    BY <1>0, <1>2, UpsertClient
  <2>2. HoldsOrder(c)' = HoldsOrder(c)
    BY <1>2, <2>1 DEF HoldsOrder
  <2> QED BY <1>1, <2>1, <2>2, SameWork DEF Pending, Inserted, Updated
<1>3. CASE job[c] # NoJob
  <2>1. /\ pc'[c] = "line" /\ HoldsOrder(c) /\ job'[c] \in Listing
        /\ job'[c].order = job[c].order /\ job'[c].op = job[c].op
        /\ job[c].op = "receive" => job'[c] = job[c]
    BY <1>0, <1>3, UpsertClient
  <2>2. CASE job[c].op # "receive"
    <3>1. job'[c] # NoJob
      BY <2>1 DEF Listing
    <3>2. Restates(c) /\ Restates(c)'
      BY <1>3, <2>1, <2>2, <3>1 DEF Restates
    <3> QED BY <1>1, <2>1, <3>2, RestatesOrder
  <2>3. CASE job[c].op = "receive"
    <3>1. Moving(c) /\ ~ Moving(c)' /\ HoldsOrder(c)' /\ job'[c] = job[c]
      BY <1>1, <2>1, <2>3 DEF Moving, Restates, Statements, HoldsOrder
    <3>2. \A i \in Items : ~ Current(c, i)'
      BY <3>1 DEF Current
    <3>3. onHand' = onHand /\ orderStatus' = orderStatus
      BY <1>1 DEF committed, orders
    <3>4. WorkInv(c) /\ req[c].row # NoRow
      BY <1>0, <3>1, MovingParts DEF OrderInvs
    <3>5. \A i \in Items : Current(c, i) => rows[c][i] # NoRow
      BY <1>1, <3>4 DEF WorkInv, Current, Inserted
    <3>6. WorkInv(c)'
      <4>1. pc[c] \in Updated
        BY <1>1 DEF Updated
      <4> QED BY <1>1, <2>3, <3>1, <3>2, <3>3, <3>4, <4>1 DEF WorkInv
    <3>7. RowsFit(c)'
      BY <1>1, <3>1 DEF OrderInvs, RowsFit, Fits
    <3>8. LinesInv(c)'
      <4>1. ASSUME NEW i \in ToSet(job[c].todo) PROVE i \in Items
        <5>1. job[c].todo \in Seq(Items)
          BY <2>1, <2>3, JobKinds DEF Listing
        <5> QED BY <4>1, <5>1, ElementOfSeq DEF ToSet
      <4> QED BY <1>1, <2>1, <2>3, <3>1, <3>2, <3>5, <4>1 DEF OrderInvs, LinesInv
    <3>9. OrderInv(c)'
      BY <2>1, <3>1, <3>3 DEF OrderInvs, OrderInv
    <3>10. \A d \in Clients \ {c} : HoldsOrder(d) => job'[c].order # job[d].order
      BY <2>1 DEF OrderInvs, OrdersExclusive
    <3> QED BY <1>1, <3>1, <3>6, <3>7, <3>8, <3>9, <3>10, LineOrder
  <2> QED BY <2>2, <2>3
<1> QED BY <1>2, <1>3

LEMMA ReceiveLineOrder ==
  ASSUME OrderInvs, OrderType', NEW c \in Clients, ReceiveLine(c)
  PROVE  OrderInvs'
<1>0. PICK i : i = Head(job[c].todo)
  OBVIOUS
<1> DEFINE n == job[c].taken[i]
<1>1. /\ Alone(c) /\ pc[c] = "line"
      /\ HoldsOrder(c) /\ HoldsOrder(c)' /\ job[c].op = "receive"
      /\ job[c] \in Listing
      /\ UNCHANGED <<committed, workspace, orders, onOrder, outcome>>
      /\ job'[c].order = job[c].order /\ job'[c].op = "receive"
      /\ job'[c].header = job[c].header /\ job'[c].taken = job[c].taken
      /\ i \in ToSet(job[c].todo) /\ i \in Items
      /\ ToSet(job'[c].todo) = ToSet(job[c].todo) \ {i}
      /\ \/ n = 0 /\ pc'[c] = "line"
         \/ /\ n > 0 /\ pc'[c] = "key" /\ Moving(c)' /\ req'[c].item = i
            /\ req'[c].row.type = "receipt" /\ req'[c].row.reverses = 0
            /\ req'[c].row.key = ReceiptKey(job[c].header, job[c].order, i)
            /\ req'[c].row.qty = n
  BY <1>0, ReceiveLineClient DEF OrderInvs
<1>2. /\ UNCHANGED <<held, rows, newHand>> /\ onHand' = onHand
      /\ orderStatus' = orderStatus
  BY <1>1 DEF workspace, committed, orders
<1>3. job[c] # NoJob /\ job'[c] # NoJob
  BY <1>1 DEF HoldsOrder
<1>4. ~ Moving(c) /\ \A k \in Items : ~ Current(c, k)
  BY <1>1 DEF Moving, Statements, Current
<1>5. rows[c][i] = NoRow
  BY <1>1 DEF OrderInvs, LinesInv
<1>6. \A k \in Items : Current(c, k)' => k = i /\ pc'[c] = "key"
  BY <1>1 DEF Current, Moving, Statements
<1>7. WorkInv(c)'
  BY <1>1, <1>2, <1>4, <1>5, <1>6
     DEF OrderInvs, WorkInv, Pending, Inserted, Updated
<1>8. RowsFit(c)'
  <2>1. ASSUME NEW k \in Items, NEW m, Fits(c, k, m) PROVE Fits(c, k, m)'
    BY <1>1, <1>3, <2>1 DEF Fits
  <2>2. \A k \in Items : rows'[c][k] # NoRow => Fits(c, k, rows'[c][k])
    BY <1>2 DEF OrderInvs, RowsFit
  <2>3. Moving(c)' => Fits(c, req'[c].item, req'[c].row)
    BY <1>1, <1>3 DEF Fits, Moving, Statements
  <2> QED BY <1>1, <1>3, <2>2, <2>3 DEF RowsFit, Fits
<1>9. LinesInv(c)'
  <2>1. ASSUME NEW k \in ToSet(job'[c].todo) PROVE rows'[c][k] = NoRow /\ ~ Current(c, k)'
    <3>1. k \in ToSet(job[c].todo) /\ k # i
      BY <1>1, <2>1
    <3>2. k \in Items
      <4>1. job[c].todo \in Seq(Items)
        BY <1>1, JobKinds DEF Listing
      <4> QED BY <3>1, <4>1, ElementOfSeq DEF ToSet
    <3> QED BY <1>1, <1>2, <1>6, <3>1, <3>2 DEF OrderInvs, LinesInv
  <2>2. ASSUME NEW k \in Items \ ToSet(job'[c].todo),
               job[c].taken[k] \notin {0, NoOrderLine}
        PROVE  rows'[c][k] # NoRow \/ Current(c, k)'
    <3>1. CASE k = i
      BY <1>1, <2>2, <3>1 DEF Current
    <3>2. CASE k # i
      BY <1>1, <1>2, <1>4, <2>2, <3>2 DEF OrderInvs, LinesInv
    <3> QED BY <3>1, <3>2
  <2> QED BY <1>1, <2>1, <2>2 DEF LinesInv
<1>10. OrderInv(c)'
  BY <1>1, <1>2 DEF OrderInvs, OrderInv
<1>11. \A d \in Clients \ {c} : HoldsOrder(d) => job'[c].order # job[d].order
  BY <1>1 DEF OrderInvs, OrdersExclusive
<1>12. Moving(c)' => req'[c].row.reverses = 0
  BY <1>1 DEF Moving, Statements
<1> QED BY <1>1, <1>2, <1>7, <1>8, <1>9, <1>10, <1>11, <1>12, LineOrder

\* The key of a line that is still to be received cannot be in the journal: its
\* order would have been received.
LEMMA ReceiptKeyIsNew ==
  ASSUME OrderInvs, NEW c \in Clients, Moving(c), HoldsOrder(c),
         job[c].op = "receive"
  PROVE  ~ KeyUsed(journal, req[c].row.key)
<1> DEFINE i == req[c].item
           h == job[c].header
           d == job[c].order
<1>1. i \in Items
  BY MovingParts DEF OrderInvs
<1>2. job[c] \in Listing /\ job[c] # NoJob /\ h \in Headers
  BY DEF OrderInvs, OrderType, ClientType, ClientFits, HoldsOrder
<1>3. d \in Docs
  BY <1>2, JobKinds DEF Listing
<1>4. req[c].row.key = ReceiptKey(h, d, i)
  BY <1>2 DEF OrderInvs, RowsFit, Fits
<1>5. orderStatus[d] = "sent"
  BY DEF OrderInvs, OrderInv, Allowed
<1>6. ASSUME NEW k \in Items, NEW n \in DOMAIN journal[k],
             journal[k][n].key = ReceiptKey(h, d, i)
      PROVE  FALSE
  <2> HIDE DEF i, h, d
  <2>1. k = i
    BY <1>1, <1>2, <1>3, <1>6 DEF OrderInvs, KeysInPlace
  <2>2. n \in ReceiptsOf(d, i)
    BY <1>2, <1>6, <2>1 DEF ReceiptsOf
  <2> QED BY <1>1, <1>3, <1>5, <2>2 DEF OrderInvs, ReceiptsMatchOrder
<1> QED BY <1>4, <1>6 DEF KeyUsed

LEMMA CheckReceiptKeyOrder ==
  ASSUME OrderInvs, OrderType', NEW c \in Clients, CheckReceiptKey(c)
  PROVE  OrderInvs'
<1>1. /\ Alone(c) /\ pc[c] = "key" /\ Moving(c)
      /\ HoldsOrder(c) /\ HoldsOrder(c)' /\ job[c].op = "receive"
      /\ UNCHANGED <<committed, workspace, orders, onOrder, outcome>>
      /\ job' = job /\ req' = req
      /\ \/ KeyUsed(journal, req[c].row.key) /\ pc'[c] = "line"
         \/ /\ ~ KeyUsed(journal, req[c].row.key) /\ pc'[c] = "item"
            /\ Moving(c)'
  BY CheckReceiptKeyClient DEF OrderInvs
<1>2. pc'[c] = "item" /\ Moving(c)'
  BY <1>1, ReceiptKeyIsNew
<1> QED BY <1>1, <1>2, SameWork DEF Pending, Inserted, Updated, workspace

LEMMA LockOrderOrder ==
  ASSUME OrderInvs, OrderType', NEW c \in Clients, LockOrder(c)
  PROVE  OrderInvs'
<1> DEFINE d == job[c].order
           j == job'[c]
<1>1. /\ Alone(c) /\ pc[c] = "order" /\ UNCHANGED <<committed, orders, onOrder>>
      /\ \/ Rollback(c, "refused") /\ EndJob(c)
         \/ /\ orderStatus[d] \in Allowed(job[c].op) /\ OrderFree(c, d)
            /\ HoldsOrder(c)' /\ pc'[c] = "line"
            /\ UNCHANGED <<workspace, outcome>>
            /\ j \in Listing /\ j.order = d /\ j.op = job[c].op
            /\ ToSet(j.todo) = {i \in Items : orderLines[d][i] # NoOrderLine}
            /\ \A i \in Items : (j.taken[i] = NoOrderLine) <=>
                                  (orderLines[d][i] = NoOrderLine)
  BY LockOrderClient DEF OrderInvs
<1>2. CASE Rollback(c, "refused") /\ EndJob(c)
  BY <1>1, <1>2, OrdersStand, RollbackOrder
<1>3. CASE /\ orderStatus[d] \in Allowed(job[c].op) /\ OrderFree(c, d)
           /\ HoldsOrder(c)' /\ pc'[c] = "line"
           /\ UNCHANGED <<workspace, outcome>>
           /\ j \in Listing /\ j.order = d /\ j.op = job[c].op
           /\ ToSet(j.todo) = {i \in Items : orderLines[d][i] # NoOrderLine}
           /\ \A i \in Items : (j.taken[i] = NoOrderLine) <=>
                                 (orderLines[d][i] = NoOrderLine)
  <2>1. ~ HoldsOrder(c) /\ pc[c] \notin Pending
    BY <1>1 DEF HoldsOrder, Pending
  <2>2. UNCHANGED <<held, rows, newHand>> /\ orderStatus' = orderStatus
    BY <1>1, <1>3 DEF workspace, orders
  <2>3. \A i \in Items : rows'[c][i] = NoRow /\ newHand'[c][i] = Unset
    BY <2>1, <2>2, NothingWritten
  <2>4. ~ Moving(c)' /\ \A i \in Items : ~ Current(c, i)'
    BY <1>3 DEF Moving, Statements, Current
  <2>5. WorkInv(c)' /\ RowsFit(c)'
    BY <2>3, <2>4 DEF WorkInv, RowsFit
  <2>6. LinesInv(c)'
    BY <1>3, <2>3, <2>4 DEF LinesInv
  <2>7. OrderInv(c)'
    BY <1>3, <2>2 DEF OrderInv
  <2>8. \A e \in Clients \ {c} : HoldsOrder(e) => j.order # job[e].order
    BY <1>3 DEF OrderFree
  <2> QED BY <1>1, <2>2, <2>4, <2>5, <2>6, <2>7, <2>8, LineOrder
<1> QED BY <1>1, <1>2, <1>3

LEMMA BeginOrderMovementOrder ==
  ASSUME OrderInvs, OrderType', NEW c \in Clients, BeginOrderMovement(c)
  PROVE  OrderInvs'
<1>1. /\ Alone(c) /\ UNCHANGED <<orders, onOrder>>
      /\ ~ HoldsOrder(c)' /\ ~ HoldsOrder(c) /\ pc[c] = "idle"
      /\ UNCHANGED <<committed, workspace>>
  BY BeginOrderMovementClient DEF OrderInvs
<1>2. CASE UNCHANGED <<pc, req, workspace, orderWork>>
  BY <1>1, <1>2, OrdersStand, NobodyMoves
<1>3. CASE ~ UNCHANGED <<pc, req, workspace, orderWork>>
  <2>1. /\ pc'[c] \in {"key", "reversal"} /\ job'[c] = NoJob
        /\ req'[c].row.key \in UserKeys \cup {NoKey}
        /\ CanReverse(req'[c].item, req'[c].row)
    BY <1>3, BeginOrderMovementClient DEF OrderInvs, CanReverse
  <2> QED BY <1>1, <2>1, BegunOrder DEF Pending
<1> QED BY <1>2, <1>3

LEMMA BeginOrderOrder ==
  ASSUME OrderInvs, OrderType', NEW c \in Clients, NEW d \in Docs, BeginOrder(c, d)
  PROVE  OrderInvs'
<1>1. /\ Alone(c) /\ UNCHANGED <<orders, onOrder>>
      /\ ~ HoldsOrder(c)' /\ ~ HoldsOrder(c) /\ pc[c] = "idle" /\ ~ Moving(c)'
      /\ UNCHANGED <<committed, workspace>>
  BY BeginOrderClient DEF OrderInvs
<1>2. pc'[c] \notin Pending
  <2>1. pc'[c] \in {"update", "order"}
    BY DEF BeginOrder, StartUpdateLines, StartOrderJob, Begin, Goto, OrderInvs,
           OrderType, ByClient
  <2> QED BY <2>1 DEF Pending
<1> QED BY <1>1, <1>2, BegunOrder

-----------------------------------------------------------------------------
(* Publishing: the commit of a movement, and of an order.                   *)

\* The item a transaction publishes a movement of has it appended, and its
\* balance moves with it; the others stay as they are.
LEMMA PublishEffect ==
  ASSUME OrderInvs, NEW c \in Clients, Publish(c), pc[c] \in {"done", "line"}
  PROVE  \A k \in Items :
           /\ journal'[k] = IF rows[c][k] = NoRow THEN journal[k]
                            ELSE Append(journal[k], rows[c][k])
           /\ onHand'[k] = IF rows[c][k] = NoRow THEN onHand[k]
                           ELSE onHand[k] + rows[c][k].qty
           /\ rows[c][k] # NoRow =>
                /\ k \in held[c] /\ rows[c][k] \in Movement
                /\ rows[c][k].qty \in Int
                /\ journal[k] \in Seq(Movement) /\ onHand[k] \in Nat
<1> SUFFICES ASSUME NEW k \in Items
             PROVE  /\ journal'[k] = IF rows[c][k] = NoRow THEN journal[k]
                                     ELSE Append(journal[k], rows[c][k])
                    /\ onHand'[k] = IF rows[c][k] = NoRow THEN onHand[k]
                                    ELSE onHand[k] + rows[c][k].qty
                    /\ rows[c][k] # NoRow =>
                         /\ k \in held[c] /\ rows[c][k] \in Movement
                         /\ rows[c][k].qty \in Int
                         /\ journal[k] \in Seq(Movement) /\ onHand[k] \in Nat
  OBVIOUS
<1>1. rows[c][k] # NoRow =>
        /\ rows[c][k] \in Movement /\ rows[c][k].qty \in Int
        /\ journal[k] \in Seq(Movement) /\ onHand[k] \in Nat
  <2>1. OrderType /\ TablesType /\ ClientType(c)
    BY DEF OrderInvs, OrderType
  <2>2. rows[c][k] # NoRow => rows[c][k] \in Movement
    BY <2>1 DEF ClientType
  <2>3. journal[k] \in Seq(Movement) /\ onHand[k] \in Nat
    BY <2>1 DEF TablesType
  <2>4. \A m \in Movement : m.qty \in Int
    BY DEF Movement, Row
  <2> QED BY <2>2, <2>3, <2>4
<1>2. WorkInv(c) /\ (Current(c, k) => pc[c] \in Updated)
  BY DEF OrderInvs, Current, Moving, Statements, Updated
<1>3. /\ rows[c][k] # NoRow => k \in held[c]
      /\ newHand[c][k] = IF rows[c][k] # NoRow THEN onHand[k] + rows[c][k].qty
                                               ELSE Unset
  BY <1>2 DEF WorkInv
<1>4. rows[c][k] # NoRow => onHand[k] + rows[c][k].qty # Unset
  BY <1>1, UnsetAssumption
<1> QED BY <1>1, <1>3, <1>4 DEF Publish, Extended, Merged

\* What is in an item's journal after it: what was there, and what the
\* transaction has appended.
LEMMA PublishedEntries ==
  ASSUME OrderInvs, NEW c \in Clients, Publish(c), pc[c] \in {"done", "line"},
         NEW k \in Items
  PROVE  /\ \A n \in DOMAIN journal[k] :
              n \in DOMAIN journal'[k] /\ journal'[k][n] = journal[k][n]
         /\ \A n \in DOMAIN journal'[k] \ DOMAIN journal[k] :
              /\ rows[c][k] # NoRow /\ journal'[k][n] = rows[c][k]
              /\ DOMAIN journal'[k] = DOMAIN journal[k] \cup {n}
         /\ rows[c][k] # NoRow => \E n : n \in DOMAIN journal'[k] \ DOMAIN journal[k]
<1>1. CASE rows[c][k] = NoRow
  BY <1>1, PublishEffect
<1>2. CASE rows[c][k] # NoRow
  <2> DEFINE s == journal[k]
             m == rows[c][k]
  <2>1. s \in Seq(Movement) /\ m \in Movement /\ journal'[k] = Append(s, m)
    BY <1>2, PublishEffect
  <2> HIDE DEF s, m
  <2>2. /\ DOMAIN s = 1..Len(s) /\ Len(s) \in Nat
        /\ DOMAIN Append(s, m) = 1..(Len(s) + 1)
        /\ \A n \in DOMAIN s : Append(s, m)[n] = s[n]
        /\ Append(s, m)[Len(s) + 1] = m
    BY <2>1, AppendKeeps
  <2>3. /\ DOMAIN Append(s, m) = DOMAIN s \cup {Len(s) + 1}
        /\ Len(s) + 1 \notin DOMAIN s
    BY <2>2
  <2> QED BY <1>2, <2>1, <2>2, <2>3 DEF s, m
<1> QED BY <1>1, <1>2

\* A movement under way has the key and the reversal it names for itself.
LEMMA PublishLaw ==
  ASSUME OrderInvs, NEW c \in Clients, Publish(c), pc[c] \in {"done", "line"},
         NEW d \in Clients \ {c}, Rests(d)
  PROVE  LawInv(d)'
<1>1. LawInv(d)
  BY DEF OrderInvs
<1>2. ASSUME NEW i \in Items, NEW m, CanReverse(i, m) PROVE CanReverse(i, m)'
  BY <1>2, PublishedEntries DEF CanReverse
<1>3. ASSUME NEW i \in Items, NEW m, rows[d][i] # NoRow, m = rows[d][i]
      PROVE  CanReverse(i, m)' /\ IsFresh(i, m)'
  <2>1. CanReverse(i, m) /\ IsFresh(i, m) /\ \A k \in Items : ~ Clash(i, m, k, rows[c][k])
    BY <1>1, <1>3 DEF LawInv, OrderInvs, NoClashes
  <2>2. ASSUME m.key # NoKey PROVE ~ KeyUsed(journal', m.key)
    <3>1. ASSUME NEW k \in Items, NEW n \in DOMAIN journal'[k]
          PROVE  journal'[k][n].key # m.key
      <4>1. CASE n \in DOMAIN journal[k]
        BY <2>1, <2>2, <4>1, PublishedEntries DEF IsFresh, KeyUsed
      <4>2. CASE n \notin DOMAIN journal[k]
        BY <2>1, <2>2, <4>2, PublishedEntries DEF Clash
      <4> QED BY <4>1, <4>2
    <3> QED BY <3>1 DEF KeyUsed
  <2>3. ASSUME m.reverses # 0 PROVE ~ IsReversed(journal'[i], m.reverses)
    <3>1. ASSUME NEW n \in DOMAIN journal'[i]
          PROVE  journal'[i][n].reverses # m.reverses
      <4>1. CASE n \in DOMAIN journal[i]
        BY <2>1, <2>3, <4>1, PublishedEntries DEF IsFresh, IsReversed
      <4>2. CASE n \notin DOMAIN journal[i]
        BY <2>1, <2>3, <4>2, PublishedEntries DEF Clash
      <4> QED BY <4>1, <4>2
    <3> QED BY <3>1 DEF IsReversed
  <2> QED BY <1>2, <2>1, <2>2, <2>3 DEF IsFresh
<1>4. ASSUME NEW i, NEW m, Moving(d), i = req[d].item, m = req[d].row
      PROVE  CanReverse(i, m)'
  <2>1. i \in Items /\ CanReverse(i, m)
    BY <1>1, <1>4, MovingParts DEF LawInv, OrderInvs
  <2> QED BY <1>2, <2>1
<1>5. /\ pc'[d] = pc[d] /\ req'[d] = req[d] /\ rows'[d] = rows[d]
      /\ Moving(d)' = Moving(d)
  BY DEF Rests, Moving, Restates
<1>6. (Moving(d)') => CanReverse(req[d].item, req[d].row)'
  BY <1>4, <1>5 DEF CanReverse
<1>7. ASSUME NEW k \in Items, rows'[d][k] # NoRow
      PROVE  CanReverse(k, rows[d][k])' /\ IsFresh(k, rows[d][k])'
  BY <1>3, <1>5, <1>7 DEF CanReverse, IsFresh
<1> QED BY <1>6, <1>7 DEF LawInv

\* Publishing keeps everybody's part of the invariant, and whatever the journal
\* and the orders have to do with each other, if nobody else's order is moved.
LEMMA PublishOrder ==
  ASSUME OrderInvs, OrderType', NEW c \in Clients, NEW result,
         Publish(c), pc[c] \in {"done", "line"}, End(c, result), EndJob(c),
         \A d \in Clients \ {c} : HoldsOrder(d) =>
           orderStatus'[job[d].order] = orderStatus[job[d].order],
         KeysInPlace', ReceiptsMatchOrder'
  PROVE  OrderInvs'
<1>1. /\ \A d \in Clients \ {c} : Rests(d)
      /\ held'[c] = {} /\ \A i \in Items : rows'[c][i] = NoRow
      /\ ~ HoldsOrder(c)'
      /\ OrderInv(c)' /\ WorkInv(c)' /\ RowsFit(c)' /\ LinesInv(c)' /\ LawInv(c)'
  BY EndedInvs DEF OrderInvs, Alone
<1>2. ASSUME NEW d \in Clients \ {c}
      PROVE  OrderInv(d)' /\ WorkInv(d)' /\ RowsFit(d)' /\ LinesInv(d)' /\ LawInv(d)'
  <2>1. \A i \in held[d] : onHand'[i] = onHand[i]
    <3>1. ASSUME NEW i \in held[d] PROVE onHand'[i] = onHand[i]
      <4>1. i \in Items /\ i \notin held[c]
        BY DEF OrderInvs, OrderType, ClientType, LocksExclusive
      <4> QED BY <4>1, PublishEffect
    <3> QED BY <3>1
  <2> QED BY <1>1, <2>1, RestingClient, PublishLaw
<1>3. \A d \in Clients :
         OrderInv(d)' /\ WorkInv(d)' /\ RowsFit(d)' /\ LinesInv(d)' /\ LawInv(d)'
  BY <1>1, <1>2
<1>4. LocksExclusive'
  BY <1>1 DEF OrderInvs, LocksExclusive, Rests
<1>5. OrdersExclusive'
  <2>1. \A d \in Clients \ {c} : HoldsOrder(d)' = HoldsOrder(d) /\ job'[d] = job[d]
    BY <1>1 DEF Rests, HoldsOrder
  <2> QED BY <1>1, <2>1 DEF OrderInvs, OrdersExclusive
<1>6. NoClashes'
  <2>1. \A i, m, j : ~ Clash(i, m, j, NoRow)
    BY DEF Clash
  <2>2. \A d \in Clients \ {c} : rows'[d] = rows[d]
    BY <1>1 DEF Rests
  <2>3. ASSUME NEW d \in Clients, NEW e \in Clients, d # e,
               NEW i \in Items, NEW j \in Items, rows'[d][i] # NoRow
        PROVE  ~ Clash(i, rows'[d][i], j, rows'[e][j])
    BY <1>1, <2>1, <2>2, <2>3 DEF OrderInvs, NoClashes
  <2> QED BY <2>3 DEF NoClashes, Clash
<1> QED BY <1>3, <1>4, <1>5, <1>6 DEF OrderInvs

\* The keys of what is published: those of the order's lines, or keys that are
\* no receipt's.
LEMMA PublishedKeys ==
  ASSUME OrderInvs, NEW c \in Clients, pc[c] \in {"done", "line"},
         NEW k \in Items, rows[c][k] # NoRow
  PROVE  LET m == rows[c][k]
             j == job[c]
         IN
         /\ j = NoJob =>
              \A h \in Headers, d \in Docs, i \in Items : m.key # ReceiptKey(h, d, i)
         /\ j # NoJob =>
              /\ HoldsOrder(c) /\ j.op = "receive"
              /\ j.header \in Headers /\ j.order \in Docs
              /\ m.key = ReceiptKey(j.header, j.order, k)
              /\ m.qty = j.taken[k] /\ m.qty \in Nat
<1> DEFINE m == rows[c][k]
           j == job[c]
<1>1. Fits(c, k, m)
  BY DEF OrderInvs, RowsFit
<1>2. CASE j = NoJob
  <2>1. m.key \in UserKeys \cup {NoKey}
    BY <1>1, <1>2 DEF Fits
  <2> QED BY <1>2, <2>1, NoKeyAssumption
<1>3. CASE j # NoJob
  <2>1. pc[c] = "line" /\ HoldsOrder(c)
    BY <1>3 DEF OrderInvs, OrderType, ClientType, ClientFits, HoldsOrder
  <2>2. j.op = "receive"
    BY <2>1 DEF OrderInvs, WorkInv, Current, Moving, Statements
  <2>3. j.header \in Headers /\ j \in Listing
    BY <1>3, <2>1, <2>2 DEF OrderInvs, OrderType, ClientType, ClientFits
  <2>4. j.order \in Docs
    BY <2>3, JobKinds DEF Listing
  <2>5. /\ m.type = "receipt" /\ m.qty = j.taken[k]
        /\ m.key = ReceiptKey(j.header, j.order, k)
    BY <1>1, <1>3 DEF Fits
  <2>6. m \in Movement
    BY DEF OrderInvs, OrderType, ClientType
  <2>7. m.qty \in Nat
    BY <2>5, <2>6 DEF Movement, Row, SatisfiesChecks, Increasing
  <2> QED BY <1>3, <2>1, <2>2, <2>3, <2>4, <2>5, <2>7
<1> QED BY <1>2, <1>3

LEMMA PublishKeepsKeys ==
  ASSUME OrderInvs, NEW c \in Clients, Publish(c), pc[c] \in {"done", "line"}
  PROVE  KeysInPlace'
<1>1. ASSUME NEW i \in Items, NEW j \in Items, NEW h \in Headers, NEW d \in Docs,
             NEW n \in DOMAIN journal'[i], journal'[i][n].key = ReceiptKey(h, d, j)
      PROVE  i = j
  <2>1. CASE n \in DOMAIN journal[i]
    <3>1. journal[i][n].key = ReceiptKey(h, d, j)
      BY <1>1, <2>1, PublishedEntries
    <3> QED BY <2>1, <3>1 DEF OrderInvs, KeysInPlace
  <2>2. CASE n \notin DOMAIN journal[i]
    <3>1. rows[c][i] # NoRow /\ rows[c][i].key = ReceiptKey(h, d, j)
      BY <1>1, <2>2, PublishedEntries
    <3>2. ReceiptKey(h, d, j) = ReceiptKey(job[c].header, job[c].order, i)
      <4>1. job[c] # NoJob
        BY <3>1, PublishedKeys
      <4>2. rows[c][i].key = ReceiptKey(job[c].header, job[c].order, i)
        BY <3>1, <4>1, PublishedKeys
      <4> QED BY <3>1, <4>2
    <3> QED BY <3>2 DEF ReceiptKey
  <2> QED BY <2>1, <2>2
<1> QED BY <1>1 DEF KeysInPlace

\* The receipts of an order after a commit: what there was, unless the
\* transaction has received a line of it.
LEMMA ReceiptsElsewhere ==
  ASSUME OrderInvs, NEW c \in Clients, Publish(c), pc[c] \in {"done", "line"},
         NEW d \in Docs, NEW i \in Items,
         rows[c][i] = NoRow \/ job[c] = NoJob \/ job[c].order # d
  PROVE  /\ ReceiptsOf(d, i)' = ReceiptsOf(d, i)
         /\ \A n \in ReceiptsOf(d, i) : journal'[i][n] = journal[i][n]
<1>1. ASSUME NEW n \in DOMAIN journal'[i] \ DOMAIN journal[i], NEW h \in Headers
      PROVE  journal'[i][n].key # ReceiptKey(h, d, i)
  <2>1. rows[c][i] # NoRow /\ journal'[i][n] = rows[c][i]
    BY <1>1, PublishedEntries
  <2>2. CASE job[c] = NoJob
    BY <2>1, <2>2, PublishedKeys
  <2>3. CASE job[c] # NoJob
    <3>1. rows[c][i].key = ReceiptKey(job[c].header, job[c].order, i)
      BY <2>1, <2>3, PublishedKeys
    <3>2. job[c].order # d
      BY <2>1, <2>3
    <3> QED BY <2>1, <3>1, <3>2 DEF ReceiptKey
  <2> QED BY <2>2, <2>3
<1>2. \A n \in DOMAIN journal[i] :
         n \in DOMAIN journal'[i] /\ journal'[i][n] = journal[i][n]
  BY PublishedEntries
<1> QED BY <1>1, <1>2 DEF ReceiptsOf

LEMMA ReceiptsArrive ==
  ASSUME OrderInvs, NEW c \in Clients, Publish(c), pc[c] \in {"done", "line"},
         NEW i \in Items, rows[c][i] # NoRow, job[c] # NoJob,
         NEW d, d = job[c].order
  PROVE  /\ ReceiptsOf(d, i) = {}
         /\ ReceiptsOf(d, i)' # {} /\ Cardinality(ReceiptsOf(d, i)') <= 1
         /\ \A n \in ReceiptsOf(d, i)' : journal'[i][n].qty = job[c].taken[i]
<1> DEFINE m == rows[c][i]
<1>1. /\ HoldsOrder(c) /\ job[c].op = "receive" /\ job[c].header \in Headers
      /\ d \in Docs /\ m.key = ReceiptKey(job[c].header, d, i)
      /\ m.qty = job[c].taken[i]
  BY PublishedKeys
<1>2. orderStatus[d] = "sent"
  BY <1>1 DEF OrderInvs, OrderInv, Allowed
<1>3. ReceiptsOf(d, i) = {}
  BY <1>1, <1>2 DEF OrderInvs, ReceiptsMatchOrder
<1>4. PICK n : n \in DOMAIN journal'[i] \ DOMAIN journal[i]
  BY PublishedEntries
<1>5. journal'[i][n] = m /\ DOMAIN journal'[i] = DOMAIN journal[i] \cup {n}
  BY <1>4, PublishedEntries
<1>6. \A k \in DOMAIN journal[i] : journal'[i][k] = journal[i][k]
  BY PublishedEntries
<1>7. ReceiptsOf(d, i)' = {n}
  <2>1. \A k \in DOMAIN journal[i], h \in Headers :
           journal'[i][k].key # ReceiptKey(h, d, i)
    BY <1>3, <1>6 DEF ReceiptsOf
  <2>2. \E h \in Headers : journal'[i][n].key = ReceiptKey(h, d, i)
    BY <1>1, <1>5
  <2> HIDE DEF ReceiptKey, m
  <2> QED BY <1>5, <2>1, <2>2 DEF ReceiptsOf
<1>8. Cardinality({n}) = 1
  BY FS_Singleton
<1> HIDE DEF ReceiptsOf, m
<1> QED BY <1>1, <1>3, <1>5, <1>7, <1>8 DEF m

\* A movement of a client's own is no receipt of any order.
LEMMA CommitMovementReceipts ==
  ASSUME OrderInvs, NEW c \in Clients, CommitMovement(c)
  PROVE  ReceiptsMatchOrder'
<1>1. /\ job[c] = NoJob /\ pc[c] \in {"done", "line"} /\ Publish(c)
      /\ orderStatus' = orderStatus /\ orderLines' = orderLines
  BY CommitMovementClient DEF OrderInvs, CommitMovement, Commit, orders
<1>2. ASSUME NEW d \in Docs, NEW i \in Items
      PROVE  /\ Cardinality(ReceiptsOf(d, i)') <= 1
             /\ ReceiptsOf(d, i)' # {} => orderStatus'[d] = "received"
             /\ (orderLines'[d][i] # NoOrderLine /\ orderLines'[d][i].received > 0)
                   => \E n \in ReceiptsOf(d, i)' :
                        journal'[i][n].qty = orderLines'[d][i].received
  <2>1. /\ ReceiptsOf(d, i)' = ReceiptsOf(d, i)
        /\ \A n \in ReceiptsOf(d, i) : journal'[i][n] = journal[i][n]
    BY <1>1, ReceiptsElsewhere
  <2> HIDE DEF ReceiptsOf
  <2> QED BY <1>1, <2>1 DEF OrderInvs, ReceiptsMatchOrder
<1> QED BY <1>2 DEF ReceiptsMatchOrder

\* Receiving an order adds a receipt for each line of which something came, and
\* writes as much on the line; sending and cancelling add none.
LEMMA FinishOrderReceipts ==
  ASSUME OrderInvs, NEW c \in Clients, FinishOrder(c)
  PROVE  ReceiptsMatchOrder'
<1>0. PICK o : o = job[c].order
  OBVIOUS
<1> DEFINE j == job[c]
<1>1. /\ pc[c] \in {"done", "line"} /\ pc[c] = "line" /\ HoldsOrder(c) /\ j \in Listing
      /\ o \in Docs /\ j.op \in {"send", "cancel", "receive"}
      /\ ToSet(j.todo) = {} /\ Publish(c) /\ j # NoJob
      /\ orderStatus' = [orderStatus EXCEPT ![o] = StatusOf(j.op)]
      /\ \A d \in Docs \ {o} : orderLines'[d] = orderLines[d]
      /\ \A i \in Items :
           /\ (orderLines'[o][i] # NoOrderLine) <=> (orderLines[o][i] # NoOrderLine)
           /\ orderLines[o][i] # NoOrderLine =>
                orderLines'[o][i].received =
                  IF j.op = "receive" /\ j.taken[i] # NoOrderLine
                  THEN j.taken[i] ELSE orderLines[o][i].received
  <2>1. OrderType
    BY DEF OrderInvs
  <2>2. HoldsOrder(c) => j # NoJob
    BY DEF HoldsOrder
  <2> HIDE DEF OrderInvs
  <2> QED BY <1>0, <2>1, <2>2, FinishOrderClient
<1>2. /\ orderStatus'[o] = StatusOf(j.op)
      /\ \A d \in Docs \ {o} : orderStatus'[d] = orderStatus[d]
  BY <1>1 DEF OrderInvs, OrderType, TablesType
<1>3. orderStatus[o] \in Allowed(j.op) /\ orderStatus[o] # "received"
  BY <1>0, <1>1 DEF OrderInvs, OrderInv, Allowed
<1>4. \A i \in Items : ReceiptsOf(o, i) = {}
  <2> HIDE DEF ReceiptsOf
  <2> QED BY <1>1, <1>3 DEF OrderInvs, ReceiptsMatchOrder
<1>5. ASSUME NEW i \in Items
      PROVE  orderLines[o][i] # NoOrderLine => ~ (orderLines[o][i].received > 0)
  <2> HIDE DEF ReceiptsOf
  <2> QED BY <1>1, <1>4 DEF OrderInvs, ReceiptsMatchOrder
<1>6. ASSUME NEW d \in Docs, NEW i \in Items
      PROVE  /\ Cardinality(ReceiptsOf(d, i)') <= 1
             /\ ReceiptsOf(d, i)' # {} => orderStatus'[d] = "received"
             /\ (orderLines'[d][i] # NoOrderLine /\ orderLines'[d][i].received > 0)
                   => \E n \in ReceiptsOf(d, i)' :
                        journal'[i][n].qty = orderLines'[d][i].received
  <2>1. CASE d # o
    <3>1. /\ ReceiptsOf(d, i)' = ReceiptsOf(d, i)
          /\ \A n \in ReceiptsOf(d, i) : journal'[i][n] = journal[i][n]
      BY <1>0, <1>1, <2>1, ReceiptsElsewhere
    <3> HIDE DEF ReceiptsOf
    <3> QED BY <1>1, <1>2, <2>1, <3>1 DEF OrderInvs, ReceiptsMatchOrder
  <2>2. CASE d = o /\ rows[c][i] = NoRow
    <3>1. ReceiptsOf(d, i)' = {}
      BY <1>1, <1>4, <2>2, ReceiptsElsewhere
    <3>2. j.op = "receive" => j.taken[i] \in {0, NoOrderLine}
      <4>1. ~ Current(c, i)
        BY <1>1 DEF Current, Moving, Statements
      <4> QED BY <1>1, <2>2, <4>1 DEF OrderInvs, LinesInv
    <3>3. ~ (orderLines'[d][i] # NoOrderLine /\ orderLines'[d][i].received > 0)
      BY <1>1, <1>5, <2>2, <3>2
    <3> HIDE DEF ReceiptsOf
    <3> QED BY <3>1, <3>3, FS_EmptySet
  <2>3. CASE d = o /\ rows[c][i] # NoRow
    <3>1. /\ ReceiptsOf(d, i)' # {} /\ Cardinality(ReceiptsOf(d, i)') <= 1
          /\ \A n \in ReceiptsOf(d, i)' : journal'[i][n].qty = j.taken[i]
      <4>1. /\ d = job[c].order /\ rows[c][i] # NoRow /\ job[c] # NoJob
            /\ Publish(c) /\ pc[c] \in {"done", "line"}
        BY <1>0, <1>1, <2>3
      <4> HIDE DEF ReceiptsOf
      <4> QED BY <4>1, ReceiptsArrive
    <3>2. j.op = "receive" /\ j.taken[i] \in Nat
      BY <1>1, <2>3, PublishedKeys
    <3>3. j.taken[i] # NoOrderLine /\ orderStatus'[d] = "received"
      BY <1>2, <2>3, <3>2 DEF StatusOf
    <3>4. orderLines'[d][i] # NoOrderLine => orderLines'[d][i].received = j.taken[i]
      BY <1>1, <2>3, <3>2, <3>3
    <3> HIDE DEF ReceiptsOf
    <3> QED BY <3>1, <3>3, <3>4
  <2> QED BY <2>1, <2>2, <2>3
<1> QED BY <1>6 DEF ReceiptsMatchOrder

\* The two ways to publish something: the commit of a movement of a client's
\* own, and the end of a transaction that has gone through an order.
Publishes(c) == CommitMovement(c) \/ FinishOrder(c)

LEMMA PublishesHow ==
  ASSUME OrderInvs, NEW c \in Clients, Publishes(c)
  PROVE  /\ Publish(c) /\ pc[c] \in {"done", "line"} /\ EndJob(c)
         /\ \E result : End(c, result)
         /\ KeysInPlace' /\ ReceiptsMatchOrder'
         /\ \A d \in Clients \ {c} : HoldsOrder(d) =>
              orderStatus'[job[d].order] = orderStatus[job[d].order]
<1>1. CASE CommitMovement(c)
  <2>1. pc[c] = "done" /\ Publish(c) /\ EndJob(c) /\ orderStatus' = orderStatus
    BY <1>1 DEF CommitMovement, Commit, orders
  <2>2. PICK result \in {"created", "lost"} : End(c, result)
    BY <1>1 DEF CommitMovement, Commit
  <2> QED BY <1>1, <2>1, <2>2, PublishKeepsKeys, CommitMovementReceipts
<1>2. CASE FinishOrder(c)
  <2>1. /\ pc[c] = "line" /\ HoldsOrder(c) /\ Publish(c) /\ EndJob(c)
        /\ End(c, "done") /\ job[c].order \in Docs
        /\ orderStatus' = [orderStatus EXCEPT ![job[c].order] = StatusOf(job[c].op)]
    BY <1>2, FinishOrderClient DEF OrderInvs
  <2>2. ASSUME NEW d \in Clients \ {c}, HoldsOrder(d)
        PROVE  orderStatus'[job[d].order] = orderStatus[job[d].order]
    <3>1. job[d].order # job[c].order
      BY <2>1, <2>2 DEF OrderInvs, OrdersExclusive
    <3>2. job[d] \in Listing
      BY <2>2 DEF OrderInvs, OrderType, ClientType, ClientFits
    <3>3. job[d].order \in Docs
      BY <3>2, JobKinds DEF Listing
    <3> QED BY <2>1, <3>1, <3>3 DEF OrderInvs, OrderType, TablesType
  <2> QED BY <1>2, <2>1, <2>2, PublishKeepsKeys, FinishOrderReceipts
<1> QED BY <1>1, <1>2 DEF Publishes

LEMMA PublishesOrder ==
  ASSUME OrderInvs, OrderType', NEW c \in Clients, Publishes(c)
  PROVE  OrderInvs'
<1>1. PICK result : End(c, result)
  BY PublishesHow
<1> QED BY <1>1, PublishesHow, PublishOrder

\* Every other step leaves the journal, the balances and the statuses alone.
LEMMA OthersPublishNothing ==
  ASSUME OrderInvs, OrderType', [OrdersNext]_orderVars,
         \A c \in Clients : ~ Publishes(c)
  PROVE  OrderInvs' /\ UNCHANGED committed
<1>0. OrderType
  BY DEF OrderInvs
<1>1. ASSUME NEW c \in Clients, OrderMovementStep(c)
      PROVE  OrderInvs' /\ UNCHANGED committed
  <2>1. UNCHANGED committed
    BY <1>1 DEF OrderMovementStep, CheckKey, CheckReversal, ReadItem, LockBalance,
                InsertMovement, ApplyMovement, Rollback
  <2> QED BY <1>1, <2>1, MovementStepOrder
<1>2. ASSUME NEW c \in Clients, WriteOrderLines(c)
      PROVE  OrderInvs' /\ UNCHANGED committed
  <2>1. /\ Rollback(c, "done") /\ EndJob(c) /\ UNCHANGED orderStatus
        /\ \A d \in Docs, i \in Items :
             (orderLines'[d][i] # NoOrderLine /\ orderLines'[d][i].received > 0)
               => /\ orderLines[d][i] # NoOrderLine
                  /\ orderLines[d][i].received = orderLines'[d][i].received
    BY <1>0, <1>2, WriteOrderLinesType
  <2>2. StatusKept /\ LinesKept
    BY <2>1 DEF StatusKept, LinesKept
  <2> QED BY <2>1, <2>2, RollbackOrder DEF Rollback
<1>3. ASSUME NEW c \in Clients, OrderStep(c)
      PROVE  OrderInvs' /\ UNCHANGED committed
  <2>1. ~ CommitMovement(c) /\ ~ FinishOrder(c)
    BY DEF Publishes
  <2>2. CASE LockOrder(c)
    <3>1. UNCHANGED committed
      BY <2>2 DEF LockOrder, Rollback
    <3> QED BY <2>2, <3>1, LockOrderOrder
  <2>3. CASE ReadInputs(c)
    BY <2>3, ReadInputsOrder DEF ReadInputs
  <2>4. CASE UpsertStatus(c)
    BY <2>4, UpsertOrder DEF UpsertStatus
  <2>5. CASE ReceiveLine(c)
    BY <2>5, ReceiveLineOrder DEF ReceiveLine
  <2>6. CASE CheckReceiptKey(c)
    BY <2>6, CheckReceiptKeyOrder DEF CheckReceiptKey
  <2> QED BY <1>1, <1>2, <1>3, <2>1, <2>2, <2>3, <2>4, <2>5, <2>6 DEF OrderStep
<1>4. ASSUME NEW c \in Clients, BeginOrderMovement(c)
      PROVE  OrderInvs' /\ UNCHANGED committed
  BY <1>0, <1>4, BeginOrderMovementOrder, BeginOrderMovementClient
<1>5. ASSUME NEW c \in Clients, NEW d \in Docs, BeginOrder(c, d)
      PROVE  OrderInvs' /\ UNCHANGED committed
  BY <1>0, <1>5, BeginOrderOrder, BeginOrderClient
<1>6. ASSUME NEW c \in Clients, Abort(c), EndJob(c), UNCHANGED <<orders, onOrder>>
      PROVE  OrderInvs' /\ UNCHANGED committed
  <2>1. Rollback(c, "lost") /\ UNCHANGED orders
    BY <1>6 DEF Abort
  <2> QED BY <1>6, <2>1, OrdersStand, RollbackOrder DEF Rollback
<1>7. ASSUME NEW d \in Docs, NEW wanted \in [Items -> 0..MaxQty], Create(d, wanted)
      PROVE  OrderInvs' /\ UNCHANGED committed
  <2>1. /\ orderStatus[d] = "none"
        /\ \A e \in Docs \ {d} : /\ orderStatus'[e] = orderStatus[e]
                                 /\ orderLines'[e] = orderLines[e]
        /\ \A i \in Items : orderLines'[d][i] # NoOrderLine =>
                              orderLines'[d][i].received = 0
        /\ UNCHANGED <<vars, onOrder, orderWork>>
    BY <1>0, <1>7, CreateType
  <2>2. StatusKept /\ LinesKept
    BY <2>1 DEF StatusKept, LinesKept
  <2> QED BY <2>1, <2>2, NobodyMoves DEF vars
<1>8. ASSUME NEW i \in Items, ArchiveItem(i), UNCHANGED <<orders, onOrder, orderWork>>
      PROVE  OrderInvs' /\ UNCHANGED committed
  BY <1>8, OrdersStand, NobodyMoves DEF ArchiveItem
<1>9. CASE UNCHANGED orderVars
  <2>1. UNCHANGED <<committed, pc, req, workspace, orderWork, orders>>
    BY <1>9 DEF orderVars, vars
  <2> QED BY <2>1, OrdersStand, NobodyMoves
<1> QED BY <1>3, <1>4, <1>5, <1>6, <1>7, <1>8, <1>9 DEF OrdersNext

LEMMA OrderInvariant == OrdersSpec => []OrderInvs
<1>1. ASSUME OrdersInit, OrderType PROVE OrderInvs
  <2>1. \A c \in Clients : /\ pc[c] = "idle" /\ held[c] = {} /\ job[c] = NoJob
                           /\ \A i \in Items : /\ rows[c][i] = NoRow
                                               /\ newHand[c][i] = Unset
    BY <1>1 DEF OrdersInit, Init, Empty
  <2>2. \A c \in Clients : ~ HoldsOrder(c) /\ ~ Moving(c)
    BY <2>1 DEF HoldsOrder, Moving, Statements
  <2>3. \A i \in Items : DOMAIN journal[i] = {}
    <3>1. \A i \in Items : journal[i] = <<>>
      BY <1>1 DEF OrdersInit, Init, Empty
    <3>2. <<>> \in Seq(Movement) /\ Len(<<>>) = 0
      BY EmptySeq
    <3>3. DOMAIN <<>> = 1..0
      BY <3>2, LenProperties, Zenon
    <3>4. 1..0 = {}
      OBVIOUS
    <3> QED BY <3>1, <3>3, <3>4, Zenon
  <2>4. LocksExclusive /\ OrdersExclusive /\ NoClashes
    BY <2>1, <2>2 DEF LocksExclusive, OrdersExclusive, NoClashes
  <2>5. \A c \in Clients : OrderInv(c) /\ LinesInv(c)
    BY <2>2 DEF OrderInv, LinesInv
  <2>6. \A c \in Clients : WorkInv(c) /\ RowsFit(c) /\ LawInv(c)
    BY <2>1, <2>2 DEF WorkInv, Current, RowsFit, LawInv
  <2>7. KeysInPlace
    BY <2>3 DEF KeysInPlace
  <2>8. ReceiptsMatchOrder
    <3>1. \A d, i : i \in Items => ReceiptsOf(d, i) = {}
      BY <2>3 DEF ReceiptsOf
    <3>2. \A d \in Docs, i \in Items : orderLines[d][i] = NoOrderLine
      BY <1>1 DEF OrdersInit, Empty
    <3> HIDE DEF ReceiptsOf
    <3> QED BY <3>1, <3>2, FS_EmptySet DEF ReceiptsMatchOrder
  <2> QED BY <1>1, <2>4, <2>5, <2>6, <2>7, <2>8 DEF OrderInvs
<1>2. ASSUME OrderInvs, OrderType', [OrdersNext]_orderVars PROVE OrderInvs'
  BY <1>2, PublishesOrder, OthersPublishNothing
<1> QED BY <1>1, <1>2, OrderTypeInvariant, PTL DEF OrdersSpec

-----------------------------------------------------------------------------
(* What it all shows.                                                       *)

\* Orders, their lines and what transactions hold of them keep their types, and
\* a transaction that has ended leaves nothing behind (purchase_orders,
\* purchase_order_lines, item_status.on_order).
THEOREM OrdersTypeCorrect == OrdersSpec => []OrdersTypeOK
<1>1. OrderType => OrdersTypeOK
  <2> SUFFICES ASSUME OrderType PROVE OrdersTypeOK
    OBVIOUS
  <2>1. newOnOrder \in [Clients -> [Items -> Nat \cup {Unset}]]
    BY DEF OrderType, ByClient, ClientType
  <2>2. ASSUME NEW c \in Clients
        PROVE  /\ pc[c] = "idle" => job[c] = NoJob /\ seen[c] = NoSight
               /\ \A i \in Items : newOnOrder[c][i] = Unset <=> newBasis[c][i] = Unset
    BY DEF OrderType, ClientType, ClientFits
  <2> QED BY <2>1, <2>2 DEF OrderType, TablesType, OrdersTypeOK
<1> QED BY <1>1, OrderTypeInvariant, PTL

\* FR-20: an order is received once and as a whole (Receive).  However many
\* deliveries of it are under way, with whatever headers, its receipts are in
\* the journal only when it is received, one for each line at most, and a line
\* says how much its receipt brought in.
THEOREM ReceivedOnce == OrdersSpec => []ReceiptsMatchOrder
<1>1. OrderInvs => ReceiptsMatchOrder
  BY DEF OrderInvs
<1> QED BY <1>1, OrderInvariant, PTL

\* The balance of an item moves with its journal, and nothing else moves it.
LEMMA PublishBalances ==
  ASSUME OrderInvs, NEW c \in Clients, Publishes(c), BalanceIsJournalSum
  PROVE  BalanceIsJournalSum'
<1>1. Publish(c) /\ pc[c] \in {"done", "line"}
  BY PublishesHow
<1>2. ASSUME NEW k \in Items PROVE onHand'[k] = JournalTotal(journal'[k])
  <2>1. onHand[k] = JournalTotal(journal[k])
    BY DEF BalanceIsJournalSum
  <2> QED BY <1>1, <2>1, PublishEffect, AppendTotal
<1> QED BY <1>2 DEF BalanceIsJournalSum

\* FR-17 with orders: a balance is the sum of its journal, after a received
\* order, all of whose lines commit at once, as after a movement.
THEOREM OrdersKeepBalances == OrdersSpec => []BalanceIsJournalSum
<1>1. ASSUME OrdersInit PROVE BalanceIsJournalSum
  <2>1. journal = Empty(<<>>) /\ onHand = Empty(0)
    BY <1>1 DEF OrdersInit, Init
  <2>2. \A i \in Items : journal[i] = <<>> /\ onHand[i] = 0
    BY <2>1 DEF Empty
  <2> QED BY <2>2, EmptyTotal DEF BalanceIsJournalSum
<1>2. ASSUME OrderInvs, OrderType', [OrdersNext]_orderVars, BalanceIsJournalSum
      PROVE  BalanceIsJournalSum'
  <2>1. CASE \E c \in Clients : Publishes(c)
    BY <1>2, <2>1, PublishBalances
  <2>2. CASE \A c \in Clients : ~ Publishes(c)
    BY <1>2, <2>2, OthersPublishNothing DEF BalanceIsJournalSum, committed
  <2> QED BY <2>1, <2>2
<1> QED BY <1>1, <1>2, OrderInvariant, OrderTypeInvariant, PTL DEF OrdersSpec

-----------------------------------------------------------------------------
(* The transactions implement the ledger.                                   *)

\* The movements of a transaction are lawful, and their keys are new and
\* distinct, although an order has as many of them as lines.
LEMMA LawfulBatch ==
  ASSUME OrderInvs, NEW c \in Clients, pc[c] \in {"done", "line"}
  PROVE  /\ \A k \in Items : rows[c][k] # NoRow =>
              /\ rows[c][k] \in Movement
              /\ rows[c][k].type = "reversal" =>
                   L!LawfulReversal(journal[k], rows[c][k])
         /\ KeysAreFresh(journal, rows[c])
<1>1. ASSUME NEW k \in Items, rows[c][k] # NoRow
      PROVE  /\ rows[c][k] \in Movement
             /\ rows[c][k].type = "reversal" =>
                  L!LawfulReversal(journal[k], rows[c][k])
  <2>1. rows[c][k] \in Movement
    BY <1>1 DEF OrderInvs, OrderType, ClientType
  <2>2. rows[c][k].type = "reversal" => rows[c][k].reverses # 0
    BY <2>1 DEF Movement, SatisfiesChecks
  <2>3. CanReverse(k, rows[c][k]) /\ IsFresh(k, rows[c][k])
    BY <1>1 DEF OrderInvs, LawInv
  <2> QED BY <2>1, <2>2, <2>3
          DEF L!LawfulReversal, L!IsReversed, IsReversed, CanReverse, IsFresh
<1>2. ASSUME NEW k \in Items, rows[c][k] # NoRow, rows[c][k].key # NoKey
      PROVE  /\ ~ KeyUsed(journal, rows[c][k].key)
             /\ \A j \in Items \ {k} :
                  rows[c][j] # NoRow => rows[c][j].key # rows[c][k].key
  <2>1. ~ KeyUsed(journal, rows[c][k].key)
    BY <1>2 DEF OrderInvs, LawInv, IsFresh
  <2>2. ASSUME NEW j \in Items \ {k}, rows[c][j] # NoRow
        PROVE  rows[c][j].key # rows[c][k].key
    <3>1. CASE job[c] = NoJob
      BY <1>2, <2>2, <3>1 DEF OrderInvs, WorkInv, Current, HoldsOrder
    <3>2. CASE job[c] # NoJob
      <4>1. /\ rows[c][j].key = ReceiptKey(job[c].header, job[c].order, j)
            /\ rows[c][k].key = ReceiptKey(job[c].header, job[c].order, k)
        BY <1>2, <2>2, <3>2, PublishedKeys
      <4> QED BY <4>1 DEF ReceiptKey
    <3> QED BY <3>1, <3>2
  <2> QED BY <2>1, <2>2
<1>3. KeysAreFresh(journal, rows[c])
  BY <1>2 DEF KeysAreFresh
<1> QED BY <1>1, <1>3

\* Publishing is a step of the ledger: the whole batch is posted at once.
LEMMA PublishPosts ==
  ASSUME OrderInvs, OrderType', NEW c \in Clients, Publishes(c)
  PROVE  L!Next
<1>1. Publish(c) /\ pc[c] \in {"done", "line"}
  BY PublishesHow
<1>2. L!Posted = rows[c]
  <2>1. ASSUME NEW k \in Items PROVE L!Posted[k] = rows[c][k]
    <3> DEFINE s == journal[k]
               m == rows[c][k]
    <3>1. CASE m = NoRow
      BY <1>1, <3>1, PublishEffect DEF L!Posted
    <3>2. CASE m # NoRow
      <4>1. s \in Seq(Movement) /\ m \in Movement /\ journal'[k] = Append(s, m)
        BY <1>1, <3>2, PublishEffect
      <4>2. Append(s, m) # s /\ Append(s, m)[Len(Append(s, m))] = m
        <5> HIDE DEF s, m
        <5> QED BY <4>1, AppendKeeps
      <4> QED BY <4>1, <4>2 DEF L!Posted
    <3> QED BY <3>1, <3>2
  <2>2. rows[c] = [k \in Items |-> rows[c][k]]
    BY DEF OrderInvs, OrderType, ClientType
  <2>3. L!Posted = [k \in Items |-> L!Posted[k]]
    BY DEF L!Posted
  <2> QED BY <2>1, <2>2, <2>3
<1>3. journal' = Extended(journal, rows[c])
  BY <1>1 DEF Publish
<1>4. onHand' = [k \in Items |-> IF rows[c][k] = NoRow THEN onHand[k]
                                 ELSE onHand[k] + rows[c][k].qty]
  <2>1. onHand' = [k \in Items |-> onHand'[k]]
    BY DEF OrderType, TablesType
  <2>2. \A k \in Items : onHand'[k] = IF rows[c][k] = NoRow THEN onHand[k]
                                      ELSE onHand[k] + rows[c][k].qty
    BY <1>1, PublishEffect
  <2> QED BY <2>1, <2>2
<1>5. \A k \in Items : onHand'[k] >= 0
  BY DEF OrderType, TablesType
<1>6. L!Post(rows[c])
  <2>1. L!Movement = Movement
    BY DEF L!Movement, Movement, L!Row, Row, L!SatisfiesChecks,
           SatisfiesChecks, L!Types, Types, L!Increasing, Increasing,
           L!Decreasing, Decreasing
  <2>2. KeysAreFresh(journal, rows[c])
    BY <1>1, LawfulBatch
  <2>3. L!KeysAreFresh(journal, rows[c])
    BY <2>2 DEF L!KeysAreFresh, KeysAreFresh, L!KeyUsed, KeyUsed
  <2>4. journal' = L!Extended(journal, rows[c])
    BY <1>3 DEF L!Extended, Extended
  <2> QED BY <1>1, <1>4, <1>5, <2>1, <2>3, <2>4, LawfulBatch DEF L!Post
<1> QED BY <1>2, <1>6 DEF L!Next

\* Movements and orders together implement the ledger: a received order is one
\* batch of receipts, all of them or none.
THEOREM OrdersImplementLedger == OrdersSpec => OrdersRefineLedger
<1>1. OrdersInit => L!Init
  BY DEF OrdersInit, Init, L!Init, Empty
<1>2. ASSUME OrderInvs, OrderType', [OrdersNext]_orderVars
      PROVE  [L!Next]_(L!vars)
  <2>1. CASE \E c \in Clients : Publishes(c)
    BY <1>2, <2>1, PublishPosts
  <2>2. CASE \A c \in Clients : ~ Publishes(c)
    BY <1>2, <2>2, OthersPublishNothing DEF L!vars, committed
  <2> QED BY <2>1, <2>2
<1> QED BY <1>1, <1>2, OrderInvariant, OrderTypeInvariant, PTL
        DEF OrdersSpec, OrdersRefineLedger, L!Spec

=============================================================================
