---------------------------- MODULE CountsProofs ----------------------------
(***************************************************************************)
(* Proofs about Counts, for any number of items, clients, documents, keys  *)
(* and quantities.  A transaction here may have inserted several movements *)
(* at once, and what it inserted before the statement it is at has to be   *)
(* known as well as what it is about to insert.                            *)
(***************************************************************************)
EXTENDS Counts, MovementsProofs

USE ItemsAssumption, NoDocAssumption, NoTaskAssumption

-----------------------------------------------------------------------------
(* Types.                                                                   *)

CountRequest ==
  [op : {"record", "reverse", "post"}, item : Items, row : Movement]

CountStatements == Statements \cup {"idle", "entry", "document", "line"}

\* What a client's transaction does at the statement it has reached: it posts
\* a document; it has locked that document and works through its lines.
Posts(c) ==
  \/ pc[c] \in {"document", "line"}
  \/ pc[c] \in Statements /\ req[c].op = "post"

Working(c) == Posts(c) /\ pc[c] # "document"

\* A posting goes through counted lines, once through each.
Listing ==
  {t \in Posting : IsInjective(t.todo) /\ ToSet(t.todo) \subseteq CountedItems(t.lines)}

\* It has the request and the task that the statement calls for.
ClientFits(c) ==
  /\ pc[c] \in Statements => req[c] \in CountRequest
  /\ pc[c] = "entry" => task[c] \in Entry
  /\ Posts(c) => task[c] \in Listing
  /\ pc[c] \in {"entry", "document"} \/ Working(c) \/ task[c] = NoTask

CountType ==
  /\ journal   \in [Items -> Seq(Movement)]
  /\ onHand    \in [Items -> Nat]
  /\ basis     \in [Items -> Nat]
  /\ pc        \in [Clients -> CountStatements]
  /\ req       \in [Clients -> CountRequest \cup {NoReq}]
  /\ held      \in [Clients -> SUBSET Items]
  /\ rows      \in [Clients -> [Items -> Movement \cup {NoRow}]]
  /\ newHand   \in [Clients -> [Items -> Nat \cup {Unset}]]
  /\ newBasis  \in [Clients -> [Items -> Nat \cup {Unset}]]
  /\ outcome   = [c \in Clients |-> outcome[c]]
  /\ docStatus \in [Docs -> {"none", "draft", "posted"}]
  /\ lines     \in [Docs -> [Items -> Line \cup {NoLine}]]
  /\ task      \in [Clients -> Entry \cup Posting \cup {NoTask}]
  /\ \A c \in Clients : ClientFits(c)

LEMMA CountRequestParts ==
  ASSUME NEW r \in CountRequest
  PROVE  /\ r.item \in Items /\ r.op \in {"record", "reverse", "post"}
         /\ r.row \in Movement /\ r.row \in Row /\ r.row # NoRow
         /\ r.row.qty \in Int /\ r.row.reverses \in Nat
  BY NoRowAssumption DEF CountRequest, Movement, Row

LEMMA CountHandType ==
  ASSUME CountType, NEW c \in Clients, NEW i \in Items
  PROVE  Hand(c, i) \in Nat
  BY DEF CountType, Hand

\* A transaction that ends leaves the types as they are.
LEMMA EndCountType ==
  ASSUME CountType, NEW c \in Clients, NEW result, End(c, result), EndTask(c),
         journal' \in [Items -> Seq(Movement)],
         onHand' \in [Items -> Nat], basis' \in [Items -> Nat],
         docStatus' \in [Docs -> {"none", "draft", "posted"}],
         lines' \in [Docs -> [Items -> Line \cup {NoLine}]]
  PROVE  CountType'
<1>1. /\ pc'   \in [Clients -> CountStatements]
      /\ req'  \in [Clients -> CountRequest \cup {NoReq}]
      /\ held' \in [Clients -> SUBSET Items]
      /\ task' \in [Clients -> Entry \cup Posting \cup {NoTask}]
      /\ outcome' = [d \in Clients |-> outcome'[d]]
  BY DEF CountType, End, EndTask, CountStatements
<1>2. /\ rows'     \in [Clients -> [Items -> Movement \cup {NoRow}]]
      /\ newHand'  \in [Clients -> [Items -> Nat \cup {Unset}]]
      /\ newBasis' \in [Clients -> [Items -> Nat \cup {Unset}]]
  BY DEF CountType, End, Empty
<1>3. \A d \in Clients \ {c} :
         pc'[d] = pc[d] /\ req'[d] = req[d] /\ task'[d] = task[d]
  BY DEF CountType, End, EndTask
<1>4. pc'[c] = "idle" /\ task'[c] = NoTask
  BY DEF CountType, End, EndTask
<1>5. \A d \in Clients : ClientFits(d)'
  BY <1>3, <1>4 DEF CountType, ClientFits, Posts, Working, Statements
<1> QED BY <1>1, <1>2, <1>5 DEF CountType

LEMMA RollbackCountType ==
  ASSUME CountType, NEW c \in Clients, NEW result, Rollback(c, result),
         EndTask(c), UNCHANGED docStatus,
         lines' \in [Docs -> [Items -> Line \cup {NoLine}]]
  PROVE  CountType'
<1>1. /\ journal' \in [Items -> Seq(Movement)]
      /\ onHand' \in [Items -> Nat] /\ basis' \in [Items -> Nat]
      /\ docStatus' \in [Docs -> {"none", "draft", "posted"}]
  BY DEF CountType, Rollback, committed
<1> QED BY <1>1, EndCountType DEF Rollback

\* Beginning a request, and moving on to another statement.
LEMMA BeginCountType ==
  ASSUME CountType, NEW c \in Clients, NEW r, NEW statement \in CountStatements,
         Begin(c, r, statement), UNCHANGED documents,
         task' \in [Clients -> Entry \cup Posting \cup {NoTask}],
         \A d \in Clients \ {c} : task'[d] = task[d],
         \/ /\ statement \in {"key", "reversal"} /\ task' = task
            /\ r \in CountRequest /\ r.op # "post"
         \/ r = NoReq /\ statement = "entry" /\ task'[c] \in Entry
         \/ r = NoReq /\ statement = "document" /\ task'[c] \in Listing
  PROVE  CountType'
<1>1. /\ pc'   \in [Clients -> CountStatements]
      /\ req'  \in [Clients -> CountRequest \cup {NoReq}]
      /\ outcome' = [d \in Clients |-> outcome'[d]]
  BY DEF CountType, Begin, Goto
<1>2. \A d \in Clients \ {c} : pc'[d] = pc[d] /\ req'[d] = req[d]
  BY DEF CountType, Begin, Goto
<1>3. pc[c] = "idle" /\ pc'[c] = statement /\ req'[c] = r
  BY DEF CountType, Begin, Goto
<1>4. task[c] = NoTask
  BY <1>3 DEF CountType, ClientFits, Working, Posts, Statements
<1>5. ClientFits(c)'
  BY <1>3, <1>4 DEF ClientFits, Posts, Working, Statements
<1>6. \A d \in Clients : ClientFits(d)'
  BY <1>2, <1>5 DEF CountType, ClientFits, Posts, Working
<1> QED BY <1>1, <1>6 DEF CountType, Begin, committed, workspace, documents

LEMMA GotoCountType ==
  ASSUME CountType, NEW c \in Clients, NEW statement,
         Goto(c, statement), UNCHANGED <<committed, outcome, documents>>,
         req' \in [Clients -> CountRequest \cup {NoReq}],
         \A d \in Clients \ {c} : req'[d] = req[d],
         \A d \in Clients \ {c} : task'[d] = task[d],
         statement \in Statements \cup {"line"},
         statement \in Statements => req'[c] \in CountRequest,
         IF statement = "line" \/ req'[c].op = "post"
           THEN task'[c] \in Listing ELSE task'[c] = NoTask,
         held'     \in [Clients -> SUBSET Items],
         rows'     \in [Clients -> [Items -> Movement \cup {NoRow}]],
         newHand'  \in [Clients -> [Items -> Nat \cup {Unset}]],
         newBasis' \in [Clients -> [Items -> Nat \cup {Unset}]],
         task'     \in [Clients -> Entry \cup Posting \cup {NoTask}]
  PROVE  CountType'
<1>1. pc' \in [Clients -> CountStatements]
  BY DEF CountType, Goto, CountStatements
<1>2. pc'[c] = statement /\ \A d \in Clients \ {c} : pc'[d] = pc[d]
  BY DEF CountType, Goto
<1>3. ClientFits(c)'
  BY <1>2 DEF ClientFits, Posts, Working, Statements
<1>4. \A d \in Clients : ClientFits(d)'
  BY <1>2, <1>3 DEF CountType, ClientFits, Posts, Working
<1> QED BY <1>1, <1>4 DEF CountType, committed, documents

\* The document goes with the transaction of a statement of Movements.
LEMMA MovementTask ==
  ASSUME CountType, NEW c \in Clients,
         task' = [task EXCEPT ![c] = IF pc'[c] = "idle" THEN NoTask ELSE @]
  PROVE  /\ \A result : End(c, result) => EndTask(c)
         /\ \A statement \in Statements : Goto(c, statement) => task' = task
  BY DEF CountType, End, EndTask, Goto, Statements

LEMMA MovementStepType ==
  ASSUME CountType, NEW c \in Clients, MovementStep(c)
  PROVE  CountType'
<1> DEFINE i == req[c].item
           m == req[c].row
<1>1. Step(c) /\ UNCHANGED documents
  BY DEF MovementStep
<1>2. ASSUME NEW result, Rollback(c, result) PROVE CountType'
  <2>1. EndTask(c)
    BY <1>2, MovementTask DEF MovementStep, Rollback
  <2>2. docStatus' = docStatus
        /\ lines' \in [Docs -> [Items -> Line \cup {NoLine}]]
    BY <1>1 DEF documents, CountType
  <2> QED BY <1>2, <2>1, <2>2, RollbackCountType
<1>3. pc[c] \in Statements =>
        /\ req[c] \in CountRequest /\ i \in Items /\ m \in Movement
        /\ m.qty \in Int
  BY CountRequestParts DEF CountType, ClientFits
<1>4. ASSUME NEW statement \in Statements, Goto(c, statement),
             pc[c] \in Statements, UNCHANGED <<committed, req, outcome>>,
             held'     \in [Clients -> SUBSET Items],
             rows'     \in [Clients -> [Items -> Movement \cup {NoRow}]],
             newHand'  \in [Clients -> [Items -> Nat \cup {Unset}]],
             newBasis' \in [Clients -> [Items -> Nat \cup {Unset}]]
      PROVE  CountType'
  <2>1. task' = task
    BY <1>4, MovementTask DEF MovementStep
  <2>2. /\ task' \in [Clients -> Entry \cup Posting \cup {NoTask}]
        /\ req' \in [Clients -> CountRequest \cup {NoReq}]
        /\ req'[c] \in CountRequest
    BY <1>3, <1>4, <2>1 DEF CountType
  <2>3. IF req'[c].op = "post" THEN task'[c] \in Listing ELSE task'[c] = NoTask
    BY <1>4, <2>1 DEF CountType, ClientFits, Posts, Working, Statements
  <2>4. statement # "line"
    BY DEF Statements
  <2> QED BY <1>1, <1>4, <2>1, <2>2, <2>3, <2>4, GotoCountType
<1>5. ASSUME NEW statement \in Statements, Goto(c, statement),
             pc[c] \in Statements,
             UNCHANGED <<committed, req, workspace, outcome>>
      PROVE  CountType'
  BY <1>4, <1>5 DEF CountType, workspace
<1>6. CASE CheckKey(c)
  BY <1>2, <1>5, <1>6 DEF CheckKey, Statements
<1>7. CASE ReadItem(c)
  BY <1>2, <1>5, <1>7 DEF ReadItem, Statements
<1>8. CASE CheckReversal(c)
  BY <1>2, <1>5, <1>8 DEF CheckReversal, Statements
<1>9. CASE LockBalance(c)
  <2>1. CASE /\ held' = [held EXCEPT ![c] = @ \cup {i}] /\ Goto(c, "insert")
             /\ UNCHANGED <<committed, req, rows, newHand, newBasis, outcome>>
    <3>1. pc[c] \in Statements /\ "insert" \in Statements
      BY <1>9 DEF LockBalance, Statements
    <3>2. held' \in [Clients -> SUBSET Items]
      BY <1>3, <2>1, <3>1 DEF CountType
    <3> QED BY <1>4, <2>1, <3>1, <3>2 DEF CountType
  <2> QED BY <1>2, <1>9, <2>1 DEF LockBalance
<1>10. CASE InsertMovement(c)
  <2>1. CASE /\ rows' = [rows EXCEPT ![c][i] = m] /\ Goto(c, "apply")
             /\ UNCHANGED <<committed, req, held, newHand, newBasis, outcome>>
    <3>1. pc[c] \in Statements /\ "apply" \in Statements
      BY <1>10 DEF InsertMovement, Statements
    <3>2. rows' \in [Clients -> [Items -> Movement \cup {NoRow}]]
      BY <1>3, <2>1, <3>1 DEF CountType
    <3> QED BY <1>4, <2>1, <3>1, <3>2 DEF CountType
  <2> QED BY <1>2, <1>10, <2>1 DEF InsertMovement
<1>11. CASE ApplyMovement(c)
  <2> DEFINE new == Hand(c, i) + m.qty
  <2>1. CASE /\ new >= 0
             /\ held'    = [held EXCEPT ![c] = @ \cup {i}]
             /\ newHand' = [newHand EXCEPT ![c][i] = new] /\ Goto(c, "status")
             /\ UNCHANGED <<committed, req, rows, newBasis, outcome>>
    <3>1. pc[c] \in Statements /\ "status" \in Statements
      BY <1>11 DEF ApplyMovement, Statements
    <3>2. new \in Nat
      BY <1>3, <2>1, <3>1, CountHandType
    <3>3. held' \in [Clients -> SUBSET Items]
      BY <1>3, <2>1, <3>1 DEF CountType
    <3>4. newHand' \in [Clients -> [Items -> Nat \cup {Unset}]]
      <4> HIDE DEF new
      <4> QED BY <1>3, <2>1, <3>1, <3>2 DEF CountType
    <3> QED BY <1>4, <2>1, <3>1, <3>3, <3>4 DEF CountType
  <2> QED BY <1>2, <1>11, <2>1 DEF ApplyMovement
<1>12. CASE Recalculate(c)
  <2>1. pc[c] \in Statements /\ "done" \in Statements
    BY <1>12 DEF Recalculate, Statements
  <2>2. newBasis' \in [Clients -> [Items -> Nat \cup {Unset}]]
    BY <1>3, <1>12, <2>1, CountHandType DEF CountType, Recalculate
  <2> QED BY <1>4, <1>12, <2>1, <2>2 DEF CountType, Recalculate
<1>13. CASE Commit(c)
  <2>1. PICK result \in {"created", "lost"} : End(c, result)
    BY <1>13 DEF Commit
  <2>2. EndTask(c)
    BY <2>1, MovementTask DEF MovementStep
  <2>3. /\ journal' \in [Items -> Seq(Movement)]
        /\ onHand' \in [Items -> Nat] /\ basis' \in [Items -> Nat]
    BY <1>13 DEF Commit, Publish, Extended, Merged, CountType
  <2>4. /\ docStatus' \in [Docs -> {"none", "draft", "posted"}]
        /\ lines' \in [Docs -> [Items -> Line \cup {NoLine}]]
    BY <1>1 DEF documents, CountType
  <2> QED BY <2>1, <2>2, <2>3, <2>4, EndCountType
<1> QED BY <1>1, <1>6, <1>7, <1>8, <1>9, <1>10, <1>11, <1>12, <1>13 DEF Step

\* The requests to fill in and to post a document.
LEMMA BeginDocumentType ==
  ASSUME CountType, NEW c \in Clients, NEW d \in Docs,
         \/ \E S \in SUBSET Items : \E counted \in [S -> 0..MaxQty] :
              StartSetCountLines(c, d, counted)
         \/ \E force \in BOOLEAN : StartPostCount(c, d, force)
  PROVE  CountType'
<1>1. ASSUME NEW S \in SUBSET Items, NEW counted \in [S -> 0..MaxQty],
             StartSetCountLines(c, d, counted)
      PROVE  CountType'
  <2> DEFINE e == [doc |-> d, counted |-> counted]
  <2>1. e \in Entry
    BY DEF Entry
  <2>2. task' = [task EXCEPT ![c] = e]
    BY <1>1 DEF StartSetCountLines
  <2> HIDE DEF e
  <2>3. /\ task' \in [Clients -> Entry \cup Posting \cup {NoTask}]
        /\ task'[c] \in Entry
        /\ \A o \in Clients \ {c} : task'[o] = task[o]
    BY <2>1, <2>2 DEF CountType
  <2> QED BY <1>1, <2>3, BeginCountType DEF StartSetCountLines, CountStatements
<1>2. ASSUME NEW force \in BOOLEAN, StartPostCount(c, d, force)
      PROVE  CountType'
  <2> DEFINE p == [doc |-> d, force |-> force, lines |-> Empty(NoLine),
                   todo |-> <<>>, changed |-> {}]
  <2>1. p \in Listing
    BY DEF Posting, Empty, Listing, IsInjective, ToSet
  <2>2. task' = [task EXCEPT ![c] = p]
    BY <1>2 DEF StartPostCount
  <2> HIDE DEF p
  <2>3. /\ task' \in [Clients -> Entry \cup Posting \cup {NoTask}]
        /\ task'[c] \in Listing
        /\ \A o \in Clients \ {c} : task'[o] = task[o]
    BY <2>1, <2>2 DEF CountType, Listing
  <2> QED BY <1>2, <2>3, BeginCountType DEF StartPostCount, CountStatements
<1> QED BY <1>1, <1>2

\* The requests of Movements.
LEMMA BeginMovementType ==
  ASSUME CountType, NEW c \in Clients, BeginMovement(c)
  PROVE  CountType'
<1>1. UNCHANGED <<documents, task>>
  BY DEF BeginMovement
<1>2. ASSUME NEW i \in Items, NEW type \in Kinds, NEW n \in 1..MaxQty,
             NEW k \in Keys, StartRecord(c, i, type, n, k)
      PROVE  CountType'
  <2> DEFINE r == [op |-> "record", item |-> i,
                   row |-> [type |-> type, qty |-> signedQty(type, n),
                            key |-> k, reverses |-> 0, by |-> c, doc |-> NoDoc]]
  <2>1. r \in Request /\ r.op = "record"
    BY RecordRequest
  <2>2. Begin(c, r, "key")
    BY <1>2 DEF StartRecord
  <2> HIDE DEF r
  <2>3. r \in CountRequest
    BY <2>1 DEF Request, CountRequest
  <2> QED BY <1>1, <2>1, <2>2, <2>3, BeginCountType
          DEF CountType, CountStatements, Statements
<1>3. ASSUME NEW i \in Items, NEW n \in DOMAIN journal[i], StartReverse(c, i, n)
      PROVE  CountType'
  <2> DEFINE r == [op |-> "reverse", item |-> i,
                   row |-> [type |-> "reversal", qty |-> - journal[i][n].qty,
                            key |-> NoKey, reverses |-> n, by |-> c,
                            doc |-> NoDoc]]
  <2>1. r \in Request /\ r.op = "reverse"
    BY ReverseRequest DEF CountType
  <2>2. Begin(c, r, "reversal")
    BY <1>3 DEF StartReverse
  <2> HIDE DEF r
  <2>3. r \in CountRequest
    BY <2>1 DEF Request, CountRequest
  <2> QED BY <1>1, <2>1, <2>2, <2>3, BeginCountType
          DEF CountType, CountStatements, Statements
<1>4. ASSUME NEW i \in Items, NEW n \in DOMAIN journal[i], RefuseReverse(c, i, n)
      PROVE  CountType'
  BY <1>1, <1>4 DEF RefuseReverse, CountType, ClientFits, Posts, Working,
                    committed, workspace, documents
<1> QED BY <1>2, <1>3, <1>4 DEF BeginMovement

\* Entering quantities writes whole lines.
LEMMA WriteLinesType ==
  ASSUME CountType, NEW c \in Clients, WriteCountLines(c)
  PROVE  CountType'
<1> DEFINE d == task[c].doc
           counted == task[c].counted
           opened(i) == IF lines[d][i] = NoLine THEN 0 ELSE lines[d][i].expected
           new == [i \in Items |-> IF i \in DOMAIN counted
                                   THEN [expected |-> opened(i),
                                         counted  |-> counted[i]]
                                   ELSE lines[d][i]]
<1>1. task[c] \in Entry
  BY DEF WriteCountLines, CountType, ClientFits
<1>2. PICK S \in SUBSET Items : counted \in [S -> 0..MaxQty]
  BY <1>1 DEF Entry
<1>3. d \in Docs /\ lines[d] \in [Items -> Line \cup {NoLine}]
  BY <1>1 DEF Entry, CountType
<1>4. ASSUME NEW i \in Items, i \in DOMAIN counted
      PROVE  [expected |-> opened(i), counted |-> counted[i]] \in Line
  <2>1. opened(i) \in Nat
    BY <1>3 DEF Line
  <2>2. counted[i] \in Nat
    BY <1>2, <1>4
  <2> HIDE DEF opened
  <2> QED BY <2>1, <2>2 DEF Line
<1>5. new \in [Items -> Line \cup {NoLine}]
  <2>1. \A i \in Items : new[i] \in Line \cup {NoLine}
    BY <1>3, <1>4
  <2>2. new = [i \in Items |-> new[i]]
    OBVIOUS
  <2> HIDE DEF new
  <2> QED BY <2>1, <2>2
<1>6. lines' = [lines EXCEPT ![d] = new] /\ EndTask(c) /\ docStatus' = docStatus
  BY DEF WriteCountLines
<1>7. lines' \in [Docs -> [Items -> Line \cup {NoLine}]]
  <2> HIDE DEF new, d
  <2> QED BY <1>3, <1>5, <1>6 DEF CountType
<1>8. PICK result \in {"entered", "lost"} : Rollback(c, result)
  BY DEF WriteCountLines
<1> QED BY <1>6, <1>7, <1>8, RollbackCountType

\* The counted items of a document's lines have quantities.
LEMMA CountedLines ==
  ASSUME NEW l \in [Items -> Line \cup {NoLine}]
  PROVE  /\ CountedItems(l) \subseteq Items /\ IsFiniteSet(CountedItems(l))
         /\ \A i \in CountedItems(l) : l[i].counted \in Nat /\ l[i].expected \in Nat
<1>1. CountedItems(l) \subseteq Items
  BY DEF CountedItems
<1>2. IsFiniteSet(CountedItems(l))
  BY <1>1, FS_Subset
<1>3. \A i \in CountedItems(l) : l[i].counted \in Nat /\ l[i].expected \in Nat
  BY DEF CountedItems, Line
<1> QED BY <1>1, <1>2, <1>3

\* The document is locked, and its counted lines are what is to be done.
LEMMA LockDocumentReads ==
  ASSUME CountType, NEW c \in Clients, LockDocument(c),
         ~ Rollback(c, "count-posted")
  PROVE  LET d == task[c].doc
             t == task'[c]
         IN
         /\ docStatus[d] = "draft" /\ DocumentFree(c, d) /\ pc[c] = "document"
         /\ d \in Docs /\ t.doc = d /\ t.lines = lines[d]
         /\ t \in Listing /\ ToSet(t.todo) = CountedItems(lines[d])
         /\ t.force = task[c].force /\ t.changed = task[c].changed
         /\ task' = [task EXCEPT ![c] = t]
         /\ Goto(c, "line")
         /\ UNCHANGED <<committed, archived, req, workspace, outcome, documents>>
<1> DEFINE d == task[c].doc
<1>1. task[c] \in Posting /\ d \in Docs
  BY DEF LockDocument, CountType, ClientFits, Posts, Listing, Posting
<1>2. PICK order \in SetToSeqs(CountedItems(lines[d])) :
         task' = [task EXCEPT ![c].lines = lines[d], ![c].todo = order]
  BY DEF LockDocument
<1>3. lines[d] \in [Items -> Line \cup {NoLine}]
  BY <1>1 DEF CountType
<1>4. CountedItems(lines[d]) \subseteq Items
      /\ IsFiniteSet(CountedItems(lines[d]))
  BY <1>3, CountedLines
<1>5. /\ order \in Seq(CountedItems(lines[d])) /\ IsInjective(order)
      /\ ToSet(order) = CountedItems(lines[d])
  BY <1>4, ListingProperties
<1>6. order \in Seq(Items)
  BY <1>4, <1>5, SeqMonotonic
<1> DEFINE t == [task[c] EXCEPT !.lines = lines[d], !.todo = order]
<1>7. task' = [task EXCEPT ![c] = t] /\ task'[c] = t
  BY <1>2 DEF CountType
<1>8. t \in Posting /\ t.doc = d /\ t.lines = lines[d] /\ t.todo = order
      /\ t.force = task[c].force /\ t.changed = task[c].changed
  BY <1>1, <1>3, <1>6 DEF Posting
<1> HIDE DEF t
<1>9. t \in Listing
  BY <1>5, <1>8 DEF Listing
<1> QED BY <1>1, <1>5, <1>7, <1>8, <1>9 DEF LockDocument

\* The next line, with the balance it is compared with.
LEMMA LockLineReads ==
  ASSUME CountType, NEW c \in Clients, LockLine(c)
  PROVE  LET i     == Head(task[c].todo)
             line  == task[c].lines[i]
             moved == ~ task[c].force /\ Hand(c, i) # line.expected
             delta == line.counted - Hand(c, i)
             t     == task'[c]
         IN
         /\ pc[c] = "line" \/ (pc[c] = "done" /\ req[c].op = "post")
         /\ Working(c) /\ task[c] \in Listing /\ t \in Listing
         /\ line.counted \in Nat /\ line.expected \in Nat /\ delta \in Int
         /\ i \in Items /\ i \in ToSet(task[c].todo) /\ BalanceFree(c, i)
         /\ t.doc = task[c].doc /\ t.lines = task[c].lines
         /\ t.force = task[c].force
         /\ t.changed = IF moved THEN task[c].changed \cup {i} ELSE task[c].changed
         /\ ToSet(t.todo) = ToSet(task[c].todo) \ {i}
         /\ task' = [task EXCEPT ![c] = t]
         /\ held' = [held EXCEPT ![c] = @ \cup {i}]
         /\ UNCHANGED <<committed, archived, rows, newHand, newBasis, outcome,
                        documents>>
         /\ \/ (moved \/ delta = 0) /\ Goto(c, "line") /\ req' = req
            \/ /\ ~ moved /\ delta # 0 /\ Goto(c, "insert")
               /\ req' = [req EXCEPT ![c] =
                            [op |-> "post", item |-> i,
                             row |-> [type |-> "adjustment", qty |-> delta,
                                      key |-> NoKey, reverses |-> 0, by |-> c,
                                      doc |-> task[c].doc]]]
<1> DEFINE i == Head(task[c].todo)
           s == task[c].todo
           moved == ~ task[c].force /\ Hand(c, i) # task[c].lines[i].expected
           changed == IF moved THEN task[c].changed \cup {i} ELSE task[c].changed
           t == [task[c] EXCEPT !.todo = Tail(@),
                                !.changed = IF moved THEN @ \cup {i} ELSE @]
<1>1. /\ pc[c] = "line" \/ (pc[c] = "done" /\ req[c].op = "post")
      /\ s # <<>> /\ BalanceFree(c, i)
  BY DEF LockLine, AtLine
<1>2. Working(c) /\ task[c] \in Listing /\ task[c] \in Posting
  BY <1>1 DEF CountType, ClientFits, Posts, Working, Statements, Listing
<1>3. /\ s \in Seq(Items) /\ task[c].changed \subseteq Items
      /\ task[c].lines \in [Items -> Line \cup {NoLine}]
      /\ IsInjective(s) /\ ToSet(s) \subseteq CountedItems(task[c].lines)
  BY <1>2 DEF Posting, Listing
<1>4. i \in Items /\ Tail(s) \in Seq(Items) /\ i \in ToSet(s)
  BY <1>1, <1>3, HeadTailProperties DEF ToSet
<1>5. IsInjective(Tail(s)) /\ ToSet(Tail(s)) = ToSet(s) \ {i}
  BY <1>1, <1>3, TailProperties
<1>6. task' = [task EXCEPT ![c] = t] /\ task'[c] = t
  BY DEF LockLine, CountType
<1>7. changed \in SUBSET Items
  BY <1>3, <1>4
<1>8. /\ t \in Posting /\ t.doc = task[c].doc /\ t.lines = task[c].lines
      /\ t.force = task[c].force /\ t.changed = changed /\ t.todo = Tail(s)
  <2>1. t = [task[c] EXCEPT !.todo = Tail(s), !.changed = changed]
    BY <1>2 DEF Posting
  <2> HIDE DEF t, changed, s
  <2> QED BY <1>2, <1>4, <1>7, <2>1 DEF Posting, s
<1>9. held' = [held EXCEPT ![c] = @ \cup {i}]
  BY DEF LockLine, LinesHeld, CountType
<1> DEFINE delta == task[c].lines[i].counted - Hand(c, i)
<1>10. /\ UNCHANGED <<committed, archived, rows, newHand, newBasis, outcome,
                       documents>>
       /\ \/ (moved \/ delta = 0) /\ Goto(c, "line") /\ req' = req
          \/ /\ ~ moved /\ delta # 0 /\ Goto(c, "insert")
             /\ req' = [req EXCEPT ![c] =
                          [op |-> "post", item |-> i,
                           row |-> [type |-> "adjustment", qty |-> delta,
                                    key |-> NoKey, reverses |-> 0, by |-> c,
                                    doc |-> task[c].doc]]]
  BY DEF LockLine, Skipped
<1> HIDE DEF t
<1>11. task' = [task EXCEPT ![c] = task'[c]]
  BY <1>6
<1>12. t \in Listing
  BY <1>3, <1>5, <1>8 DEF Listing
<1>13. task[c].lines[i].counted \in Nat /\ task[c].lines[i].expected \in Nat
  BY <1>3, <1>4, CountedLines
<1>14. delta \in Int
  BY <1>4, <1>13, CountHandType
<1> QED BY <1>1, <1>2, <1>4, <1>5, <1>6, <1>8, <1>9, <1>10, <1>11, <1>12,
           <1>13, <1>14

\* An adjustment is a movement: its quantity is not zero.
LEMMA AdjustmentRequest ==
  ASSUME NEW c \in Clients, NEW i \in Items, NEW delta \in Int, delta # 0,
         NEW d \in Docs
  PROVE  [op |-> "post", item |-> i,
          row |-> [type |-> "adjustment", qty |-> delta, key |-> NoKey,
                   reverses |-> 0, by |-> c, doc |-> d]] \in CountRequest
<1> DEFINE m == [type |-> "adjustment", qty |-> delta, key |-> NoKey,
                 reverses |-> 0, by |-> c, doc |-> d]
<1>1. m \in Row
  BY DEF Row, Types
<1>2. SatisfiesChecks(m)
  BY DEF SatisfiesChecks, Increasing, Decreasing
<1>3. m \in Movement
  BY <1>1, <1>2 DEF Movement
<1> QED BY <1>3 DEF CountRequest

LEMMA LockDocumentType ==
  ASSUME CountType, NEW c \in Clients, LockDocument(c)
  PROVE  CountType'
<1>1. CASE Rollback(c, "count-posted")
  <2>1. EndTask(c)
    BY <1>1 DEF LockDocument, Rollback, End, Goto, CountType
  <2>2. docStatus' = docStatus
        /\ lines' \in [Docs -> [Items -> Line \cup {NoLine}]]
    BY DEF LockDocument, documents, CountType
  <2> QED BY <1>1, <2>1, <2>2, RollbackCountType
<1>2. CASE ~ Rollback(c, "count-posted")
  <2>1. /\ task'[c] \in Listing /\ task' = [task EXCEPT ![c] = task'[c]]
        /\ Goto(c, "line")
        /\ UNCHANGED <<committed, archived, req, workspace, outcome, documents>>
    BY <1>2, LockDocumentReads
  <2>2. /\ task' \in [Clients -> Entry \cup Posting \cup {NoTask}]
        /\ \A o \in Clients \ {c} : task'[o] = task[o]
    BY <2>1 DEF CountType, Listing
  <2> QED BY <2>1, <2>2, GotoCountType DEF CountType, workspace, Statements
<1> QED BY <1>1, <1>2

LEMMA LockLineType ==
  ASSUME CountType, NEW c \in Clients, LockLine(c)
  PROVE  CountType'
<1> DEFINE i     == Head(task[c].todo)
           delta == task[c].lines[i].counted - Hand(c, i)
           r     == [op |-> "post", item |-> i,
                     row |-> [type |-> "adjustment", qty |-> delta,
                              key |-> NoKey, reverses |-> 0, by |-> c,
                              doc |-> task[c].doc]]
<1>1. /\ task[c] \in Listing /\ task'[c] \in Listing /\ i \in Items
      /\ delta \in Int
      /\ task' = [task EXCEPT ![c] = task'[c]]
      /\ held' = [held EXCEPT ![c] = @ \cup {i}]
      /\ UNCHANGED <<committed, archived, rows, newHand, newBasis, outcome,
                     documents>>
      /\ \/ Goto(c, "line") /\ req' = req
         \/ delta # 0 /\ Goto(c, "insert") /\ req' = [req EXCEPT ![c] = r]
  BY LockLineReads
<1>2. /\ task' \in [Clients -> Entry \cup Posting \cup {NoTask}]
      /\ \A o \in Clients \ {c} : task'[o] = task[o]
      /\ held' \in [Clients -> SUBSET Items]
  <2>1. task'[c] \in Posting
    BY <1>1 DEF Listing
  <2> HIDE DEF r, delta
  <2>2. task' \in [Clients -> Entry \cup Posting \cup {NoTask}]
    BY <1>1, <2>1 DEF CountType
  <2>3. \A o \in Clients \ {c} : task'[o] = task[o]
    BY <1>1, <2>1 DEF CountType
  <2>4. held' \in [Clients -> SUBSET Items]
    BY <1>1 DEF CountType
  <2> QED BY <2>2, <2>3, <2>4
<1>3. CASE Goto(c, "line") /\ req' = req
  <2>1. "line" \notin Statements
    BY DEF Statements
  <2> QED BY <1>1, <1>2, <1>3, <2>1, GotoCountType DEF CountType
<1>4. CASE delta # 0 /\ Goto(c, "insert") /\ req' = [req EXCEPT ![c] = r]
  <2>1. task[c].doc \in Docs
    BY <1>1 DEF Listing, Posting
  <2>2. r \in CountRequest /\ r.op = "post"
    <3> HIDE DEF i, delta
    <3> QED BY <1>1, <1>4, <2>1, AdjustmentRequest
  <2> HIDE DEF r
  <2>3. /\ req' \in [Clients -> CountRequest \cup {NoReq}]
        /\ req'[c] = r /\ \A o \in Clients \ {c} : req'[o] = req[o]
    BY <1>4, <2>2 DEF CountType
  <2> QED BY <1>1, <1>2, <1>4, <2>2, <2>3, GotoCountType
          DEF CountType, Statements
<1> QED BY <1>1, <1>3, <1>4

LEMMA FinishPostType ==
  ASSUME CountType, NEW c \in Clients, FinishPost(c)
  PROVE  CountType'
<1>1. EndTask(c) /\ lines' = lines
  BY DEF FinishPost
<1>2. lines' \in [Docs -> [Items -> Line \cup {NoLine}]]
  BY <1>1 DEF CountType
<1>3. CASE Rollback(c, "count-changed") /\ docStatus' = docStatus
  BY <1>1, <1>2, <1>3, RollbackCountType
<1>4. CASE /\ Publish(c)
           /\ docStatus' = [docStatus EXCEPT ![task[c].doc] = "posted"]
           /\ \E result \in {"posted", "lost"} : End(c, result)
  <2>1. docStatus' \in [Docs -> {"none", "draft", "posted"}]
    BY <1>4 DEF CountType
  <2>2. /\ journal' \in [Items -> Seq(Movement)]
        /\ onHand' \in [Items -> Nat] /\ basis' \in [Items -> Nat]
    BY <1>4 DEF Publish, Extended, Merged, CountType
  <2>3. PICK result \in {"posted", "lost"} : End(c, result)
    BY <1>4
  <2> QED BY <1>1, <1>2, <2>1, <2>2, <2>3, EndCountType
<1> QED BY <1>3, <1>4 DEF FinishPost

LEMMA CreateCountType ==
  ASSUME CountType, NEW d \in Docs, NEW S \in SUBSET Items, CreateCount(d, S)
  PROVE  CountType'
<1> DEFINE new == [i \in Items |-> IF i \in S
                                   THEN [expected |-> onHand[i],
                                         counted  |-> Uncounted]
                                   ELSE NoLine]
<1>1. new \in [Items -> Line \cup {NoLine}]
  BY DEF CountType, Line
<1>2. lines' = [lines EXCEPT ![d] = new]
  BY DEF CreateCount
<1>3. lines' \in [Docs -> [Items -> Line \cup {NoLine}]]
  <2> HIDE DEF new
  <2> QED BY <1>1, <1>2 DEF CountType
<1>4. docStatus' \in [Docs -> {"none", "draft", "posted"}]
  BY DEF CreateCount, CountType
<1> QED BY <1>3, <1>4 DEF CreateCount, CountType, ClientFits, Posts, Working,
                          vars, committed, workspace

LEMMA NextCountType ==
  ASSUME CountType, [CountsNext]_countVars
  PROVE  CountType'
<1>1. ASSUME NEW c \in Clients, BeginMovement(c) PROVE CountType'
  BY <1>1, BeginMovementType
<1>2. ASSUME NEW c \in Clients, NEW d \in Docs, BeginCount(c, d)
      PROVE  CountType'
  <2>1. CASE RefuseSetCountLines(c, d)
    BY <2>1 DEF RefuseSetCountLines, CountType, ClientFits, Posts, Working,
                committed, workspace, documents
  <2>2. ASSUME NEW S \in SUBSET Items \ {{}}, NEW counted \in [S -> 0..MaxQty],
               StartSetCountLines(c, d, counted)
        PROVE  CountType'
    BY <2>2, BeginDocumentType
  <2>3. ASSUME NEW force \in BOOLEAN, StartPostCount(c, d, force)
        PROVE  CountType'
    BY <2>3, BeginDocumentType
  <2> QED BY <1>2, <2>1, <2>2, <2>3 DEF BeginCount
<1>3. ASSUME NEW c \in Clients, CountStep(c) PROVE CountType'
  <2>1. CASE DeadlockVictim(c)
    <3>1. /\ Rollback(c, "deadlock") /\ EndTask(c)
          /\ docStatus' = docStatus /\ lines' = lines
      BY <2>1 DEF DeadlockVictim, documents
    <3> QED BY <3>1, RollbackCountType DEF CountType
  <2> QED BY <1>3, <2>1, MovementStepType, WriteLinesType, LockDocumentType,
             LockLineType, FinishPostType DEF CountStep
<1>4. ASSUME NEW c \in Clients, Abort(c) /\ EndTask(c) /\ UNCHANGED documents
      PROVE  CountType'
  <2>1. Rollback(c, "lost") /\ docStatus' = docStatus /\ lines' = lines
    BY <1>4 DEF Abort, documents
  <2> QED BY <1>4, <2>1, RollbackCountType DEF CountType
<1>5. ASSUME NEW d \in Docs, NEW S \in SUBSET Items, CreateCount(d, S)
      PROVE  CountType'
  BY <1>5, CreateCountType
<1>6. ASSUME NEW i \in Items, ArchiveCounted(i) PROVE CountType'
  BY <1>6 DEF ArchiveCounted, ArchiveItem, CountType, ClientFits, Posts,
              Working, committed, workspace, documents
<1>7. CASE UNCHANGED countVars
  BY <1>7 DEF countVars, vars, committed, workspace, documents, CountType,
              ClientFits, Posts, Working
<1> QED BY <1>1, <1>2, <1>3, <1>4, <1>5, <1>6, <1>7 DEF CountsNext

LEMMA CountTypeInvariant == CountsSpec => []CountType
<1>1. CountsInit => CountType
  <2>1. ASSUME CountsInit PROVE CountType
    <3>1. <<>> \in Seq(Movement)
      BY EmptySeq
    <3>2. \A c \in Clients : pc[c] = "idle" /\ task[c] = NoTask
      BY <2>1 DEF CountsInit, Init
    <3>3. \A c \in Clients : ClientFits(c)
      BY <3>2 DEF ClientFits, Posts, Working, Statements
    <3> QED BY <2>1, <3>1, <3>3
            DEF CountsInit, Init, CountType, Empty, CountStatements
  <2> QED BY <2>1
<1>2. CountType /\ [CountsNext]_countVars => CountType'
  BY NextCountType
<1> QED BY <1>1, <1>2, PTL DEF CountsSpec

-----------------------------------------------------------------------------
(* The invariant.                                                           *)

\* The item a transaction is inserting a movement of, or has just done.
Current(c, i) == pc[c] \in Locked /\ i = req[c].item

\* The document a transaction works on exists; one that is being posted is a
\* draft.
DocInv(c) ==
  /\ pc[c] \in {"entry", "document"} => docStatus[task[c].doc] # "none"
  /\ Working(c) => docStatus[task[c].doc] = "draft"
  /\ Working(c) => pc[c] \in Locked \cup {"line"}

\* What a transaction has locked and written, by the statement it has reached:
\* the movements of items other than the current one are applied and their
\* statuses recomputed.
WorkInv(c) ==
  /\ pc[c] \in Locked =>
       /\ req[c].item \in held[c]
       /\ onHand[req[c].item] + req[c].row.qty >= 0
  /\ \A i \in Items :
       /\ Current(c, i) => rows[c][i] = IF pc[c] \in Written
                                          THEN req[c].row ELSE NoRow
       /\ rows[c][i] # NoRow =>
            /\ i \in held[c]
            /\ onHand[i] + rows[c][i].qty >= 0
            /\ Working(c) \/ Current(c, i)
       /\ newHand[c][i] =
            IF rows[c][i] # NoRow /\ (Current(c, i) => pc[c] \in Applied)
              THEN onHand[i] + rows[c][i].qty ELSE Unset
       /\ newBasis[c][i] =
            IF rows[c][i] # NoRow /\ (Current(c, i) => pc[c] = "done")
              THEN onHand[i] + rows[c][i].qty ELSE Unset

\* What a transaction inserts: adjustments of its document, or a movement of
\* its own.
Fits(c, m) ==
  IF Working(c)
    THEN /\ m.type = "adjustment" /\ m.doc = task[c].doc
         /\ m.key = NoKey /\ m.reverses = 0
    ELSE m.type # "adjustment" /\ m.doc = NoDoc

RowsFit(c) ==
  /\ pc[c] \in Statements => Fits(c, req[c].row)
  /\ \A i \in Items : rows[c][i] # NoRow => Fits(c, rows[c][i])

\* What the balance of an item will be when the transaction commits.
Adjusted(c, i) ==
  onHand[i] + (IF Current(c, i) THEN req[c].row.qty
               ELSE IF rows[c][i] # NoRow THEN rows[c][i].qty ELSE 0)

\* A line that was compared: locked, and either reported as changed or on the
\* way to the quantity counted.
Exact(c, i) ==
  /\ i \in held[c]
  /\ \/ i \in task[c].changed
     \/ /\ task[c].force \/ onHand[i] = task[c].lines[i].expected
        /\ Adjusted(c, i) = task[c].lines[i].counted

LinesInv(c) ==
  Working(c) =>
    /\ \A i \in ToSet(task[c].todo) : rows[c][i] = NoRow /\ ~ Current(c, i)
    /\ \A i \in CountedItems(task[c].lines) \ ToSet(task[c].todo) : Exact(c, i)

\* A movement of item i may cancel what it names; nobody has used its key or
\* cancelled the same movement before.
CanReverse(i, m) ==
  m.reverses # 0 =>
    /\ m.reverses \in DOMAIN journal[i]
    /\ journal[i][m.reverses].type # "reversal"
    /\ m.qty = - journal[i][m.reverses].qty
    /\ m.by \in Owners \/ m.by = journal[i][m.reverses].by

IsFresh(i, m) ==
  /\ m.key # NoKey => ~ KeyUsed(journal, m.key)
  /\ m.reverses # 0 => ~ IsReversed(journal[i], m.reverses)

LawInv(c) ==
  /\ pc[c] \in Statements => CanReverse(req[c].item, req[c].row)
  /\ \A i \in Items : rows[c][i] # NoRow =>
       CanReverse(i, rows[c][i]) /\ IsFresh(i, rows[c][i])

\* Two transactions do not post the same document.
DocumentsExclusive ==
  \A c, d \in Clients : (c # d /\ Working(c) /\ Working(d)) =>
    task[c].doc # task[d].doc

\* The unique indexes, for movements not yet committed.
NoClashes ==
  \A c, d \in Clients : c # d => \A i, j \in Items :
    rows[c][i] # NoRow => ~ Clash(i, rows[c][i], j, rows[d][j])

\* Adjustments, and no other movements, refer to a count.
OnlyCountsAdjust ==
  \A i \in Items : \A n \in DOMAIN journal[i] :
    IF journal[i][n].type = "adjustment" THEN journal[i][n].doc \in Docs
                                         ELSE journal[i][n].doc = NoDoc

\* AdjustmentsFollowPosting alone does not say which document a movement under
\* way belongs to, nor that nobody else is posting it.
CountInv ==
  /\ CountType
  /\ LocksExclusive /\ DocumentsExclusive /\ NoClashes
  /\ \A c \in Clients : DocInv(c)
  /\ \A c \in Clients : WorkInv(c)
  /\ \A c \in Clients : RowsFit(c)
  /\ \A c \in Clients : LinesInv(c)
  /\ \A c \in Clients : LawInv(c)
  /\ OnlyCountsAdjust /\ AdjustmentsFollowPosting

\* The transaction of client d is left alone.
Rests(d) ==
  /\ pc'[d] = pc[d] /\ req'[d] = req[d] /\ held'[d] = held[d]
  /\ rows'[d] = rows[d] /\ newHand'[d] = newHand[d]
  /\ newBasis'[d] = newBasis[d] /\ task'[d] = task[d]

\* Whoever is left alone, with the balances it has locked and the document it
\* is posting, stands where it stood.
LEMMA RestingClient ==
  ASSUME CountInv, NEW d \in Clients, Rests(d),
         \A i \in held[d] : onHand'[i] = onHand[i],
         \A x \in Docs : docStatus[x] # "none" => docStatus'[x] # "none",
         Working(d) => docStatus'[task[d].doc] = docStatus[task[d].doc]
  PROVE  DocInv(d)' /\ WorkInv(d)' /\ RowsFit(d)' /\ LinesInv(d)'
<1> USE DEF Rests
<1>1. /\ CountType /\ DocInv(d) /\ WorkInv(d) /\ RowsFit(d) /\ LinesInv(d)
      /\ ClientFits(d)
  BY DEF CountInv, CountType
<1>2. Working(d)' = Working(d)
  BY DEF Working, Posts
<1>3. \A i \in Items : Current(d, i)' = Current(d, i)
  BY DEF Current
<1>4. DocInv(d)'
  <2>1. pc[d] \in {"entry", "document"} => task[d].doc \in Docs
    BY <1>1 DEF ClientFits, Posts, Listing, Posting, Entry
  <2> QED BY <1>1, <1>2, <2>1 DEF DocInv
<1>5. WorkInv(d)'
  <2>1. pc[d] \in Locked => onHand'[req[d].item] = onHand[req[d].item]
    BY <1>1 DEF WorkInv
  <2>2. \A i \in Items : rows[d][i] # NoRow => onHand'[i] = onHand[i]
    BY <1>1 DEF WorkInv
  <2> QED BY <1>1, <1>2, <1>3, <2>1, <2>2 DEF WorkInv
<1>6. RowsFit(d)'
  <2>1. \A m : Fits(d, m)' = Fits(d, m)
    BY <1>2 DEF Fits
  <2> QED BY <1>1, <1>2 DEF RowsFit, Fits
<1>7. LinesInv(d)'
  <2>1. ASSUME Working(d), NEW i \in CountedItems(task[d].lines), Exact(d, i)
        PROVE  Exact(d, i)'
    <3>1. i \in Items
      BY DEF CountedItems
    <3>2. onHand'[i] = onHand[i] /\ i \in held[d]
      BY <2>1 DEF Exact
    <3>3. Adjusted(d, i)' = Adjusted(d, i)
      BY <1>3, <3>1, <3>2 DEF Adjusted
    <3> QED BY <2>1, <3>2, <3>3 DEF Exact
  <2>2. ASSUME Working(d), NEW i \in ToSet(task[d].todo)
        PROVE  (rows[d][i] = NoRow /\ ~ Current(d, i))'
    <3>1. i \in Items
      BY <1>1, <2>2 DEF ClientFits, Working, Listing, CountedItems
    <3> QED BY <1>1, <1>3, <2>2, <3>1 DEF LinesInv
  <2>3. CountedItems(task'[d].lines) = CountedItems(task[d].lines)
    BY DEF CountedItems
  <2> QED BY <1>1, <1>2, <2>1, <2>2, <2>3 DEF LinesInv, CountedItems
<1> QED BY <1>4, <1>5, <1>6, <1>7

\* While the journal stands, a client obeys the law by its new request and rows.
LEMMA LawStands ==
  ASSUME journal' = journal, NEW c \in Clients,
         pc'[c] \in Statements => CanReverse(req'[c].item, req'[c].row),
         \A k \in Items : rows'[c][k] # NoRow =>
           CanReverse(k, rows'[c][k]) /\ IsFresh(k, rows'[c][k])
  PROVE  LawInv(c)'
<1>1. (pc'[c] \in Statements) => CanReverse(req[c].item, req[c].row)'
  BY DEF CanReverse
<1>2. ASSUME NEW k \in Items, rows'[c][k] # NoRow
      PROVE  CanReverse(k, rows[c][k])' /\ IsFresh(k, rows[c][k])'
  <2>1. CanReverse(k, rows'[c][k]) /\ IsFresh(k, rows'[c][k])
    BY <1>2
  <2>2. CanReverse(k, rows[c][k])'
    BY <2>1 DEF CanReverse
  <2>3. IsFresh(k, rows[c][k])'
    BY <2>1 DEF IsFresh, KeyUsed, IsReversed
  <2> QED BY <2>2, <2>3
<1> QED BY <1>1, <1>2 DEF LawInv

\* So does its part of the law, while the journal stands.
LEMMA RestingLaw ==
  ASSUME CountInv, NEW d \in Clients, Rests(d), journal' = journal
  PROVE  LawInv(d)'
<1>1. LawInv(d)
  BY DEF CountInv
<1>2. pc'[d] = pc[d] /\ req'[d] = req[d] /\ rows'[d] = rows[d]
  BY DEF Rests
<1>3. pc'[d] \in Statements => CanReverse(req'[d].item, req'[d].row)
  BY <1>1, <1>2 DEF LawInv
<1>4. \A k \in Items : rows'[d][k] # NoRow =>
        CanReverse(k, rows'[d][k]) /\ IsFresh(k, rows'[d][k])
  BY <1>1, <1>2 DEF LawInv
<1> QED BY <1>3, <1>4, LawStands

-----------------------------------------------------------------------------
(* Steps that publish nothing.                                              *)

\* A step of client c alone that publishes nothing keeps the invariant when it
\* keeps c's own part of it, takes no lock that somebody else holds, and
\* inserts nothing that clashes.
LEMMA QuietCount ==
  ASSUME CountInv, CountType', NEW c \in Clients,
         \A d \in Clients \ {c} : Rests(d),
         UNCHANGED committed, UNCHANGED docStatus,
         DocInv(c)', WorkInv(c)', RowsFit(c)', LinesInv(c)', LawInv(c)',
         \A d \in Clients \ {c} :
           /\ held'[c] \cap held[d] = {}
           /\ (Working(c)' /\ Working(d)) => task'[c].doc # task[d].doc
           /\ \A i, j \in Items :
                /\ rows'[c][i] # NoRow => ~ Clash(i, rows'[c][i], j, rows[d][j])
                /\ rows[d][j] # NoRow => ~ Clash(j, rows[d][j], i, rows'[c][i])
  PROVE  CountInv'
<1>1. ASSUME NEW d \in Clients
      PROVE  DocInv(d)' /\ WorkInv(d)' /\ RowsFit(d)' /\ LinesInv(d)' /\ LawInv(d)'
  <2>1. CASE d = c
    BY <2>1
  <2>2. CASE d # c
    <3>1. Rests(d) /\ journal' = journal /\ onHand' = onHand
      BY <2>2 DEF committed
    <3> QED BY <3>1, RestingClient, RestingLaw
  <2> QED BY <2>1, <2>2
<1>2. LocksExclusive'
  BY DEF CountInv, LocksExclusive, Rests
<1>3. DocumentsExclusive'
  <2>1. \A d \in Clients \ {c} : Working(d)' = Working(d) /\ task'[d] = task[d]
    BY DEF Rests, Working, Posts
  <2> QED BY <2>1 DEF CountInv, DocumentsExclusive
<1>4. NoClashes'
  <2>1. \A i, j, m, r : Clash(i, m, j, r)' = Clash(i, m, j, r)
    BY DEF Clash
  <2>2. ASSUME NEW d \in Clients, NEW e \in Clients, d # e,
               NEW i \in Items, NEW j \in Items, rows'[d][i] # NoRow
        PROVE  ~ Clash(i, rows'[d][i], j, rows'[e][j])
    BY <2>2 DEF CountInv, NoClashes, Rests
  <2> QED BY <2>2 DEF NoClashes, Clash
<1>5. OnlyCountsAdjust' /\ AdjustmentsFollowPosting'
  BY DEF CountInv, OnlyCountsAdjust, AdjustmentsFollowPosting, committed
<1> QED BY <1>1, <1>2, <1>3, <1>4, <1>5 DEF CountInv

\* Nothing is left of a transaction that has ended.
LEMMA EndedClient ==
  ASSUME CountType, NEW c \in Clients, NEW result, End(c, result), EndTask(c)
  PROVE  /\ \A d \in Clients \ {c} : Rests(d)
         /\ pc'[c] = "idle" /\ held'[c] = {} /\ outcome'[c] = result
         /\ \A i \in Items : rows'[c][i] = NoRow
         /\ ~ Working(c)'
         /\ DocInv(c)' /\ WorkInv(c)' /\ RowsFit(c)' /\ LinesInv(c)' /\ LawInv(c)'
<1>1. \A d \in Clients \ {c} : Rests(d)
  BY DEF CountType, End, EndTask, Rests
<1>2. /\ pc'[c] = "idle" /\ held'[c] = {} /\ outcome'[c] = result
      /\ \A i \in Items : /\ rows'[c][i] = NoRow
                          /\ newHand'[c][i] = Unset /\ newBasis'[c][i] = Unset
  BY DEF CountType, End, Empty
<1>3. ~ Working(c)' /\ pc'[c] \notin Statements \cup Locked
  BY <1>2 DEF Working, Posts, Statements, Locked
<1>4. DocInv(c)' /\ LinesInv(c)'
  BY <1>2, <1>3 DEF DocInv, LinesInv
<1>5. WorkInv(c)'
  BY <1>2, <1>3 DEF WorkInv, Current
<1>6. RowsFit(c)' /\ LawInv(c)'
  BY <1>2, <1>3 DEF RowsFit, LawInv
<1> QED BY <1>1, <1>2, <1>3, <1>4, <1>5, <1>6

LEMMA RollbackCount ==
  ASSUME CountInv, CountType', NEW c \in Clients, NEW result,
         Rollback(c, result), EndTask(c), UNCHANGED docStatus
  PROVE  CountInv'
<1>1. End(c, result) /\ UNCHANGED committed /\ CountType
  BY DEF Rollback, CountInv
<1>2. /\ \A d \in Clients \ {c} : Rests(d)
      /\ held'[c] = {} /\ \A i \in Items : rows'[c][i] = NoRow
      /\ ~ Working(c)'
      /\ DocInv(c)' /\ WorkInv(c)' /\ RowsFit(c)' /\ LinesInv(c)' /\ LawInv(c)'
  BY <1>1, EndedClient
<1>3. \A i, j, m : ~ Clash(i, m, j, NoRow)
  BY DEF Clash
<1> QED BY <1>1, <1>2, <1>3, QuietCount

\* A transaction that has not locked anything yet has written nothing.
LEMMA NothingWritten ==
  ASSUME CountInv, NEW c \in Clients, ~ Working(c), pc[c] \notin Locked
  PROVE  \A i \in Items : /\ rows[c][i] = NoRow /\ ~ Current(c, i)
                          /\ newHand[c][i] = Unset /\ newBasis[c][i] = Unset
  BY DEF CountInv, WorkInv, Current

\* Beginning, or moving on before anything is locked.
LEMMA EarlyCount ==
  ASSUME CountInv, CountType', NEW c \in Clients,
         ~ Working(c), pc[c] \notin Locked, ~ Working(c)', pc'[c] \notin Locked,
         \A d \in Clients \ {c} : Rests(d),
         UNCHANGED <<committed, workspace, docStatus>>,
         pc'[c] \in {"entry", "document"} => docStatus[task'[c].doc] # "none",
         pc'[c] \in Statements =>
           /\ req'[c].row.type # "adjustment" /\ req'[c].row.doc = NoDoc
           /\ CanReverse(req'[c].item, req'[c].row)
  PROVE  CountInv'
<1>1. \A i \in Items : /\ rows'[c][i] = NoRow
                       /\ newHand'[c][i] = Unset /\ newBasis'[c][i] = Unset
  BY NothingWritten DEF workspace
<1>2. journal' = journal /\ onHand' = onHand /\ held' = held
  BY DEF committed, workspace
<1>3. DocInv(c)' /\ LinesInv(c)'
  BY DEF DocInv, LinesInv
<1>4. WorkInv(c)'
  BY <1>1 DEF WorkInv, Current
<1>5. RowsFit(c)'
  BY <1>1 DEF RowsFit, Fits
<1>6. LawInv(c)'
  BY <1>1, <1>2 DEF LawInv, CanReverse
<1>7. \A d \in Clients \ {c} : held'[c] \cap held[d] = {}
  BY <1>2 DEF CountInv, LocksExclusive
<1>8. \A i, j, m : ~ Clash(i, m, j, NoRow)
  BY DEF Clash
<1> QED BY <1>1, <1>3, <1>4, <1>5, <1>6, <1>7, <1>8, QuietCount

\* Nobody's transaction moves, and no document is posted.
LEMMA NobodyMoves ==
  ASSUME CountInv, CountType', UNCHANGED <<committed, pc, req, workspace, task>>,
         \A d \in Docs : docStatus[d] # "none" => docStatus'[d] = docStatus[d]
  PROVE  CountInv'
<1>1. ASSUME NEW d \in Clients PROVE Rests(d)
  BY DEF Rests, workspace
<1>2. journal' = journal /\ onHand' = onHand
  BY DEF committed
<1>3. ASSUME NEW d \in Clients
      PROVE  DocInv(d)' /\ WorkInv(d)' /\ RowsFit(d)' /\ LinesInv(d)' /\ LawInv(d)'
  <2>1. Working(d) => docStatus'[task[d].doc] = docStatus[task[d].doc]
    <3>1. Working(d) => task[d].doc \in Docs /\ docStatus[task[d].doc] = "draft"
      BY DEF CountInv, CountType, ClientFits, Working, Listing, Posting, DocInv
    <3> QED BY <3>1
  <2> QED BY <1>1, <1>2, <2>1, RestingClient, RestingLaw
<1>4. LocksExclusive' /\ NoClashes'
  BY DEF CountInv, LocksExclusive, NoClashes, Clash, workspace
<1>5. DocumentsExclusive'
  BY DEF CountInv, DocumentsExclusive, Working, Posts
<1>6. OnlyCountsAdjust'
  BY <1>2 DEF CountInv, OnlyCountsAdjust
<1>7. AdjustmentsFollowPosting'
  <2>1. ASSUME NEW i \in Items, NEW n \in DOMAIN journal[i],
               journal[i][n].type = "adjustment"
        PROVE  docStatus'[journal[i][n].doc] = "posted"
    <3>1. docStatus[journal[i][n].doc] = "posted"
      BY <2>1 DEF CountInv, AdjustmentsFollowPosting
    <3>2. journal[i][n].doc \in Docs
      BY <2>1 DEF CountInv, OnlyCountsAdjust
    <3> QED BY <3>1, <3>2
  <2> QED BY <1>2, <2>1 DEF CountInv, AdjustmentsFollowPosting
<1> QED BY <1>3, <1>4, <1>5, <1>6, <1>7 DEF CountInv

LEMMA BeginMovementCount ==
  ASSUME CountInv, CountType', NEW c \in Clients, BeginMovement(c)
  PROVE  CountInv'
<1>1. UNCHANGED <<documents, task>> /\ CountType
  BY DEF BeginMovement, CountInv
<1>2. ASSUME NEW r, NEW statement \in {"key", "reversal"}, Begin(c, r, statement),
             r.op # "post", r.row.type # "adjustment", r.row.doc = NoDoc,
             CanReverse(r.item, r.row)
      PROVE  CountInv'
  <2>1. /\ pc[c] = "idle" /\ pc'[c] = statement /\ req'[c] = r
        /\ \A d \in Clients \ {c} : Rests(d)
        /\ UNCHANGED <<committed, workspace, docStatus>>
    BY <1>1, <1>2 DEF Begin, Goto, Rests, CountType, workspace, documents
  <2>2. /\ ~ Working(c) /\ pc[c] \notin Locked
        /\ ~ Working(c)' /\ pc'[c] \notin Locked
    BY <1>2, <2>1 DEF Working, Posts, Locked, Statements
  <2> QED BY <1>2, <2>1, <2>2, EarlyCount
<1>3. ASSUME NEW i \in Items, NEW type \in Kinds, NEW n \in 1..MaxQty,
             NEW k \in Keys, StartRecord(c, i, type, n, k)
      PROVE  CountInv'
  <2>1. type # "adjustment"
    BY KindsAssumption
  <2> QED BY <1>2, <1>3, <2>1 DEF StartRecord, CanReverse
<1>4. ASSUME NEW i \in Items, NEW n \in DOMAIN journal[i], StartReverse(c, i, n)
      PROVE  CountInv'
  BY <1>2, <1>4 DEF StartReverse, CanReverse
<1>5. ASSUME NEW i \in Items, NEW n \in DOMAIN journal[i], RefuseReverse(c, i, n)
      PROVE  CountInv'
  BY <1>1, <1>5, NobodyMoves DEF RefuseReverse, documents
<1> QED BY <1>3, <1>4, <1>5 DEF BeginMovement

LEMMA BeginCountCount ==
  ASSUME CountInv, CountType', NEW c \in Clients, NEW d \in Docs, BeginCount(c, d)
  PROVE  CountInv'
<1>1. CountType
  BY DEF CountInv
<1>2. ASSUME NEW t, t.doc = d, docStatus[d] # "none",
             NEW statement \in {"entry", "document"},
             Begin(c, NoReq, statement), task' = [task EXCEPT ![c] = t],
             UNCHANGED documents
      PROVE  CountInv'
  <2>1. /\ pc[c] = "idle" /\ pc'[c] = statement /\ task'[c] = t
        /\ \A o \in Clients \ {c} : Rests(o)
        /\ UNCHANGED <<committed, workspace, docStatus>>
    BY <1>1, <1>2 DEF Begin, Goto, Rests, CountType, workspace, documents
  <2>2. /\ ~ Working(c) /\ pc[c] \notin Locked
        /\ ~ Working(c)' /\ pc'[c] \notin Locked \cup Statements
    BY <1>2, <2>1 DEF Working, Posts, Locked, Statements
  <2> QED BY <1>2, <2>1, <2>2, EarlyCount
<1>3. ASSUME NEW counted, StartSetCountLines(c, d, counted) PROVE CountInv'
  BY <1>2, <1>3 DEF StartSetCountLines
<1>4. ASSUME NEW force, StartPostCount(c, d, force) PROVE CountInv'
  BY <1>2, <1>4 DEF StartPostCount
<1>5. CASE RefuseSetCountLines(c, d)
  BY <1>5, NobodyMoves DEF RefuseSetCountLines, documents
<1> QED BY <1>3, <1>4, <1>5 DEF BeginCount

\* The statements of Movements, each with what it does to the invariant.
LEMMA MovementParts ==
  ASSUME CountInv, NEW c \in Clients, pc[c] \in Statements
  PROVE  /\ req[c] \in CountRequest /\ req[c].item \in Items
         /\ req[c].row \in Movement /\ req[c].row # NoRow
         /\ req[c].row.qty \in Int
         /\ onHand[req[c].item] \in Nat
         /\ pc[c] \notin Locked => ~ Working(c)
         /\ Fits(c, req[c].row) /\ CanReverse(req[c].item, req[c].row)
<1>1. req[c] \in CountRequest
  BY DEF CountInv, CountType, ClientFits
<1>2. pc[c] \notin Locked => ~ Working(c)
  BY DEF CountInv, DocInv, Statements
<1> QED BY <1>1, <1>2, CountRequestParts
        DEF CountInv, CountType, RowsFit, LawInv

\* Its end, or another statement, of a transaction at a statement of Movements.
LEMMA MovementGoesOn ==
  ASSUME CountInv, CountType', NEW c \in Clients, MovementStep(c)
  PROVE  /\ \A result : Rollback(c, result) => CountInv'
         /\ \A statement \in Statements :
              (Goto(c, statement) /\ req' = req /\ UNCHANGED <<committed, outcome>>
                 /\ \A d \in Clients \ {c} :
                      /\ held'[d] = held[d] /\ rows'[d] = rows[d]
                      /\ newHand'[d] = newHand[d] /\ newBasis'[d] = newBasis[d])
              => /\ pc'[c] = statement /\ task' = task
                 /\ \A d \in Clients \ {c} : Rests(d)
                 /\ UNCHANGED docStatus
                 /\ journal' = journal /\ onHand' = onHand
<1>1. CountType /\ UNCHANGED documents
  BY DEF CountInv, MovementStep
<1>2. ASSUME NEW result, Rollback(c, result) PROVE CountInv'
  <2>1. EndTask(c)
    BY <1>1, <1>2, MovementTask DEF MovementStep, Rollback
  <2> QED BY <1>1, <1>2, <2>1, RollbackCount DEF documents
<1>3. ASSUME NEW statement \in Statements, Goto(c, statement), req' = req,
             UNCHANGED <<committed, outcome>>,
             \A d \in Clients \ {c} :
               /\ held'[d] = held[d] /\ rows'[d] = rows[d]
               /\ newHand'[d] = newHand[d] /\ newBasis'[d] = newBasis[d]
      PROVE  /\ pc'[c] = statement /\ task' = task
             /\ \A d \in Clients \ {c} : Rests(d)
             /\ UNCHANGED docStatus
             /\ journal' = journal /\ onHand' = onHand
  <2>1. task' = task
    BY <1>1, <1>3, MovementTask DEF MovementStep
  <2> QED BY <1>1, <1>3, <2>1 DEF Goto, CountType, Rests, documents, committed
<1> QED BY <1>2, <1>3

LEMMA EarlyStatement ==
  ASSUME CountInv, CountType', NEW c \in Clients, MovementStep(c),
         NEW statement \in Statements \ Locked,
         pc[c] \in Statements \ Locked, Goto(c, statement),
         UNCHANGED <<committed, req, workspace, outcome>>
  PROVE  CountInv'
<1>1. /\ pc'[c] = statement /\ task' = task /\ UNCHANGED docStatus
      /\ \A d \in Clients \ {c} : Rests(d)
  BY MovementGoesOn DEF workspace
<1>2. /\ ~ Working(c) /\ CanReverse(req[c].item, req[c].row)
      /\ req[c].row.type # "adjustment" /\ req[c].row.doc = NoDoc
  BY MovementParts DEF Fits
<1>3. ~ Working(c)'
  BY <1>1, <1>2 DEF Working, Posts, Statements
<1> QED BY <1>1, <1>2, <1>3, EarlyCount DEF Statements

LEMMA LockBalanceCount ==
  ASSUME CountInv, CountType', NEW c \in Clients, MovementStep(c), LockBalance(c)
  PROVE  CountInv'
<1> DEFINE i == req[c].item
           m == req[c].row
<1>1. CASE Rollback(c, "insufficient")
  BY <1>1, MovementGoesOn
<1>2. CASE /\ Hand(c, i) + m.qty >= 0
           /\ held' = [held EXCEPT ![c] = @ \cup {i}]
           /\ Goto(c, "insert")
           /\ UNCHANGED <<committed, req, rows, newHand, newBasis, outcome>>
  <2>1. pc[c] = "lock" /\ BalanceFree(c, i)
    BY DEF LockBalance
  <2>2. pc[c] \in Statements \ Locked /\ "insert" \in Statements
    BY <2>1 DEF Statements, Locked
  <2>3. /\ i \in Items /\ m.qty \in Int /\ ~ Working(c)
        /\ Fits(c, m) /\ CanReverse(i, m)
    BY <2>2, MovementParts
  <2>4. \A k \in Items : /\ rows[c][k] = NoRow
                         /\ newHand[c][k] = Unset /\ newBasis[c][k] = Unset
    BY <2>2, <2>3, NothingWritten
  <2>5. onHand[i] + m.qty >= 0
    BY <1>2, <2>3, <2>4 DEF Hand
  <2>6. /\ held'[c] = held[c] \cup {i}
        /\ \A d \in Clients \ {c} : held'[d] = held[d]
    BY <1>2 DEF CountInv, CountType
  <2>7. /\ pc'[c] = "insert" /\ task' = task /\ UNCHANGED docStatus
        /\ \A d \in Clients \ {c} : Rests(d)
        /\ journal' = journal /\ onHand' = onHand
    BY <1>2, <2>2, <2>6, MovementGoesOn
  <2>8. ~ Working(c)'
    BY <1>2, <2>2, <2>3, <2>7 DEF Working, Posts, Statements
  <2>9. DocInv(c)' /\ LinesInv(c)'
    BY <2>7, <2>8 DEF DocInv, LinesInv
  <2>10. WorkInv(c)'
    BY <1>2, <2>4, <2>5, <2>6, <2>7, <2>8 DEF WorkInv, Current, Locked, Written
  <2>11. RowsFit(c)'
    BY <1>2, <2>3, <2>4, <2>8 DEF RowsFit, Fits
  <2>12. LawInv(c)'
    BY <1>2, <2>3, <2>4, <2>7 DEF LawInv, CanReverse
  <2>13. \A d \in Clients \ {c} : held'[c] \cap held[d] = {}
    BY <2>1, <2>6 DEF CountInv, LocksExclusive, BalanceFree
  <2>14. \A k, j, r : ~ Clash(k, r, j, NoRow)
    BY DEF Clash
  <2> QED BY <1>2, <2>4, <2>7, <2>8, <2>9, <2>10, <2>11, <2>12, <2>13, <2>14,
             QuietCount
<1> QED BY <1>1, <1>2 DEF LockBalance

\* Between the lock and the commit the movement a transaction is about stays
\* the same: a statement that keeps the locks keeps the rest as well, if what
\* it inserts is that movement and clashes with nothing.
LEMMA MiddleStatement ==
  ASSUME CountInv, CountType', NEW c \in Clients, MovementStep(c),
         pc[c] \in Locked, NEW statement \in Locked, Goto(c, statement),
         UNCHANGED <<committed, req, held, outcome>>,
         \A d \in Clients \ {c} :
           /\ rows'[d] = rows[d]
           /\ newHand'[d] = newHand[d] /\ newBasis'[d] = newBasis[d],
         WorkInv(c)',
         \A k \in Items :
           \/ rows'[c][k] = rows[c][k]
           \/ /\ k = req[c].item /\ rows'[c][k] = req[c].row
              /\ IsFresh(k, req[c].row)
              /\ \A d \in Clients \ {c}, j \in Items :
                   ~ Clash(k, req[c].row, j, rows[d][j])
  PROVE  CountInv'
<1> DEFINE i == req[c].item
           m == req[c].row
<1>1. pc[c] \in Statements /\ statement \in Statements
  BY DEF Locked, Statements
<1>2. /\ pc'[c] = statement /\ task' = task /\ UNCHANGED docStatus
      /\ \A d \in Clients \ {c} : Rests(d)
      /\ journal' = journal /\ onHand' = onHand
  BY <1>1, MovementGoesOn
<1>3. i \in Items /\ m \in Movement /\ Fits(c, m) /\ CanReverse(i, m)
  BY <1>1, MovementParts
<1>4. /\ Working(c)' = Working(c)
      /\ \A k \in Items : Current(c, k)' = Current(c, k)
  BY <1>1, <1>2 DEF Working, Posts, Current, Statements
<1>5. DocInv(c)'
  BY <1>2, <1>4 DEF CountInv, DocInv, Locked
<1>6. RowsFit(c)'
  BY <1>2, <1>3, <1>4 DEF CountInv, RowsFit, Fits
<1>7. LinesInv(c)'
  <2>1. ASSUME Working(c), NEW k \in ToSet(task[c].todo)
        PROVE  (rows[c][k] = NoRow /\ ~ Current(c, k))'
    <3>1. k \in Items
      BY <2>1 DEF CountInv, CountType, ClientFits, Working, Listing, CountedItems
    <3>2. rows[c][k] = NoRow /\ ~ Current(c, k) /\ k # i
      BY <2>1 DEF CountInv, LinesInv, Current
    <3> QED BY <1>4, <3>1, <3>2
  <2>2. ASSUME Working(c),
               NEW k \in CountedItems(task[c].lines) \ ToSet(task[c].todo)
        PROVE  Exact(c, k)'
    <3>1. k \in Items
      BY DEF CountedItems
    <3>2. Exact(c, k)
      BY <2>2 DEF CountInv, LinesInv
    <3>3. Adjusted(c, k)' = Adjusted(c, k)
      BY <1>2, <1>4, <3>1 DEF Adjusted, Current
    <3> QED BY <1>2, <3>2, <3>3 DEF Exact
  <2> QED BY <1>2, <1>4, <2>1, <2>2 DEF LinesInv
<1>8. LawInv(c)'
  <2>1. \A k \in Items : rows'[c][k] # NoRow =>
           CanReverse(k, rows'[c][k]) /\ IsFresh(k, rows'[c][k])
    BY <1>3 DEF CountInv, LawInv
  <2>2. CanReverse(req'[c].item, req'[c].row)
    BY <1>3
  <2>3. journal' = journal
    BY <1>2
  <2> QED BY <2>1, <2>2, <2>3, LawStands
<1>9. ASSUME NEW d \in Clients \ {c}, NEW k \in Items, NEW j \in Items
      PROVE  /\ rows'[c][k] # NoRow => ~ Clash(k, rows'[c][k], j, rows[d][j])
             /\ rows[d][j] # NoRow => ~ Clash(j, rows[d][j], k, rows'[c][k])
  <2>1. CASE rows'[c][k] = rows[c][k]
    BY <2>1 DEF CountInv, NoClashes
  <2>2. CASE k = i /\ rows'[c][k] = m /\ ~ Clash(k, m, j, rows[d][j])
    <3>1. rows[d][j] # NoRow => rows[d][j] \in Movement
      BY DEF CountInv, CountType
    <3> QED BY <1>3, <2>2, <3>1, ClashSymmetric
  <2> QED BY <2>1, <2>2
<1>10. \A d \in Clients \ {c} : held'[c] \cap held[d] = {}
  BY DEF CountInv, LocksExclusive
<1>11. \A d \in Clients \ {c} : (Working(c)' /\ Working(d)) =>
          task'[c].doc # task[d].doc
  BY <1>2, <1>4 DEF CountInv, DocumentsExclusive
<1> QED BY <1>2, <1>5, <1>6, <1>7, <1>8, <1>9, <1>10, <1>11, QuietCount

LEMMA InsertCount ==
  ASSUME CountInv, CountType', NEW c \in Clients, MovementStep(c),
         InsertMovement(c)
  PROVE  CountInv'
<1> DEFINE i == req[c].item
           m == req[c].row
<1>1. CASE Rollback(c, "duplicate-key") \/ Rollback(c, "already-reversed")
  BY <1>1, MovementGoesOn
<1>2. CASE /\ IsFresh(i, m)
           /\ rows' = [rows EXCEPT ![c][i] = m]
           /\ Goto(c, "apply")
           /\ UNCHANGED <<committed, req, held, newHand, newBasis, outcome>>
  <2>1. pc[c] = "insert" /\ "insert" \in Locked /\ "insert" \in Statements
        /\ "apply" \in Locked /\ "apply" \in Statements
    BY DEF InsertMovement, Locked, Statements
  <2>2. i \in Items /\ m # NoRow /\ m.qty \in Int
    BY <2>1, MovementParts
  <2>3. /\ rows'[c] = [rows[c] EXCEPT ![i] = m]
        /\ \A d \in Clients \ {c} : rows'[d] = rows[d]
        /\ \A k \in Items : rows'[c][k] = IF k = i THEN m ELSE rows[c][k]
    BY <1>2, <2>2 DEF CountInv, CountType
  <2>4. /\ pc'[c] = "apply" /\ task' = task /\ onHand' = onHand
        /\ \A d \in Clients \ {c} : Rests(d)
    BY <1>2, <2>1, <2>3, MovementGoesOn
  <2>5. Working(c)' = Working(c)
    BY <1>2, <2>1, <2>4 DEF Working, Posts
  <2>6. WorkInv(c) /\ Current(c, i) /\ rows[c][i] = NoRow
    BY <2>1, <2>2 DEF CountInv, WorkInv, Current, Written
  <2>7. WorkInv(c)'
    BY <1>2, <2>1, <2>2, <2>3, <2>4, <2>5, <2>6
       DEF WorkInv, Current, Locked, Written, Applied
  <2>8. \A d \in Clients \ {c}, j \in Items : ~ Clash(i, m, j, rows[d][j])
    BY DEF InsertMovement
  <2> QED BY <1>2, <2>1, <2>3, <2>7, <2>8, MiddleStatement
<1> QED BY <1>1, <1>2 DEF InsertMovement, IsFresh

LEMMA ApplyCount ==
  ASSUME CountInv, CountType', NEW c \in Clients, MovementStep(c),
         ApplyMovement(c)
  PROVE  CountInv'
<1> DEFINE i == req[c].item
           m == req[c].row
<1>1. pc[c] = "apply" /\ "apply" \in Locked /\ "apply" \in Statements
      /\ "status" \in Locked /\ "status" \in Statements
  BY DEF ApplyMovement, Locked, Statements
<1>2. i \in Items /\ m # NoRow /\ m.qty \in Int /\ onHand[i] \in Nat
  BY <1>1, MovementParts
<1>3. /\ WorkInv(c) /\ Current(c, i) /\ rows[c][i] = m /\ i \in held[c]
      /\ newHand[c][i] = Unset /\ newBasis[c][i] = Unset
      /\ onHand[i] + m.qty >= 0
  BY <1>1, <1>2 DEF CountInv, WorkInv, Current, Written, Applied
<1>4. Hand(c, i) + m.qty = onHand[i] + m.qty
  BY <1>3 DEF Hand
<1>5. /\ held'    = [held EXCEPT ![c] = @ \cup {i}]
      /\ newHand' = [newHand EXCEPT ![c][i] = onHand[i] + m.qty]
      /\ Goto(c, "status")
      /\ UNCHANGED <<committed, req, rows, newBasis, outcome>>
  <2>1. ~ (Hand(c, i) + m.qty < 0)
    BY <1>2, <1>3, <1>4
  <2> QED BY <1>4, <2>1 DEF ApplyMovement
<1>6. held' = held
  BY <1>3, <1>5 DEF CountInv, CountType
<1>7. /\ \A d \in Clients \ {c} : newHand'[d] = newHand[d]
      /\ \A k \in Items : newHand'[c][k] = IF k = i THEN onHand[i] + m.qty
                                                    ELSE newHand[c][k]
  BY <1>2, <1>5 DEF CountInv, CountType
<1>8. pc'[c] = "status" /\ onHand' = onHand /\ task' = task
  BY <1>1, <1>5, <1>6, <1>7, MovementGoesOn
<1>9. Working(c)' = Working(c)
  BY <1>1, <1>5, <1>8 DEF Working, Posts
<1>10. WorkInv(c)'
  BY <1>1, <1>2, <1>3, <1>5, <1>6, <1>7, <1>8, <1>9
     DEF WorkInv, Current, Locked, Written, Applied
<1> QED BY <1>1, <1>5, <1>6, <1>7, <1>10, MiddleStatement

LEMMA RecalculateCount ==
  ASSUME CountInv, CountType', NEW c \in Clients, MovementStep(c),
         Recalculate(c)
  PROVE  CountInv'
<1> DEFINE i == req[c].item
           m == req[c].row
<1>1. pc[c] = "status" /\ "status" \in Locked /\ "status" \in Statements
      /\ "done" \in Locked /\ "done" \in Statements
  BY DEF Recalculate, Locked, Statements
<1>2. i \in Items /\ m # NoRow /\ m.qty \in Int /\ onHand[i] \in Nat
  BY <1>1, MovementParts
<1>3. /\ WorkInv(c) /\ Current(c, i) /\ rows[c][i] = m
      /\ newHand[c][i] = onHand[i] + m.qty
  BY <1>1, <1>2 DEF CountInv, WorkInv, Current, Written, Applied
<1>4. Hand(c, i) = onHand[i] + m.qty
  <2>1. onHand[i] + m.qty # Unset
    BY <1>2, UnsetAssumption
  <2> QED BY <1>3, <2>1 DEF Hand
<1>5. /\ newBasis' = [newBasis EXCEPT ![c][i] = onHand[i] + m.qty]
      /\ Goto(c, "done")
      /\ UNCHANGED <<committed, archived, req, held, rows, newHand, outcome>>
  BY <1>4 DEF Recalculate
<1>6. /\ \A d \in Clients \ {c} : newBasis'[d] = newBasis[d]
      /\ \A k \in Items : newBasis'[c][k] = IF k = i THEN onHand[i] + m.qty
                                                     ELSE newBasis[c][k]
  BY <1>2, <1>5 DEF CountInv, CountType
<1>7. pc'[c] = "done" /\ onHand' = onHand /\ task' = task
  BY <1>1, <1>5, <1>6, MovementGoesOn
<1>8. Working(c)' = Working(c)
  BY <1>1, <1>5, <1>7 DEF Working, Posts
<1>9. WorkInv(c)'
  BY <1>1, <1>2, <1>3, <1>5, <1>6, <1>7, <1>8
     DEF WorkInv, Current, Locked, Written, Applied
<1> QED BY <1>1, <1>5, <1>6, <1>9, MiddleStatement

LEMMA MovementStepCount ==
  ASSUME CountInv, CountType', NEW c \in Clients, MovementStep(c), ~ Commit(c)
  PROVE  CountInv'
<1>1. Step(c)
  BY DEF MovementStep
<1>2. CASE CheckKey(c)
  <2>1. CASE Rollback(c, "duplicate")
    BY <2>1, MovementGoesOn
  <2>2. CASE Goto(c, "item") /\ UNCHANGED <<committed, req, workspace, outcome>>
    BY <1>2, <2>2, EarlyStatement DEF CheckKey, Statements, Locked
  <2> QED BY <1>2, <2>1, <2>2 DEF CheckKey
<1>3. CASE ReadItem(c)
  <2>1. CASE Rollback(c, "archived")
    BY <2>1, MovementGoesOn
  <2>2. CASE Goto(c, "lock") /\ UNCHANGED <<committed, req, workspace, outcome>>
    BY <1>3, <2>2, EarlyStatement DEF ReadItem, Statements, Locked
  <2> QED BY <1>3, <2>1, <2>2 DEF ReadItem
<1>4. CASE CheckReversal(c)
  <2>1. CASE Rollback(c, "already-reversed")
    BY <2>1, MovementGoesOn
  <2>2. CASE Goto(c, "lock") /\ UNCHANGED <<committed, req, workspace, outcome>>
    BY <1>4, <2>2, EarlyStatement DEF CheckReversal, Statements, Locked
  <2> QED BY <1>4, <2>1, <2>2 DEF CheckReversal
<1> QED BY <1>1, <1>2, <1>3, <1>4, LockBalanceCount, InsertCount, ApplyCount,
           RecalculateCount DEF Step

-----------------------------------------------------------------------------
(* Publishing: the commit of a movement, and of a posting.                  *)

\* The item a transaction publishes a movement of has it appended, and its
\* balance and status move with it; the others stay as they are.
LEMMA PublishEffect ==
  ASSUME CountInv, NEW c \in Clients, Publish(c), pc[c] \in {"done", "line"}
  PROVE  \A k \in Items :
           /\ journal'[k] = IF rows[c][k] = NoRow THEN journal[k]
                            ELSE Append(journal[k], rows[c][k])
           /\ onHand'[k] = IF rows[c][k] = NoRow THEN onHand[k]
                           ELSE onHand[k] + rows[c][k].qty
           /\ basis'[k] = IF rows[c][k] = NoRow THEN basis[k]
                          ELSE onHand[k] + rows[c][k].qty
           /\ rows[c][k] # NoRow =>
                /\ k \in held[c] /\ rows[c][k] \in Movement
                /\ rows[c][k].qty \in Int
                /\ journal[k] \in Seq(Movement) /\ onHand[k] \in Nat
<1> SUFFICES ASSUME NEW k \in Items
             PROVE  /\ journal'[k] = IF rows[c][k] = NoRow THEN journal[k]
                                     ELSE Append(journal[k], rows[c][k])
                    /\ onHand'[k] = IF rows[c][k] = NoRow THEN onHand[k]
                                    ELSE onHand[k] + rows[c][k].qty
                    /\ basis'[k] = IF rows[c][k] = NoRow THEN basis[k]
                                   ELSE onHand[k] + rows[c][k].qty
                    /\ rows[c][k] # NoRow =>
                         /\ k \in held[c] /\ rows[c][k] \in Movement
                         /\ rows[c][k].qty \in Int
                         /\ journal[k] \in Seq(Movement) /\ onHand[k] \in Nat
  OBVIOUS
<1>1. rows[c][k] # NoRow =>
        /\ rows[c][k] \in Movement /\ rows[c][k].qty \in Int
        /\ journal[k] \in Seq(Movement) /\ onHand[k] \in Nat
  BY DEF CountInv, CountType, Movement, Row
<1>2. WorkInv(c) /\ "line" \notin Locked /\ "done" \in Applied
  BY DEF CountInv, Locked, Applied
<1>3. /\ rows[c][k] # NoRow => k \in held[c]
      /\ newHand[c][k]  = IF rows[c][k] # NoRow THEN onHand[k] + rows[c][k].qty
                                                ELSE Unset
      /\ newBasis[c][k] = IF rows[c][k] # NoRow THEN onHand[k] + rows[c][k].qty
                                                ELSE Unset
  BY <1>2 DEF WorkInv, Current
<1>4. rows[c][k] # NoRow => onHand[k] + rows[c][k].qty # Unset
  BY <1>1, UnsetAssumption
<1> QED BY <1>1, <1>3, <1>4 DEF Publish, Extended, Merged

\* What is in an item's journal after it: what was there, and what the
\* transaction has appended.
LEMMA PublishedEntries ==
  ASSUME CountInv, NEW c \in Clients, Publish(c), pc[c] \in {"done", "line"},
         NEW k \in Items
  PROVE  /\ \A n \in DOMAIN journal[k] :
              n \in DOMAIN journal'[k] /\ journal'[k][n] = journal[k][n]
         /\ \A n \in DOMAIN journal'[k] \ DOMAIN journal[k] :
              /\ rows[c][k] # NoRow /\ journal'[k][n] = rows[c][k]
              /\ DOMAIN journal'[k] = DOMAIN journal[k] \cup {n}
<1>1. CASE rows[c][k] = NoRow
  BY <1>1, PublishEffect
<1>2. CASE rows[c][k] # NoRow
  <2> DEFINE s == journal[k]
             m == rows[c][k]
  <2>1. s \in Seq(Movement) /\ m \in Movement /\ journal'[k] = Append(s, m)
    BY <1>2, PublishEffect
  <2> HIDE DEF s, m
  <2>2. /\ DOMAIN s = 1..Len(s) /\ Len(s) \in Nat
        /\ DOMAIN Append(s, m) = 1..(Len(s) + 1)
        /\ \A n \in DOMAIN s : Append(s, m)[n] = s[n]
        /\ Append(s, m)[Len(s) + 1] = m
    BY <2>1, AppendKeeps
  <2>3. DOMAIN Append(s, m) = DOMAIN s \cup {Len(s) + 1}
    BY <2>2
  <2> QED BY <1>2, <2>1, <2>2, <2>3 DEF s, m
<1> QED BY <1>1, <1>2

\* A movement under way has the key and the reversal it names for itself.
LEMMA PublishLaw ==
  ASSUME CountInv, NEW c \in Clients, Publish(c), pc[c] \in {"done", "line"},
         NEW d \in Clients \ {c}, Rests(d)
  PROVE  LawInv(d)'
<1>1. LawInv(d)
  BY DEF CountInv
<1>2. ASSUME NEW i \in Items, NEW m, CanReverse(i, m) PROVE CanReverse(i, m)'
  BY <1>2, PublishedEntries DEF CanReverse
<1>3. ASSUME NEW i \in Items, NEW m, rows[d][i] # NoRow, m = rows[d][i]
      PROVE  CanReverse(i, m)' /\ IsFresh(i, m)'
  <2>1. CanReverse(i, m) /\ IsFresh(i, m) /\ \A k \in Items : ~ Clash(i, m, k, rows[c][k])
    BY <1>1, <1>3 DEF LawInv, CountInv, NoClashes
  <2>2. ASSUME m.key # NoKey PROVE ~ KeyUsed(journal', m.key)
    <3>1. ASSUME NEW k \in Items, NEW n \in DOMAIN journal'[k]
          PROVE  journal'[k][n].key # m.key
      <4>1. CASE n \in DOMAIN journal[k]
        BY <2>1, <2>2, <4>1, PublishedEntries DEF IsFresh, KeyUsed
      <4>2. CASE n \notin DOMAIN journal[k]
        BY <2>1, <2>2, <4>2, PublishedEntries DEF Clash
      <4> QED BY <4>1, <4>2
    <3> QED BY <3>1 DEF KeyUsed
  <2>3. ASSUME m.reverses # 0 PROVE ~ IsReversed(journal'[i], m.reverses)
    <3>1. ASSUME NEW n \in DOMAIN journal'[i]
          PROVE  journal'[i][n].reverses # m.reverses
      <4>1. CASE n \in DOMAIN journal[i]
        BY <2>1, <2>3, <4>1, PublishedEntries DEF IsFresh, IsReversed
      <4>2. CASE n \notin DOMAIN journal[i]
        BY <2>1, <2>3, <4>2, PublishedEntries DEF Clash
      <4> QED BY <4>1, <4>2
    <3> QED BY <3>1 DEF IsReversed
  <2> QED BY <1>2, <2>1, <2>2, <2>3 DEF IsFresh
<1>4. ASSUME NEW i, NEW m, pc[d] \in Statements, i = req[d].item, m = req[d].row
      PROVE  CanReverse(i, m)'
  <2>1. i \in Items /\ CanReverse(i, m)
    BY <1>1, <1>4, MovementParts DEF LawInv
  <2> QED BY <1>2, <2>1
<1>5. pc'[d] = pc[d] /\ req'[d] = req[d] /\ rows'[d] = rows[d]
  BY DEF Rests
<1>6. (pc'[d] \in Statements) => CanReverse(req[d].item, req[d].row)'
  BY <1>4, <1>5 DEF CanReverse
<1>7. ASSUME NEW k \in Items, rows'[d][k] # NoRow
      PROVE  CanReverse(k, rows[d][k])' /\ IsFresh(k, rows[d][k])'
  BY <1>3, <1>5, <1>7 DEF CanReverse, IsFresh
<1> QED BY <1>6, <1>7 DEF LawInv

\* Only the transaction that is posting a document appends adjustments of it.
LEMMA PublishAdjusts ==
  ASSUME CountInv, NEW c \in Clients, Publish(c), pc[c] \in {"done", "line"},
         IF Working(c)
           THEN docStatus' = [docStatus EXCEPT ![task[c].doc] = "posted"]
           ELSE docStatus' = docStatus
  PROVE  OnlyCountsAdjust' /\ AdjustmentsFollowPosting'
<1>1. /\ \A x \in Docs : docStatus[x] = "posted" => docStatus'[x] = "posted"
      /\ Working(c) => /\ task[c].doc \in Docs
                       /\ docStatus[task[c].doc] = "draft"
                       /\ docStatus'[task[c].doc] = "posted"
  <2>1. Working(c) => task[c].doc \in Docs
    BY DEF CountInv, CountType, ClientFits, Working, Listing, Posting
  <2>2. Working(c) => docStatus[task[c].doc] = "draft"
    BY DEF CountInv, DocInv
  <2> QED BY <2>1, <2>2 DEF CountInv, CountType
<1>2. ASSUME NEW i \in Items, rows[c][i] # NoRow
      PROVE  IF rows[c][i].type = "adjustment"
               THEN Working(c) /\ rows[c][i].doc = task[c].doc
               ELSE rows[c][i].doc = NoDoc
  BY <1>2 DEF CountInv, RowsFit, Fits
<1>3. OnlyCountsAdjust'
  <2>1. ASSUME NEW i \in Items, NEW n \in DOMAIN journal'[i]
        PROVE  IF journal'[i][n].type = "adjustment"
                 THEN journal'[i][n].doc \in Docs
                 ELSE journal'[i][n].doc = NoDoc
    <3>1. CASE n \in DOMAIN journal[i]
      BY <3>1, PublishedEntries DEF CountInv, OnlyCountsAdjust
    <3>2. CASE n \notin DOMAIN journal[i]
      BY <1>1, <1>2, <3>2, PublishedEntries
    <3> QED BY <3>1, <3>2
  <2> QED BY <2>1 DEF OnlyCountsAdjust
<1>4. ASSUME NEW i \in Items, NEW n \in DOMAIN journal[i]
      PROVE  Working(c) => journal[i][n].doc # task[c].doc
  <2>1. CASE journal[i][n].type = "adjustment"
    BY <1>1, <2>1 DEF CountInv, AdjustmentsFollowPosting
  <2>2. CASE journal[i][n].type # "adjustment"
    BY <1>1, <2>2 DEF CountInv, OnlyCountsAdjust
  <2> QED BY <2>1, <2>2
<1>5. ASSUME NEW i \in Items, NEW n \in DOMAIN journal'[i],
             journal'[i][n].type = "adjustment"
      PROVE  /\ docStatus'[journal'[i][n].doc] = "posted"
             /\ \A m \in DOMAIN journal'[i] \ {n} :
                  journal'[i][m].doc # journal'[i][n].doc
  <2>1. CASE n \in DOMAIN journal[i]
    <3>1. /\ journal'[i][n] = journal[i][n] /\ journal[i][n].doc \in Docs
          /\ docStatus[journal[i][n].doc] = "posted"
      BY <1>5, <2>1, PublishedEntries
         DEF CountInv, OnlyCountsAdjust, AdjustmentsFollowPosting
    <3>2. ASSUME NEW m \in DOMAIN journal'[i] \ {n}
          PROVE  journal'[i][m].doc # journal[i][n].doc
      <4>1. CASE m \in DOMAIN journal[i]
        BY <1>5, <2>1, <3>1, <4>1, PublishedEntries
           DEF CountInv, AdjustmentsFollowPosting
      <4>2. CASE m \notin DOMAIN journal[i]
        <5>1. rows[c][i] # NoRow /\ journal'[i][m] = rows[c][i]
          BY <4>2, PublishedEntries
        <5> QED BY <1>1, <1>2, <3>1, <5>1
      <4> QED BY <4>1, <4>2
    <3> QED BY <1>1, <3>1, <3>2
  <2>2. CASE n \notin DOMAIN journal[i]
    <3>1. /\ rows[c][i] # NoRow /\ journal'[i][n] = rows[c][i]
          /\ DOMAIN journal'[i] = DOMAIN journal[i] \cup {n}
      BY <2>2, PublishedEntries
    <3>2. Working(c) /\ journal'[i][n].doc = task[c].doc
      BY <1>2, <1>5, <3>1
    <3>3. \A m \in DOMAIN journal'[i] \ {n} :
             m \in DOMAIN journal[i] /\ journal'[i][m] = journal[i][m]
      BY <3>1, PublishedEntries
    <3> QED BY <1>1, <1>4, <3>2, <3>3
  <2> QED BY <2>1, <2>2
<1>6. AdjustmentsFollowPosting'
  BY <1>5 DEF AdjustmentsFollowPosting
<1> QED BY <1>3, <1>6

LEMMA PublishCount ==
  ASSUME CountInv, CountType', NEW c \in Clients, NEW result,
         Publish(c), pc[c] \in {"done", "line"}, End(c, result), EndTask(c),
         IF Working(c)
           THEN docStatus' = [docStatus EXCEPT ![task[c].doc] = "posted"]
           ELSE docStatus' = docStatus
  PROVE  CountInv'
<1>1. /\ \A d \in Clients \ {c} : Rests(d)
      /\ held'[c] = {} /\ \A i \in Items : rows'[c][i] = NoRow
      /\ ~ Working(c)'
      /\ DocInv(c)' /\ WorkInv(c)' /\ RowsFit(c)' /\ LinesInv(c)' /\ LawInv(c)'
  BY EndedClient DEF CountInv
<1>2. ASSUME NEW d \in Clients \ {c}
      PROVE  DocInv(d)' /\ WorkInv(d)' /\ RowsFit(d)' /\ LinesInv(d)' /\ LawInv(d)'
  <2>1. \A i \in held[d] : onHand'[i] = onHand[i]
    <3>1. ASSUME NEW i \in held[d] PROVE onHand'[i] = onHand[i]
      <4>1. i \in Items /\ i \notin held[c]
        BY DEF CountInv, CountType, LocksExclusive
      <4> QED BY <4>1, PublishEffect
    <3> QED BY <3>1
  <2>2. \A x \in Docs : docStatus[x] # "none" => docStatus'[x] # "none"
    BY DEF CountInv, CountType
  <2>3. Working(d) => docStatus'[task[d].doc] = docStatus[task[d].doc]
    <3>1. Working(d) => task[d].doc \in Docs
      BY DEF CountInv, CountType, ClientFits, Working, Listing, Posting
    <3>2. (Working(c) /\ Working(d)) => task[c].doc # task[d].doc
      BY DEF CountInv, DocumentsExclusive
    <3> QED BY <3>1, <3>2 DEF CountInv, CountType
  <2> QED BY <1>1, <2>1, <2>2, <2>3, RestingClient, PublishLaw
<1>3. \A d \in Clients :
         DocInv(d)' /\ WorkInv(d)' /\ RowsFit(d)' /\ LinesInv(d)' /\ LawInv(d)'
  BY <1>1, <1>2
<1>4. LocksExclusive'
  BY <1>1 DEF CountInv, LocksExclusive, Rests
<1>5. DocumentsExclusive'
  <2>1. \A d \in Clients \ {c} : Working(d)' = Working(d) /\ task'[d] = task[d]
    BY <1>1 DEF Rests, Working, Posts
  <2> QED BY <1>1, <2>1 DEF CountInv, DocumentsExclusive
<1>6. NoClashes'
  <2>1. \A i, m, j : ~ Clash(i, m, j, NoRow)
    BY DEF Clash
  <2>2. \A d \in Clients \ {c} : rows'[d] = rows[d]
    BY <1>1 DEF Rests
  <2>3. ASSUME NEW d \in Clients, NEW e \in Clients, d # e,
               NEW i \in Items, NEW j \in Items, rows'[d][i] # NoRow
        PROVE  ~ Clash(i, rows'[d][i], j, rows'[e][j])
    BY <1>1, <2>1, <2>2, <2>3 DEF CountInv, NoClashes
  <2> QED BY <2>3 DEF NoClashes, Clash
<1> QED BY <1>3, <1>4, <1>5, <1>6, PublishAdjusts DEF CountInv

-----------------------------------------------------------------------------
(* Posting a document, line by line.                                        *)

LEMMA LockDocumentCount ==
  ASSUME CountInv, CountType', NEW c \in Clients, LockDocument(c)
  PROVE  CountInv'
<1>1. CountType
  BY DEF CountInv
<1>2. CASE Rollback(c, "count-posted")
  <2>1. EndTask(c)
    BY <1>1, <1>2 DEF LockDocument, Rollback, End, Goto, CountType
  <2> QED BY <1>2, <2>1, RollbackCount DEF LockDocument, documents
<1>3. CASE ~ Rollback(c, "count-posted")
  <2> DEFINE d == task[c].doc
             t == task'[c]
  <2>1. /\ docStatus[d] = "draft" /\ DocumentFree(c, d) /\ pc[c] = "document"
        /\ t.doc = d /\ t.lines = lines[d] /\ ToSet(t.todo) = CountedItems(lines[d])
        /\ task' = [task EXCEPT ![c] = t]
        /\ Goto(c, "line")
        /\ UNCHANGED <<committed, archived, req, workspace, outcome, documents>>
    BY <1>1, <1>3, LockDocumentReads
  <2>2. /\ pc'[c] = "line" /\ UNCHANGED docStatus
        /\ \A o \in Clients \ {c} : Rests(o)
        /\ journal' = journal /\ onHand' = onHand /\ held' = held
    BY <1>1, <2>1 DEF CountType, Goto, Rests, workspace, documents, committed
  <2>3. ~ Working(c) /\ pc[c] \notin Locked
    BY <2>1 DEF Working, Locked
  <2>4. \A i \in Items : /\ rows'[c][i] = NoRow
                         /\ newHand'[c][i] = Unset /\ newBasis'[c][i] = Unset
    BY <2>1, <2>3, NothingWritten DEF workspace
  <2>5. pc'[c] \notin Statements \cup Locked
    BY <2>2 DEF Statements, Locked
  <2>6. DocInv(c)'
    BY <2>1, <2>2 DEF DocInv
  <2>7. WorkInv(c)' /\ RowsFit(c)' /\ LawInv(c)'
    BY <2>4, <2>5 DEF WorkInv, Current, RowsFit, LawInv
  <2>8. LinesInv(c)'
    <3>1. \A i \in ToSet(t.todo) : i \in Items
      BY <2>1 DEF CountedItems
    <3>2. CountedItems(t.lines) \ ToSet(t.todo) = {}
      BY <2>1
    <3> QED BY <2>4, <2>5, <3>1, <3>2 DEF LinesInv, Current, CountedItems
  <2>9. ASSUME NEW o \in Clients \ {c}, Working(o) PROVE task[o].doc # d
    <3>1. task[o] \in Posting /\ pc[o] \notin {"entry", "document"}
      BY <1>1, <2>9 DEF CountType, ClientFits, Working, Posts, Statements, Listing
    <3>2. task[o] # NoTask
      BY <3>1
    <3> QED BY <2>1, <3>1, <3>2 DEF DocumentFree
  <2>10. \A i, j, m : ~ Clash(i, m, j, NoRow)
    BY DEF Clash
  <2>11. \A o \in Clients \ {c} : held'[c] \cap held[o] = {}
    BY <2>2 DEF CountInv, LocksExclusive
  <2> QED BY <2>1, <2>2, <2>4, <2>6, <2>7, <2>8, <2>9, <2>10, <2>11, QuietCount
<1> QED BY <1>2, <1>3

\* A line is compared with the balance nobody else can move any more.
LEMMA LockLineCount ==
  ASSUME CountInv, CountType', NEW c \in Clients, LockLine(c)
  PROVE  CountInv'
<1>0. PICK i : i = Head(task[c].todo)
  OBVIOUS
<1> DEFINE line  == task[c].lines[i]
           moved == ~ task[c].force /\ Hand(c, i) # line.expected
           delta == line.counted - Hand(c, i)
           t     == task'[c]
           r     == [op |-> "post", item |-> i,
                     row |-> [type |-> "adjustment", qty |-> delta,
                              key |-> NoKey, reverses |-> 0, by |-> c,
                              doc |-> task[c].doc]]
<1>1. CountType
  BY DEF CountInv
<1>2. /\ pc[c] = "line" \/ (pc[c] = "done" /\ req[c].op = "post")
      /\ Working(c) /\ task[c] \in Listing
      /\ line.counted \in Nat /\ line.expected \in Nat /\ delta \in Int
      /\ i \in Items /\ i \in ToSet(task[c].todo) /\ BalanceFree(c, i)
      /\ t.doc = task[c].doc /\ t.lines = task[c].lines /\ t.force = task[c].force
      /\ t.changed = IF moved THEN task[c].changed \cup {i} ELSE task[c].changed
      /\ ToSet(t.todo) = ToSet(task[c].todo) \ {i}
      /\ task' = [task EXCEPT ![c] = t]
      /\ held' = [held EXCEPT ![c] = @ \cup {i}]
      /\ UNCHANGED <<committed, archived, rows, newHand, newBasis, outcome,
                     documents>>
      /\ \/ (moved \/ delta = 0) /\ Goto(c, "line") /\ req' = req
         \/ ~ moved /\ delta # 0 /\ Goto(c, "insert") /\ req' = [req EXCEPT ![c] = r]
  BY <1>0, <1>1, LockLineReads
<1>3. rows[c][i] = NoRow /\ ~ Current(c, i)
  BY <1>2 DEF CountInv, LinesInv
<1>4. Hand(c, i) = onHand[i] /\ onHand[i] \in Nat
  BY <1>1, <1>2, <1>3 DEF CountInv, WorkInv, Hand, CountType
<1>5. /\ \A o \in Clients \ {c} : Rests(o)
      /\ UNCHANGED docStatus /\ journal' = journal /\ onHand' = onHand
      /\ rows' = rows /\ held'[c] = held[c] \cup {i}
      /\ pc'[c] \in {"line", "insert"}
      /\ pc'[c] = "insert" =>
           /\ ~ moved /\ delta # 0
           /\ req'[c].op = "post" /\ req'[c].item = i
           /\ req'[c].row.type = "adjustment" /\ req'[c].row.qty = delta
           /\ req'[c].row.key = NoKey /\ req'[c].row.reverses = 0
           /\ req'[c].row.doc = task[c].doc
      /\ pc'[c] = "line" => moved \/ delta = 0
  <2> HIDE DEF moved, delta, t
  <2>1. \A o \in Clients \ {c} : Rests(o)
    BY <1>1, <1>2 DEF CountType, Goto, Rests
  <2>2. /\ UNCHANGED docStatus /\ journal' = journal /\ onHand' = onHand
        /\ rows' = rows /\ held'[c] = held[c] \cup {i}
    BY <1>1, <1>2 DEF CountType, documents, committed
  <2>3. \/ pc'[c] = "line" /\ (moved \/ delta = 0)
        \/ pc'[c] = "insert" /\ ~ moved /\ delta # 0 /\ req'[c] = r
    BY <1>1, <1>2 DEF CountType, Goto
  <2> QED BY <2>1, <2>2, <2>3
<1>6. Working(c)'
  BY <1>5 DEF Working, Posts, Statements
<1>7. DocInv(c)'
  BY <1>2, <1>5, <1>6 DEF CountInv, DocInv, Locked
<1>8. \A k \in Items : Current(c, k)' => (k = i /\ pc'[c] = "insert")
  BY <1>5 DEF Current, Locked
<1>9. \A k \in Items : k # i => Adjusted(c, k)' = Adjusted(c, k)
  <2>1. SUFFICES ASSUME NEW k \in Items, k # i
                 PROVE  Adjusted(c, k)' = Adjusted(c, k)
    OBVIOUS
  <2>2. Adjusted(c, k)' = onHand[k] + (IF rows[c][k] # NoRow THEN rows[c][k].qty
                                                             ELSE 0)
    BY <1>5, <1>8, <2>1 DEF Adjusted
  <2>3. Current(c, k) => rows[c][k] = req[c].row /\ req[c].row # NoRow
    <3>1. Current(c, k) => pc[c] = "done"
      BY <1>2 DEF Current, Locked
    <3>2. pc[c] = "done" => req[c].row # NoRow
      BY MovementParts DEF Statements
    <3> QED BY <3>1, <3>2 DEF CountInv, WorkInv, Written
  <2> QED BY <2>2, <2>3 DEF Adjusted
<1>10. Exact(c, i)'
  <2>1. CASE moved
    BY <1>2, <1>5, <2>1 DEF Exact
  <2>2. CASE ~ moved
    <3>1. task[c].force \/ onHand[i] = line.expected
      BY <1>4, <2>2
    <3>2. Adjusted(c, i)' = line.counted
      <4>1. CASE pc'[c] = "insert"
        <5>1. Current(c, i)' /\ req'[c].row.qty = delta
          BY <1>5, <4>1 DEF Current, Locked
        <5>2. Adjusted(c, i)' = onHand[i] + delta
          <6> HIDE DEF delta
          <6> QED BY <1>5, <5>1 DEF Adjusted
        <5> QED BY <1>2, <1>4, <5>2
      <4>2. CASE pc'[c] = "line"
        <5>1. ~ Current(c, i)' /\ delta = 0
          BY <1>2, <1>5, <1>8, <2>2, <4>2
        <5>2. Adjusted(c, i)' = onHand[i] + 0
          <6> HIDE DEF delta
          <6> QED BY <1>3, <1>5, <5>1 DEF Adjusted
        <5> QED BY <1>2, <1>4, <5>1, <5>2
      <4> QED BY <1>5, <4>1, <4>2
    <3> QED BY <1>2, <1>5, <3>1, <3>2 DEF Exact
  <2> QED BY <2>1, <2>2
<1>11. LinesInv(c)'
  <2>1. ASSUME NEW k \in ToSet(t.todo) PROVE (rows[c][k] = NoRow /\ ~ Current(c, k))'
    <3>1. k \in ToSet(task[c].todo) /\ k # i
      BY <1>2, <2>1
    <3>2. k \in Items
      BY <1>2, <3>1 DEF Listing, CountedItems
    <3>3. rows[c][k] = NoRow
      BY <1>2, <3>1 DEF CountInv, LinesInv
    <3> QED BY <1>5, <1>8, <3>1, <3>2, <3>3
  <2>2. ASSUME NEW k \in CountedItems(t.lines) \ ToSet(t.todo) PROVE Exact(c, k)'
    <3>1. CASE k = i
      BY <1>10, <3>1
    <3>2. CASE k # i
      <4>1. k \in CountedItems(task[c].lines) \ ToSet(task[c].todo) /\ k \in Items
        BY <1>2, <2>2, <3>2 DEF CountedItems
      <4>2. Exact(c, k)
        BY <1>2, <4>1 DEF CountInv, LinesInv
      <4>3. k \in task[c].changed => k \in t.changed
        BY <1>2
      <4> QED BY <1>2, <1>5, <1>9, <3>2, <4>1, <4>2, <4>3 DEF Exact
    <3> QED BY <3>1, <3>2
  <2> QED BY <2>1, <2>2 DEF LinesInv, CountedItems
<1>12. WorkInv(c)'
  <2>1. WorkInv(c)
    BY DEF CountInv
  <2>2. pc'[c] \in Locked =>
          /\ req'[c].item \in held'[c] /\ onHand'[req'[c].item] + req'[c].row.qty >= 0
    <3>1. onHand[i] + delta >= 0
      BY <1>2, <1>4
    <3> HIDE DEF delta
    <3> QED BY <1>5, <3>1 DEF Locked
  <2>3. \A k \in Items : Current(c, k)' =>
          rows'[c][k] = NoRow /\ pc'[c] \notin Written
    BY <1>3, <1>5, <1>8 DEF Written
  <2>4. \A k \in Items : rows[c][k] # NoRow => ~ Current(c, k)'
    BY <1>3, <1>8
  <2>5. \A k \in Items : (rows[c][k] # NoRow /\ Current(c, k)) => pc[c] = "done"
    BY <1>2 DEF Current, Locked
  <2>6. newHand' = newHand /\ newBasis' = newBasis
    BY <1>2
  <2>7. "done" \in Applied
    BY DEF Applied
  <2>8. ASSUME NEW k \in Items
        PROVE  /\ newHand[c][k] = IF rows[c][k] # NoRow
                                    THEN onHand[k] + rows[c][k].qty ELSE Unset
               /\ newBasis[c][k] = IF rows[c][k] # NoRow
                                    THEN onHand[k] + rows[c][k].qty ELSE Unset
               /\ rows[c][k] # NoRow =>
                    k \in held[c] /\ onHand[k] + rows[c][k].qty >= 0
    BY <2>1, <2>5, <2>7 DEF WorkInv
  <2>9. ASSUME NEW k \in Items
        PROVE  /\ Current(c, k)' => rows'[c][k] = IF pc'[c] \in Written
                                                    THEN req'[c].row ELSE NoRow
               /\ rows'[c][k] # NoRow =>
                    /\ k \in held'[c] /\ onHand'[k] + rows'[c][k].qty >= 0
                    /\ Working(c)' \/ Current(c, k)'
               /\ newHand'[c][k] =
                    IF rows'[c][k] # NoRow /\ (Current(c, k)' => pc'[c] \in Applied)
                      THEN onHand'[k] + rows'[c][k].qty ELSE Unset
               /\ newBasis'[c][k] =
                    IF rows'[c][k] # NoRow /\ (Current(c, k)' => pc'[c] = "done")
                      THEN onHand'[k] + rows'[c][k].qty ELSE Unset
    BY <1>5, <1>6, <2>3, <2>4, <2>6, <2>8
  <2> QED BY <2>2, <2>9 DEF WorkInv
<1>13. RowsFit(c)'
  <2>1. \A m : Fits(c, m) => Fits(c, m)'
    BY <1>2, <1>6 DEF Fits
  <2>2. pc'[c] \in Statements =>
          /\ req'[c].row.type = "adjustment" /\ req'[c].row.doc = task[c].doc
          /\ req'[c].row.key = NoKey /\ req'[c].row.reverses = 0
    BY <1>5 DEF Statements
  <2> HIDE DEF line, moved, delta, r
  <2>3. Working(c)' /\ task'[c].doc = task[c].doc /\ rows' = rows
    BY <1>2, <1>5, <1>6
  <2>4. pc'[c] \in Statements => Fits(c, req[c].row)'
    BY <2>2, <2>3 DEF Fits
  <2>5. ASSUME NEW k \in Items, rows[c][k] # NoRow PROVE Fits(c, rows[c][k])'
    <3>1. Fits(c, rows[c][k])
      BY <2>5 DEF CountInv, RowsFit
    <3> QED BY <2>1, <2>3, <3>1 DEF Fits
  <2> QED BY <2>3, <2>4, <2>5 DEF RowsFit
<1>14. LawInv(c)'
  <2>1. pc'[c] \in Statements => req'[c].row.reverses = 0
    BY <1>5 DEF Statements
  <2>2. pc'[c] \in Statements => CanReverse(req'[c].item, req'[c].row)
    BY <2>1 DEF CanReverse
  <2>3. journal' = journal /\ rows'[c] = rows[c]
    BY <1>2, <1>5, <1>6 DEF committed
  <2>4. \A k \in Items : rows'[c][k] # NoRow =>
          CanReverse(k, rows'[c][k]) /\ IsFresh(k, rows'[c][k])
    BY <2>3 DEF CountInv, LawInv
  <2> QED BY <2>2, <2>3, <2>4, LawStands
<1>15. ASSUME NEW o \in Clients \ {c}
       PROVE  /\ held'[c] \cap held[o] = {}
              /\ (Working(c)' /\ Working(o)) => task'[c].doc # task[o].doc
              /\ \A k, j \in Items :
                   /\ rows'[c][k] # NoRow => ~ Clash(k, rows'[c][k], j, rows[o][j])
                   /\ rows[o][j] # NoRow => ~ Clash(j, rows[o][j], k, rows'[c][k])
  <2>1. i \notin held[o]
    BY <1>2 DEF BalanceFree
  <2>2. held[c] \cap held[o] = {}
    BY DEF CountInv, LocksExclusive
  <2> QED BY <1>2, <1>5, <2>1, <2>2 DEF CountInv, DocumentsExclusive, NoClashes
<1>16. UNCHANGED committed
  BY <1>2
<1> QED BY <1>5, <1>7, <1>11, <1>12, <1>13, <1>14, <1>15, <1>16, QuietCount

\* Between two lines, and after the last one, the document is being posted.
LEMMA AtLineWorks ==
  ASSUME CountType, NEW c \in Clients, AtLine(c)
  PROVE  /\ Working(c) /\ pc[c] \in {"done", "line"}
         /\ task[c] \in Posting /\ task[c].doc \in Docs
<1>1. Working(c) /\ pc[c] \in {"done", "line"}
  BY DEF AtLine, Working, Posts, Statements
<1>2. task[c] \in Posting
  BY <1>1 DEF CountType, ClientFits, Working, Listing
<1> QED BY <1>1, <1>2 DEF Posting

\* The two ways to publish something: the commit of a movement, and the end of
\* a posting that has found every line as it should be.
Publishes(c) ==
  \/ MovementStep(c) /\ Commit(c)
  \/ FinishPost(c) /\ task[c].changed = {}

LEMMA PublishesHow ==
  ASSUME CountType, NEW c \in Clients, Publishes(c)
  PROVE  /\ Publish(c) /\ pc[c] \in {"done", "line"} /\ EndTask(c)
         /\ \E result : End(c, result)
         /\ IF Working(c)
              THEN docStatus' = [docStatus EXCEPT ![task[c].doc] = "posted"]
              ELSE docStatus' = docStatus
<1>1. CASE MovementStep(c) /\ Commit(c)
  <2>1. pc[c] = "done" /\ ~ Working(c) /\ Publish(c)
    BY <1>1 DEF Commit, Working, Posts
  <2>2. PICK result \in {"created", "lost"} : End(c, result)
    BY <1>1 DEF Commit
  <2>3. EndTask(c) /\ docStatus' = docStatus
    BY <1>1, <2>2, MovementTask DEF MovementStep, documents
  <2> QED BY <2>1, <2>2, <2>3
<1>2. CASE FinishPost(c) /\ task[c].changed = {}
  <2>1. Working(c) /\ pc[c] \in {"done", "line"}
    BY <1>2, AtLineWorks DEF FinishPost
  <2> QED BY <1>2, <2>1 DEF FinishPost
<1> QED BY <1>1, <1>2 DEF Publishes

LEMMA PublishesCount ==
  ASSUME CountInv, CountType', NEW c \in Clients, Publishes(c)
  PROVE  CountInv'
<1>1. CountType
  BY DEF CountInv
<1>2. PICK result : End(c, result)
  BY <1>1, PublishesHow
<1> QED BY <1>1, <1>2, PublishesHow, PublishCount

\* Every other step leaves the journal, the balances and the statuses alone,
\* and posts no document.
LEMMA OthersPublishNothing ==
  ASSUME CountInv, CountType', [CountsNext]_countVars,
         \A c \in Clients : ~ Publishes(c)
  PROVE  /\ CountInv' /\ UNCHANGED committed
         /\ \A d \in Docs : docStatus[d] # "none" => docStatus'[d] = docStatus[d]
<1>1. ASSUME NEW c \in Clients, BeginMovement(c)
      PROVE  CountInv' /\ UNCHANGED committed /\ UNCHANGED docStatus
  <2>1. UNCHANGED committed /\ UNCHANGED docStatus
    BY <1>1 DEF BeginMovement, StartRecord, StartReverse, RefuseReverse, Begin,
                documents
  <2> QED BY <1>1, <2>1, BeginMovementCount
<1>2. ASSUME NEW c \in Clients, NEW d \in Docs, BeginCount(c, d)
      PROVE  CountInv' /\ UNCHANGED committed /\ UNCHANGED docStatus
  <2>1. UNCHANGED committed /\ UNCHANGED docStatus
    BY <1>2 DEF BeginCount, StartSetCountLines, StartPostCount,
                RefuseSetCountLines, Begin, documents
  <2> QED BY <1>2, <2>1, BeginCountCount
<1>3. ASSUME NEW c \in Clients, CountStep(c)
      PROVE  CountInv' /\ UNCHANGED committed /\ UNCHANGED docStatus
  <2>1. CASE MovementStep(c)
    <3>1. ~ Commit(c)
      BY <2>1 DEF Publishes
    <3>2. CountInv' /\ UNCHANGED docStatus
      BY <2>1, <3>1, MovementStepCount DEF MovementStep, documents
    <3>3. UNCHANGED committed
      BY <2>1, <3>1
         DEF MovementStep, Step, CheckKey, ReadItem, CheckReversal, LockBalance,
             InsertMovement, ApplyMovement, Recalculate, Rollback
    <3> QED BY <3>2, <3>3
  <2>2. CASE WriteCountLines(c)
    BY <2>2, RollbackCount DEF WriteCountLines, Rollback
  <2>3. CASE LockDocument(c)
    <3>1. UNCHANGED committed /\ UNCHANGED docStatus
      BY <2>3 DEF LockDocument, Rollback, documents
    <3> QED BY <2>3, <3>1, LockDocumentCount
  <2>4. CASE LockLine(c)
    <3>1. UNCHANGED committed /\ UNCHANGED docStatus
      BY <2>4 DEF LockLine, documents
    <3> QED BY <2>4, <3>1, LockLineCount
  <2>5. CASE FinishPost(c)
    <3>1. Rollback(c, "count-changed") /\ UNCHANGED docStatus /\ EndTask(c)
      BY <2>5 DEF Publishes, FinishPost
    <3> QED BY <3>1, RollbackCount DEF Rollback
  <2>6. CASE DeadlockVictim(c)
    BY <2>6, RollbackCount DEF DeadlockVictim, documents, Rollback
  <2> QED BY <1>3, <2>1, <2>2, <2>3, <2>4, <2>5, <2>6 DEF CountStep
<1>4. ASSUME NEW c \in Clients, Abort(c), EndTask(c), UNCHANGED documents
      PROVE  CountInv' /\ UNCHANGED committed /\ UNCHANGED docStatus
  BY <1>4, RollbackCount DEF Abort, documents, Rollback
<1>5. ASSUME UNCHANGED <<committed, pc, req, workspace, task>>,
             \A d \in Docs : docStatus[d] # "none" => docStatus'[d] = docStatus[d]
      PROVE  CountInv'
  BY <1>5, NobodyMoves
<1>6. ASSUME NEW d \in Docs, NEW S \in SUBSET Items, CreateCount(d, S)
      PROVE  /\ CountInv' /\ UNCHANGED committed
             /\ \A x \in Docs : docStatus[x] # "none" => docStatus'[x] = docStatus[x]
  <2>1. \A x \in Docs : docStatus[x] # "none" => docStatus'[x] = docStatus[x]
    BY <1>6 DEF CreateCount, CountInv, CountType
  <2> QED BY <1>5, <1>6, <2>1 DEF CreateCount, vars
<1>7. ASSUME NEW i \in Items, ArchiveCounted(i)
      PROVE  CountInv' /\ UNCHANGED committed /\ UNCHANGED docStatus
  BY <1>5, <1>7 DEF ArchiveCounted, ArchiveItem, documents
<1>8. CASE UNCHANGED countVars
  <2>1. /\ UNCHANGED <<committed, pc, req, workspace, task>>
        /\ UNCHANGED docStatus
    BY <1>8 DEF countVars, vars, documents
  <2> QED BY <1>5, <2>1
<1> QED BY <1>1, <1>2, <1>3, <1>4, <1>6, <1>7, <1>8 DEF CountsNext

LEMMA CountInvariant == CountsSpec => []CountInv
<1>1. ASSUME CountsInit, CountType PROVE CountInv
  <2>1. \A c \in Clients : /\ pc[c] = "idle" /\ held[c] = {}
                           /\ \A i \in Items : /\ rows[c][i] = NoRow
                                               /\ newHand[c][i] = Unset
                                               /\ newBasis[c][i] = Unset
    BY <1>1 DEF CountsInit, Init, Empty
  <2>2. \A c \in Clients :
           ~ Working(c) /\ pc[c] \notin Statements \cup Locked
    BY <2>1 DEF Working, Posts, Statements, Locked
  <2>3. \A i \in Items : DOMAIN journal[i] = {}
    <3>1. \A i \in Items : journal[i] = <<>>
      BY <1>1 DEF CountsInit, Init, Empty
    <3>2. <<>> \in Seq(Movement) /\ Len(<<>>) = 0
      BY EmptySeq
    <3>3. DOMAIN <<>> = 1..0
      BY <3>2, LenProperties, Zenon
    <3>4. 1..0 = {}
      OBVIOUS
    <3> QED BY <3>1, <3>3, <3>4, Zenon
  <2>4. LocksExclusive /\ DocumentsExclusive /\ NoClashes
    BY <2>1, <2>2 DEF LocksExclusive, DocumentsExclusive, NoClashes
  <2>5. \A c \in Clients : DocInv(c) /\ LinesInv(c)
    BY <2>1, <2>2 DEF DocInv, LinesInv
  <2>6. \A c \in Clients : WorkInv(c) /\ RowsFit(c) /\ LawInv(c)
    BY <2>1, <2>2 DEF WorkInv, Current, RowsFit, LawInv
  <2>7. OnlyCountsAdjust /\ AdjustmentsFollowPosting
    BY <2>3 DEF OnlyCountsAdjust, AdjustmentsFollowPosting
  <2> QED BY <1>1, <2>4, <2>5, <2>6, <2>7 DEF CountInv
<1>2. ASSUME CountInv, CountType', [CountsNext]_countVars PROVE CountInv'
  BY <1>2, PublishesCount, OthersPublishNothing
<1> QED BY <1>1, <1>2, CountTypeInvariant, PTL DEF CountsSpec

-----------------------------------------------------------------------------
(* What it all shows.                                                       *)

\* Documents, lines and pending adjustments keep their types, and nobody works
\* on a document that does not exist (stock_counts, stock_count_lines).
THEOREM CountsTypeCorrect == CountsSpec => []CountsTypeOK
<1>1. CountInv => CountsTypeOK
  <2>1. ASSUME CountInv, NEW c \in Clients, task[c] # NoTask
        PROVE  task[c].doc \in Docs /\ docStatus[task[c].doc] # "none"
    <3>1. task[c] \in Entry \cup Posting
      BY <2>1 DEF CountInv, CountType
    <3>2. task[c].doc \in Docs
      BY <3>1 DEF Entry, Posting
    <3>3. pc[c] \in {"entry", "document"} \/ Working(c)
      BY <2>1 DEF CountInv, CountType, ClientFits
    <3> QED BY <2>1, <3>2, <3>3 DEF CountInv, DocInv
  <2> QED BY <2>1 DEF CountInv, CountType, CountsTypeOK
<1> QED BY <1>1, CountInvariant, PTL

\* A document is posted once and as a whole: adjustments of it are in the
\* journal only when it is posted, one for each item at most (PostCount).
THEOREM PostedOnce == CountsSpec => []AdjustmentsFollowPosting
<1>1. CountInv => AdjustmentsFollowPosting
  BY DEF CountInv
<1> QED BY <1>1, CountInvariant, PTL

\* Who posts a document in this step is who holds it.
LEMMA PostsItself ==
  ASSUME CountInv, CountType', [CountsNext]_countVars, NEW c \in Clients,
         AtLine(c), docStatus[task[c].doc] = "draft",
         docStatus'[task[c].doc] = "posted"
  PROVE  FinishPost(c) /\ task[c].changed = {}
<1>1. task[c].doc \in Docs /\ Working(c)
  BY AtLineWorks DEF CountInv
<1>2. PICK e \in Clients : Publishes(e)
  BY <1>1, OthersPublishNothing
<1>3. Working(e) /\ docStatus' = [docStatus EXCEPT ![task[e].doc] = "posted"]
  BY <1>2, PublishesHow DEF CountInv
<1>4. task[e].doc = task[c].doc
  BY <1>1, <1>3 DEF CountInv, CountType
<1>5. e = c
  BY <1>1, <1>3, <1>4 DEF CountInv, DocumentsExclusive
<1>6. ~ Commit(e)
  BY <1>3 DEF Commit, Working, Posts
<1> QED BY <1>2, <1>5, <1>6 DEF Publishes

\* FR-13: a posted count leaves every item it took up with the quantity
\* counted, and an unforced one finds each of them as it was when the document
\* was opened - when it commits, whoever else moves these items meanwhile.
THEOREM CountsAreExact == CountsSpec => PostingIsExact
<1>1. ASSUME CountInv, CountType', [CountsNext]_countVars, NEW c \in Clients,
             AtLine(c), docStatus'[task[c].doc] = "posted",
             docStatus[task[c].doc] = "draft",
             NEW i \in CountedItems(task[c].lines)
      PROVE  /\ onHand'[i] = task[c].lines[i].counted
             /\ task[c].force \/ onHand[i] = task[c].lines[i].expected
  <2>1. FinishPost(c) /\ task[c].changed = {} /\ i \in Items
    BY <1>1, PostsItself DEF CountedItems
  <2>2. Working(c) /\ pc[c] \in {"done", "line"} /\ Publish(c)
    BY <1>1, <2>1, AtLineWorks DEF CountInv, FinishPost
  <2>3. ToSet(task[c].todo) = {}
    BY <2>1 DEF FinishPost, ToSet
  <2>4. Exact(c, i)
    BY <1>1, <2>2, <2>3 DEF CountInv, LinesInv
  <2>5. Current(c, i) => rows[c][i] = req[c].row /\ req[c].row # NoRow
    <3>1. Current(c, i) => pc[c] = "done"
      BY <2>2 DEF Current, Locked
    <3>2. pc[c] = "done" => req[c].row # NoRow
      BY <1>1, MovementParts DEF Statements
    <3> QED BY <1>1, <2>1, <3>1, <3>2 DEF CountInv, WorkInv, Written
  <2>6. onHand'[i] = Adjusted(c, i)
    <3>1. onHand[i] + 0 = onHand[i]
      BY <1>1, <2>1 DEF CountInv, CountType
    <3>2. onHand'[i] = IF rows[c][i] = NoRow THEN onHand[i]
                       ELSE onHand[i] + rows[c][i].qty
      BY <1>1, <2>1, <2>2, PublishEffect
    <3> QED BY <2>5, <3>1, <3>2 DEF Adjusted
  <2> QED BY <2>1, <2>4, <2>6 DEF Exact
<1>2. CountInv /\ CountType' /\ [CountsNext]_countVars =>
        [\A c \in Clients :
           (AtLine(c) /\ docStatus'[task[c].doc] = "posted"
              /\ docStatus[task[c].doc] = "draft") =>
             \A i \in CountedItems(task[c].lines) :
               /\ onHand'[i] = task[c].lines[i].counted
               /\ task[c].force \/ onHand[i] = task[c].lines[i].expected]_countVars
  BY <1>1
<1> QED BY <1>2, CountInvariant, CountTypeInvariant, PTL
        DEF CountsSpec, PostingIsExact

\* The balance and the status of an item move with its journal, and nothing
\* else moves them.
LEMMA PublishBalances ==
  ASSUME CountInv, CountType', NEW c \in Clients, Publishes(c),
         BalanceIsJournalSum, StatusIsCurrent
  PROVE  BalanceIsJournalSum' /\ StatusIsCurrent'
<1>1. Publish(c) /\ pc[c] \in {"done", "line"}
  BY PublishesHow DEF CountInv
<1>2. ASSUME NEW k \in Items PROVE onHand'[k] = JournalTotal(journal'[k])
  <2>1. onHand[k] = JournalTotal(journal[k])
    BY DEF BalanceIsJournalSum
  <2> QED BY <1>1, <2>1, PublishEffect, AppendTotal
<1>3. ASSUME NEW k \in Items PROVE basis'[k] = onHand'[k]
  BY <1>1, PublishEffect DEF StatusIsCurrent
<1>4. /\ basis'  = [k \in Items |-> basis'[k]]
      /\ onHand' = [k \in Items |-> onHand'[k]]
  BY DEF CountType
<1> QED BY <1>2, <1>3, <1>4 DEF BalanceIsJournalSum, StatusIsCurrent

\* FR-17 with counts: a balance is the sum of its journal, and the status shown
\* is the one of that balance, after posted counts as after movements.
THEOREM CountsKeepBalances ==
  CountsSpec => [](BalanceIsJournalSum /\ StatusIsCurrent)
<1>1. CountsInit => BalanceIsJournalSum /\ StatusIsCurrent
  BY EmptyTotal DEF CountsInit, Init, Empty, BalanceIsJournalSum, StatusIsCurrent
<1>2. ASSUME CountInv, CountType', [CountsNext]_countVars,
             BalanceIsJournalSum, StatusIsCurrent
      PROVE  (BalanceIsJournalSum /\ StatusIsCurrent)'
  <2>1. CASE \E c \in Clients : Publishes(c)
    BY <1>2, <2>1, PublishBalances
  <2>2. CASE \A c \in Clients : ~ Publishes(c)
    BY <1>2, <2>2, OthersPublishNothing
       DEF BalanceIsJournalSum, StatusIsCurrent, committed
  <2> QED BY <2>1, <2>2
<1> QED BY <1>1, <1>2, CountInvariant, CountTypeInvariant, PTL DEF CountsSpec

-----------------------------------------------------------------------------
(* The transactions implement the ledger.                                   *)

\* The movements of a transaction are lawful, and their keys are new.
LEMMA LawfulBatch ==
  ASSUME CountInv, NEW c \in Clients
  PROVE  /\ \A k \in Items : rows[c][k] # NoRow =>
              /\ rows[c][k] \in Movement
              /\ rows[c][k].type = "reversal" =>
                   L!LawfulReversal(journal[k], rows[c][k])
         /\ KeysAreFresh(journal, rows[c])
<1>1. ASSUME NEW k \in Items, rows[c][k] # NoRow
      PROVE  /\ rows[c][k] \in Movement
             /\ rows[c][k].type = "reversal" =>
                  L!LawfulReversal(journal[k], rows[c][k])
  <2>1. rows[c][k] \in Movement
    BY <1>1 DEF CountInv, CountType
  <2>2. rows[c][k].type = "reversal" => rows[c][k].reverses # 0
    BY <2>1 DEF Movement, SatisfiesChecks
  <2>3. CanReverse(k, rows[c][k]) /\ IsFresh(k, rows[c][k])
    BY <1>1 DEF CountInv, LawInv
  <2> QED BY <2>1, <2>2, <2>3
          DEF L!LawfulReversal, L!IsReversed, IsReversed, CanReverse, IsFresh
<1>2. ASSUME NEW k \in Items, rows[c][k] # NoRow, rows[c][k].key # NoKey
      PROVE  /\ ~ KeyUsed(journal, rows[c][k].key)
             /\ \A j \in Items \ {k} : rows[c][j] = NoRow
  <2>1. ~ KeyUsed(journal, rows[c][k].key)
    BY <1>2 DEF CountInv, LawInv, IsFresh
  <2>2. ~ Working(c)
    BY <1>2 DEF CountInv, RowsFit, Fits
  <2>3. \A j \in Items : rows[c][j] # NoRow => Current(c, j)
    BY <2>2 DEF CountInv, WorkInv
  <2> QED BY <1>2, <2>1, <2>3 DEF Current
<1>3. KeysAreFresh(journal, rows[c])
  BY <1>2 DEF KeysAreFresh
<1> QED BY <1>1, <1>3

\* Publishing is a step of the ledger: the whole batch is posted at once.
LEMMA PublishPosts ==
  ASSUME CountInv, CountType', NEW c \in Clients, Publishes(c)
  PROVE  L!Next
<1>1. Publish(c) /\ pc[c] \in {"done", "line"}
  BY PublishesHow DEF CountInv
<1>2. L!Posted = rows[c]
  <2>1. ASSUME NEW k \in Items PROVE L!Posted[k] = rows[c][k]
    <3> DEFINE s == journal[k]
               m == rows[c][k]
    <3>1. CASE m = NoRow
      BY <1>1, <3>1, PublishEffect DEF L!Posted
    <3>2. CASE m # NoRow
      <4>1. s \in Seq(Movement) /\ m \in Movement /\ journal'[k] = Append(s, m)
        BY <1>1, <3>2, PublishEffect
      <4>2. Append(s, m) # s /\ Append(s, m)[Len(Append(s, m))] = m
        <5> HIDE DEF s, m
        <5> QED BY <4>1, AppendKeeps
      <4> QED BY <4>1, <4>2 DEF L!Posted
    <3> QED BY <3>1, <3>2
  <2>2. rows[c] = [k \in Items |-> rows[c][k]]
    BY DEF CountInv, CountType
  <2>3. L!Posted = [k \in Items |-> L!Posted[k]]
    BY DEF L!Posted
  <2> QED BY <2>1, <2>2, <2>3
<1>3. journal' = Extended(journal, rows[c])
  BY <1>1 DEF Publish
<1>4. onHand' = [k \in Items |-> IF rows[c][k] = NoRow THEN onHand[k]
                                 ELSE onHand[k] + rows[c][k].qty]
  <2>1. onHand' = [k \in Items |-> onHand'[k]]
    BY DEF CountType
  <2>2. \A k \in Items : onHand'[k] = IF rows[c][k] = NoRow THEN onHand[k]
                                      ELSE onHand[k] + rows[c][k].qty
    BY <1>1, PublishEffect
  <2> QED BY <2>1, <2>2
<1>5. \A k \in Items : onHand'[k] >= 0
  BY DEF CountType
<1>6. L!Post(rows[c])
  <2>1. L!Movement = Movement
    BY DEF L!Movement, Movement, L!Row, Row, L!SatisfiesChecks,
           SatisfiesChecks, L!Types, Types, L!Increasing, Increasing,
           L!Decreasing, Decreasing
  <2>2. KeysAreFresh(journal, rows[c])
    BY LawfulBatch
  <2>3. L!KeysAreFresh(journal, rows[c])
    BY <2>2 DEF L!KeysAreFresh, KeysAreFresh, L!KeyUsed, KeyUsed
  <2>4. journal' = L!Extended(journal, rows[c])
    BY <1>3 DEF L!Extended, Extended
  <2> QED BY <1>4, <1>5, <2>1, <2>3, <2>4, LawfulBatch DEF L!Post
<1> QED BY <1>2, <1>6 DEF L!Next

\* Movements and counts together implement the ledger: a posted count is one
\* batch of adjustments, all of them or none.
THEOREM CountsImplementLedger == CountsSpec => CountsRefineLedger
<1>1. CountsInit => L!Init
  BY DEF CountsInit, Init, L!Init, Empty
<1>2. ASSUME CountInv, CountType', [CountsNext]_countVars
      PROVE  [L!Next]_(L!vars)
  <2>1. CASE \E c \in Clients : Publishes(c)
    BY <1>2, <2>1, PublishPosts
  <2>2. CASE \A c \in Clients : ~ Publishes(c)
    BY <1>2, <2>2, OthersPublishNothing DEF L!vars, committed
  <2> QED BY <2>1, <2>2
<1> QED BY <1>1, <1>2, CountInvariant, CountTypeInvariant, PTL
        DEF CountsSpec, CountsRefineLedger, L!Spec

=============================================================================
