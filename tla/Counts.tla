------------------------------- MODULE Counts -------------------------------
(***************************************************************************)
(* Stock counts (internal/stock/counts.go) next to the recording and       *)
(* reversing of movements.                                                 *)
(*                                                                         *)
(* A count document is opened with the balances of that moment, filled in  *)
(* in several visits, and posted in one transaction that adjusts every     *)
(* counted item to its counted quantity.  Posting locks the document and   *)
(* then, one by one, the balance rows of its lines; inserting, applying    *)
(* and recomputing an adjustment are the statements of Movements.          *)
(*                                                                         *)
(* Reading a document that does not exist, and an entry with a negative    *)
(* quantity, change nothing and are not steps.                             *)
(***************************************************************************)
EXTENDS Movements, SequencesExt

CONSTANTS
  Uncounted,  \* NULL in counted_qty
  NoLine,     \* the document has no line for an item
  NoTask      \* the client is not working on a document

VARIABLES
  docStatus,  \* stock_counts.status; "none" before the document is created
  lines,      \* stock_count_lines of each document
  task        \* what a client's transaction is doing to a document

documents == <<docStatus, lines>>
countVars == <<vars, documents, task>>

Line == [expected : Nat, counted : Nat \cup {Uncounted}]

\* What a client's transaction does to a document: fill it in, or post it.
Entry == [doc : Docs, counted : UNION {[S -> 0..MaxQty] : S \in SUBSET Items}]
Posting == [doc : Docs, force : BOOLEAN, lines : [Items -> Line \cup {NoLine}],
            todo : Seq(Items), changed : SUBSET Items]

ASSUME ItemsAssumption == IsFiniteSet(Items)
ASSUME NoDocAssumption == NoDoc \notin Docs
ASSUME NoTaskAssumption == NoTask \notin Entry \cup Posting

CountsInit ==
  /\ Init
  /\ docStatus = [d \in Docs |-> "none"]
  /\ lines     = [d \in Docs |-> Empty(NoLine)]
  /\ task      = [c \in Clients |-> NoTask]

\* The items of a document somebody has entered a quantity for.
CountedItems(l) == {i \in Items : l[i] # NoLine /\ l[i].counted # Uncounted}

\* A transaction that is posting document d holds the lock of its row.
DocumentFree(c, d) ==
  \A e \in Clients \ {c} :
    (task[e] # NoTask /\ pc[e] \notin {"entry", "document"}) => task[e].doc # d

EndTask(c) == task' = [task EXCEPT ![c] = NoTask]

-----------------------------------------------------------------------------
(* CreateCount: nobody knows the document before it is committed, so the    *)
(* whole transaction is one step.                                           *)

\* The caller names the items, or asks for all that are not archived.
CreateCount(d, S) ==
  /\ docStatus[d] = "none"
  /\ S # {} \/ Items \subseteq archived
  /\ docStatus' = [docStatus EXCEPT ![d] = "draft"]
  /\ lines' = [lines EXCEPT ![d] =
                 [i \in Items |-> IF i \in S
                                  THEN [expected |-> onHand[i],
                                        counted  |-> Uncounted]
                                  ELSE NoLine]]
  /\ UNCHANGED <<vars, task>>

-----------------------------------------------------------------------------
(* SetCountLines: reads the document's status without locking it.           *)

StartSetCountLines(c, d, counted) ==
  /\ docStatus[d] = "draft"
  /\ Begin(c, NoReq, "entry")
  /\ task' = [task EXCEPT ![c] = [doc |-> d, counted |-> counted]]
  /\ UNCHANGED documents

RefuseSetCountLines(c, d) ==
  /\ pc[c] = "idle"
  /\ docStatus[d] = "posted"
  /\ outcome' = [outcome EXCEPT ![c] = "count-posted"]
  /\ UNCHANGED <<committed, archived, pc, req, workspace, documents, task>>

\* The upserts and the commit.  A line keeps the balance it was opened with;
\* the foreign key of a new line waits for a transaction that is posting.
WriteCountLines(c) ==
  LET d       == task[c].doc
      counted == task[c].counted
      opened(i) == IF lines[d][i] = NoLine THEN 0 ELSE lines[d][i].expected
  IN
  /\ pc[c] = "entry"
  /\ (\E i \in DOMAIN counted : lines[d][i] = NoLine) => DocumentFree(c, d)
  /\ lines' = [lines EXCEPT ![d] =
                 [i \in Items |-> IF i \in DOMAIN counted
                                  THEN [expected |-> opened(i),
                                        counted  |-> counted[i]]
                                  ELSE lines[d][i]]]
  /\ \E result \in {"entered", "lost"} : Rollback(c, result)
  /\ EndTask(c)
  /\ UNCHANGED <<archived, docStatus>>

-----------------------------------------------------------------------------
(* PostCount                                                                *)

StartPostCount(c, d, force) ==
  /\ docStatus[d] # "none"
  /\ Begin(c, NoReq, "document")
  /\ task' = [task EXCEPT ![c] =
                [doc |-> d, force |-> force, lines |-> Empty(NoLine),
                 todo |-> <<>>, changed |-> {}]]
  /\ UNCHANGED documents

\* Mutant: the document is read without FOR UPDATE.
ReadDocument(c) ==
  LET d == task[c].doc IN
  /\ pc[c] = "document"
  /\ docStatus[d] = "draft"
  /\ \E order \in SetToSeqs(CountedItems(lines[d])) :
       task' = [task EXCEPT ![c].lines = lines[d], ![c].todo = order]
  /\ Goto(c, "line")
  /\ UNCHANGED <<committed, archived, req, workspace, outcome, documents>>

\* GetStockCountForUpdate, the status check and ListCountedLines.  The query
\* has no ORDER BY: the lines come in any order.
LockDocument(c) ==
  LET d == task[c].doc IN
  /\ pc[c] = "document"
  /\ DocumentFree(c, d)
  /\ \/ /\ docStatus[d] = "posted"
        /\ Rollback(c, "count-posted")
        /\ EndTask(c)
     \/ /\ docStatus[d] = "draft"
        /\ \E order \in SetToSeqs(CountedItems(lines[d])) :
             task' = [task EXCEPT ![c].lines = lines[d], ![c].todo = order]
        /\ Goto(c, "line")
        /\ UNCHANGED <<committed, req, workspace, outcome>>
  /\ UNCHANGED <<archived, documents>>

\* Between two lines of a document that is being posted.
AtLine(c) ==
  /\ task[c] # NoTask
  /\ pc[c] = "line" \/ (pc[c] = "done" /\ req[c].op = "post")

\* Mutant: a line whose fact agrees with the balance is not kept locked.
LinesHeldUnlessEqual(c, i, delta) ==
  IF delta = 0 THEN held[c] ELSE held[c] \cup {i}

\* Every line read stays locked until the transaction ends.
LinesHeld(c, i, delta) == held[c] \cup {i}

\* Mutant: no early continue when the fact agrees with the balance.
SkippedIfMoved(moved, delta) == moved

\* No adjustment: the balance has moved since the document was opened, or it
\* agrees with the fact.
Skipped(moved, delta) == moved \/ delta = 0

\* The next line: lock its balance and compare it with the quantities of the
\* line.
LockLine(c) ==
  LET i       == Head(task[c].todo)
      line    == task[c].lines[i]
      moved   == ~ task[c].force /\ Hand(c, i) # line.expected
      delta   == line.counted - Hand(c, i)
  IN
  /\ AtLine(c)
  /\ task[c].todo # <<>>
  /\ BalanceFree(c, i)
  /\ held' = [held EXCEPT ![c] = LinesHeld(c, i, delta)]
  /\ task' = [task EXCEPT ![c].todo = Tail(@),
                          ![c].changed = IF moved THEN @ \cup {i} ELSE @]
  /\ \/ /\ Skipped(moved, delta)
        /\ Goto(c, "line")
        /\ UNCHANGED req
     \/ /\ ~ Skipped(moved, delta)
        /\ req' = [req EXCEPT ![c] =
                     [op |-> "post", item |-> i,
                      row |-> [type |-> "adjustment", qty |-> delta,
                               key |-> NoKey, reverses |-> 0, by |-> c,
                               doc |-> task[c].doc]]]
        /\ Goto(c, "insert")
  /\ UNCHANGED <<committed, archived, rows, newHand, newBasis, outcome,
                 documents>>

\* After the last line: all or nothing.
FinishPost(c) ==
  /\ AtLine(c)
  /\ task[c].todo = <<>>
  /\ \/ /\ task[c].changed # {}
        /\ Rollback(c, "count-changed")
        /\ UNCHANGED docStatus
     \/ /\ task[c].changed = {}
        /\ Publish(c)
        /\ docStatus' = [docStatus EXCEPT ![task[c].doc] = "posted"]
        /\ \E result \in {"posted", "lost"} : End(c, result)
  /\ EndTask(c)
  /\ UNCHANGED <<archived, lines>>

-----------------------------------------------------------------------------
(* PostgreSQL breaks a circle of transactions that wait for each other's    *)
(* balance rows by failing one of them.                                     *)

WaitsFor(c, d) == /\ c # d
                  /\ AtLine(c)
                  /\ task[c].todo # <<>>
                  /\ Head(task[c].todo) \in held[d]

\* Only postings hold one balance row and wait for another.
DeadlockVictim(c) ==
  /\ \E circle \in SUBSET Clients :
       /\ c \in circle
       /\ \A d \in circle : /\ \E e \in circle : WaitsFor(d, e)
                            /\ \E e \in circle : WaitsFor(e, d)
  /\ Rollback(c, "deadlock")
  /\ EndTask(c)
  /\ UNCHANGED <<archived, documents>>

\* A statement of Movements, for a movement of its own or an adjustment.
MovementStep(c) ==
  /\ Step(c)
  /\ task' = [task EXCEPT ![c] = IF pc'[c] = "idle" THEN NoTask ELSE @]
  /\ UNCHANGED documents

CountStep(c) ==
  \/ MovementStep(c)
  \/ WriteCountLines(c)
  \/ LockDocument(c)
  \/ LockLine(c)
  \/ FinishPost(c)
  \/ DeadlockVictim(c)

BeginMovement(c) ==
  /\ \/ \E i \in Items, type \in Kinds, n \in 1..MaxQty, k \in Keys :
          StartRecord(c, i, type, n, k)
     \/ \E i \in Items : \E n \in DOMAIN journal[i] :
          StartReverse(c, i, n) \/ RefuseReverse(c, i, n)
  /\ UNCHANGED <<documents, task>>

BeginCount(c, d) ==
  \/ \E S \in SUBSET Items \ {{}} : \E counted \in [S -> 0..MaxQty] :
       StartSetCountLines(c, d, counted)
  \/ RefuseSetCountLines(c, d)
  \/ \E force \in BOOLEAN : StartPostCount(c, d, force)

\* An item may be in a document that is filled in or posted later.
ArchiveCounted(i) == ArchiveItem(i) /\ UNCHANGED <<documents, task>>

CountsNext ==
  \/ \E c \in Clients :
       \/ BeginMovement(c)
       \/ \E d \in Docs : BeginCount(c, d)
       \/ CountStep(c)
       \/ Abort(c) /\ EndTask(c) /\ UNCHANGED documents
  \/ \E d \in Docs, S \in SUBSET Items : CreateCount(d, S)
  \/ \E i \in Items : ArchiveCounted(i)

CountsSpec == CountsInit /\ [][CountsNext]_countVars

-----------------------------------------------------------------------------
(* Properties *)

\* Documents, their lines, and the adjustments being made from them.
CountsTypeOK ==
  /\ docStatus \in [Docs -> {"none", "draft", "posted"}]
  /\ lines \in [Docs -> [Items -> Line \cup {NoLine}]]
  /\ \A c \in Clients : task[c] # NoTask =>
       /\ task[c].doc \in Docs
       /\ docStatus[task[c].doc] # "none"
  /\ \A c \in Clients : \A i \in Items :
       rows[c][i] # NoRow => rows[c][i] \in Movement

\* FR-13: a count that is posted leaves every item it took up with the
\* quantity counted, and, unless the owner forced it, finds every one of them
\* at the quantity the document was opened with - at the moment of the commit,
\* not only when each line was compared.
PostingIsExact ==
  [][\A c \in Clients :
       (AtLine(c) /\ docStatus'[task[c].doc] = "posted"
          /\ docStatus[task[c].doc] = "draft") =>
         \A i \in CountedItems(task[c].lines) :
           /\ onHand'[i] = task[c].lines[i].counted
           /\ task[c].force \/ onHand[i] = task[c].lines[i].expected]_countVars

\* A document is posted once and as a whole: the journal has adjustments of a
\* document only once it is posted, and at most one for each item.
AdjustmentsFollowPosting ==
  \A i \in Items : \A n \in DOMAIN journal[i] :
    journal[i][n].type = "adjustment" =>
      /\ docStatus[journal[i][n].doc] = "posted"
      /\ \A m \in DOMAIN journal[i] \ {n} :
           journal[i][m].doc # journal[i][n].doc

\* Movements and counts together still implement the ledger: a posted count is
\* one batch of adjustments.
CountsRefineLedger == L!Spec

=============================================================================
