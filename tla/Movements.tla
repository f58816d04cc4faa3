----------------------------- MODULE Movements -----------------------------
(***************************************************************************)
(* Recording and reversing stock movements (internal/stock/service.go) by  *)
(* several clients at once, on PostgreSQL at READ COMMITTED.               *)
(*                                                                         *)
(* Every request runs in one transaction.  An action is one SQL statement, *)
(* or several whose order nobody else can observe.  What a transaction has *)
(* written but not committed lives in its workspace - held, rows, newHand, *)
(* newBasis - and is visible to others only as a lock: a locked balance    *)
(* row, a pending entry of a unique index, a locked item_status row.       *)
(*                                                                         *)
(* A request the handlers reject before they open a transaction (unknown   *)
(* type, zero quantity, no reason for a write-off, a time of the event     *)
(* outside the allowed window) changes nothing and is not a step.          *)
(***************************************************************************)
EXTENDS Journal

CONSTANTS
  Owners,      \* clients whose role may reverse other people's movements
  Kinds,       \* movement types a client may record (UserCreatable)
  MaxQty,      \* bound: the largest quantity a client enters
  Archivable,  \* bound: the items that are ever archived
  Unset,       \* no uncommitted version of a row
  NoReq        \* no request

ASSUME OwnersAssumption == Owners \subseteq Clients
ASSUME KindsAssumption  == Kinds \subseteq {"receipt", "usage", "writeoff"}
ASSUME MaxQtyAssumption == MaxQty \in Nat
ASSUME UnsetAssumption  == Unset \notin Int

VARIABLES
  journal,   \* stock_movements: committed rows of each item
  onHand,    \* stock_balances.on_hand: committed
  basis,     \* item_status: the balance the committed status was computed from
  archived,  \* items with archived_at set
  pc,        \* the statement each client's transaction executes next
  req,       \* the movement each client's transaction is about
  held,      \* balance rows each transaction has locked
  rows,      \* movements it has inserted
  newHand,   \* balances it has updated
  newBasis,  \* statuses it has upserted
  outcome    \* how each client's last request ended

committed == <<journal, onHand, basis>>
workspace == <<held, rows, newHand, newBasis>>
vars == <<committed, archived, pc, req, workspace, outcome>>

-----------------------------------------------------------------------------

Empty(none) == [i \in Items |-> none]

Init ==
  /\ journal  = Empty(<<>>)
  /\ onHand   = Empty(0)
  /\ basis    = Empty(0)
  /\ archived = {}
  /\ pc       = [c \in Clients |-> "idle"]
  /\ req      = [c \in Clients |-> NoReq]
  /\ held     = [c \in Clients |-> {}]
  /\ rows     = [c \in Clients |-> Empty(NoRow)]
  /\ newHand  = [c \in Clients |-> Empty(Unset)]
  /\ newBasis = [c \in Clients |-> Empty(Unset)]
  /\ outcome  = [c \in Clients |-> "none"]

\* The balance a transaction sees: its own version of the row, if it has one.
Hand(c, i) == IF newHand[c][i] = Unset THEN onHand[i] ELSE newHand[c][i]

\* Committed values overridden by a transaction's versions.
Merged(new, old) == [i \in Items |-> IF new[i] = Unset THEN old[i] ELSE new[i]]

\* No other transaction holds the lock of balance row i; of status row i.
BalanceFree(c, i) == \A d \in Clients \ {c} : i \notin held[d]
StatusFree(c, i)  == \A d \in Clients \ {c} : newBasis[d][i] = Unset

\* The end of a transaction: locks are released and the workspace is gone.
End(c, result) ==
  /\ pc'       = [pc       EXCEPT ![c] = "idle"]
  /\ held'     = [held     EXCEPT ![c] = {}]
  /\ rows'     = [rows     EXCEPT ![c] = Empty(NoRow)]
  /\ newHand'  = [newHand  EXCEPT ![c] = Empty(Unset)]
  /\ newBasis' = [newBasis EXCEPT ![c] = Empty(Unset)]
  /\ req'      = [req      EXCEPT ![c] = NoReq]
  /\ outcome'  = [outcome  EXCEPT ![c] = result]

\* Mutant: an early return that answers but leaves the transaction open.
RollbackForgotten(c, result) ==
  /\ pc'      = [pc      EXCEPT ![c] = "idle"]
  /\ req'     = [req     EXCEPT ![c] = NoReq]
  /\ outcome' = [outcome EXCEPT ![c] = result]
  /\ UNCHANGED <<committed, workspace>>

Rollback(c, result) == End(c, result) /\ UNCHANGED committed

Goto(c, statement) == pc' = [pc EXCEPT ![c] = statement]

\* A request arrives and its transaction begins with the given statement.
Begin(c, request, statement) ==
  /\ pc[c] = "idle"
  /\ req' = [req EXCEPT ![c] = request]
  /\ outcome' = [outcome EXCEPT ![c] = "none"]
  /\ Goto(c, statement)
  /\ UNCHANGED <<committed, archived, workspace>>

\* Mutant: the sign is left to the caller.
unsignedQty(type, n) == n

signedQty(type, n) == IF type \in Decreasing THEN - n ELSE n

-----------------------------------------------------------------------------
(* Record: POST /movements *)

StartRecord(c, i, type, n, k) ==
  Begin(c, [op |-> "record", item |-> i,
            row |-> [type |-> type, qty |-> signedQty(type, n), key |-> k,
                     reverses |-> 0, by |-> c, doc |-> NoDoc]],
        "key")

\* A committed movement with this key is the answer; nothing is written.
CheckKey(c) ==
  /\ pc[c] = "key"
  /\ \/ /\ KeyUsed(journal, req[c].row.key)
        /\ Rollback(c, "duplicate")
     \/ /\ ~ KeyUsed(journal, req[c].row.key)
        /\ Goto(c, "item")
        /\ UNCHANGED <<committed, req, workspace, outcome>>
  /\ UNCHANGED archived

\* A plain read of the item: nothing keeps it from being archived afterwards.
ReadItem(c) ==
  /\ pc[c] = "item"
  /\ \/ /\ req[c].item \in archived
        /\ Rollback(c, "archived")
     \/ /\ req[c].item \notin archived
        /\ Goto(c, "lock")
        /\ UNCHANGED <<committed, req, workspace, outcome>>
  /\ UNCHANGED archived

-----------------------------------------------------------------------------
(* Reverse: POST /movements/{id}/reverse *)

\* The movement to cancel is immutable, so reading it and checking its type
\* and author is one step.
StartReverse(c, i, n) ==
  LET original == journal[i][n] IN
  /\ n \in DOMAIN journal[i]
  /\ original.type # "reversal"
  /\ c \in Owners \/ original.by = c
  /\ Begin(c, [op |-> "reverse", item |-> i,
               row |-> [type |-> "reversal", qty |-> - original.qty,
                        key |-> NoKey, reverses |-> n, by |-> c,
                        doc |-> NoDoc]],
           "reversal")

\* ErrCannotReverse: a reversal, or somebody else's movement.
RefuseReverse(c, i, n) ==
  LET original == journal[i][n] IN
  /\ pc[c] = "idle"
  /\ n \in DOMAIN journal[i]
  /\ original.type = "reversal" \/ (c \notin Owners /\ original.by # c)
  /\ outcome' = [outcome EXCEPT ![c] = "cannot-reverse"]
  /\ UNCHANGED <<committed, archived, pc, req, workspace>>

\* GetReversalOf sees committed reversals only.
CheckReversal(c) ==
  /\ pc[c] = "reversal"
  /\ \/ /\ IsReversed(journal[req[c].item], req[c].row.reverses)
        /\ Rollback(c, "already-reversed")
     \/ /\ ~ IsReversed(journal[req[c].item], req[c].row.reverses)
        /\ Goto(c, "lock")
        /\ UNCHANGED <<committed, req, workspace, outcome>>
  /\ UNCHANGED archived

-----------------------------------------------------------------------------
(* What both do next: lock the balance, insert the movement, update the    *)
(* balance, recompute the status.                                          *)

\* Mutant: the balance is read without FOR UPDATE.
ReadBalance(c) ==
  LET i == req[c].item IN
  /\ pc[c] = "lock"
  /\ \/ /\ Hand(c, i) + req[c].row.qty < 0
        /\ Rollback(c, "insufficient")
     \/ /\ Hand(c, i) + req[c].row.qty >= 0
        /\ Goto(c, "insert")
        /\ UNCHANGED <<committed, req, workspace, outcome>>
  /\ UNCHANGED archived

\* SELECT ... FOR UPDATE waits for the row and then reads its latest
\* committed version.  A missing row (EnsureBalance inserts it) is a zero.
LockBalance(c) ==
  LET i == req[c].item IN
  /\ pc[c] = "lock"
  /\ BalanceFree(c, i)
  /\ \/ /\ Hand(c, i) + req[c].row.qty < 0
        /\ Rollback(c, "insufficient")
     \/ /\ Hand(c, i) + req[c].row.qty >= 0
        /\ held' = [held EXCEPT ![c] = @ \cup {i}]
        /\ Goto(c, "insert")
        /\ UNCHANGED <<committed, req, rows, newHand, newBasis, outcome>>
  /\ UNCHANGED archived

\* Two rows the unique indexes do not allow together.
Clash(i, m, j, r) ==
  /\ r # NoRow
  /\ \/ m.key # NoKey /\ r.key = m.key
     \/ m.reverses # 0 /\ j = i /\ r.reverses = m.reverses

SameKey(m, r) == r # NoRow /\ m.key # NoKey /\ r.key = m.key

\* Mutant: no unique index on reverses_id.
InsertWithoutReversesIndex(c) ==
  LET i == req[c].item
      m == req[c].row
  IN
  /\ pc[c] = "insert"
  /\ \A d \in Clients \ {c} : \A j \in Items : ~ SameKey(m, rows[d][j])
  /\ \/ /\ m.key # NoKey
        /\ KeyUsed(journal, m.key)
        /\ Rollback(c, "duplicate-key")
     \/ /\ m.key = NoKey \/ ~ KeyUsed(journal, m.key)
        /\ rows' = [rows EXCEPT ![c][i] = m]
        /\ Goto(c, "apply")
        /\ UNCHANGED <<committed, req, held, newHand, newBasis, outcome>>
  /\ UNCHANGED archived

\* Mutant: a key another transaction has reserved counts as used already.
InsertWithoutWaiting(c) ==
  LET i == req[c].item
      m == req[c].row
  IN
  /\ pc[c] = "insert"
  /\ \/ /\ \/ \E d \in Clients \ {c}, j \in Items : Clash(i, m, j, rows[d][j])
           \/ KeyUsed(journal, m.key)
           \/ m.reverses # 0 /\ IsReversed(journal[i], m.reverses)
        /\ Rollback(c, "duplicate-key")
     \/ /\ \A d \in Clients \ {c}, j \in Items : ~ Clash(i, m, j, rows[d][j])
        /\ ~ KeyUsed(journal, m.key)
        /\ m.reverses = 0 \/ ~ IsReversed(journal[i], m.reverses)
        /\ rows' = [rows EXCEPT ![c][i] = m]
        /\ Goto(c, "apply")
        /\ UNCHANGED <<committed, req, held, newHand, newBasis, outcome>>
  /\ UNCHANGED archived

\* INSERT waits for the transaction that holds a clashing entry to end, and
\* fails when a clashing row is committed.
InsertMovement(c) ==
  LET i == req[c].item
      m == req[c].row
  IN
  /\ pc[c] = "insert"
  /\ \A d \in Clients \ {c} : \A j \in Items : ~ Clash(i, m, j, rows[d][j])
  /\ \/ /\ m.key # NoKey
        /\ KeyUsed(journal, m.key)
        /\ Rollback(c, "duplicate-key")
     \/ /\ m.reverses # 0
        /\ IsReversed(journal[i], m.reverses)
        /\ Rollback(c, "already-reversed")
     \/ /\ m.key = NoKey \/ ~ KeyUsed(journal, m.key)
        /\ m.reverses = 0 \/ ~ IsReversed(journal[i], m.reverses)
        /\ rows' = [rows EXCEPT ![c][i] = m]
        /\ Goto(c, "apply")
        /\ UNCHANGED <<committed, req, held, newHand, newBasis, outcome>>
  /\ UNCHANGED archived

\* Mutant: the balance is updated on a connection of its own.
ApplyOutsideTransaction(c) ==
  LET i == req[c].item IN
  /\ pc[c] = "apply"
  /\ onHand' = [onHand EXCEPT ![i] = @ + req[c].row.qty]
  /\ Goto(c, "status")
  /\ UNCHANGED <<journal, basis, archived, req, workspace, outcome>>

\* UPDATE ... SET on_hand = on_hand + delta, with CHECK (on_hand >= 0).  The
\* UPDATE itself locks the row when the transaction has not locked it yet.
ApplyMovement(c) ==
  LET i   == req[c].item
      new == Hand(c, i) + req[c].row.qty
  IN
  /\ pc[c] = "apply"
  /\ BalanceFree(c, i)
  /\ \/ /\ new < 0
        /\ Rollback(c, "check-violation")
     \/ /\ new >= 0
        /\ held'    = [held EXCEPT ![c] = @ \cup {i}]
        /\ newHand' = [newHand EXCEPT ![c][i] = new]
        /\ Goto(c, "status")
        /\ UNCHANGED <<committed, req, rows, newBasis, outcome>>
  /\ UNCHANGED archived

\* Mutant: the status is computed on a connection of its own, which does not
\* see the balance this transaction has just updated.
RecalculateFromCommitted(c) ==
  LET i == req[c].item IN
  /\ pc[c] = "status"
  /\ StatusFree(c, i)
  /\ newBasis' = [newBasis EXCEPT ![c][i] = onHand[i]]
  /\ Goto(c, "done")
  /\ UNCHANGED <<committed, archived, req, held, rows, newHand, outcome>>

\* The status is computed from the balance this transaction sees and stored
\* with it; the rest of its inputs belong to the replenishment module.
Recalculate(c) ==
  LET i == req[c].item IN
  /\ pc[c] = "status"
  /\ StatusFree(c, i)
  /\ newBasis' = [newBasis EXCEPT ![c][i] = Hand(c, i)]
  /\ Goto(c, "done")
  /\ UNCHANGED <<committed, archived, req, held, rows, newHand, outcome>>

\* Everything the transaction wrote becomes visible at once.
Publish(c) ==
  /\ journal' = Extended(journal, rows[c])
  /\ onHand'  = Merged(newHand[c], onHand)
  /\ basis'   = Merged(newBasis[c], basis)

\* The reply to a committed request may still be lost on its way back.
Commit(c) ==
  /\ pc[c] = "done"
  /\ req[c].op \in {"record", "reverse"}
  /\ Publish(c)
  /\ \E result \in {"created", "lost"} : End(c, result)
  /\ UNCHANGED archived

\* The connection drops, the request is cancelled or the process dies.
Abort(c) ==
  /\ pc[c] # "idle"
  /\ Rollback(c, "lost")
  /\ UNCHANGED archived

-----------------------------------------------------------------------------
(* The catalogue: an item may be archived at any moment; there is no way    *)
(* back.                                                                    *)

ArchiveItem(i) ==
  /\ i \in Archivable \ archived
  /\ archived' = archived \cup {i}
  /\ UNCHANGED <<committed, pc, req, workspace, outcome>>

Step(c) ==
  \/ CheckKey(c)
  \/ ReadItem(c)
  \/ CheckReversal(c)
  \/ LockBalance(c)
  \/ InsertMovement(c)
  \/ ApplyMovement(c)
  \/ Recalculate(c)
  \/ Commit(c)

Next ==
  \/ \E c \in Clients :
       \/ \E i \in Items, type \in Kinds, n \in 1..MaxQty, k \in Keys :
            StartRecord(c, i, type, n, k)
       \/ \E i \in Items : \E n \in DOMAIN journal[i] :
            StartReverse(c, i, n) \/ RefuseReverse(c, i, n)
       \/ Step(c)
       \/ Abort(c)
  \/ \E i \in Items : ArchiveItem(i)

Spec == Init /\ [][Next]_vars

-----------------------------------------------------------------------------
(* Properties *)

Request == [op : {"record", "reverse"}, item : Items, row : Movement]

Statements == {"key", "item", "reversal", "lock", "insert", "apply", "status",
               "done"}

Outcomes == {"none", "created", "duplicate", "duplicate-key", "archived",
             "insufficient", "already-reversed", "cannot-reverse",
             "check-violation", "lost"}

\* Types; every movement, committed or pending, satisfies the table's CHECKs,
\* so none of the insert's constraint errors about signs and links can occur.
TypeOK ==
  /\ journal  \in [Items -> Seq(Movement)]
  /\ onHand   \in [Items -> Nat]
  /\ basis    \in [Items -> Nat]
  /\ archived \subseteq Items
  /\ pc       \in [Clients -> Statements \cup {"idle"}]
  /\ req      \in [Clients -> Request \cup {NoReq}]
  /\ held     \in [Clients -> SUBSET Items]
  /\ rows     \in [Clients -> [Items -> Movement \cup {NoRow}]]
  /\ newHand  \in [Clients -> [Items -> Nat \cup {Unset}]]
  /\ newBasis \in [Clients -> [Items -> Nat \cup {Unset}]]
  /\ outcome  \in [Clients -> Outcomes]

\* FR-17: the balance of every item is the sum of its journal, whatever
\* requests overlap, fail half-way or are broken off.
BalanceIsJournalSum == \A i \in Items : onHand[i] = JournalTotal(journal[i])

\* FR-8: the check under the row lock is honest - no request ever gets as far
\* as being stopped by CHECK (on_hand >= 0), the last line of defence that
\* wrapBalanceError translates.
CheckNeverFires == \A c \in Clients : outcome[c] # "check-violation"

\* The dashboard's status of an item is the one computed from its committed
\* balance: a movement and its status become visible together (section 10.2).
StatusIsCurrent == basis = onHand

\* Client c's request is answered, with the given result, in this step.
Answers(c, result) ==
  outcome[c] = "none" /\ pc[c] # "idle" /\ outcome'[c] = result

\* What a client may conclude from the answer to its request: a created
\* movement is in the journal, a repeated key belongs to a movement that is
\* there, a reversal reported as done before is there, and a refusal for want
\* of stock was true of the balance at that moment.
RepliesAreTruthful ==
  [][\A c \in Clients :
       LET i == req[c].item
           m == req[c].row
       IN
       /\ Answers(c, "created") => journal'[i] = Append(journal[i], m)
       /\ (Answers(c, "duplicate") \/ Answers(c, "duplicate-key")) =>
             KeyUsed(journal', m.key)
       /\ Answers(c, "already-reversed") =>
             IsReversed(journal'[i], m.reverses)
       /\ Answers(c, "insufficient") => onHand'[i] + m.qty < 0]_vars

\* The transactions, with their locks, waits and retries, implement the atomic
\* ledger: batches of lawful movements, keys used once, reversals made once,
\* balances never negative.
L == INSTANCE Ledger WITH journal <- journal, onHand <- onHand

RefinesLedger == L!Spec

\* Every request ends: no statement waits for ever, and transactions that wait
\* for each other in a circle - postings of counts do - lose one of them.
RequestsEnd == \A c \in Clients : pc[c] # "idle" ~> pc[c] = "idle"

\* FR-10 as the specification words it: a request whose key is already in the
\* journal is answered with that movement.  It is not, when the twin request
\* commits between the key check and the balance check.
ReplayIsNotRefused ==
  [][\A c \in Clients :
       (Answers(c, "insufficient") /\ req[c].op = "record") =>
          ~ KeyUsed(journal, req[c].row.key)]_vars

=============================================================================
