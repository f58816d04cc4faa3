--------------------------- MODULE MovementsProofs ---------------------------
(***************************************************************************)
(* Proofs about Movements, for any number of items, clients, keys and      *)
(* quantities.                                                             *)
(*                                                                         *)
(* First, what the total of a journal is, for journals of every length:    *)
(* RunningTotals is a recursive function; that it exists, and what it is   *)
(* equal to, is proved by induction on the length of a prefix.  Then the   *)
(* listings of sets by which counts and orders are gone through.           *)
(***************************************************************************)
EXTENDS Movements, SumTheorems, SequencesExt, SequenceTheorems

-----------------------------------------------------------------------------

\* t adds up the first n movements of s one by one.
AddsUp(t, s, n) ==
  \A k \in 0..n : t[k] = IF k = 0 THEN 0 ELSE t[k - 1] + s[k].qty

\* t holds the running totals of the first n movements of s.
IsRunning(t, s, n) == t \in [0..n -> Int] /\ AddsUp(t, s, n)

\* The quantity of every movement of a journal is an integer.
LEMMA QtyIsInt ==
  ASSUME NEW s \in Seq(Movement), NEW n \in 1..Len(s)
  PROVE  s[n].qty \in Int
<1>1. s[n] \in Movement
  BY ElementOfSeq
<1> QED BY <1>1 DEF Movement, Row

\* Every journal has running totals.
LEMMA RunningExists ==
  ASSUME NEW s \in Seq(Movement)
  PROVE  \E t : IsRunning(t, s, Len(s))
<1> DEFINE T == {n \in Nat : n <= Len(s) => \E t : IsRunning(t, s, n)}
<1>1. Len(s) \in Nat
  BY LenProperties
<1>2. 0 \in T
  <2>1. IsRunning([k \in 0..0 |-> 0], s, 0)
    BY DEF IsRunning, AddsUp
  <2> QED BY <2>1
<1>3. ASSUME NEW n \in Nat, n \in T
      PROVE  n + 1 \in T
  <2>1. SUFFICES ASSUME n + 1 <= Len(s) PROVE \E t : IsRunning(t, s, n + 1)
    OBVIOUS
  <2>2. PICK t : IsRunning(t, s, n)
    BY <1>1, <1>3, <2>1
  <2>3. s[n + 1].qty \in Int
    BY <1>1, <2>1, QtyIsInt
  <2> DEFINE u == [k \in 0..(n + 1) |->
                     IF k = n + 1 THEN t[n] + s[n + 1].qty ELSE t[k]]
  <2>4. u \in [0..(n + 1) -> Int]
    BY <2>2, <2>3 DEF IsRunning
  <2>5. ASSUME NEW k \in 0..(n + 1)
        PROVE  u[k] = IF k = 0 THEN 0 ELSE u[k - 1] + s[k].qty
    <3>1. CASE k = n + 1
      BY <3>1
    <3>2. CASE k # n + 1
      <4>1. k \in 0..n
        BY <3>2
      <4>2. u[k] = t[k]
        BY <4>1
      <4>3. k # 0 => k - 1 \in 0..n /\ u[k - 1] = t[k - 1]
        BY <4>1
      <4> QED BY <4>1, <4>2, <4>3, <2>2 DEF IsRunning, AddsUp
    <3> QED BY <3>1, <3>2
  <2>6. IsRunning(u, s, n + 1)
    <3> HIDE DEF u
    <3> QED BY <2>4, <2>5 DEF IsRunning, AddsUp
  <2> QED BY <2>6
<1>4. Nat \subseteq T
  <2> HIDE DEF T
  <2> QED BY <1>2, <1>3, SetInduction
<1> QED BY <1>1, <1>4

\* Two functions that satisfy the recurrence over the first n movements agree.
LEMMA RunningUnique ==
  ASSUME NEW s, NEW n \in Nat, NEW t, NEW u, AddsUp(t, s, n), AddsUp(u, s, n)
  PROVE  \A k \in 0..n : t[k] = u[k]
<1> DEFINE T == {k \in Nat : k <= n => t[k] = u[k]}
<1>1. 0 \in T
  BY DEF AddsUp
<1>2. ASSUME NEW k \in Nat, k \in T
      PROVE  k + 1 \in T
  <2>1. SUFFICES ASSUME k + 1 <= n PROVE t[k + 1] = u[k + 1]
    OBVIOUS
  <2>2. k + 1 \in 0..n /\ k + 1 # 0 /\ (k + 1) - 1 = k
    BY <2>1
  <2>3. t[k] = u[k]
    BY <1>2, <2>1
  <2> QED BY <2>2, <2>3 DEF AddsUp
<1>3. Nat \subseteq T
  <2> HIDE DEF T
  <2> QED BY <1>1, <1>2, SetInduction
<1> QED BY <1>3

\* RunningTotals does hold the running totals.
LEMMA RunningTotalsAreRunning ==
  ASSUME NEW s \in Seq(Movement)
  PROVE  IsRunning(RunningTotals(s), s, Len(s))
<1>1. PICK t : IsRunning(t, s, Len(s))
  BY RunningExists
<1>2. t = [n \in 0..Len(s) |-> IF n = 0 THEN 0 ELSE t[n - 1] + s[n].qty]
  BY <1>1 DEF IsRunning, AddsUp
<1>3. RunningTotals(s) =
         [n \in 0..Len(s) |->
            IF n = 0 THEN 0 ELSE RunningTotals(s)[n - 1] + s[n].qty]
  BY <1>2 DEF RunningTotals
<1>4. AddsUp(RunningTotals(s), s, Len(s))
  BY <1>3 DEF AddsUp
<1>5. Len(s) \in Nat
  BY LenProperties
<1>6. \A k \in 0..Len(s) : RunningTotals(s)[k] = t[k]
  <2>1. AddsUp(t, s, Len(s))
    BY <1>1 DEF IsRunning
  <2> HIDE DEF AddsUp
  <2> QED BY <1>4, <1>5, <2>1, RunningUnique
<1> QED BY <1>1, <1>3, <1>4, <1>6 DEF IsRunning

\* The empty journal totals zero.
LEMMA EmptyTotal == JournalTotal(<<>>) = 0
<1>1. <<>> \in Seq(Movement) /\ Len(<<>>) = 0
  BY EmptySeq
<1>2. IsRunning(RunningTotals(<<>>), <<>>, 0)
  BY <1>1, RunningTotalsAreRunning, Zenon
<1>3. RunningTotals(<<>>)[0] = 0
  BY <1>2 DEF IsRunning, AddsUp
<1> QED BY <1>1, <1>3 DEF JournalTotal

\* One more movement changes the total by its quantity.
LEMMA AppendTotal ==
  ASSUME NEW s \in Seq(Movement), NEW m \in Movement
  PROVE  JournalTotal(Append(s, m)) = JournalTotal(s) + m.qty
<1> DEFINE e == Append(s, m)
           n == Len(s)
<1>1. e \in Seq(Movement) /\ Len(e) = n + 1 /\ n \in Nat
  BY LenProperties
<1>2. e[n + 1] = m /\ \A k \in 1..n : e[k] = s[k]
  BY <1>1
<1>3. /\ IsRunning(RunningTotals(s), s, n)
      /\ IsRunning(RunningTotals(e), e, n + 1)
  BY <1>1, RunningTotalsAreRunning
<1>4. AddsUp(RunningTotals(e), s, n)
  BY <1>1, <1>2, <1>3 DEF IsRunning, AddsUp
<1>5. RunningTotals(e)[n] = RunningTotals(s)[n]
  <2>1. AddsUp(RunningTotals(s), s, n)
    BY <1>3 DEF IsRunning
  <2>2. \A k \in 0..n : RunningTotals(e)[k] = RunningTotals(s)[k]
    <3> HIDE DEF e, n
    <3> QED BY <1>1, <1>4, <2>1, RunningUnique
  <2> QED BY <1>1, <2>2
<1>6. RunningTotals(e)[n + 1] = RunningTotals(e)[n] + m.qty
  BY <1>1, <1>2, <1>3 DEF IsRunning, AddsUp
<1> QED BY <1>1, <1>5, <1>6 DEF JournalTotal

-----------------------------------------------------------------------------
(* Sequences without repetition.                                            *)

\* A listing of a finite set has each of its elements once.
LEMMA ListingProperties ==
  ASSUME NEW S, IsFiniteSet(S), NEW s \in SetToSeqs(S)
  PROVE  s \in Seq(S) /\ IsInjective(s) /\ ToSet(s) = S
<1> DEFINE n == Cardinality(S)
<1>1. n \in Nat
  BY FS_CardinalityType
<1>2. s \in [1..n -> S] /\ \A i, j \in 1..n : i # j => s[i] # s[j]
  BY DEF SetToSeqs
<1>3. IsFiniteSet(1..n) /\ Cardinality(1..n) = n
  BY <1>1, FS_Interval
<1>4. s \in Injection(1..n, S) /\ IsInjective(s)
  BY <1>2 DEF Injection, IsInjective
<1>5. s \in Surjection(1..n, S)
  <2> HIDE DEF n
  <2> QED BY <1>3, <1>4, FS_Injection DEF n
<1>6. ToSet(s) = S
  BY <1>2, <1>5 DEF Surjection, ToSet
<1>7. s \in Seq(S)
  <2> HIDE DEF n
  <2> QED BY <1>1, <1>2, IsASeq
<1> QED BY <1>4, <1>6, <1>7

\* Its tail has each of them but the head.
LEMMA TailProperties ==
  ASSUME NEW S, NEW s \in Seq(S), s # <<>>, IsInjective(s)
  PROVE  /\ Head(s) \in S /\ Head(s) \in ToSet(s)
         /\ Tail(s) \in Seq(S) /\ IsInjective(Tail(s))
         /\ ToSet(Tail(s)) = ToSet(s) \ {Head(s)}
<1> DEFINE t == Tail(s)
           n == Len(s)
<1>1. n \in Nat /\ n # 0 /\ DOMAIN s = 1..n /\ Head(s) = s[1]
  BY LenProperties, EmptySeq
<1>2. /\ Head(s) \in S /\ t \in Seq(S) /\ Len(t) = n - 1
      /\ \A i \in 1..(n - 1) : t[i] = s[i + 1]
  BY HeadTailProperties
<1>3. DOMAIN t = 1..(n - 1)
  BY <1>2, LenProperties
<1>4. IsInjective(t)
  BY <1>1, <1>2, <1>3 DEF IsInjective
<1>5. ToSet(t) \subseteq ToSet(s) \ {Head(s)}
  BY <1>1, <1>2, <1>3 DEF ToSet, IsInjective
<1>6. ASSUME NEW i \in DOMAIN s, s[i] # Head(s) PROVE s[i] \in ToSet(t)
  <2>1. i - 1 \in 1..(n - 1) /\ (i - 1) + 1 = i
    BY <1>1, <1>6
  <2> QED BY <1>2, <1>3, <2>1 DEF ToSet
<1>7. Head(s) \in ToSet(s)
  BY <1>1 DEF ToSet
<1> QED BY <1>2, <1>4, <1>5, <1>6, <1>7 DEF ToSet

-----------------------------------------------------------------------------
(* The type invariant.                                                      *)

USE OwnersAssumption, KindsAssumption, MaxQtyAssumption, UnsetAssumption

\* A transaction under way has a request.
BusyHaveRequests == \A c \in Clients : pc[c] # "idle" => req[c] \in Request

TypeInv == TypeOK /\ BusyHaveRequests

\* The typed parts of a request, for the provers.
LEMMA RequestParts ==
  ASSUME NEW r \in Request
  PROVE  /\ r.item \in Items
         /\ r.op \in {"record", "reverse"}
         /\ r.row \in Movement
         /\ r.row \in Row
         /\ r.row.qty \in Int
         /\ r.row.reverses \in Nat
         /\ r = [op |-> r.op, item |-> r.item, row |-> r.row]
  BY DEF Request, Movement, Row

LEMMA HandType ==
  ASSUME TypeOK, NEW c \in Clients, NEW i \in Items
  PROVE  Hand(c, i) \in Nat
  BY DEF TypeOK, Hand

\* Ending a transaction without publishing anything keeps the types.
LEMMA RollbackType ==
  ASSUME TypeInv, NEW c \in Clients, NEW result \in Outcomes,
         Rollback(c, result), UNCHANGED archived
  PROVE  TypeInv'
<1>1. TypeOK'
  BY DEF TypeInv, TypeOK, Rollback, End, Empty, committed
<1>2. BusyHaveRequests'
  BY DEF TypeInv, TypeOK, BusyHaveRequests, Rollback, End
<1> QED BY <1>1, <1>2 DEF TypeInv

\* Beginning a well-formed request keeps the types.
LEMMA BeginType ==
  ASSUME TypeInv, NEW c \in Clients, NEW r \in Request,
         NEW statement \in Statements, Begin(c, r, statement)
  PROVE  TypeInv'
<1>1. TypeOK'
  BY DEF TypeInv, TypeOK, Begin, Goto, Outcomes, committed, workspace
<1>2. BusyHaveRequests'
  BY DEF TypeInv, TypeOK, BusyHaveRequests, Begin, Goto
<1> QED BY <1>1, <1>2 DEF TypeInv

\* Moving on to the next statement, with the request kept.
LEMMA GotoType ==
  ASSUME TypeInv, NEW c \in Clients, NEW statement \in Statements,
         pc[c] # "idle", Goto(c, statement),
         UNCHANGED <<committed, archived, req, outcome>>,
         held'     \in [Clients -> SUBSET Items],
         rows'     \in [Clients -> [Items -> Movement \cup {NoRow}]],
         newHand'  \in [Clients -> [Items -> Nat \cup {Unset}]],
         newBasis' \in [Clients -> [Items -> Nat \cup {Unset}]]
  PROVE  TypeInv'
<1>1. TypeOK'
  BY DEF TypeInv, TypeOK, Goto, committed
<1>2. BusyHaveRequests'
  BY DEF TypeInv, TypeOK, BusyHaveRequests, Goto
<1> QED BY <1>1, <1>2 DEF TypeInv

\* The request a client sends to record a movement is well-formed: its sign
\* is the one its type demands.
LEMMA RecordRequest ==
  ASSUME NEW c \in Clients, NEW i \in Items, NEW type \in Kinds,
         NEW n \in 1..MaxQty, NEW k \in Keys
  PROVE  [op |-> "record", item |-> i,
          row |-> [type |-> type, qty |-> signedQty(type, n), key |-> k,
                   reverses |-> 0, by |-> c, doc |-> NoDoc]] \in Request
<1> DEFINE m == [type |-> type, qty |-> signedQty(type, n), key |-> k,
                 reverses |-> 0, by |-> c, doc |-> NoDoc]
<1>1. n \in Nat /\ n > 0
  OBVIOUS
<1>2. type \in {"receipt", "usage", "writeoff"}
  OBVIOUS
<1>3. m \in Row
  BY <1>1, <1>2 DEF Row, Types, Increasing, Decreasing, signedQty
<1>4. SatisfiesChecks(m)
  BY <1>1, <1>2 DEF SatisfiesChecks, Increasing, Decreasing, signedQty
<1>5. m \in Movement
  BY <1>3, <1>4 DEF Movement
<1> QED BY <1>5 DEF Request

\* So is the request to cancel a movement of the journal.
LEMMA ReverseRequest ==
  ASSUME journal \in [Items -> Seq(Movement)], NEW c \in Clients, NEW i \in Items,
         NEW n \in DOMAIN journal[i]
  PROVE  [op |-> "reverse", item |-> i,
          row |-> [type |-> "reversal", qty |-> - journal[i][n].qty,
                   key |-> NoKey, reverses |-> n, by |-> c,
                   doc |-> NoDoc]] \in Request
<1> DEFINE m == [type |-> "reversal", qty |-> - journal[i][n].qty,
                 key |-> NoKey, reverses |-> n, by |-> c, doc |-> NoDoc]
<1>1. journal[i] \in Seq(Movement)
  OBVIOUS
<1>2. n \in 1..Len(journal[i]) /\ n \in Nat /\ n # 0
  BY <1>1, LenProperties
<1>3. journal[i][n] \in Movement
  BY <1>1, <1>2, ElementOfSeq
<1>4. journal[i][n].qty \in Int /\ journal[i][n].qty # 0
  BY <1>3 DEF Movement, Row, SatisfiesChecks
<1>5. m \in Row
  BY <1>2, <1>4 DEF Row, Types
<1>6. SatisfiesChecks(m)
  BY <1>2, <1>4 DEF SatisfiesChecks, Increasing, Decreasing
<1>7. m \in Movement
  BY <1>5, <1>6 DEF Movement
<1> QED BY <1>7 DEF Request

\* Every statement of a transaction keeps the types.
LEMMA StepType ==
  ASSUME TypeInv, NEW c \in Clients, Step(c)
  PROVE  TypeInv'
<1> USE DEF TypeInv
<1>1. ASSUME pc[c] # "idle"
      PROVE  req[c] \in Request /\ req[c].item \in Items
             /\ req[c].row \in Movement /\ req[c].row.qty \in Int
  BY <1>1, RequestParts DEF BusyHaveRequests
<1>2. CASE CheckKey(c)
  <2>1. CASE Rollback(c, "duplicate") /\ UNCHANGED archived
    BY <2>1, RollbackType DEF Outcomes
  <2>2. CASE /\ Goto(c, "item") /\ pc[c] = "key"
             /\ UNCHANGED <<committed, archived, req, workspace, outcome>>
    BY <2>2, GotoType DEF TypeOK, workspace, Statements
  <2> QED BY <1>2, <2>1, <2>2 DEF CheckKey
<1>3. CASE ReadItem(c)
  <2>1. CASE Rollback(c, "archived") /\ UNCHANGED archived
    BY <2>1, RollbackType DEF Outcomes
  <2>2. CASE /\ Goto(c, "lock") /\ pc[c] = "item"
             /\ UNCHANGED <<committed, archived, req, workspace, outcome>>
    BY <2>2, GotoType DEF TypeOK, workspace, Statements
  <2> QED BY <1>3, <2>1, <2>2 DEF ReadItem
<1>4. CASE CheckReversal(c)
  <2>1. CASE Rollback(c, "already-reversed") /\ UNCHANGED archived
    BY <2>1, RollbackType DEF Outcomes
  <2>2. CASE /\ Goto(c, "lock") /\ pc[c] = "reversal"
             /\ UNCHANGED <<committed, archived, req, workspace, outcome>>
    BY <2>2, GotoType DEF TypeOK, workspace, Statements
  <2> QED BY <1>4, <2>1, <2>2 DEF CheckReversal
<1>5. CASE LockBalance(c)
  <2>1. CASE Rollback(c, "insufficient") /\ UNCHANGED archived
    BY <2>1, RollbackType DEF Outcomes
  <2>2. CASE /\ Goto(c, "insert") /\ pc[c] = "lock"
             /\ held' = [held EXCEPT ![c] = @ \cup {req[c].item}]
             /\ UNCHANGED <<committed, archived, req, rows, newHand, newBasis,
                            outcome>>
    <3>1. held' \in [Clients -> SUBSET Items]
      BY <1>1, <2>2 DEF TypeOK
    <3> QED BY <2>2, <3>1, GotoType DEF TypeOK, Statements
  <2> QED BY <1>5, <2>1, <2>2 DEF LockBalance
<1>6. CASE InsertMovement(c)
  <2>1. CASE Rollback(c, "duplicate-key") /\ UNCHANGED archived
    BY <2>1, RollbackType DEF Outcomes
  <2>2. CASE Rollback(c, "already-reversed") /\ UNCHANGED archived
    BY <2>2, RollbackType DEF Outcomes
  <2>3. CASE /\ Goto(c, "apply") /\ pc[c] = "insert"
             /\ rows' = [rows EXCEPT ![c][req[c].item] = req[c].row]
             /\ UNCHANGED <<committed, archived, req, held, newHand, newBasis,
                            outcome>>
    <3>1. rows' \in [Clients -> [Items -> Movement \cup {NoRow}]]
      BY <1>1, <2>3 DEF TypeOK
    <3> QED BY <2>3, <3>1, GotoType DEF TypeOK, Statements
  <2> QED BY <1>6, <2>1, <2>2, <2>3 DEF InsertMovement
<1>7. CASE ApplyMovement(c)
  <2> DEFINE new == Hand(c, req[c].item) + req[c].row.qty
  <2>1. CASE Rollback(c, "check-violation") /\ UNCHANGED archived
    BY <2>1, RollbackType DEF Outcomes
  <2>2. CASE /\ Goto(c, "status") /\ pc[c] = "apply"
             /\ new >= 0
             /\ held'    = [held EXCEPT ![c] = @ \cup {req[c].item}]
             /\ newHand' = [newHand EXCEPT ![c][req[c].item] = new]
             /\ UNCHANGED <<committed, archived, req, rows, newBasis, outcome>>
    <3>1. new \in Nat
      BY <1>1, <2>2, HandType
    <3>2. held' \in [Clients -> SUBSET Items]
      BY <1>1, <2>2 DEF TypeOK
    <3>3. newHand' \in [Clients -> [Items -> Nat \cup {Unset}]]
      <4> HIDE DEF new
      <4> QED BY <1>1, <2>2, <3>1 DEF TypeOK
    <3> QED BY <2>2, <3>2, <3>3, GotoType DEF TypeOK, Statements
  <2> QED BY <1>7, <2>1, <2>2 DEF ApplyMovement
<1>8. CASE Recalculate(c)
  <2>1. newBasis' \in [Clients -> [Items -> Nat \cup {Unset}]]
    BY <1>1, <1>8, HandType DEF TypeOK, Recalculate
  <2>2. /\ Goto(c, "done") /\ pc[c] = "status"
        /\ UNCHANGED <<committed, archived, req, held, rows, newHand, outcome>>
    BY <1>8 DEF Recalculate
  <2> QED BY <2>1, <2>2, GotoType DEF TypeOK, Statements
<1>9. CASE Commit(c)
  <2>1. PICK result \in {"created", "lost"} : End(c, result)
    BY <1>9 DEF Commit
  <2>2. journal' \in [Items -> Seq(Movement)]
    BY <1>9 DEF Commit, Publish, Extended, TypeOK
  <2>3. onHand' \in [Items -> Nat] /\ basis' \in [Items -> Nat]
    BY <1>9 DEF Commit, Publish, Merged, TypeOK
  <2>4. TypeOK'
    BY <1>9, <2>1, <2>2, <2>3 DEF TypeOK, Commit, End, Empty, Outcomes
  <2>5. BusyHaveRequests'
    BY <2>1 DEF TypeOK, BusyHaveRequests, End
  <2> QED BY <2>4, <2>5
<1> QED BY <1>2, <1>3, <1>4, <1>5, <1>6, <1>7, <1>8, <1>9 DEF Step

\* Types, and a request for every transaction under way.
LEMMA TypeInvariant == Spec => []TypeInv
<1>1. Init => TypeInv
  <2>1. ASSUME Init PROVE TypeOK
    <3>1. <<>> \in Seq(Movement)
      BY EmptySeq
    <3> QED BY <2>1, <3>1 DEF Init, TypeOK, Empty, Outcomes
  <2> QED BY <2>1 DEF Init, TypeInv, BusyHaveRequests
<1>2. TypeInv /\ [Next]_vars => TypeInv'
  <2> SUFFICES ASSUME TypeInv, [Next]_vars PROVE TypeInv'
    OBVIOUS
  <2>1. ASSUME NEW c \in Clients, NEW i \in Items, NEW type \in Kinds,
               NEW n \in 1..MaxQty, NEW k \in Keys,
               StartRecord(c, i, type, n, k)
        PROVE  TypeInv'
    <3>1. "key" \in Statements
      BY DEF Statements
    <3> QED BY <2>1, <3>1, RecordRequest, BeginType DEF StartRecord
  <2>2. ASSUME NEW c \in Clients, NEW i \in Items, NEW n \in DOMAIN journal[i],
               StartReverse(c, i, n)
        PROVE  TypeInv'
    <3>1. "reversal" \in Statements
      BY DEF Statements
    <3> QED BY <2>2, <3>1, ReverseRequest, BeginType
           DEF StartReverse, TypeInv, TypeOK
  <2>3. ASSUME NEW c \in Clients, NEW i \in Items, NEW n \in DOMAIN journal[i],
               RefuseReverse(c, i, n)
        PROVE  TypeInv'
    BY <2>3 DEF RefuseReverse, TypeInv, TypeOK, BusyHaveRequests, Outcomes,
                committed, workspace
  <2>4. ASSUME NEW c \in Clients, Step(c) PROVE TypeInv'
    BY <2>4, StepType
  <2>5. ASSUME NEW c \in Clients, Abort(c) PROVE TypeInv'
    BY <2>5, RollbackType DEF Abort, Outcomes
  <2>6. ASSUME NEW i \in Items, ArchiveItem(i) PROVE TypeInv'
    BY <2>6 DEF ArchiveItem, TypeInv, TypeOK, BusyHaveRequests, committed,
                workspace
  <2>7. CASE UNCHANGED vars
    BY <2>7 DEF vars, committed, workspace, TypeInv, TypeOK, BusyHaveRequests
  <2> QED BY <2>1, <2>2, <2>3, <2>4, <2>5, <2>6, <2>7 DEF Next
<1> QED BY <1>1, <1>2, PTL DEF Spec

\* Every variable keeps its type, and every movement satisfies the CHECKs of
\* its table, whatever requests the clients send (migrations, stock_movements).
THEOREM TypeCorrect == Spec => []TypeOK
<1>1. TypeInv => TypeOK
  BY DEF TypeInv
<1> QED BY <1>1, TypeInvariant, PTL

-----------------------------------------------------------------------------
(* The balance is the sum of the journal.                                   *)

Locked  == {"insert", "apply", "status", "done"}
Written == {"apply", "status", "done"}
Applied == {"status", "done"}

LocksExclusive ==
  \A c, d \in Clients : c # d => held[c] \cap held[d] = {}

\* What a client's transaction has locked and written, by the statement it has
\* reached.  The lock is what keeps "onHand + qty" the value it has checked.
ClientInv(c) ==
  /\ pc[c] \in Locked =>
       /\ req[c].item \in held[c]
       /\ onHand[req[c].item] + req[c].row.qty >= 0
  /\ \A i \in Items :
       /\ rows[c][i] = IF pc[c] \in Written /\ i = req[c].item
                         THEN req[c].row ELSE NoRow
       /\ newHand[c][i] = IF pc[c] \in Applied /\ i = req[c].item
                            THEN onHand[i] + req[c].row.qty ELSE Unset
       /\ newBasis[c][i] = IF pc[c] = "done" /\ i = req[c].item
                             THEN onHand[i] + req[c].row.qty ELSE Unset

\* The invariant that carries the proof: BalanceIsJournalSum alone says
\* nothing of the rows and balances a commit is about to publish.
BalanceInv ==
  /\ TypeInv
  /\ LocksExclusive
  /\ \A c \in Clients : ClientInv(c)
  /\ BalanceIsJournalSum
  /\ StatusIsCurrent
  /\ CheckNeverFires

\* Nobody but client c has moved.
OnlyBy(c) ==
  \A d \in Clients \ {c} :
    /\ pc'[d] = pc[d] /\ req'[d] = req[d] /\ held'[d] = held[d]
    /\ rows'[d] = rows[d] /\ newHand'[d] = newHand[d]
    /\ newBasis'[d] = newBasis[d] /\ outcome'[d] = outcome[d]

\* A client is not disturbed by a step that leaves its transaction alone and
\* the balances it has locked unchanged.
LEMMA ClientUndisturbed ==
  ASSUME TypeInv, NEW d \in Clients, ClientInv(d),
         pc'[d] = pc[d], req'[d] = req[d], held'[d] = held[d],
         rows'[d] = rows[d], newHand'[d] = newHand[d],
         newBasis'[d] = newBasis[d],
         \A i \in held[d] : onHand'[i] = onHand[i]
  PROVE  ClientInv(d)'
<1>1. pc[d] \in Locked => onHand'[req[d].item] = onHand[req[d].item]
  BY DEF ClientInv
<1>2. /\ pc[d] \in Applied => pc[d] \in Locked
      /\ pc[d] = "done" => pc[d] \in Locked
  BY DEF Applied, Locked
<1> QED BY <1>1, <1>2 DEF ClientInv

\* A step of client c that publishes nothing keeps the invariant when it
\* keeps c's own part of it and takes no lock that another client holds.
LEMMA QuietStep ==
  ASSUME BalanceInv, TypeInv', NEW c \in Clients, OnlyBy(c),
         UNCHANGED committed, ClientInv(c)',
         \A d \in Clients \ {c} : held'[c] \cap held[d] = {},
         outcome'[c] # "check-violation"
  PROVE  BalanceInv'
<1> USE DEF BalanceInv
<1>1. LocksExclusive'
  BY DEF LocksExclusive, OnlyBy
<1>2. ASSUME NEW d \in Clients PROVE ClientInv(d)'
  <2>1. CASE d = c
    BY <2>1
  <2>2. CASE d # c
    <3>1. \A i \in held[d] : onHand'[i] = onHand[i]
      BY DEF committed
    <3> QED BY <2>2, <3>1, ClientUndisturbed DEF OnlyBy
  <2> QED BY <2>1, <2>2
<1>3. BalanceIsJournalSum' /\ StatusIsCurrent'
  BY DEF BalanceIsJournalSum, StatusIsCurrent, committed
<1>4. CheckNeverFires'
  BY DEF CheckNeverFires, OnlyBy
<1> QED BY <1>1, <1>2, <1>3, <1>4

\* The end of a transaction leaves client c with nothing.
LEMMA EndEmpties ==
  ASSUME TypeInv, NEW c \in Clients, NEW result, End(c, result)
  PROVE  /\ OnlyBy(c)
         /\ held'[c] = {} /\ outcome'[c] = result
         /\ ClientInv(c)'
<1>1. OnlyBy(c) /\ held'[c] = {} /\ outcome'[c] = result
  BY DEF TypeInv, TypeOK, End, OnlyBy
<1>2. /\ pc'[c] = "idle" /\ rows'[c] = Empty(NoRow)
      /\ newHand'[c] = Empty(Unset) /\ newBasis'[c] = Empty(Unset)
  BY DEF TypeInv, TypeOK, End
<1>3. ClientInv(c)'
  BY <1>2 DEF ClientInv, Locked, Written, Applied, Empty
<1> QED BY <1>1, <1>3

LEMMA RollbackBalance ==
  ASSUME BalanceInv, TypeInv', NEW c \in Clients, NEW result,
         result # "check-violation", Rollback(c, result)
  PROVE  BalanceInv'
<1>1. End(c, result) /\ UNCHANGED committed
  BY DEF Rollback
<1>2. OnlyBy(c) /\ held'[c] = {} /\ outcome'[c] = result /\ ClientInv(c)'
  BY <1>1, EndEmpties DEF BalanceInv
<1> QED BY <1>1, <1>2, QuietStep

\* Moving on without writing anything, before the lock is taken.
LEMMA GotoBalance ==
  ASSUME BalanceInv, TypeInv', NEW c \in Clients, NEW statement,
         pc[c] \notin Locked, statement \notin Locked, Goto(c, statement),
         UNCHANGED <<committed, req, workspace, outcome>>
  PROVE  BalanceInv'
<1>1. OnlyBy(c)
  BY DEF BalanceInv, TypeInv, TypeOK, Goto, OnlyBy, workspace
<1>2. pc'[c] = statement
  BY DEF BalanceInv, TypeInv, TypeOK, Goto
<1>3. ClientInv(c)'
  BY <1>2 DEF BalanceInv, ClientInv, Locked, Written, Applied, committed,
              workspace
<1>4. \A d \in Clients \ {c} : held'[c] \cap held[d] = {}
  BY DEF BalanceInv, LocksExclusive, workspace
<1>5. outcome'[c] # "check-violation"
  BY DEF BalanceInv, CheckNeverFires
<1> QED BY <1>1, <1>3, <1>4, <1>5, QuietStep

\* The balance row is locked when nobody else holds it, and the check made
\* under the lock is what ClientInv remembers.
LEMMA LockKeepsBalance ==
  ASSUME BalanceInv, TypeInv', NEW c \in Clients, LockBalance(c)
  PROVE  BalanceInv'
<1> DEFINE i == req[c].item
           m == req[c].row
<1>1. pc[c] = "lock" /\ BalanceFree(c, i)
  BY DEF LockBalance
<1>2. req[c] \in Request /\ i \in Items /\ m.qty \in Int
  BY <1>1, RequestParts DEF BalanceInv, TypeInv, BusyHaveRequests
<1>3. CASE Rollback(c, "insufficient")
  BY <1>3, RollbackBalance
<1>4. CASE /\ Hand(c, i) + m.qty >= 0
           /\ held' = [held EXCEPT ![c] = @ \cup {i}]
           /\ Goto(c, "insert")
           /\ UNCHANGED <<committed, req, rows, newHand, newBasis, outcome>>
  <2> USE DEF BalanceInv, TypeInv, TypeOK
  <2>1. OnlyBy(c)
    BY <1>4 DEF Goto, OnlyBy
  <2>2. newHand[c][i] = Unset
    BY <1>1, <1>2 DEF ClientInv, Applied
  <2>3. onHand[i] + m.qty >= 0
    BY <1>4, <2>2 DEF Hand
  <2>4. pc'[c] = "insert" /\ held'[c] = held[c] \cup {i} /\ req' = req
        /\ onHand' = onHand
    BY <1>4 DEF Goto, committed
  <2>5. ClientInv(c)'
    BY <1>1, <1>4, <2>3, <2>4 DEF ClientInv, Locked, Written, Applied
  <2>6. \A d \in Clients \ {c} : held'[c] \cap held[d] = {}
    BY <1>1, <2>4 DEF LocksExclusive, BalanceFree
  <2>7. outcome'[c] # "check-violation"
    BY <1>4 DEF CheckNeverFires
  <2> HIDE DEF BalanceInv, TypeInv, TypeOK
  <2> QED BY <1>4, <2>1, <2>5, <2>6, <2>7, QuietStep
<1> QED BY <1>3, <1>4 DEF LockBalance

LEMMA InsertKeepsBalance ==
  ASSUME BalanceInv, TypeInv', NEW c \in Clients, InsertMovement(c)
  PROVE  BalanceInv'
<1> DEFINE i == req[c].item
           m == req[c].row
<1>1. pc[c] = "insert"
  BY DEF InsertMovement
<1>2. req[c] \in Request /\ i \in Items
  BY <1>1, RequestParts DEF BalanceInv, TypeInv, BusyHaveRequests
<1>3. CASE Rollback(c, "duplicate-key") \/ Rollback(c, "already-reversed")
  BY <1>3, RollbackBalance
<1>4. CASE /\ rows' = [rows EXCEPT ![c][i] = m]
           /\ Goto(c, "apply")
           /\ UNCHANGED <<committed, req, held, newHand, newBasis, outcome>>
  <2> USE DEF BalanceInv, TypeInv, TypeOK
  <2>1. OnlyBy(c)
    BY <1>4 DEF Goto, OnlyBy
  <2>2. /\ pc'[c] = "apply" /\ req' = req /\ onHand' = onHand
        /\ held' = held /\ newHand' = newHand /\ newBasis' = newBasis
        /\ \A k \in Items : rows'[c][k] = IF k = i THEN m ELSE rows[c][k]
    BY <1>2, <1>4 DEF Goto, committed
  <2>3. ClientInv(c)'
    BY <1>1, <2>2 DEF ClientInv, Locked, Written, Applied
  <2>4. \A d \in Clients \ {c} : held'[c] \cap held[d] = {}
    BY <2>2 DEF LocksExclusive
  <2>5. outcome'[c] # "check-violation"
    BY <1>4 DEF CheckNeverFires
  <2> HIDE DEF BalanceInv, TypeInv, TypeOK
  <2> QED BY <1>4, <2>1, <2>3, <2>4, <2>5, QuietStep
<1> QED BY <1>3, <1>4 DEF InsertMovement

\* The CHECK cannot fire: the balance is still the one that was checked.
LEMMA ApplyKeepsBalance ==
  ASSUME BalanceInv, TypeInv', NEW c \in Clients, ApplyMovement(c)
  PROVE  BalanceInv'
<1> DEFINE i == req[c].item
           m == req[c].row
<1> USE DEF BalanceInv, TypeInv, TypeOK
<1>1. pc[c] = "apply"
  BY DEF ApplyMovement
<1>2. req[c] \in Request /\ i \in Items /\ m.qty \in Int
  BY <1>1, RequestParts DEF BusyHaveRequests
<1>3. newHand[c][i] = Unset /\ Hand(c, i) = onHand[i]
  BY <1>1, <1>2 DEF ClientInv, Applied, Hand
<1>4. onHand[i] + m.qty >= 0 /\ i \in held[c]
  BY <1>1 DEF ClientInv, Locked
<1>5. /\ held'    = [held EXCEPT ![c] = @ \cup {i}]
      /\ newHand' = [newHand EXCEPT ![c][i] = onHand[i] + m.qty]
      /\ Goto(c, "status")
      /\ UNCHANGED <<committed, req, rows, newBasis, outcome>>
  <2>1. onHand[i] \in Int /\ ~ (Hand(c, i) + m.qty < 0)
    BY <1>2, <1>3, <1>4
  <2> QED BY <1>3, <2>1 DEF ApplyMovement
<1>6. OnlyBy(c)
  BY <1>5 DEF Goto, OnlyBy
<1>7. /\ pc'[c] = "status" /\ req' = req /\ onHand' = onHand
      /\ held' = held /\ rows' = rows /\ newBasis' = newBasis
      /\ \A k \in Items : newHand'[c][k] =
            IF k = i THEN onHand[i] + m.qty ELSE newHand[c][k]
  BY <1>2, <1>4, <1>5 DEF Goto, committed
<1>8. ClientInv(c)'
  BY <1>1, <1>7 DEF ClientInv, Locked, Written, Applied
<1>9. \A d \in Clients \ {c} : held'[c] \cap held[d] = {}
  BY <1>7 DEF LocksExclusive
<1>10. outcome'[c] # "check-violation"
  BY <1>5 DEF CheckNeverFires
<1> HIDE DEF BalanceInv, TypeInv, TypeOK
<1> QED BY <1>5, <1>6, <1>8, <1>9, <1>10, QuietStep

LEMMA RecalculateKeepsBalance ==
  ASSUME BalanceInv, TypeInv', NEW c \in Clients, Recalculate(c)
  PROVE  BalanceInv'
<1> DEFINE i == req[c].item
           m == req[c].row
<1> USE DEF BalanceInv, TypeInv, TypeOK
<1>1. pc[c] = "status"
  BY DEF Recalculate
<1>2. req[c] \in Request /\ i \in Items /\ m.qty \in Int
  BY <1>1, RequestParts DEF BusyHaveRequests
<1>3. newHand[c][i] = onHand[i] + m.qty /\ newHand[c][i] # Unset
  BY <1>1, <1>2 DEF ClientInv, Applied
<1>4. Hand(c, i) = onHand[i] + m.qty
  BY <1>3 DEF Hand
<1>5. OnlyBy(c)
  BY DEF Recalculate, Goto, OnlyBy
<1>6. /\ pc'[c] = "done" /\ req' = req /\ onHand' = onHand
      /\ held' = held /\ rows' = rows /\ newHand' = newHand
      /\ \A k \in Items : newBasis'[c][k] =
            IF k = i THEN onHand[i] + m.qty ELSE newBasis[c][k]
  BY <1>2, <1>4 DEF Recalculate, Goto, committed
<1>7. ClientInv(c)'
  BY <1>1, <1>6 DEF ClientInv, Locked, Written, Applied
<1>8. \A d \in Clients \ {c} : held'[c] \cap held[d] = {}
  BY <1>6 DEF LocksExclusive
<1>9. outcome'[c] # "check-violation" /\ UNCHANGED committed
  BY DEF Recalculate, CheckNeverFires
<1> HIDE DEF BalanceInv, TypeInv, TypeOK
<1> QED BY <1>5, <1>7, <1>8, <1>9, QuietStep

\* A commit publishes one movement and the balance it leads to.
LEMMA CommitPublishes ==
  ASSUME BalanceInv, NEW c \in Clients, Commit(c)
  PROVE  LET i == req[c].item
             m == req[c].row
         IN
         /\ i \in held[c] /\ i \in Items /\ m \in Movement /\ m # NoRow
         /\ m.qty \in Int
         /\ \A k \in Items :
              /\ rows[c][k]  = IF k = i THEN m ELSE NoRow
              /\ journal'[k] = IF k = i THEN Append(journal[k], m)
                                        ELSE journal[k]
              /\ onHand'[k]  = IF k = i THEN onHand[k] + m.qty ELSE onHand[k]
              /\ basis'[k]   = IF k = i THEN onHand[k] + m.qty ELSE basis[k]
<1> DEFINE i == req[c].item
           m == req[c].row
<1> USE DEF BalanceInv
<1>1. pc[c] = "done" /\ Publish(c)
  BY DEF Commit
<1>2. i \in Items /\ m \in Movement /\ m.qty \in Int
  BY <1>1, RequestParts DEF TypeInv, BusyHaveRequests
<1>3. m # NoRow
  BY <1>2, NoRowAssumption DEF Movement
<1>4. i \in held[c] /\ onHand[i] + m.qty \in Int /\ onHand[i] \in Int
  BY <1>1, <1>2 DEF ClientInv, Locked, TypeInv, TypeOK
<1>5. ASSUME NEW k \in Items
      PROVE  /\ rows[c][k] = IF k = i THEN m ELSE NoRow
             /\ newHand[c][k]  = IF k = i THEN onHand[i] + m.qty ELSE Unset
             /\ newBasis[c][k] = IF k = i THEN onHand[i] + m.qty ELSE Unset
  BY <1>1 DEF ClientInv, Written, Applied
<1>6. ASSUME NEW k \in Items
      PROVE  /\ journal'[k] = IF k = i THEN Append(journal[k], m) ELSE journal[k]
             /\ onHand'[k]  = IF k = i THEN onHand[k] + m.qty ELSE onHand[k]
             /\ basis'[k]   = IF k = i THEN onHand[k] + m.qty ELSE basis[k]
  BY <1>1, <1>3, <1>4, <1>5 DEF Publish, Extended, Merged
<1> QED BY <1>2, <1>3, <1>4, <1>5, <1>6

LEMMA CommitKeepsBalance ==
  ASSUME BalanceInv, TypeInv', NEW c \in Clients, Commit(c)
  PROVE  BalanceInv'
<1> DEFINE i == req[c].item
           m == req[c].row
<1> USE DEF BalanceInv
<1>1. PICK result \in {"created", "lost"} : End(c, result)
  BY DEF Commit
<1>2. i \in held[c] /\ i \in Items /\ m \in Movement
  BY CommitPublishes
<1>3. ASSUME NEW k \in Items
      PROVE  /\ journal'[k] = IF k = i THEN Append(journal[k], m) ELSE journal[k]
             /\ onHand'[k]  = IF k = i THEN onHand[k] + m.qty ELSE onHand[k]
             /\ basis'[k]   = IF k = i THEN onHand[k] + m.qty ELSE basis[k]
  BY CommitPublishes
<1>4. /\ OnlyBy(c) /\ held'[c] = {} /\ outcome'[c] = result /\ ClientInv(c)'
  BY <1>1, EndEmpties
<1>5. LocksExclusive'
  BY <1>4 DEF LocksExclusive, OnlyBy
<1>6. ASSUME NEW d \in Clients PROVE ClientInv(d)'
  <2>1. CASE d = c
    BY <1>4, <2>1
  <2>2. CASE d # c
    <3>1. \A k \in held[d] : onHand'[k] = onHand[k]
      BY <1>2, <1>3, <2>2 DEF LocksExclusive, TypeInv, TypeOK
    <3> QED BY <1>4, <2>2, <3>1, ClientUndisturbed DEF OnlyBy
  <2> QED BY <2>1, <2>2
<1>7. BalanceIsJournalSum'
  <2>1. ASSUME NEW k \in Items PROVE onHand'[k] = JournalTotal(journal'[k])
    <3>1. journal[k] \in Seq(Movement)
      BY DEF TypeInv, TypeOK
    <3>2. onHand[k] = JournalTotal(journal[k])
      BY DEF BalanceIsJournalSum
    <3> QED BY <1>2, <1>3, <3>1, <3>2, AppendTotal
  <2> QED BY <2>1 DEF BalanceIsJournalSum
<1>8. StatusIsCurrent'
  <2>1. \A k \in Items : basis'[k] = onHand'[k]
    BY <1>3 DEF StatusIsCurrent
  <2>2. /\ basis'  = [k \in Items |-> basis'[k]]
        /\ onHand' = [k \in Items |-> onHand'[k]]
    BY DEF TypeInv, TypeOK
  <2> QED BY <2>1, <2>2 DEF StatusIsCurrent
<1>9. CheckNeverFires'
  BY <1>4 DEF CheckNeverFires, OnlyBy
<1> QED BY <1>5, <1>6, <1>7, <1>8, <1>9

LEMMA BeginKeepsBalance ==
  ASSUME BalanceInv, TypeInv', NEW c \in Clients, NEW r,
         NEW statement \in {"key", "reversal"}, Begin(c, r, statement)
  PROVE  BalanceInv'
<1> USE DEF BalanceInv, TypeInv, TypeOK
<1>1. OnlyBy(c)
  BY DEF Begin, Goto, OnlyBy, workspace
<1>2. /\ pc[c] = "idle" /\ pc'[c] = statement /\ outcome'[c] = "none"
      /\ UNCHANGED <<committed, workspace>>
  BY DEF Begin, Goto
<1>3. ClientInv(c)'
  BY <1>2 DEF ClientInv, Locked, Written, Applied, committed, workspace
<1>4. \A d \in Clients \ {c} : held'[c] \cap held[d] = {}
  BY <1>2 DEF LocksExclusive, workspace
<1> HIDE DEF BalanceInv, TypeInv, TypeOK
<1> QED BY <1>1, <1>2, <1>3, <1>4, QuietStep

LEMMA StepKeepsBalance ==
  ASSUME BalanceInv, TypeInv', NEW c \in Clients, Step(c)
  PROVE  BalanceInv'
<1>1. CASE CheckKey(c)
  <2>1. CASE Rollback(c, "duplicate")
    BY <2>1, RollbackBalance
  <2>2. CASE /\ pc[c] = "key" /\ Goto(c, "item")
             /\ UNCHANGED <<committed, req, workspace, outcome>>
    BY <2>2, GotoBalance DEF Locked
  <2> QED BY <1>1, <2>1, <2>2 DEF CheckKey
<1>2. CASE ReadItem(c)
  <2>1. CASE Rollback(c, "archived")
    BY <2>1, RollbackBalance
  <2>2. CASE /\ pc[c] = "item" /\ Goto(c, "lock")
             /\ UNCHANGED <<committed, req, workspace, outcome>>
    BY <2>2, GotoBalance DEF Locked
  <2> QED BY <1>2, <2>1, <2>2 DEF ReadItem
<1>3. CASE CheckReversal(c)
  <2>1. CASE Rollback(c, "already-reversed")
    BY <2>1, RollbackBalance
  <2>2. CASE /\ pc[c] = "reversal" /\ Goto(c, "lock")
             /\ UNCHANGED <<committed, req, workspace, outcome>>
    BY <2>2, GotoBalance DEF Locked
  <2> QED BY <1>3, <2>1, <2>2 DEF CheckReversal
<1>4. CASE LockBalance(c)
  BY <1>4, LockKeepsBalance
<1>5. CASE InsertMovement(c)
  BY <1>5, InsertKeepsBalance
<1>6. CASE ApplyMovement(c)
  BY <1>6, ApplyKeepsBalance
<1>7. CASE Recalculate(c)
  BY <1>7, RecalculateKeepsBalance
<1>8. CASE Commit(c)
  BY <1>8, CommitKeepsBalance
<1> QED BY <1>1, <1>2, <1>3, <1>4, <1>5, <1>6, <1>7, <1>8 DEF Step

LEMMA NextKeepsBalance ==
  ASSUME BalanceInv, TypeInv', [Next]_vars
  PROVE  BalanceInv'
<1>1. ASSUME NEW c \in Clients, NEW i \in Items, NEW type \in Kinds,
             NEW n \in 1..MaxQty, NEW k \in Keys, StartRecord(c, i, type, n, k)
      PROVE  BalanceInv'
  BY <1>1, BeginKeepsBalance DEF StartRecord
<1>2. ASSUME NEW c \in Clients, NEW i \in Items, NEW n \in DOMAIN journal[i],
             StartReverse(c, i, n)
      PROVE  BalanceInv'
  BY <1>2, BeginKeepsBalance DEF StartReverse
<1>3. ASSUME NEW c \in Clients, NEW i \in Items, NEW n \in DOMAIN journal[i],
             RefuseReverse(c, i, n)
      PROVE  BalanceInv'
  <2>1. OnlyBy(c)
    BY <1>3 DEF RefuseReverse, OnlyBy, BalanceInv, TypeInv, TypeOK, workspace
  <2>2. ClientInv(c)'
    BY <1>3 DEF RefuseReverse, BalanceInv, ClientInv, committed, workspace
  <2>3. \A d \in Clients \ {c} : held'[c] \cap held[d] = {}
    BY <1>3 DEF RefuseReverse, BalanceInv, LocksExclusive, workspace
  <2>4. outcome'[c] # "check-violation" /\ UNCHANGED committed
    BY <1>3 DEF RefuseReverse, BalanceInv, TypeInv, TypeOK
  <2> QED BY <2>1, <2>2, <2>3, <2>4, QuietStep
<1>4. ASSUME NEW c \in Clients, Step(c) PROVE BalanceInv'
  BY <1>4, StepKeepsBalance
<1>5. ASSUME NEW c \in Clients, Abort(c) PROVE BalanceInv'
  BY <1>5, RollbackBalance DEF Abort
<1>6. ASSUME UNCHANGED <<committed, pc, req, workspace, outcome>>
      PROVE  BalanceInv'
  BY <1>6 DEF committed, workspace, BalanceInv, LocksExclusive, ClientInv,
              BalanceIsJournalSum, StatusIsCurrent, CheckNeverFires
<1>7. ASSUME NEW i \in Items, ArchiveItem(i) PROVE BalanceInv'
  BY <1>6, <1>7 DEF ArchiveItem
<1>8. CASE UNCHANGED vars
  BY <1>6, <1>8 DEF vars
<1> QED BY <1>1, <1>2, <1>3, <1>4, <1>5, <1>7, <1>8 DEF Next

LEMMA InitBalance ==
  ASSUME Init, TypeInv
  PROVE  BalanceInv
<1>1. LocksExclusive /\ \A c \in Clients : ClientInv(c)
  BY DEF Init, LocksExclusive, ClientInv, Locked, Written, Applied, Empty
<1>2. BalanceIsJournalSum
  BY EmptyTotal DEF Init, BalanceIsJournalSum, Empty
<1>3. StatusIsCurrent /\ CheckNeverFires
  BY DEF Init, StatusIsCurrent, CheckNeverFires, Empty
<1> QED BY <1>1, <1>2, <1>3 DEF BalanceInv

LEMMA BalanceInvariant == Spec => []BalanceInv
<1>1. Init /\ TypeInv => BalanceInv
  BY InitBalance
<1>2. BalanceInv /\ TypeInv' /\ [Next]_vars => BalanceInv'
  BY NextKeepsBalance
<1> QED BY <1>1, <1>2, TypeInvariant, PTL DEF Spec

\* FR-17: the balance of every item is the sum of its journal (the UPDATE of
\* ApplyMovementToBalance and the INSERT of the movement are one transaction).
THEOREM BalanceCorrect == Spec => []BalanceIsJournalSum
<1>1. BalanceInv => BalanceIsJournalSum
  BY DEF BalanceInv
<1> QED BY <1>1, BalanceInvariant, PTL

\* FR-8: no request reaches CHECK (on_hand >= 0) with a balance it would drive
\* below zero; the check under SELECT ... FOR UPDATE suffices.
THEOREM CheckNeverNeeded == Spec => []CheckNeverFires
<1>1. BalanceInv => CheckNeverFires
  BY DEF BalanceInv
<1> QED BY <1>1, BalanceInvariant, PTL

\* Section 10.2: the committed status of every item is the one computed from
\* its committed balance.
THEOREM StatusCorrect == Spec => []StatusIsCurrent
<1>1. BalanceInv => StatusIsCurrent
  BY DEF BalanceInv
<1> QED BY <1>1, BalanceInvariant, PTL

-----------------------------------------------------------------------------
(* What the answers are worth.                                              *)

\* What client c may conclude when its request is answered in this step.
Truthful(c) ==
  LET i == req[c].item
      m == req[c].row
  IN
  /\ Answers(c, "created") => journal'[i] = Append(journal[i], m)
  /\ (Answers(c, "duplicate") \/ Answers(c, "duplicate-key")) =>
        KeyUsed(journal', m.key)
  /\ Answers(c, "already-reversed") =>
        IsReversed(journal'[i], m.reverses)
  /\ Answers(c, "insufficient") => onHand'[i] + m.qty < 0

\* Nobody is lied to who is not answered, or answered nothing.
LEMMA SilenceIsTruthful ==
  ASSUME NEW c \in Clients,
         \/ outcome'[c] = outcome[c]
         \/ outcome'[c] \in {"none", "archived", "cannot-reverse",
                             "check-violation", "lost"}
  PROVE  Truthful(c)
  BY DEF Truthful, Answers

\* A step that answers client c only is truthful when it is so to c.
LEMMA OthersAreTold ==
  ASSUME NEW c \in Clients, OnlyBy(c), Truthful(c)
  PROVE  \A d \in Clients : Truthful(d)
  BY SilenceIsTruthful DEF OnlyBy

\* The reasons a request may be refused for.
Reason(c, result) ==
  \/ result \in {"archived", "check-violation", "lost"}
  \/ /\ result \in {"duplicate", "duplicate-key"}
     /\ KeyUsed(journal, req[c].row.key)
  \/ /\ result = "already-reversed"
     /\ IsReversed(journal[req[c].item], req[c].row.reverses)
  \/ /\ result = "insufficient"
     /\ onHand[req[c].item] + req[c].row.qty < 0

\* A refusal is truthful when its reason is.
LEMMA RefusalIsTruthful ==
  ASSUME BalanceInv, NEW c \in Clients, NEW result, Rollback(c, result),
         Reason(c, result)
  PROVE  \A d \in Clients : Truthful(d)
<1>1. OnlyBy(c) /\ outcome'[c] = result
  BY EndEmpties DEF Rollback, BalanceInv
<1>2. journal' = journal /\ onHand' = onHand
  BY DEF Rollback, committed
<1>3. result \in {"duplicate", "duplicate-key"} =>
        KeyUsed(journal', req[c].row.key)
  BY <1>2 DEF KeyUsed, Reason
<1>4. Truthful(c)
  BY <1>1, <1>2, <1>3 DEF Truthful, Answers, Reason
<1> QED BY <1>1, <1>4, OthersAreTold

LEMMA StepIsTruthful ==
  ASSUME BalanceInv, NEW c \in Clients, Step(c)
  PROVE  \A d \in Clients : Truthful(d)
<1>1. ASSUME outcome' = outcome PROVE \A d \in Clients : Truthful(d)
  BY <1>1, SilenceIsTruthful
<1>2. CASE CheckKey(c)
  <2>1. ASSUME Rollback(c, "duplicate"), Reason(c, "duplicate")
        PROVE  \A d \in Clients : Truthful(d)
    BY <2>1, RefusalIsTruthful
  <2> QED BY <1>1, <1>2, <2>1 DEF CheckKey, Reason
<1>3. CASE ReadItem(c)
  <2>1. ASSUME Rollback(c, "archived"), Reason(c, "archived")
        PROVE  \A d \in Clients : Truthful(d)
    BY <2>1, RefusalIsTruthful
  <2> QED BY <1>1, <1>3, <2>1 DEF ReadItem, Reason
<1>4. CASE CheckReversal(c)
  <2>1. ASSUME Rollback(c, "already-reversed"), Reason(c, "already-reversed")
        PROVE  \A d \in Clients : Truthful(d)
    BY <2>1, RefusalIsTruthful
  <2> QED BY <1>1, <1>4, <2>1 DEF CheckReversal, Reason
<1>5. CASE LockBalance(c)
  <2> DEFINE i == req[c].item
             m == req[c].row
  <2>1. pc[c] = "lock" /\ req[c] \in Request
    BY <1>5 DEF LockBalance, BalanceInv, TypeInv, BusyHaveRequests
  <2>2. i \in Items
    BY <2>1, RequestParts
  <2>3. newHand[c][i] = Unset
    BY <2>1, <2>2 DEF BalanceInv, ClientInv, Applied
  <2>4. Hand(c, i) = onHand[i]
    BY <2>3 DEF Hand
  <2>5. ASSUME Rollback(c, "insufficient"), Reason(c, "insufficient")
        PROVE  \A d \in Clients : Truthful(d)
    BY <2>5, RefusalIsTruthful
  <2> QED BY <1>1, <1>5, <2>4, <2>5 DEF LockBalance, Reason
<1>6. CASE InsertMovement(c)
  <2>1. ASSUME Rollback(c, "duplicate-key"), Reason(c, "duplicate-key")
        PROVE  \A d \in Clients : Truthful(d)
    BY <2>1, RefusalIsTruthful
  <2>2. ASSUME Rollback(c, "already-reversed"), Reason(c, "already-reversed")
        PROVE  \A d \in Clients : Truthful(d)
    BY <2>2, RefusalIsTruthful
  <2> QED BY <1>1, <1>6, <2>1, <2>2 DEF InsertMovement, Reason
<1>7. CASE ApplyMovement(c)
  <2>1. ASSUME Rollback(c, "check-violation"), Reason(c, "check-violation")
        PROVE  \A d \in Clients : Truthful(d)
    BY <2>1, RefusalIsTruthful
  <2> QED BY <1>1, <1>7, <2>1 DEF ApplyMovement, Reason
<1>8. CASE Recalculate(c)
  BY <1>1, <1>8 DEF Recalculate
<1>9. CASE Commit(c)
  <2>1. PICK result \in {"created", "lost"} : End(c, result)
    BY <1>9 DEF Commit
  <2>2. OnlyBy(c) /\ outcome'[c] = result
    BY <2>1, EndEmpties DEF BalanceInv
  <2>3. journal'[req[c].item] = Append(journal[req[c].item], req[c].row)
    BY <1>9, CommitPublishes
  <2>4. Truthful(c)
    BY <2>2, <2>3 DEF Truthful, Answers
  <2> QED BY <2>2, <2>4, OthersAreTold
<1> QED BY <1>2, <1>3, <1>4, <1>5, <1>6, <1>7, <1>8, <1>9 DEF Step

\* FR-8, FR-9, FR-10: whatever the service answers - created, a repeated key,
\* reversed already, not enough stock - is true of the tables in the step that
\* answers it (Record and Reverse in service.go, and their error mapping).
THEOREM AnswersAreTruthful == Spec => RepliesAreTruthful
<1>1. ASSUME BalanceInv, [Next]_vars
      PROVE  \A d \in Clients : Truthful(d)
  <2>1. ASSUME outcome' = outcome PROVE \A d \in Clients : Truthful(d)
    BY <2>1, SilenceIsTruthful
  <2>2. ASSUME NEW c \in Clients, NEW r, NEW statement, Begin(c, r, statement)
        PROVE  \A d \in Clients : Truthful(d)
    BY <1>1, <2>2, SilenceIsTruthful
       DEF Begin, BalanceInv, TypeInv, TypeOK
  <2>3. ASSUME NEW c \in Clients, NEW i \in Items, NEW n \in DOMAIN journal[i],
               RefuseReverse(c, i, n)
        PROVE  \A d \in Clients : Truthful(d)
    BY <1>1, <2>3, SilenceIsTruthful
       DEF RefuseReverse, BalanceInv, TypeInv, TypeOK
  <2>4. ASSUME NEW c \in Clients, NEW i \in Items, NEW type \in Kinds,
               NEW n \in 1..MaxQty, NEW k \in Keys, StartRecord(c, i, type, n, k)
        PROVE  \A d \in Clients : Truthful(d)
    BY <2>2, <2>4 DEF StartRecord
  <2>5. ASSUME NEW c \in Clients, NEW i \in Items, NEW n \in DOMAIN journal[i],
               StartReverse(c, i, n)
        PROVE  \A d \in Clients : Truthful(d)
    BY <2>2, <2>5 DEF StartReverse
  <2>6. ASSUME NEW c \in Clients, Step(c) PROVE \A d \in Clients : Truthful(d)
    BY <1>1, <2>6, StepIsTruthful
  <2>7. ASSUME NEW c \in Clients, Abort(c) PROVE \A d \in Clients : Truthful(d)
    BY <1>1, <2>7, RefusalIsTruthful DEF Abort, Reason
  <2>8. ASSUME NEW i \in Items, ArchiveItem(i)
        PROVE  \A d \in Clients : Truthful(d)
    BY <2>1, <2>8 DEF ArchiveItem
  <2>9. CASE UNCHANGED vars
    BY <2>1, <2>9 DEF vars
  <2> QED BY <1>1, <2>3, <2>4, <2>5, <2>6, <2>7, <2>8, <2>9 DEF Next
<1>2. BalanceInv /\ [Next]_vars =>
        [\A c \in Clients :
           LET i == req[c].item
               m == req[c].row
           IN
           /\ Answers(c, "created") => journal'[i] = Append(journal[i], m)
           /\ (Answers(c, "duplicate") \/ Answers(c, "duplicate-key")) =>
                 KeyUsed(journal', m.key)
           /\ Answers(c, "already-reversed") =>
                 IsReversed(journal'[i], m.reverses)
           /\ Answers(c, "insufficient") => onHand'[i] + m.qty < 0]_vars
  BY <1>1 DEF Truthful
<1> QED BY <1>2, BalanceInvariant, PTL DEF Spec, RepliesAreTruthful

-----------------------------------------------------------------------------
(* The transactions implement the ledger.                                   *)

\* A request to reverse names a movement it may lawfully cancel, if nobody has
\* cancelled it yet.
ReversesLawfully(c) ==
  LET m == req[c].row
      s == journal[req[c].item]
  IN
  m.reverses # 0 =>
    /\ m.reverses \in DOMAIN s
    /\ s[m.reverses].type # "reversal"
    /\ m.qty = - s[m.reverses].qty
    /\ m.by \in Owners \/ m.by = s[m.reverses].by

\* A movement inserted and not yet committed repeats neither the key nor the
\* reversal of a committed movement, nor of another one under way.
InsertIsFresh(c) ==
  LET m == req[c].row IN
  /\ m.key # NoKey => ~ KeyUsed(journal, m.key)
  /\ m.reverses # 0 => ~ IsReversed(journal[req[c].item], m.reverses)

LedgerInv ==
  /\ \A c \in Clients : pc[c] # "idle" => ReversesLawfully(c)
  /\ \A c \in Clients : pc[c] \in Written => InsertIsFresh(c)
  /\ \A c, d \in Clients :
       (c # d /\ pc[c] \in Written /\ pc[d] \in Written) =>
          ~ Clash(req[c].item, req[c].row, req[d].item, req[d].row)

\* Two requests' movements clash in both directions or in neither.
LEMMA ClashSymmetric ==
  ASSUME NEW i, NEW j, NEW m \in Movement, NEW r \in Movement,
         ~ Clash(i, m, j, r)
  PROVE  ~ Clash(j, r, i, m)
  BY NoRowAssumption DEF Clash, Movement

\* A step of client c that publishes nothing keeps the invariant when the part
\* of it that speaks of c still holds.
LEMMA QuietLedger ==
  ASSUME LedgerInv, NEW c \in Clients, OnlyBy(c), UNCHANGED journal,
         pc'[c] # "idle" => ReversesLawfully(c)',
         pc'[c] \in Written =>
           /\ InsertIsFresh(c)'
           /\ \A d \in Clients \ {c} : pc[d] \in Written =>
                /\ ~ Clash(req'[c].item, req'[c].row, req[d].item, req[d].row)
                /\ ~ Clash(req[d].item, req[d].row, req'[c].item, req'[c].row)
  PROVE  LedgerInv'
<1>1. ASSUME NEW d \in Clients, pc'[d] # "idle" PROVE ReversesLawfully(d)'
  BY <1>1 DEF LedgerInv, OnlyBy, ReversesLawfully
<1>2. ASSUME NEW d \in Clients, pc'[d] \in Written PROVE InsertIsFresh(d)'
  BY <1>2 DEF LedgerInv, OnlyBy, InsertIsFresh
<1>3. ASSUME NEW d \in Clients, NEW e \in Clients, d # e,
             pc'[d] \in Written, pc'[e] \in Written
      PROVE  ~ Clash(req'[d].item, req'[d].row, req'[e].item, req'[e].row)
  BY <1>3 DEF LedgerInv, OnlyBy
<1>4. \A d, e \in Clients :
         (d # e /\ pc'[d] \in Written /\ pc'[e] \in Written) =>
            ~ Clash(req[d].item, req[d].row, req[e].item, req[e].row)'
  BY <1>3 DEF Clash
<1> QED BY <1>1, <1>2, <1>4 DEF LedgerInv

LEMMA RollbackLedger ==
  ASSUME BalanceInv, LedgerInv, NEW c \in Clients, NEW result,
         Rollback(c, result)
  PROVE  LedgerInv'
<1>1. OnlyBy(c) /\ pc'[c] = "idle" /\ UNCHANGED journal
  BY EndEmpties DEF Rollback, End, committed, BalanceInv, TypeInv, TypeOK
<1> QED BY <1>1, QuietLedger DEF Written

\* Moving on, when the movement was inserted before or is not inserted yet.
LEMMA GotoLedger ==
  ASSUME BalanceInv, LedgerInv, NEW c \in Clients, NEW statement,
         pc[c] # "idle", Goto(c, statement), OnlyBy(c),
         statement \in Written => pc[c] \in Written,
         UNCHANGED <<committed, req>>
  PROVE  LedgerInv'
<1>1. pc'[c] = statement /\ req' = req /\ journal' = journal
  BY DEF BalanceInv, TypeInv, TypeOK, Goto, committed
<1>2. ReversesLawfully(c)'
  BY <1>1 DEF LedgerInv, ReversesLawfully
<1>3. pc'[c] \in Written => InsertIsFresh(c)'
  BY <1>1 DEF LedgerInv, InsertIsFresh
<1>4. ASSUME pc'[c] \in Written, NEW d \in Clients \ {c}, pc[d] \in Written
      PROVE  /\ ~ Clash(req'[c].item, req'[c].row, req[d].item, req[d].row)
             /\ ~ Clash(req[d].item, req[d].row, req'[c].item, req'[c].row)
  BY <1>1, <1>4 DEF LedgerInv
<1> QED BY <1>1, <1>2, <1>3, <1>4, QuietLedger

\* The unique indexes: an insert succeeds only when no committed and no
\* pending movement has its key or reverses the same movement.
LEMMA InsertLedger ==
  ASSUME BalanceInv, LedgerInv, NEW c \in Clients, InsertMovement(c)
  PROVE  LedgerInv'
<1> DEFINE i == req[c].item
           m == req[c].row
<1>1. pc[c] = "insert" /\ i \in Items /\ m \in Movement
  BY RequestParts DEF InsertMovement, BalanceInv, TypeInv, BusyHaveRequests
<1>2. CASE Rollback(c, "duplicate-key") \/ Rollback(c, "already-reversed")
  BY <1>2, RollbackLedger
<1>3. CASE /\ m.key = NoKey \/ ~ KeyUsed(journal, m.key)
           /\ m.reverses = 0 \/ ~ IsReversed(journal[i], m.reverses)
           /\ rows' = [rows EXCEPT ![c][i] = m]
           /\ Goto(c, "apply")
           /\ UNCHANGED <<committed, req, held, newHand, newBasis, outcome>>
  <2>1. OnlyBy(c)
    BY <1>3 DEF Goto, OnlyBy, BalanceInv, TypeInv, TypeOK
  <2>2. req' = req /\ journal' = journal
    BY <1>3 DEF committed
  <2>3. ReversesLawfully(c)'
    BY <1>1, <2>2 DEF LedgerInv, ReversesLawfully
  <2>4. InsertIsFresh(c)'
    BY <1>3, <2>2 DEF InsertIsFresh
  <2>5. ASSUME NEW d \in Clients \ {c}, pc[d] \in Written
        PROVE  /\ ~ Clash(i, m, req[d].item, req[d].row)
               /\ ~ Clash(req[d].item, req[d].row, i, m)
    <3>1. req[d].item \in Items /\ req[d].row \in Movement
      BY <2>5, RequestParts
         DEF Written, BalanceInv, TypeInv, BusyHaveRequests
    <3>2. rows[d][req[d].item] = req[d].row
      BY <2>5, <3>1 DEF BalanceInv, ClientInv
    <3>3. ~ Clash(i, m, req[d].item, rows[d][req[d].item])
      BY <3>1 DEF InsertMovement
    <3> QED BY <1>1, <3>1, <3>2, <3>3, ClashSymmetric
  <2> QED BY <2>1, <2>2, <2>3, <2>4, <2>5, QuietLedger
<1> QED BY <1>2, <1>3 DEF InsertMovement

LEMMA BeginLedger ==
  ASSUME BalanceInv, LedgerInv, NEW c \in Clients, NEW r,
         NEW statement \in {"key", "reversal"}, Begin(c, r, statement),
         r.row.reverses # 0 =>
           /\ r.row.reverses \in DOMAIN journal[r.item]
           /\ journal[r.item][r.row.reverses].type # "reversal"
           /\ r.row.qty = - journal[r.item][r.row.reverses].qty
           /\ \/ r.row.by \in Owners
              \/ r.row.by = journal[r.item][r.row.reverses].by
  PROVE  LedgerInv'
<1>1. OnlyBy(c)
  BY DEF Begin, Goto, OnlyBy, workspace, BalanceInv, TypeInv, TypeOK
<1>2. req'[c] = r /\ journal' = journal /\ pc'[c] = statement
  BY DEF Begin, Goto, committed, BalanceInv, TypeInv, TypeOK
<1>3. ReversesLawfully(c)'
  BY <1>2 DEF ReversesLawfully
<1> QED BY <1>1, <1>2, <1>3, QuietLedger DEF Written

\* Appending a movement to an item's journal leaves what was there in place.
LEMMA AppendKeeps ==
  ASSUME NEW s \in Seq(Movement), NEW m \in Movement
  PROVE  /\ DOMAIN s = 1..Len(s) /\ Len(s) \in Nat
         /\ DOMAIN Append(s, m) = 1..(Len(s) + 1)
         /\ Len(Append(s, m)) = Len(s) + 1
         /\ \A n \in DOMAIN s : Append(s, m)[n] = s[n]
         /\ Append(s, m)[Len(s) + 1] = m
         /\ Append(s, m) # s
<1>1. Len(s) \in Nat /\ DOMAIN s = 1..Len(s)
  BY LenProperties
<1>2. Append(s, m) \in Seq(Movement) /\ Len(Append(s, m)) = Len(s) + 1
  OBVIOUS
<1>3. DOMAIN Append(s, m) = 1..(Len(s) + 1)
  BY <1>2, LenProperties
<1>4. /\ \A n \in DOMAIN s : Append(s, m)[n] = s[n]
      /\ Append(s, m)[Len(s) + 1] = m
  <2>1. \A n \in 1..Len(s) : Append(s, m)[n] = s[n]
    BY <1>1
  <2>2. Append(s, m)[Len(s) + 1] = m
    BY <1>1
  <2> QED BY <1>1, <2>1, <2>2
<1>5. Append(s, m) # s
  <2>1. \A n \in Nat : n + 1 # n
    OBVIOUS
  <2>2. Len(s) + 1 # Len(s)
    BY <1>1, <2>1, Zenon
  <2> QED BY <1>2, <2>2, Zenon
<1> QED BY <1>1, <1>2, <1>3, <1>4, <1>5

LEMMA CommitLedger ==
  ASSUME BalanceInv, LedgerInv, NEW c \in Clients, Commit(c)
  PROVE  LedgerInv'
<1> DEFINE i == req[c].item
           m == req[c].row
           s == journal[i]
<1>1. /\ i \in Items /\ m \in Movement /\ s \in Seq(Movement)
      /\ \A k \in Items : journal'[k] = IF k = i THEN Append(journal[k], m)
                                                 ELSE journal[k]
  BY CommitPublishes DEF BalanceInv, TypeInv, TypeOK
<1>2. pc[c] = "done" /\ OnlyBy(c) /\ pc'[c] = "idle"
  BY EndEmpties DEF Commit, End, BalanceInv, TypeInv, TypeOK
<1>3. ASSUME NEW d \in Clients, pc'[d] # "idle" PROVE ReversesLawfully(d)'
  <2>1. d # c /\ pc[d] # "idle" /\ req'[d] = req[d]
    BY <1>2, <1>3 DEF OnlyBy
  <2>2. req[d].item \in Items
    BY <2>1, RequestParts DEF BalanceInv, TypeInv, BusyHaveRequests
  <2>3. \A n \in DOMAIN journal[req[d].item] :
           /\ n \in DOMAIN journal'[req[d].item]
           /\ journal'[req[d].item][n] = journal[req[d].item][n]
    <3>1. CASE req[d].item # i
      BY <1>1, <2>2, <3>1
    <3>2. CASE req[d].item = i
      <4>1. journal'[i] = Append(s, m)
        BY <1>1
      <4>2. \A n \in DOMAIN s :
               n \in DOMAIN Append(s, m) /\ Append(s, m)[n] = s[n]
        <5> HIDE DEF s, m
        <5> QED BY <1>1, AppendKeeps
      <4> QED BY <3>2, <4>1, <4>2
    <3> QED BY <3>1, <3>2
  <2> QED BY <2>1, <2>3 DEF LedgerInv, ReversesLawfully
<1>4. ASSUME NEW d \in Clients, pc'[d] \in Written PROVE InsertIsFresh(d)'
  <2> DEFINE r == req[d].row
             j == req[d].item
  <2>1. d # c /\ pc[d] \in Written /\ req'[d] = req[d]
    BY <1>2, <1>4 DEF OnlyBy, Written
  <2>2. ~ Clash(j, r, i, m) /\ m # NoRow
    BY <1>2, <2>1, CommitPublishes DEF LedgerInv, Written
  <2>3. j \in Items /\ InsertIsFresh(d)
    BY <2>1, RequestParts
       DEF LedgerInv, Written, BalanceInv, TypeInv, BusyHaveRequests
  <2>4. ASSUME NEW k \in Items, NEW n \in DOMAIN journal'[k]
        PROVE  \/ n \in DOMAIN journal[k] /\ journal'[k][n] = journal[k][n]
               \/ k = i /\ journal'[k][n] = m
    <3>1. CASE k # i
      BY <1>1, <3>1
    <3>2. CASE k = i
      <4>1. journal'[k] = Append(s, m)
        BY <1>1, <3>2
      <4>2. n \in 1..(Len(s) + 1) /\ Len(s) \in Nat /\ DOMAIN s = 1..Len(s)
        <5>1. n \in DOMAIN Append(s, m)
          BY <2>4, <4>1
        <5> HIDE DEF s, m
        <5> QED BY <1>1, <5>1, AppendKeeps
      <4>3. n \in DOMAIN s \/ n = Len(s) + 1
        BY <4>2
      <4>4. /\ n \in DOMAIN s => Append(s, m)[n] = s[n]
            /\ n = Len(s) + 1 => Append(s, m)[n] = m
        <5> HIDE DEF s, m
        <5> QED BY <1>1, AppendKeeps
      <4> QED BY <3>2, <4>1, <4>3, <4>4
    <3> QED BY <3>1, <3>2
  <2>5. r.key # NoKey => ~ KeyUsed(journal', r.key)
    BY <2>2, <2>3, <2>4 DEF KeyUsed, InsertIsFresh, Clash
  <2>6. r.reverses # 0 => ~ IsReversed(journal'[j], r.reverses)
    BY <2>2, <2>3, <2>4 DEF IsReversed, InsertIsFresh, Clash
  <2> QED BY <2>1, <2>5, <2>6 DEF InsertIsFresh
<1>5. ASSUME NEW d \in Clients, NEW e \in Clients, d # e,
             pc'[d] \in Written, pc'[e] \in Written
      PROVE  ~ Clash(req[d].item, req[d].row, req[e].item, req[e].row)'
  <2>1. d # c /\ e # c
    BY <1>2, <1>5 DEF Written
  <2>2. /\ pc'[d] = pc[d] /\ pc'[e] = pc[e]
        /\ req'[d] = req[d] /\ req'[e] = req[e]
    BY <1>2, <2>1 DEF OnlyBy
  <2> QED BY <1>5, <2>2 DEF LedgerInv, Clash
<1> QED BY <1>3, <1>4, <1>5 DEF LedgerInv

\* A commit is a step of the ledger.
LEMMA CommitPosts ==
  ASSUME BalanceInv, LedgerInv, TypeInv', NEW c \in Clients, Commit(c)
  PROVE  L!Next
<1> DEFINE i == req[c].item
           m == req[c].row
<1>1. /\ i \in Items /\ m \in Movement /\ m # NoRow /\ m.qty \in Int
      /\ \A k \in Items :
           /\ rows[c][k]  = IF k = i THEN m ELSE NoRow
           /\ journal'[k] = IF k = i THEN Append(journal[k], m) ELSE journal[k]
           /\ onHand'[k]  = IF k = i THEN onHand[k] + m.qty ELSE onHand[k]
  BY CommitPublishes
<1>2. journal[i] \in Seq(Movement) /\ pc[c] = "done"
  BY <1>1 DEF Commit, BalanceInv, TypeInv, TypeOK
<1>3. /\ Append(journal[i], m) # journal[i]
      /\ Append(journal[i], m)[Len(Append(journal[i], m))] = m
  BY <1>1, <1>2, AppendKeeps
<1>4. L!Posted = rows[c]
  <2>1. ASSUME NEW k \in Items PROVE L!Posted[k] = rows[c][k]
    BY <1>1, <1>3 DEF L!Posted
  <2>2. rows[c] = [k \in Items |-> rows[c][k]]
    BY DEF BalanceInv, TypeInv, TypeOK
  <2>3. L!Posted = [k \in Items |-> L!Posted[k]]
    BY DEF L!Posted
  <2> QED BY <2>1, <2>2, <2>3
<1>5. InsertIsFresh(c) /\ ReversesLawfully(c)
  BY <1>2 DEF LedgerInv, Written
<1>6. ASSUME NEW k \in Items, rows[c][k] # NoRow
      PROVE  /\ rows[c][k] \in Movement
             /\ rows[c][k].type = "reversal" =>
                  L!LawfulReversal(journal[k], rows[c][k])
  <2>1. k = i /\ rows[c][k] = m
    BY <1>1, <1>6
  <2>2. m.type = "reversal" => m.reverses # 0
    BY <1>1 DEF Movement, SatisfiesChecks
  <2>3. m.type = "reversal" => L!LawfulReversal(journal[i], m)
    BY <1>5, <2>2
       DEF L!LawfulReversal, L!IsReversed, IsReversed, InsertIsFresh,
           ReversesLawfully
  <2> QED BY <1>1, <2>1, <2>3
<1>7. KeysAreFresh(journal, rows[c])
  BY <1>1, <1>5 DEF KeysAreFresh, InsertIsFresh
<1>8. journal' = Extended(journal, rows[c])
  BY DEF Commit, Publish
<1>9. onHand' = [k \in Items |-> IF rows[c][k] = NoRow THEN onHand[k]
                                 ELSE onHand[k] + rows[c][k].qty]
  <2>1. onHand' = [k \in Items |-> onHand'[k]]
    BY DEF TypeInv, TypeOK
  <2>2. ASSUME NEW k \in Items
        PROVE  onHand'[k] = IF rows[c][k] = NoRow THEN onHand[k]
                            ELSE onHand[k] + rows[c][k].qty
    BY <1>1
  <2> QED BY <2>1, <2>2
<1>10. \A k \in Items : onHand'[k] >= 0
  BY DEF TypeInv, TypeOK
<1>11. L!Post(rows[c])
  <2>1. L!Movement = Movement
    BY DEF L!Movement, Movement, L!Row, Row, L!SatisfiesChecks,
           SatisfiesChecks, L!Types, Types, L!Increasing, Increasing,
           L!Decreasing, Decreasing
  <2>2. L!KeysAreFresh(journal, rows[c])
    BY <1>7 DEF L!KeysAreFresh, KeysAreFresh, L!KeyUsed, KeyUsed
  <2>3. journal' = L!Extended(journal, rows[c])
    BY <1>8 DEF L!Extended, Extended
  <2> QED BY <1>6, <1>9, <1>10, <2>1, <2>2, <2>3 DEF L!Post
<1> QED BY <1>4, <1>11 DEF L!Next

\* Every other step leaves the ledger alone.
LEMMA OthersStutter ==
  ASSUME BalanceInv, LedgerInv, TypeInv', [Next]_vars,
         \A c \in Clients : ~ Commit(c)
  PROVE  LedgerInv' /\ UNCHANGED <<journal, onHand>>
<1> USE DEF committed
<1>1. ASSUME NEW c \in Clients, NEW i \in Items, NEW type \in Kinds,
             NEW n \in 1..MaxQty, NEW k \in Keys, StartRecord(c, i, type, n, k)
      PROVE  LedgerInv' /\ UNCHANGED <<journal, onHand>>
  <2>1. LedgerInv'
    BY <1>1, BeginLedger DEF StartRecord
  <2> QED BY <1>1, <2>1 DEF StartRecord, Begin
<1>2. ASSUME NEW c \in Clients, NEW i \in Items, NEW n \in DOMAIN journal[i],
             StartReverse(c, i, n)
      PROVE  LedgerInv' /\ UNCHANGED <<journal, onHand>>
  <2>1. LedgerInv'
    BY <1>2, BeginLedger DEF StartReverse
  <2> QED BY <1>2, <2>1 DEF StartReverse, Begin
<1>3. ASSUME NEW c \in Clients, Step(c)
      PROVE  LedgerInv' /\ UNCHANGED <<journal, onHand>>
  <2>1. CASE CheckKey(c)
    <3>1. CASE Rollback(c, "duplicate")
      BY <3>1, RollbackLedger DEF Rollback
    <3>2. CASE /\ pc[c] = "key" /\ Goto(c, "item")
               /\ UNCHANGED <<committed, req, workspace, outcome>>
      <4>1. OnlyBy(c)
        BY <3>2 DEF Goto, OnlyBy, workspace, BalanceInv, TypeInv, TypeOK
      <4> QED BY <3>2, <4>1, GotoLedger DEF Written
    <3> QED BY <2>1, <3>1, <3>2 DEF CheckKey
  <2>2. CASE ReadItem(c)
    <3>1. CASE Rollback(c, "archived")
      BY <3>1, RollbackLedger DEF Rollback
    <3>2. CASE /\ pc[c] = "item" /\ Goto(c, "lock")
               /\ UNCHANGED <<committed, req, workspace, outcome>>
      <4>1. OnlyBy(c)
        BY <3>2 DEF Goto, OnlyBy, workspace, BalanceInv, TypeInv, TypeOK
      <4> QED BY <3>2, <4>1, GotoLedger DEF Written
    <3> QED BY <2>2, <3>1, <3>2 DEF ReadItem
  <2>3. CASE CheckReversal(c)
    <3>1. CASE Rollback(c, "already-reversed")
      BY <3>1, RollbackLedger DEF Rollback
    <3>2. CASE /\ pc[c] = "reversal" /\ Goto(c, "lock")
               /\ UNCHANGED <<committed, req, workspace, outcome>>
      <4>1. OnlyBy(c)
        BY <3>2 DEF Goto, OnlyBy, workspace, BalanceInv, TypeInv, TypeOK
      <4> QED BY <3>2, <4>1, GotoLedger DEF Written
    <3> QED BY <2>3, <3>1, <3>2 DEF CheckReversal
  <2>4. CASE LockBalance(c)
    <3>1. CASE Rollback(c, "insufficient")
      BY <3>1, RollbackLedger DEF Rollback
    <3>2. CASE /\ pc[c] = "lock" /\ Goto(c, "insert")
               /\ held' = [held EXCEPT ![c] = @ \cup {req[c].item}]
               /\ UNCHANGED <<committed, req, rows, newHand, newBasis, outcome>>
      <4>1. OnlyBy(c)
        BY <3>2 DEF Goto, OnlyBy, BalanceInv, TypeInv, TypeOK
      <4> QED BY <3>2, <4>1, GotoLedger DEF Written
    <3> QED BY <2>4, <3>1, <3>2 DEF LockBalance
  <2>5. CASE InsertMovement(c)
    BY <2>5, InsertLedger DEF InsertMovement, Rollback
  <2>6. CASE ApplyMovement(c)
    <3>1. CASE Rollback(c, "check-violation")
      BY <3>1, RollbackLedger DEF Rollback
    <3>2. CASE /\ pc[c] = "apply" /\ Goto(c, "status")
               /\ UNCHANGED <<committed, req, rows, newBasis, outcome>>
               /\ held' = [held EXCEPT ![c] = @ \cup {req[c].item}]
               /\ newHand' = [newHand EXCEPT ![c][req[c].item] =
                                Hand(c, req[c].item) + req[c].row.qty]
      <4>1. OnlyBy(c)
        BY <3>2 DEF Goto, OnlyBy, BalanceInv, TypeInv, TypeOK
      <4> QED BY <3>2, <4>1, GotoLedger DEF Written
    <3> QED BY <2>6, <3>1, <3>2 DEF ApplyMovement
  <2>7. CASE Recalculate(c)
    <3>1. OnlyBy(c)
      BY <2>7 DEF Recalculate, Goto, OnlyBy, BalanceInv, TypeInv, TypeOK
    <3> QED BY <2>7, <3>1, GotoLedger DEF Recalculate, Written
  <2> QED BY <1>3, <2>1, <2>2, <2>3, <2>4, <2>5, <2>6, <2>7 DEF Step
<1>4. ASSUME NEW c \in Clients, Abort(c)
      PROVE  LedgerInv' /\ UNCHANGED <<journal, onHand>>
  BY <1>4, RollbackLedger DEF Abort, Rollback
<1>5. ASSUME UNCHANGED <<committed, pc, req>>
      PROVE  LedgerInv' /\ UNCHANGED <<journal, onHand>>
  BY <1>5 DEF LedgerInv, ReversesLawfully, InsertIsFresh, KeyUsed, IsReversed,
              Clash
<1>6. ASSUME NEW c \in Clients, NEW i \in Items, NEW n \in DOMAIN journal[i],
             RefuseReverse(c, i, n)
      PROVE  LedgerInv' /\ UNCHANGED <<journal, onHand>>
  BY <1>5, <1>6 DEF RefuseReverse
<1>7. ASSUME NEW i \in Items, ArchiveItem(i)
      PROVE  LedgerInv' /\ UNCHANGED <<journal, onHand>>
  BY <1>5, <1>7 DEF ArchiveItem
<1>8. CASE UNCHANGED vars
  BY <1>5, <1>8 DEF vars
<1> QED BY <1>1, <1>2, <1>3, <1>4, <1>6, <1>7, <1>8 DEF Next

\* The transactions implement the ledger: no interleaving, refusal or abort
\* shows through as anything but a batch of lawful movements, each key used
\* once and each movement cancelled once, with the balance moving with it.
THEOREM ImplementsLedger == Spec => RefinesLedger
<1>1. Init => L!Init
  BY DEF Init, L!Init, Empty
<1>2. Init => LedgerInv
  BY DEF Init, LedgerInv, Written
<1>3. ASSUME BalanceInv, LedgerInv, TypeInv', [Next]_vars
      PROVE  LedgerInv' /\ [L!Next]_(L!vars)
  <2>1. CASE \E c \in Clients : Commit(c)
    BY <1>3, <2>1, CommitLedger, CommitPosts
  <2>2. CASE \A c \in Clients : ~ Commit(c)
    BY <1>3, <2>2, OthersStutter DEF L!vars
  <2> QED BY <2>1, <2>2
<1> QED BY <1>1, <1>2, <1>3, TypeInvariant, BalanceInvariant, PTL
        DEF Spec, RefinesLedger, L!Spec

=============================================================================
