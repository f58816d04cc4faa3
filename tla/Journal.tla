------------------------------ MODULE Journal ------------------------------
(***************************************************************************)
(* The movement journal of one organisation (table stock_movements).       *)
(*                                                                         *)
(* journal[i] is the sequence of committed movements of item i, in the     *)
(* order their transactions committed; a movement is named by its item and *)
(* its position.  The journal is append-only: UPDATE and DELETE are        *)
(* revoked from the application's database role.                           *)
(*                                                                         *)
(* Quantities are whole numbers here; the code keeps three decimals        *)
(* (numeric(14,3)), which is the same arithmetic in thousandths.           *)
(***************************************************************************)
EXTENDS Integers, Sequences

CONSTANTS
  Items,    \* catalogue items of the organisation
  Clients,  \* signed-in users, each sending one request at a time
  Keys,     \* values of the Idempotency-Key header
  NoKey,    \* NULL in idempotency_key
  Docs,     \* documents a movement may refer to (count_id, order_id)
  NoDoc,    \* NULL in both references
  NoRow     \* no movement

Increasing == {"opening", "receipt"}
Decreasing == {"usage", "writeoff"}
Types == Increasing \cup Decreasing \cup {"adjustment", "reversal"}

\* The CHECKs stock_movements_sign, stock_movements_reversal_link and qty <> 0.
SatisfiesChecks(m) ==
  /\ m.qty # 0
  /\ m.type \in Increasing => m.qty > 0
  /\ m.type \in Decreasing => m.qty < 0
  /\ (m.type = "reversal") <=> (m.reverses # 0)

\* A row of the journal. "reverses" is the position, in the same item's
\* journal, of the movement this one cancels; 0 stands for NULL.
Row == [type : Types, qty : Int, key : Keys \cup {NoKey},
        reverses : Nat, by : Clients, doc : Docs \cup {NoDoc}]

Movement == {m \in Row : SatisfiesChecks(m)}

ASSUME NoRowAssumption == NoRow \notin Row
ASSUME NoKeyAssumption == NoKey \notin Keys

-----------------------------------------------------------------------------

\* Running totals of a sequence of movements: the n-th one sums the first n.
RunningTotals(s) ==
  LET total[n \in 0..Len(s)] == IF n = 0 THEN 0 ELSE total[n - 1] + s[n].qty
  IN  total

\* What SumMovementsByItem adds up for one item.
JournalTotal(s) == RunningTotals(s)[Len(s)]

\* A movement of any item of j carries idempotency key k.
KeyUsed(j, k) == \E i \in Items : \E n \in DOMAIN j[i] : j[i][n].key = k

\* Some movement of s cancels its n-th movement.
IsReversed(s, n) == \E m \in DOMAIN s : s[m].reverses = n

\* Keys of a batch of rows, at most one per item, are new and distinct: the
\* unique index stock_movements_idempotency_idx.
KeysAreFresh(j, rows) ==
  \A i \in Items :
    (rows[i] # NoRow /\ rows[i].key # NoKey) =>
       /\ ~ KeyUsed(j, rows[i].key)
       /\ \A k \in Items \ {i} : rows[k] # NoRow => rows[k].key # rows[i].key

\* The journal after a batch of rows is appended.
Extended(j, rows) ==
  [i \in Items |-> IF rows[i] = NoRow THEN j[i] ELSE Append(j[i], rows[i])]

=============================================================================
