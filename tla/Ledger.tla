------------------------------- MODULE Ledger -------------------------------
(***************************************************************************)
(* What the stock module promises to the rest of the system, with no       *)
(* transactions, locks or retries in sight: a journal of immutable         *)
(* movements and, for every item, a balance that moves with it.            *)
(*                                                                         *)
(* One step posts one batch: at most one movement per item, all of them    *)
(* or none.  A recorded movement and a reversal are batches of one; a      *)
(* posted stock count is a batch of adjustments.                           *)
(***************************************************************************)
EXTENDS Journal

CONSTANT Owners   \* the clients who may cancel a movement of somebody else

VARIABLES
  journal,  \* committed movements of each item
  onHand    \* stock_balances.on_hand of each item

vars == <<journal, onHand>>

Init == /\ journal = [i \in Items |-> <<>>]
        /\ onHand  = [i \in Items |-> 0]

\* A reversal cancels, exactly and only once, a movement that is not itself a
\* reversal; staff may cancel only what they recorded.
LawfulReversal(s, m) ==
  /\ m.reverses \in DOMAIN s
  /\ s[m.reverses].type # "reversal"
  /\ m.qty = - s[m.reverses].qty
  /\ ~ IsReversed(s, m.reverses)
  /\ m.by \in Owners \/ m.by = s[m.reverses].by

Post(rows) ==
  /\ \A i \in Items : rows[i] # NoRow =>
       /\ rows[i] \in Movement
       /\ rows[i].type = "reversal" => LawfulReversal(journal[i], rows[i])
  /\ KeysAreFresh(journal, rows)
  /\ journal' = Extended(journal, rows)
  /\ onHand' = [i \in Items |-> IF rows[i] = NoRow THEN onHand[i]
                                 ELSE onHand[i] + rows[i].qty]
  /\ \A i \in Items : onHand'[i] >= 0

\* The batch a step posts can be read off the step: the row each longer
\* journal ends with.
Posted == [i \in Items |-> IF journal'[i] = journal[i] THEN NoRow
                            ELSE journal'[i][Len(journal'[i])]]

Next == Post(Posted)

Spec == Init /\ [][Next]_vars

=============================================================================
