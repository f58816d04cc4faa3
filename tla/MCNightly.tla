----------------------------- MODULE MCNightly -----------------------------
(* Small instances of Nightly and of Autopilot for TLC, one scenario of a    *)
(* behaviour: the recomputation next to a movement of two items, two of them *)
(* next to movements of one item, the reconciliation next to two movements,  *)
(* or the days of an item whose orders follow the nights' advice.            *)
EXTENDS Nightly, MCAutopilot

CONSTANTS m1, m2

VARIABLE scenario

MCvars == <<nightlyVars, autopilotVars, scenario>>

MCBatches == {<<1>>, <<2, 1>>}

(* What an item starts with where no scenario is about it. *)
Dormant ==
  /\ weekday = 0 /\ onHand = 0 /\ consumed = 0 /\ ~ late
  /\ item = CHOOSE kind \in ItemKinds : kind.model = "M1"

(* What m moves, if it moves something, is among these items. *)
Moves(m, items) == Open(m)' => tx'[m].todo \in {items, <<>>}

MCInit ==
  /\ NightlyInit /\ AutopilotInit
  /\ scenario \in {"night", "nights", "check", "days"}
  /\ scenario # "days" => Dormant

MCNext ==
  /\ UNCHANGED scenario
  /\ \/ /\ scenario = "night"
        /\ MoverNext(m1) \/ (NightNext /\ nights' <= 1)
        /\ UNCHANGED autopilotVars
     \/ /\ scenario = "nights"
        /\ \/ MoverNext(m1) /\ Moves(m1, <<1>>)
           \/ NightNext
        /\ UNCHANGED autopilotVars
     \/ /\ scenario = "check"
        /\ (\E m \in Movers : MoverNext(m)) \/ Reconcile
        /\ UNCHANGED autopilotVars
     \/ /\ scenario = "days"
        /\ AutopilotNext
        /\ UNCHANGED nightlyVars

MCSpec == MCInit /\ [][MCNext]_MCvars /\ NightlyFairness

=============================================================================
