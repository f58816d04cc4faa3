----------------------------- MODULE Autopilot -----------------------------
(***************************************************************************)
(* An item whose orders follow the advice: the sandbox with its autopilot  *)
(* on (sandbox/advance.go).  Each virtual day receives what has come,      *)
(* consumes what the day asks for, recomputes forecast and status, and     *)
(* sends an order for what is suggested.                                   *)
(*                                                                         *)
(* Days are counted from today, and the calendar by the day of the week:   *)
(* the behaviour has no end.  Demand is anything up to the forecast.       *)
(***************************************************************************)
EXTENDS Replenishment

CONSTANTS
  Suppliers,  \* terms of delivery an item may be bought on
  Usage,      \* the most a day of the week asks for
  Packs,      \* multiples an item is delivered in
  MinOrders,  \* least orders
  Sigmas,     \* errors of the forecast
  Minima,     \* manual minima of items without a forecast
  MaxStart,    \* bound: quantity on hand at the start
  Horizon     \* days a forecast covers

(* Every supplier delivers the next day at the earliest, and the days until *)
(* the delivery after the next are within the forecast.                     *)
ASSUME AutopilotAssumption ==
  /\ Usage \in [Weekdays -> Nat]
  /\ Packs \subseteq Nat /\ MinOrders \subseteq Nat /\ Sigmas \subseteq Nat
  /\ Minima \subseteq Nat /\ MaxStart \in Nat /\ Horizon \in Nat
  /\ Suppliers \subseteq [lead : Int, weekdays : SUBSET Int]
  /\ \A s \in Suppliers :
       /\ s.lead >= 1
       /\ \A day \in 0 .. 6 : DeliveryDate(day + 2, s) <= day + Horizon

VARIABLES
  weekday,  \* today, from 0, a Monday
  onHand,   \* quantity on hand
  coming,   \* quantity of the orders sent, by the days until they are expected
  item,     \* supplier, pack, least order, sigma, model and manual minimum
  late,     \* the virtual hour is past the supplier's cutoff
  consumed, \* used today
  advice,   \* the decision of the day, or its absence before it is made
  lasting,  \* the stock at the start lasts until the first delivery, orders
            \* come in full and the hour has not moved past the cutoff
  short     \* a day asked for more than there was

autopilotVars ==
  <<weekday, onHand, coming, item, late, consumed, advice, lasting, short>>

(* The input of the decision: the forecast of the night starts today. *)
InputOf(day, hand, orders, it, hour, used) ==
  [ today |-> day, window |-> ComputeWindow(day, hour, it.supplier),
    onHand |-> hand, incoming |-> [d \in {day + a : a \in DOMAIN orders} |-> orders[d - day]],
    forecast |-> [d \in day .. day + Horizon - 1 |-> Usage[Weekday(d)]],
    model |-> it.model, consumedToday |-> used, sigma |-> it.sigma, level |-> 95,
    manualMin |-> it.manualMin, minOrder |-> it.minOrder, pack |-> it.pack ]

Input == InputOf(weekday, onHand, coming, item, late, consumed)

Undecided == [status |-> "unknown", recommended |-> 0]

ItemKinds ==
  [supplier : Suppliers, pack : Packs, minOrder : MinOrders, sigma : Sigmas,
   model : {"M1"}, manualMin : {0}]
    \cup [supplier : Suppliers, pack : Packs, minOrder : MinOrders, sigma : {0},
          model : {"M0"}, manualMin : Minima]

LastsUntilDelivery(in) ==
  /\ in.model # "M0"
  /\ \/ ProjectStockout(in) = NoDay
     \/ ProjectStockout(in) >= in.window.d1

(* The end of a day, before its decision. *)
AutopilotInit ==
  /\ weekday \in 0 .. 6 /\ onHand \in 0 .. MaxStart
  /\ coming = [a \in {} |-> 0]
  /\ item \in ItemKinds
  /\ late \in BOOLEAN
  /\ consumed \in {0, Usage[Weekday(weekday)]}
  /\ advice = Undecided
  /\ lasting = LastsUntilDelivery(Input)
  /\ short = FALSE

(* A virtual day begins and what is due is received: in full, or, one time *)
(* in ten, short.  The hour of the visitor's clock is the hour of the day.  *)
ShiftClock ==
  /\ advice # Undecided
  /\ \E hour \in BOOLEAN, missing \in {0, 1} :
       LET due == On(coming, 0) + On(coming, 1)
       IN  /\ missing > 0 => due > 0
           /\ weekday' = (weekday + 1) % 7
           /\ onHand' = onHand + due - missing
           /\ coming' = [a \in {n - 1 : n \in DOMAIN coming \ {0, 1}} |-> coming[a + 1]]
           /\ late' = hour
           /\ lasting' = (lasting /\ missing = 0 /\ (hour => late))
  /\ consumed' = -1
  /\ advice' = Undecided
  /\ UNCHANGED <<item, short>>

(* What the day asks for, or what there is of it. *)
ConsumeDay ==
  /\ consumed = -1
  /\ \E wanted \in 0 .. Usage[Weekday(weekday)] :
       /\ consumed' = Min({wanted, onHand})
       /\ onHand' = onHand - consumed'
       /\ short' = (short \/ wanted > onHand)
  /\ UNCHANGED <<weekday, coming, item, late, advice, lasting>>

(* The night's status, and the order for what it suggests, expected on d1. *)
AutoOrder ==
  /\ consumed >= 0 /\ advice = Undecided
  /\ advice' = Decide(Input)
  /\ LET ahead == Input.window.d1 - weekday
     IN  coming' = IF Suggested(advice')
                   THEN [a \in DOMAIN coming \cup {ahead} |->
                           On(coming, a) + IF a = ahead THEN advice'.recommended ELSE 0]
                   ELSE coming
  /\ UNCHANGED <<weekday, onHand, item, late, consumed, lasting, short>>

AutopilotNext == ShiftClock \/ ConsumeDay \/ AutoOrder

AutopilotSpec == AutopilotInit /\ [][AutopilotNext]_autopilotVars

-----------------------------------------------------------------------------

(* Stock that lasts until the first delivery never runs out when the advice *)
(* is followed every day, demand does not exceed the forecast and orders    *)
(* come in full and in time (reorder.go, Decide): what does not arrive      *)
(* before d2 is not needed before d2.                                       *)
AdvicePreventsShortage == lasting => ~short

(* Nor does it pile up: an item advised in yellow, by its forecast, is short  *)
(* of its target with all that is on its way counted, and the order leaves   *)
(* it at most a pack and a least order above (reorder.go, Decide).         *)
AdviceIsModest ==
  [][ (advice' # Undecided /\ advice'.status = "order_today" /\ item.model # "M0") =>
        LET held == onHand + SumOf(coming, 0, Horizon)
        IN  /\ held < TargetLevel(Input)
            /\ held + advice'.recommended <=
                 TargetLevel(Input) + item.minOrder + item.pack ]_autopilotVars

(* «While an order is on its way, the system does not advise ordering the    *)
(* same a second time» (docs/acceptance.md): nothing is suggested that the  *)
(* orders arriving until d1 already cover.                                  *)
AdviceCountsWhatIsComing ==
  [][ (advice' # Undecided /\ Suggested(advice')) =>
        TargetLevel(Input) > onHand + IncomingBefore(Input.incoming, Input.window.d1 + 1) ]_autopilotVars

=============================================================================
