--------------------------- MODULE Replenishment ---------------------------
(***************************************************************************)
(* The arithmetic of replenishment (window.go, reorder.go): when an order  *)
(* would be delivered, whether the stock lasts until the delivery after    *)
(* it, and how much to order.                                              *)
(*                                                                         *)
(* A day is a number, day 0 a Monday; a quantity a number of its smallest  *)
(* unit.  A decision's input is a record: today, window, onHand, incoming  *)
(* (the quantity expected on each day), forecast (a quantity for each day  *)
(* it covers), model, consumedToday, sigma, level, manualMin, minOrder and *)
(* pack.                                                                   *)
(***************************************************************************)
EXTENDS Integers, FiniteSetsExt

CONSTANT NoDay  \* the day of a shortage that is not in sight

ASSUME NoDayAssumption == NoDay \notin Int

LOCAL Larger(a, b) == IF a < b THEN b ELSE a

(* The sum of a function over the days from a to b; zero outside its domain. *)
SumOf(f, a, b) ==
  LET sum[d \in a - 1 .. b] ==
        IF d < a THEN 0 ELSE sum[d - 1] + IF d \in DOMAIN f THEN f[d] ELSE 0
  IN  IF b < a THEN 0 ELSE sum[b]

(* A day of the week, Monday = 1. *)
Weekday(day) == 1 + (day % 7)

Weekdays == 1 .. 7

ClampZero(q) == Larger(0, q)

(* Rounding up to a multiple of the supplier's pack, if it has one. *)
CeilTo(q, step) ==
  IF step <= 0 THEN q ELSE step * ((q + step - 1) \div step)

(* The first day of delivery not before the order's day plus the lead time. *)
DeliveryDate(orderDay, s) ==
  LET earliest == orderDay + ClampZero(s.lead)
      suits(d) == Weekday(d) \in s.weekdays
  IN  IF s.weekdays \cap Weekdays = {} THEN earliest
      ELSE CHOOSE d \in earliest .. earliest + 6 :
             suits(d) /\ \A e \in earliest .. d - 1 : ~suits(e)

(* d1: the delivery of an order placed now, the next day's if the cutoff has *)
(* passed; d2: that of the order placed a day later.                         *)
ComputeWindow(today, afterCutoff, s) ==
  LET orderDay == IF afterCutoff THEN today + 1 ELSE today
  IN  [d1 |-> DeliveryDate(orderDay, s), d2 |-> DeliveryDate(orderDay + 1, s)]

CanWait(w) == w.d1 = w.d2

(* The forecast of a day; zero outside the days it covers. *)
On(forecast, day) == IF day \in DOMAIN forecast THEN forecast[day] ELSE 0

IncomingBefore(incoming, day) ==
  MapThenSumSet(LAMBDA d : incoming[d], {d \in DOMAIN incoming : d < day})

NeedToday(in) == ClampZero(On(in.forecast, in.today) - in.consumedToday)

(* What is on hand at the end of a day if the forecast comes true: a delivery *)
(* overdue today is expected on no day to come.                              *)
Projected(in, day) ==
  in.onHand - NeedToday(in)
    + SumOf(in.incoming, in.today, day) - SumOf(in.forecast, in.today + 1, day)

(* The first day on which the forecast cannot be met. *)
ProjectStockout(in) ==
  LET short == {d \in DOMAIN in.forecast :
                  d >= in.today /\ Projected(in, d) < 0}
  IN  IF short = {} THEN NoDay ELSE Min(short)

(* z by level of service, in hundredths. *)
ZFactor(level) == CASE level = 90 -> 128 [] level = 99 -> 233 [] OTHER -> 165

(* z * sigma * sqrt(n), the root rounded up. *)
SafetyStock(in) ==
  LET n == ClampZero(in.window.d2 - in.today)
      root == CHOOSE r \in 0 .. n : r * r >= n /\ \A q \in 0 .. r - 1 : q * q < n
  IN  (ZFactor(in.level) * in.sigma * root) \div 100

(* A plausible mistake: the need until d1, as if an order placed tomorrow were too late. *)
NeedUntilD1(in) ==
  NeedToday(in) + SumOf(in.forecast, in.today + 1, in.window.d1 - 1)

(* The forecast until the day before d2, what is left of today's included. *)
NeedUntilD2(in) ==
  NeedToday(in) + SumOf(in.forecast, in.today + 1, in.window.d2 - 1)

TargetLevel(in) ==
  IF in.model = "M0" THEN in.manualMin ELSE NeedUntilD2(in) + SafetyStock(in)

(* A plausible mistake: orders arriving on d1 are not counted. *)
OnOrderUntilD1(in) == IncomingBefore(in.incoming, in.window.d1)

OnOrder(in) == IncomingBefore(in.incoming, in.window.d2)

Position(in) == in.onHand + OnOrder(in)

Shortfall(in) == TargetLevel(in) - Position(in)

RecommendedQty(in) ==
  IF Shortfall(in) > 0
  THEN CeilTo(Larger(Shortfall(in), in.minOrder), in.pack)
  ELSE 0

Classify(in) ==
  LET stockout == ProjectStockout(in)
  IN  IF in.onHand <= 0 THEN "out_of_stock"
      ELSE IF stockout # NoDay /\ stockout < in.window.d1 THEN "critical"
      ELSE IF Shortfall(in) > 0 /\ ~CanWait(in.window) THEN "order_today"
      ELSE "ok"

DecideManual(in) ==
  IF in.onHand <= 0 THEN "out_of_stock"
  ELSE IF in.manualMin > 0 /\ Shortfall(in) > 0 THEN "order_today"
  ELSE "no_forecast"

Decide(in) ==
  [ status |-> IF in.model = "M0" THEN DecideManual(in) ELSE Classify(in),
    recommended |-> RecommendedQty(in) ]

(* What is listed under «order today». *)
Suggested(decision) ==
  /\ decision.status \in {"order_today", "critical", "out_of_stock"}
  /\ decision.recommended > 0

=============================================================================
