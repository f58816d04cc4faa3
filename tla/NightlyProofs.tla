---------------------------- MODULE NightlyProofs ----------------------------
(***************************************************************************)
(* Proofs about the night and its advice.  First the arithmetic of         *)
(* Replenishment, for every supplier, quantity and day; then Autopilot, an *)
(* item whose orders follow the advice, for every calendar and usage and   *)
(* for ever; then Nightly, for any number of items, transactions and       *)
(* nights: what the recomputation, the movements and the reconciliation    *)
(* may read of each other's work without harm.                             *)
(***************************************************************************)
EXTENDS Nightly, Autopilot, SumTheorems, SequenceTheorems

\* A supplier's terms: the days are numbers of a week or not, and the lead may
\* be anything (a negative one counts as none).
Terms == [lead : Int, weekdays : SUBSET Int]

\* A multiple of the step, the least that is not below the quantity.
LEMMA CeilToPositive ==
  ASSUME NEW q \in Int, NEW step \in Int, step > 0
  PROVE  /\ CeilTo(q, step) \in Int
         /\ q <= CeilTo(q, step)
         /\ CeilTo(q, step) < q + step
         /\ CeilTo(q, step) = step * ((q + step - 1) \div step)
<1> DEFINE n == (q + step - 1) \div step
<1>1. n \in Int /\ step * n <= q + step - 1 /\ q + step - 1 < step * n + step
  BY SMT
<1>2. CeilTo(q, step) = step * n
  BY DEF CeilTo
<1>3. step * n \in Int
  BY <1>1
<1> HIDE DEF n
<1> QED BY <1>1, <1>2, <1>3 DEF n

\* With no step a quantity is left as it is.
LEMMA CeilToNone ==
  ASSUME NEW q \in Int, NEW step \in Int, step <= 0
  PROVE  CeilTo(q, step) = q
  BY DEF CeilTo

\* Among seven days in a row there is one for each day of the week.
LEMMA EveryWeekday ==
  ASSUME NEW earliest \in Int, NEW w \in Weekdays
  PROVE  \E d \in earliest .. earliest + 6 : Weekday(d) = w
<1>1. CASE Weekday(earliest) <= w
  <2>1. Weekday(earliest + (w - Weekday(earliest))) = w
    BY <1>1 DEF Weekday, Weekdays
  <2>2. earliest + (w - Weekday(earliest)) \in earliest .. earliest + 6
    BY <1>1 DEF Weekday, Weekdays
  <2> QED BY <2>1, <2>2
<1>2. CASE Weekday(earliest) > w
  <2>1. Weekday(earliest + (w + 7 - Weekday(earliest))) = w
    BY <1>2 DEF Weekday, Weekdays
  <2>2. earliest + (w + 7 - Weekday(earliest)) \in earliest .. earliest + 6
    BY <1>2 DEF Weekday, Weekdays
  <2> QED BY <2>1, <2>2
<1> QED BY <1>1, <1>2 DEF Weekday, Weekdays

\* Seven days in a row that hold a day of a kind hold a first one.
LEMMA FirstOfSeven ==
  ASSUME NEW a \in Int, NEW Suits, \E d \in a .. a + 6 : d \in Suits
  PROVE  \E d \in a .. a + 6 : d \in Suits /\ \A e \in a .. d - 1 : e \notin Suits
<1>1. CASE a \in Suits
  BY <1>1
<1>2. CASE a \notin Suits /\ a + 1 \in Suits
  BY <1>2
<1>3. CASE a \notin Suits /\ a + 1 \notin Suits /\ a + 2 \in Suits
  BY <1>3
<1>4. CASE a \notin Suits /\ a + 1 \notin Suits /\ a + 2 \notin Suits /\ a + 3 \in Suits
  BY <1>4
<1>5. CASE /\ a \notin Suits /\ a + 1 \notin Suits /\ a + 2 \notin Suits
           /\ a + 3 \notin Suits /\ a + 4 \in Suits
  BY <1>5
<1>6. CASE /\ a \notin Suits /\ a + 1 \notin Suits /\ a + 2 \notin Suits
           /\ a + 3 \notin Suits /\ a + 4 \notin Suits /\ a + 5 \in Suits
  BY <1>6
<1>7. CASE /\ a \notin Suits /\ a + 1 \notin Suits /\ a + 2 \notin Suits
           /\ a + 3 \notin Suits /\ a + 4 \notin Suits /\ a + 5 \notin Suits
           /\ a + 6 \in Suits
  BY <1>7
<1> QED BY <1>1, <1>2, <1>3, <1>4, <1>5, <1>6, <1>7

\* The date of delivery is the first day suited, once the lead time is over.
LEMMA DeliveryDateIsFirst ==
  ASSUME NEW placed \in Int, NEW s \in Terms
  PROVE  LET earliest == placed + ClampZero(s.lead) IN
         /\ DeliveryDate(placed, s) \in earliest .. earliest + 6
         /\ s.weekdays \cap Weekdays = {} => DeliveryDate(placed, s) = earliest
         /\ s.weekdays \cap Weekdays # {} =>
              /\ Weekday(DeliveryDate(placed, s)) \in s.weekdays
              /\ \A e \in earliest .. DeliveryDate(placed, s) - 1 :
                   Weekday(e) \notin s.weekdays
<1> DEFINE earliest == placed + ClampZero(s.lead)
           Suits == {d \in earliest .. earliest + 6 : Weekday(d) \in s.weekdays}
           First(d) == /\ Weekday(d) \in s.weekdays
                       /\ \A e \in earliest .. d - 1 : Weekday(e) \notin s.weekdays
<1>1. earliest \in Int
  BY DEF ClampZero, Terms
<1>2. CASE s.weekdays \cap Weekdays = {}
  <2>1. DeliveryDate(placed, s) = earliest
    BY <1>2 DEF DeliveryDate
  <2> QED BY <1>1, <1>2, <2>1
<1>3. CASE s.weekdays \cap Weekdays # {}
  <2>1. DeliveryDate(placed, s) = CHOOSE d \in earliest .. earliest + 6 : First(d)
    BY <1>3 DEF DeliveryDate
  <2>2. PICK w \in Weekdays : w \in s.weekdays
    BY <1>3
  <2> HIDE DEF earliest
  <2>3. \E d \in earliest .. earliest + 6 : Weekday(d) = w
    BY <1>1, EveryWeekday
  <2>4. \E d \in earliest .. earliest + 6 : d \in Suits
    BY <2>2, <2>3
  <2> HIDE DEF Suits
  <2>5. \E d \in earliest .. earliest + 6 :
          d \in Suits /\ \A e \in earliest .. d - 1 : e \notin Suits
    BY <1>1, <2>4, FirstOfSeven
  <2>6. \E d \in earliest .. earliest + 6 : First(d)
    BY <1>1, <2>5 DEF Suits
  <2> HIDE DEF First
  <2>7. /\ DeliveryDate(placed, s) \in earliest .. earliest + 6
        /\ First(DeliveryDate(placed, s))
    BY <2>1, <2>6
  <2> QED BY <1>3, <2>7 DEF First, earliest
<1> QED BY <1>2, <1>3

\* An order placed later is not delivered earlier: the second delivery of the
\* window is never before the first, and a missed cutoff gives what an order of
\* tomorrow gives (replenishment/window.go, ComputeWindow).
THEOREM DeliveriesKeepOrder ==
  ASSUME NEW a \in Int, NEW b \in Int, a <= b, NEW s \in Terms
  PROVE  DeliveryDate(a, s) <= DeliveryDate(b, s)
<1> DEFINE lead == ClampZero(s.lead)
<1>1. lead \in Int
  BY DEF ClampZero, Terms
<1>2. /\ DeliveryDate(a, s) \in a + lead .. a + lead + 6
      /\ DeliveryDate(b, s) \in b + lead .. b + lead + 6
  BY DeliveryDateIsFirst
<1> HIDE DEF lead
<1>3. CASE s.weekdays \cap Weekdays = {}
  BY <1>1, <1>3, DeliveryDateIsFirst DEF lead
<1>4. CASE s.weekdays \cap Weekdays # {}
  <2> SUFFICES ASSUME DeliveryDate(b, s) < DeliveryDate(a, s) PROVE FALSE
    BY <1>1, <1>2
  <2>1. Weekday(DeliveryDate(b, s)) \in s.weekdays
    BY <1>4, DeliveryDateIsFirst
  <2>2. DeliveryDate(b, s) \in a + lead .. DeliveryDate(a, s) - 1
    BY <1>1, <1>2
  <2>3. Weekday(DeliveryDate(b, s)) \notin s.weekdays
    BY <1>4, <2>2, DeliveryDateIsFirst DEF lead
  <2> QED BY <2>1, <2>3
<1> QED BY <1>3, <1>4

\* The two deliveries of a window: neither is in the past or within the lead
\* time, they come in order, the second within eight days of the earliest
\* possible first, and the cutoff moves a window on by one order day
\* (replenishment/window.go, ComputeWindow).
THEOREM WindowIsOrdered ==
  ASSUME NEW today \in Int, NEW s \in Terms, NEW hour \in BOOLEAN
  PROVE  LET w == ComputeWindow(today, hour, s) IN
         /\ w.d1 \in Int /\ w.d2 \in Int
         /\ today + ClampZero(s.lead) <= w.d1
         /\ w.d1 <= w.d2
         /\ w.d2 <= today + ClampZero(s.lead) + 8
         /\ ComputeWindow(today, TRUE, s).d1 = ComputeWindow(today, FALSE, s).d2
<1> DEFINE from == IF hour THEN today + 1 ELSE today
<1>1. ClampZero(s.lead) \in Int
  BY DEF ClampZero, Terms
<1>2. from \in Int /\ today <= from /\ from <= today + 1
  OBVIOUS
<1>3. /\ ComputeWindow(today, hour, s).d1 = DeliveryDate(from, s)
      /\ ComputeWindow(today, hour, s).d2 = DeliveryDate(from + 1, s)
  BY DEF ComputeWindow
<1> HIDE DEF from
<1>4. /\ DeliveryDate(from, s) \in from + ClampZero(s.lead) .. from + ClampZero(s.lead) + 6
      /\ DeliveryDate(from + 1, s) \in
           from + 1 + ClampZero(s.lead) .. from + 1 + ClampZero(s.lead) + 6
  <2>1. DeliveryDate(from, s) \in from + ClampZero(s.lead) .. from + ClampZero(s.lead) + 6
    BY <1>2, DeliveryDateIsFirst
  <2>2. \A placed \in Int :
          DeliveryDate(placed, s) \in placed + ClampZero(s.lead) .. placed + ClampZero(s.lead) + 6
    BY DeliveryDateIsFirst
  <2>3. from + 1 \in Int
    BY <1>2
  <2> QED BY <2>1, <2>2, <2>3
<1>5. DeliveryDate(from, s) <= DeliveryDate(from + 1, s)
  BY <1>2, DeliveriesKeepOrder
<1>6. ComputeWindow(today, TRUE, s).d1 = ComputeWindow(today, FALSE, s).d2
  <2>1. ComputeWindow(today, TRUE, s).d1 = DeliveryDate(today + 1, s)
    BY DEF ComputeWindow
  <2>2. ComputeWindow(today, FALSE, s).d2 = DeliveryDate(today + 1, s)
    BY DEF ComputeWindow
  <2> QED BY <2>1, <2>2
<1> DEFINE w == ComputeWindow(today, hour, s)
           lead == ClampZero(s.lead)
<1>7. /\ lead \in Int
      /\ w.d1 \in from + lead .. from + lead + 6
      /\ w.d2 \in from + 1 + lead .. from + 1 + lead + 6
      /\ w.d1 <= w.d2
  BY <1>1, <1>3, <1>4, <1>5
<1> HIDE DEF w, lead
<1>8. /\ w.d1 \in Int /\ w.d2 \in Int
      /\ today + lead <= w.d1 /\ w.d1 <= w.d2 /\ w.d2 <= today + lead + 8
  BY <1>2, <1>7
<1> QED BY <1>6, <1>8 DEF w, lead

\* What is recommended makes up for the whole shortfall, in whole packs and no
\* less than the least order, and goes beyond it by less than a pack and a
\* least order (replenishment/reorder.go, Decide).
THEOREM RecommendationIsSufficient ==
  ASSUME NEW in, TargetLevel(in) \in Int, Position(in) \in Int,
         in.minOrder \in Nat, in.pack \in Nat, Shortfall(in) > 0
  PROVE  /\ Position(in) + RecommendedQty(in) >= TargetLevel(in)
         /\ Position(in) + RecommendedQty(in) <= TargetLevel(in) + in.minOrder + in.pack
         /\ RecommendedQty(in) >= in.minOrder
         /\ in.pack > 0 => \E packs \in Int : RecommendedQty(in) = in.pack * packs
<1> DEFINE lack == TargetLevel(in) - Position(in)
           asked == IF lack < in.minOrder THEN in.minOrder ELSE lack
<1>1. /\ lack \in Int /\ lack > 0 /\ lack = Shortfall(in)
      /\ asked \in Int /\ lack <= asked /\ in.minOrder <= asked
      /\ asked <= lack + in.minOrder
  BY DEF Shortfall
<1>2. RecommendedQty(in) = CeilTo(asked, in.pack)
  BY <1>1 DEF RecommendedQty, Shortfall
<1> HIDE DEF asked
<1>3. CASE in.pack = 0
  <2>1. RecommendedQty(in) = asked
    BY <1>1, <1>2, <1>3, CeilToNone
  <2> QED BY <1>1, <1>3, <2>1
<1>4. CASE in.pack > 0
  <2>0. in.pack \in Int /\ asked \in Int
    BY <1>1
  <2>1. /\ RecommendedQty(in) \in Int
        /\ asked <= RecommendedQty(in)
        /\ RecommendedQty(in) < asked + in.pack
        /\ RecommendedQty(in) = in.pack * ((asked + in.pack - 1) \div in.pack)
    BY <1>2, <1>4, <2>0, CeilToPositive, Zenon
  <2>2. (asked + in.pack - 1) \div in.pack \in Int
    BY <1>1, <1>4
  <2>3. /\ Position(in) + RecommendedQty(in) >= TargetLevel(in)
        /\ Position(in) + RecommendedQty(in) <= TargetLevel(in) + in.minOrder + in.pack
        /\ RecommendedQty(in) >= in.minOrder
    BY <1>1, <1>4, <2>1
  <2> QED BY <2>1, <2>2, <2>3
<1> QED BY <1>3, <1>4

-----------------------------------------------------------------------------
(* Sums over days.                                                          *)

\* t has the sums of f from day a up to each day until b.
Adds(t, f, a, b) ==
  t = [d \in a - 1 .. b |-> IF d < a THEN 0
                            ELSE t[d - 1] + IF d \in DOMAIN f THEN f[d] ELSE 0]

LEMMA AddsStep ==
  ASSUME NEW t, NEW f, NEW a \in Int, NEW b \in Int, Adds(t, f, a, b), NEW d \in a - 1 .. b
  PROVE  t[d] = IF d < a THEN 0 ELSE t[d - 1] + On(f, d)
  BY DEF Adds, On

\* Every function can be summed over any days.
LEMMA DaysAreSummed ==
  ASSUME NEW f, NEW a \in Int, NEW n \in Nat
  PROVE  \E t : Adds(t, f, a, a - 1 + n)
<1> DEFINE T == {k \in Nat : \E t : Adds(t, f, a, a - 1 + k)}
           val(g, d) == IF d < a THEN 0
                        ELSE g[d - 1] + IF d \in DOMAIN f THEN f[d] ELSE 0
<1>1. 0 \in T
  <2> DEFINE t == [d \in a - 1 .. a - 1 + 0 |-> 0]
  <2>1. \A d \in a - 1 .. a - 1 + 0 : d < a
    OBVIOUS
  <2>2. Adds(t, f, a, a - 1 + 0)
    BY <2>1 DEF Adds
  <2> QED BY <2>2
<1>2. ASSUME NEW k \in Nat, k \in T PROVE k + 1 \in T
  <2>1. PICK t : Adds(t, f, a, a - 1 + k)
    BY <1>2
  <2> DEFINE b == a - 1 + (k + 1)
             u == [d \in a - 1 .. b |-> IF d = b THEN val(t, b) ELSE t[d]]
  <2>2. b \in Int /\ b >= a /\ a - 1 + k = b - 1
    OBVIOUS
  <2>3. t = [d \in a - 1 .. b - 1 |-> val(t, d)]
    BY <2>1, <2>2 DEF Adds
  <2> HIDE DEF b
  <2>4. ASSUME NEW d \in a - 1 .. b PROVE u[d] = val(u, d)
    <3>1. CASE d = b
      <4>1. b - 1 \in a - 1 .. b /\ b - 1 # b /\ b \in a - 1 .. b
        BY <2>2
      <4>2. u[b - 1] = t[b - 1] /\ u[b] = val(t, b)
        BY <4>1
      <4> HIDE DEF u
      <4> QED BY <3>1, <4>2
    <3>2. CASE d # b
      <4>1. d \in a - 1 .. b - 1 /\ u[d] = t[d]
        BY <2>2, <3>2
      <4>2. d >= a => d - 1 \in a - 1 .. b /\ d - 1 # b
        BY <2>2, <4>1
      <4>3. d >= a => u[d - 1] = t[d - 1]
        BY <4>2
      <4>4. t[d] = val(t, d)
        BY <2>3, <4>1
      <4>5. d < a \/ d >= a
        BY <2>2
      <4> HIDE DEF u
      <4> QED BY <4>1, <4>3, <4>4, <4>5
    <3> QED BY <3>1, <3>2
  <2>5. u = [d \in a - 1 .. b |-> u[d]]
    OBVIOUS
  <2>6. Adds(u, f, a, b)
    <3> HIDE DEF u
    <3> QED BY <2>4, <2>5 DEF Adds
  <2> QED BY <2>6 DEF b
<1>3. Nat \subseteq T
  <2> HIDE DEF T
  <2> QED BY <1>1, <1>2, SetInduction
<1> QED BY <1>3

LEMMA SumOfIs ==
  ASSUME NEW f, NEW a \in Int, NEW b \in Int, b >= a
  PROVE  \E t : Adds(t, f, a, b) /\ SumOf(f, a, b) = t[b]
<1>1. b - a + 1 \in Nat /\ a - 1 + (b - a + 1) = b
  OBVIOUS
<1>2. \E t : Adds(t, f, a, b)
  BY <1>1, DaysAreSummed
<1>3. PICK t : t = CHOOSE u : Adds(u, f, a, b)
  OBVIOUS
<1>4. Adds(t, f, a, b)
  BY <1>2, <1>3
<1>5. ~ (b < a)
  OBVIOUS
<1>6. SumOf(f, a, b) = t[b]
  BY <1>3, <1>5, Zenon DEF SumOf, Adds
<1> QED BY <1>4, <1>6

LEMMA AddsAgree ==
  ASSUME NEW f, NEW a \in Int, NEW b \in Int, NEW c \in Int, NEW t, NEW u,
         Adds(t, f, a, b), Adds(u, f, a, c), NEW n \in Nat, a - 1 + n <= b, a - 1 + n <= c
  PROVE  t[a - 1 + n] = u[a - 1 + n]
<1> DEFINE T == {k \in Nat : a - 1 + k <= b /\ a - 1 + k <= c
                               => t[a - 1 + k] = u[a - 1 + k]}
<1>1. 0 \in T
  <2>1. ASSUME a - 1 + 0 <= b, a - 1 + 0 <= c PROVE t[a - 1] = u[a - 1]
    <3>1. a - 1 \in a - 1 .. b /\ a - 1 \in a - 1 .. c /\ a - 1 < a
      BY <2>1
    <3>2. t[a - 1] = 0 /\ u[a - 1] = 0
      BY <3>1, AddsStep
    <3> QED BY <3>2
  <2>2. a - 1 + 0 = a - 1
    OBVIOUS
  <2> QED BY <2>1, <2>2
<1>2. ASSUME NEW k \in Nat, k \in T PROVE k + 1 \in T
  <2>1. SUFFICES ASSUME a - 1 + (k + 1) <= b, a - 1 + (k + 1) <= c
        PROVE t[a - 1 + (k + 1)] = u[a - 1 + (k + 1)]
    OBVIOUS
  <2> DEFINE d == a - 1 + (k + 1)
  <2>2. /\ d \in a - 1 .. b /\ d \in a - 1 .. c /\ ~ (d < a) /\ d - 1 = a - 1 + k
        /\ a - 1 + k <= b /\ a - 1 + k <= c
    BY <2>1
  <2>3. t[d - 1] = u[d - 1]
    BY <1>2, <2>2
  <2> HIDE DEF d
  <2>4. t[d] = t[d - 1] + On(f, d) /\ u[d] = u[d - 1] + On(f, d)
    BY <2>2, AddsStep
  <2>5. t[d] = u[d]
    BY <2>3, <2>4
  <2> QED BY <2>5 DEF d
<1>3. Nat \subseteq T
  <2> HIDE DEF T
  <2> QED BY <1>1, <1>2, SetInduction
<1> QED BY <1>3

\* A day more adds its quantity.
LEMMA SumOfStep ==
  ASSUME NEW f, NEW a \in Int, NEW b \in Int
  PROVE  SumOf(f, a, b) = IF b < a THEN 0 ELSE SumOf(f, a, b - 1) + On(f, b)
<1>1. CASE b < a
  BY <1>1 DEF SumOf
<1>2. CASE ~ (b < a)
  <2>1. PICK t : Adds(t, f, a, b) /\ SumOf(f, a, b) = t[b]
    BY <1>2, SumOfIs
  <2>2. t[b] = t[b - 1] + On(f, b)
    BY <1>2, <2>1, AddsStep
  <2>3. CASE b - 1 < a
    <3>1. SumOf(f, a, b - 1) = 0
      BY <2>3, Zenon DEF SumOf
    <3>2. b - 1 \in a - 1 .. b
      BY <1>2
    <3>3. t[b - 1] = 0
      BY <2>1, <2>3, <3>2, AddsStep
    <3> QED BY <1>2, <2>1, <2>2, <3>1, <3>3
  <2>4. CASE ~ (b - 1 < a)
    <3>1. PICK u : Adds(u, f, a, b - 1) /\ SumOf(f, a, b - 1) = u[b - 1]
      BY <2>4, SumOfIs
    <3>2. b - a \in Nat /\ a - 1 + (b - a) = b - 1 /\ b - 1 <= b /\ b - 1 \in Int
      BY <1>2
    <3>3. t[b - 1] = u[b - 1]
      BY <2>1, <3>1, <3>2, AddsAgree
    <3> QED BY <1>2, <2>1, <2>2, <3>1, <3>3
  <2> QED BY <2>3, <2>4
<1> QED BY <1>1, <1>2

\* What holds of the day before the first, and of a day when of the one before,
\* holds of every day.
LEMMA DayInduction ==
  ASSUME NEW a \in Int, NEW T, a - 1 \in T,
         \A d \in Int : d >= a /\ d - 1 \in T => d \in T
  PROVE  \A d \in Int : d >= a - 1 => d \in T
<1> DEFINE S == {n \in Nat : a - 1 + n \in T}
<1>1. 0 \in S
  <2>1. a - 1 + 0 = a - 1
    OBVIOUS
  <2> QED BY <2>1
<1>2. ASSUME NEW n \in Nat, n \in S PROVE n + 1 \in S
  <2>1. PICK d \in Int : d = a - 1 + (n + 1)
    OBVIOUS
  <2>2. d >= a /\ d - 1 = a - 1 + n
    BY <2>1
  <2>3. d \in T
    BY <1>2, <2>2
  <2> QED BY <2>1, <2>3
<1>3. Nat \subseteq S
  <2> HIDE DEF S
  <2> QED BY <1>1, <1>2, SetInduction
<1>4. ASSUME NEW d \in Int, d >= a - 1 PROVE d \in T
  <2>1. PICK n \in Nat : n = d - (a - 1)
    BY <1>4
  <2>2. a - 1 + n = d
    BY <2>1
  <2> QED BY <1>3, <2>2
<1> QED BY <1>4

\* Quantities of days.
Quantities(f) == \A d \in Int : On(f, d) \in Nat

LEMMA SumOfNat ==
  ASSUME NEW f, Quantities(f), NEW a \in Int, NEW b \in Int
  PROVE  SumOf(f, a, b) \in Nat
<1> DEFINE T == {d \in Int : SumOf(f, a, d) \in Nat}
<1>1. a - 1 \in T
  BY SumOfStep
<1>2. ASSUME NEW d \in Int, d >= a, d - 1 \in T PROVE d \in T
  <2>1. SumOf(f, a, d) = SumOf(f, a, d - 1) + On(f, d)
    BY <1>2, SumOfStep
  <2>2. SumOf(f, a, d - 1) \in Nat /\ On(f, d) \in Nat
    BY <1>2 DEF Quantities
  <2> QED BY <2>1, <2>2
<1>3. \A d \in Int : d >= a - 1 => d \in T
  <2> HIDE DEF T
  <2> QED BY <1>1, <1>2, DayInduction
<1>4. CASE b < a
  BY <1>4, SumOfStep
<1> QED BY <1>3, <1>4

LEMMA SumOfGrows ==
  ASSUME NEW f, Quantities(f), NEW a \in Int, NEW b \in Int, NEW c \in Int, b <= c
  PROVE  SumOf(f, a, b) <= SumOf(f, a, c)
<1> DEFINE T == {d \in Int : SumOf(f, a, b) <= SumOf(f, a, d)}
<1>1. (b + 1) - 1 \in T
  BY SumOfNat
<1>2. ASSUME NEW d \in Int, d >= b + 1, d - 1 \in T PROVE d \in T
  <2>1. SumOf(f, a, b) \in Nat /\ SumOf(f, a, d - 1) \in Nat /\ On(f, d) \in Nat
        /\ SumOf(f, a, d) \in Nat
    BY SumOfNat DEF Quantities
  <2>2. SumOf(f, a, d) = IF d < a THEN 0 ELSE SumOf(f, a, d - 1) + On(f, d)
    BY SumOfStep
  <2>3. SumOf(f, a, b) = IF b < a THEN 0 ELSE SumOf(f, a, b - 1) + On(f, b)
    BY SumOfStep
  <2>4. d < a => b < a
    BY <1>2
  <2> QED BY <1>2, <2>1, <2>2, <2>3, <2>4
<1>3. \A d \in Int : d >= (b + 1) - 1 => d \in T
  <2> HIDE DEF T
  <2> QED BY <1>1, <1>2, DayInduction
<1> QED BY <1>3

\* Two functions have the same quantities from day a to b, some days apart.
Shifted(f, g, a, b, k) == \A d \in a .. b : On(f, d) = On(g, d + k)

LEMMA SumOfShift ==
  ASSUME NEW f, NEW g, NEW a \in Int, NEW b \in Int, NEW k \in Int, Shifted(f, g, a, b, k)
  PROVE  SumOf(f, a, b) = SumOf(g, a + k, b + k)
<1> DEFINE T == {d \in Int : d <= b => SumOf(f, a, d) = SumOf(g, a + k, d + k)}
<1>1. a - 1 \in T
  <2>1. SumOf(f, a, a - 1) = 0
    BY SumOfStep
  <2>2. (a - 1) + k \in Int /\ a + k \in Int /\ (a - 1) + k < a + k
    OBVIOUS
  <2>3. SumOf(g, a + k, (a - 1) + k) = 0
    BY <2>2, SumOfStep
  <2> QED BY <2>1, <2>3
<1>2. ASSUME NEW d \in Int, d >= a, d - 1 \in T PROVE d \in T
  <2>1. SUFFICES ASSUME d <= b PROVE SumOf(f, a, d) = SumOf(g, a + k, d + k)
    OBVIOUS
  <2>2. SumOf(f, a, d) = SumOf(f, a, d - 1) + On(f, d)
    BY <1>2, SumOfStep
  <2>3. d + k \in Int /\ a + k \in Int /\ ~ (d + k < a + k) /\ (d + k) - 1 = (d - 1) + k
    BY <1>2
  <2>4. SumOf(g, a + k, d + k) = SumOf(g, a + k, (d + k) - 1) + On(g, d + k)
    BY <2>3, SumOfStep
  <2>5. SumOf(f, a, d - 1) = SumOf(g, a + k, (d - 1) + k)
    BY <1>2, <2>1
  <2>6. On(f, d) = On(g, d + k)
    BY <1>2, <2>1 DEF Shifted
  <2> QED BY <2>2, <2>3, <2>4, <2>5, <2>6
<1>3. \A d \in Int : d >= a - 1 => d \in T
  <2> HIDE DEF T
  <2> QED BY <1>1, <1>2, DayInduction
<1>4. CASE b < a
  <2>1. b + k \in Int /\ a + k \in Int /\ b + k < a + k
    BY <1>4
  <2> QED BY <1>4, <2>1, SumOfStep
<1> QED BY <1>3, <1>4

\* The first day's quantity, and the others'.
LEMMA SumOfFirst ==
  ASSUME NEW f, Quantities(f), NEW a \in Int, NEW b \in Int, a <= b
  PROVE  SumOf(f, a, b) = On(f, a) + SumOf(f, a + 1, b)
<1> DEFINE T == {d \in Int : SumOf(f, a, d) = On(f, a) + SumOf(f, a + 1, d)}
<1>0. On(f, a) \in Nat
  BY DEF Quantities
<1>1. (a + 1) - 1 \in T
  <2>1. SumOf(f, a, a - 1) = 0 /\ SumOf(f, a, a) = SumOf(f, a, a - 1) + On(f, a)
        /\ SumOf(f, a + 1, a) = 0
    BY SumOfStep
  <2> QED BY <1>0, <2>1
<1>2. ASSUME NEW d \in Int, d >= a + 1, d - 1 \in T PROVE d \in T
  <2>1. SumOf(f, a, d) = SumOf(f, a, d - 1) + On(f, d)
    BY <1>2, SumOfStep
  <2>2. SumOf(f, a + 1, d) = SumOf(f, a + 1, d - 1) + On(f, d)
    BY <1>2, SumOfStep
  <2>3. /\ SumOf(f, a, d - 1) \in Nat /\ SumOf(f, a + 1, d - 1) \in Nat
        /\ On(f, d) \in Nat
    BY SumOfNat DEF Quantities
  <2> QED BY <1>0, <1>2, <2>1, <2>2, <2>3
<1>3. \A d \in Int : d >= (a + 1) - 1 => d \in T
  <2>1. PICK n \in Int : n = a + 1
    OBVIOUS
  <2> HIDE DEF T
  <2>2. n - 1 \in T
    BY <1>1, <2>1
  <2>3. \A d \in Int : d >= n /\ d - 1 \in T => d \in T
    BY <1>2, <2>1
  <2>4. \A d \in Int : d >= n - 1 => d \in T
    BY <2>2, <2>3, DayInduction
  <2> QED BY <2>1, <2>4
<1> QED BY <1>3

\* Days on which nothing is expected add nothing.
Still(f, b, c) == \A d \in b + 1 .. c : On(f, d) = 0

LEMMA SumOfStill ==
  ASSUME NEW f, Quantities(f), NEW a \in Int, NEW b \in Int, NEW c \in Int, b <= c,
         Still(f, b, c)
  PROVE  SumOf(f, a, c) = SumOf(f, a, b)
<1> DEFINE T == {d \in Int : d <= c => SumOf(f, a, d) = SumOf(f, a, b)}
<1>1. (b + 1) - 1 \in T
  <2>1. (b + 1) - 1 = b
    OBVIOUS
  <2> QED BY <2>1
<1>2. ASSUME NEW d \in Int, d >= b + 1, d - 1 \in T PROVE d \in T
  <2>1. SUFFICES ASSUME d <= c PROVE SumOf(f, a, d) = SumOf(f, a, b)
    OBVIOUS
  <2>2. SumOf(f, a, d - 1) = SumOf(f, a, b) /\ On(f, d) = 0 /\ SumOf(f, a, d - 1) \in Nat
    BY <1>2, <2>1, SumOfNat DEF Still
  <2>3. SumOf(f, a, d) = IF d < a THEN 0 ELSE SumOf(f, a, d - 1) + On(f, d)
    BY SumOfStep
  <2>4. d < a => SumOf(f, a, b) = 0
    BY <1>2, SumOfStep
  <2> QED BY <2>2, <2>3, <2>4
<1>3. \A d \in Int : d >= (b + 1) - 1 => d \in T
  <2>1. PICK n \in Int : n = b + 1
    OBVIOUS
  <2> HIDE DEF T
  <2>2. n - 1 \in T
    BY <1>1, <2>1
  <2>3. \A d \in Int : d >= n /\ d - 1 \in T => d \in T
    BY <1>2, <2>1
  <2>4. \A d \in Int : d >= n - 1 => d \in T
    BY <2>2, <2>3, DayInduction
  <2> QED BY <2>1, <2>4
<1> QED BY <1>3

\* g has one order more than f, of v on day x.
OneMore(g, f, x, v) == \A d \in Int : On(g, d) = On(f, d) + IF d = x THEN v ELSE 0

\* So it is when the days are counted from a, no later than x.
OneMoreFrom(g, f, x, v, a) ==
  Quantities(f) /\ x \in Int /\ v \in Nat /\ a \in Int /\ a <= x /\ OneMore(g, f, x, v)

LEMMA SumOfOneMore ==
  ASSUME NEW f, NEW g, NEW x, NEW v, NEW a, OneMoreFrom(g, f, x, v, a), NEW b \in Int
  PROVE  /\ x <= b => SumOf(g, a, b) = SumOf(f, a, b) + v
         /\ ~ (x <= b) => SumOf(g, a, b) = SumOf(f, a, b)
<1> DEFINE T == {d \in Int : SumOf(g, a, d) = SumOf(f, a, d) + IF x <= d THEN v ELSE 0}
<1>0. Quantities(f) /\ x \in Int /\ v \in Nat /\ a \in Int /\ a <= x /\ OneMore(g, f, x, v)
  BY DEF OneMoreFrom
<1>1. a - 1 \in T
  <2>1. SumOf(f, a, a - 1) = 0 /\ SumOf(g, a, a - 1) = 0 /\ ~ (x <= a - 1)
    BY <1>0, SumOfStep
  <2> QED BY <1>0, <2>1
<1>2. ASSUME NEW d \in Int, d >= a, d - 1 \in T PROVE d \in T
  <2>1. SumOf(f, a, d) = SumOf(f, a, d - 1) + On(f, d)
    BY <1>0, <1>2, SumOfStep
  <2>2. SumOf(g, a, d) = SumOf(g, a, d - 1) + On(g, d)
    BY <1>0, <1>2, SumOfStep
  <2>3. SumOf(f, a, d - 1) \in Nat /\ On(f, d) \in Nat
    BY <1>0, SumOfNat DEF Quantities
  <2>4. On(g, d) = On(f, d) + IF d = x THEN v ELSE 0
    BY <1>0 DEF OneMore
  <2>5. SumOf(g, a, d - 1) = SumOf(f, a, d - 1) + IF x <= d - 1 THEN v ELSE 0
    BY <1>2
  <2>6. (x <= d) <=> (x <= d - 1) \/ d = x
    BY <1>0
  <2>7. ~ ((x <= d - 1) /\ d = x)
    BY <1>0
  <2>8. SumOf(g, a, d) = SumOf(f, a, d) + IF x <= d THEN v ELSE 0
    <3> HIDE DEF T
    <3> QED BY <1>0, <2>1, <2>2, <2>3, <2>4, <2>5, <2>6, <2>7
  <2> QED BY <2>8
<1>3. \A d \in Int : d >= a - 1 => d \in T
  <2> HIDE DEF T
  <2> QED BY <1>0, <1>1, <1>2, DayInduction
<1>4. CASE b < a
  <2>1. SumOf(f, a, b) = 0 /\ SumOf(g, a, b) = 0 /\ ~ (x <= b)
    BY <1>0, <1>4, SumOfStep
  <2> QED BY <2>1
<1>5. SumOf(f, a, b) \in Nat
  BY <1>0, SumOfNat
<1> QED BY <1>0, <1>3, <1>4, <1>5

\* The orders expected until a day, however they are added up.
LEMMA SumOfIsSumOver ==
  ASSUME NEW f, NEW a \in Int, IsFiniteSet(DOMAIN f),
         \A d \in DOMAIN f : d \in Int /\ d >= a /\ f[d] \in Nat,
         NEW b \in Int
  PROVE  SumOver(f, {d \in DOMAIN f : d <= b}) = SumOf(f, a, b)
<1> DEFINE S(c) == {d \in DOMAIN f : d <= c}
           T == {c \in Int : SumOver(f, S(c)) = SumOf(f, a, c)}
<1>0. \A C \in SUBSET DOMAIN f :
        /\ SumOver(f, C) \in Int
        /\ \A x \in C : SumOver(f, C) = f[x] + SumOver(f, C \ {x})
  BY SumTakeOut
<1>1. \A c \in Int : c < a => c \in T
  <2>1. ASSUME NEW c \in Int, c < a PROVE SumOver(f, S(c)) = SumOf(f, a, c)
    <3>1. S(c) = {}
      BY <2>1
    <3>2. SumOf(f, a, c) = 0
      BY <2>1, SumOfStep
    <3> HIDE DEF S
    <3> QED BY <3>1, <3>2, SumEmpty
  <2> QED BY <2>1
<1>2. ASSUME NEW c \in Int, c >= a, c - 1 \in T PROVE c \in T
  <2>1. SumOf(f, a, c) = SumOf(f, a, c - 1) + On(f, c)
    BY <1>2, SumOfStep
  <2>2. SumOver(f, S(c - 1)) = SumOf(f, a, c - 1)
    BY <1>2
  <2>3. CASE c \in DOMAIN f
    <3>1. c \in S(c) /\ S(c) \ {c} = S(c - 1) /\ S(c) \in SUBSET DOMAIN f
      BY <2>3
    <3>2. On(f, c) = f[c] /\ f[c] \in Nat /\ SumOver(f, S(c - 1)) \in Int
      BY <1>0, <2>3 DEF On
    <3>3. SumOver(f, S(c)) = f[c] + SumOver(f, S(c) \ {c})
      BY <1>0, <3>1
    <3>4. SumOver(f, S(c)) = f[c] + SumOver(f, S(c - 1))
      BY <3>1, <3>3
    <3>5. SumOver(f, S(c)) = SumOf(f, a, c)
      <4> HIDE DEF S, T
      <4> QED BY <2>1, <2>2, <3>2, <3>4
    <3> QED BY <3>5
  <2>4. CASE c \notin DOMAIN f
    <3>1. S(c) = S(c - 1)
      BY <2>4
    <3>2. On(f, c) = 0 /\ SumOver(f, S(c - 1)) \in Int
      BY <1>0, <2>4 DEF On
    <3>3. SumOver(f, S(c)) = SumOf(f, a, c)
      <4> HIDE DEF S, T
      <4> QED BY <2>1, <2>2, <3>1, <3>2
    <3> QED BY <3>3
  <2> QED BY <2>3, <2>4
<1>3. a - 1 \in T
  BY <1>1
<1>4. \A d \in Int : d >= a - 1 => d \in T
  <2> HIDE DEF T
  <2> QED BY <1>2, <1>3, DayInduction
<1>5. b \in T
  <2> HIDE DEF T
  <2> QED BY <1>1, <1>4
<1> QED BY <1>5

-----------------------------------------------------------------------------
(* The calendar of an item.                                                 *)

\* The days from today to the first delivery, and to the one after it.
Ahead(w, hour, s)  == ComputeWindow(w, hour, s).d1 - w
Beyond(w, hour, s) == ComputeWindow(w, hour, s).d2 - w

LEMMA SuppliersHaveTerms ==
  ASSUME NEW s \in Suppliers
  PROVE  s \in Terms /\ s.lead >= 1 /\ ClampZero(s.lead) = s.lead
<1>1. s \in Terms /\ s.lead >= 1
  BY AutopilotAssumption DEF Terms
<1> QED BY <1>1 DEF ClampZero, Terms

LEMMA DeliveriesAreDays ==
  ASSUME NEW p \in Int, NEW s \in Suppliers
  PROVE  DeliveryDate(p, s) \in Int /\ DeliveryDate(p, s) >= p + 1
<1>1. /\ s \in Terms /\ s.lead \in Int /\ s.lead >= 1 /\ ClampZero(s.lead) = s.lead
  BY SuppliersHaveTerms DEF Terms
<1>2. DeliveryDate(p, s) \in p + s.lead .. p + s.lead + 6
  BY <1>1, DeliveryDateIsFirst
<1> QED BY <1>1, <1>2

\* A week later everything is a week later.
LEMMA DeliveryNextWeek ==
  ASSUME NEW p \in Int, NEW s \in Suppliers
  PROVE  DeliveryDate(p + 7, s) = DeliveryDate(p, s) + 7
<1>1. /\ s \in Terms /\ s.lead \in Int /\ ClampZero(s.lead) = s.lead /\ p + 7 \in Int
  BY SuppliersHaveTerms DEF Terms
<1>2. /\ DeliveryDate(p, s) \in p + s.lead .. p + s.lead + 6
      /\ DeliveryDate(p + 7, s) \in p + 7 + s.lead .. p + 7 + s.lead + 6
  <2>1. \A q \in Int : DeliveryDate(q, s) \in q + s.lead .. q + s.lead + 6
    BY <1>1, DeliveryDateIsFirst
  <2> QED BY <1>1, <2>1
<1>3. \A d \in Int : Weekday(d + 7) = Weekday(d) /\ Weekday(d - 7) = Weekday(d)
  BY DEF Weekday
<1>4. CASE s.weekdays \cap Weekdays = {}
  <2>1. \A q \in Int : DeliveryDate(q, s) = q + s.lead
    BY <1>1, <1>4, DeliveryDateIsFirst
  <2> QED BY <1>1, <2>1
<1>5. CASE s.weekdays \cap Weekdays # {}
  <2>1. \A q \in Int : /\ Weekday(DeliveryDate(q, s)) \in s.weekdays
                       /\ \A e \in q + s.lead .. DeliveryDate(q, s) - 1 :
                            Weekday(e) \notin s.weekdays
    BY <1>1, <1>5, DeliveryDateIsFirst
  <2> DEFINE d == DeliveryDate(p, s)
             e == DeliveryDate(p + 7, s)
  <2>2. /\ d \in Int /\ e \in Int /\ d >= p + s.lead /\ e >= p + 7 + s.lead
    BY <1>1, <1>2
  <2>3. /\ Weekday(d) \in s.weekdays /\ Weekday(e) \in s.weekdays
        /\ \A x \in p + s.lead .. d - 1 : Weekday(x) \notin s.weekdays
        /\ \A x \in p + 7 + s.lead .. e - 1 : Weekday(x) \notin s.weekdays
    BY <1>1, <2>1
  <2> HIDE DEF d, e
  <2>4. ASSUME e < d + 7 PROVE FALSE
    <3>1. e - 7 \in p + s.lead .. d - 1
      BY <1>1, <2>2, <2>4
    <3> QED BY <1>3, <2>2, <2>3, <3>1
  <2>5. ASSUME d + 7 < e PROVE FALSE
    <3>1. d + 7 \in p + 7 + s.lead .. e - 1
      BY <1>1, <2>2, <2>5
    <3> QED BY <1>3, <2>2, <2>3, <3>1
  <2>6. e = d + 7
    BY <2>2, <2>4, <2>5
  <2> QED BY <2>6 DEF d, e
<1> QED BY <1>4, <1>5

LEMMA WindowAhead ==
  ASSUME NEW w \in 0 .. 6, NEW hour \in BOOLEAN, NEW s \in Suppliers
  PROVE  /\ Ahead(w, hour, s) \in Int /\ Beyond(w, hour, s) \in Int
         /\ 1 <= Ahead(w, hour, s) /\ Ahead(w, hour, s) <= Beyond(w, hour, s)
         /\ Beyond(w, hour, s) <= Horizon /\ Horizon \in Nat
         /\ ComputeWindow(w, hour, s).d1 = w + Ahead(w, hour, s)
         /\ ComputeWindow(w, hour, s).d2 = w + Beyond(w, hour, s)
<1> DEFINE from == IF hour THEN w + 1 ELSE w
<1>1. from \in Int /\ w <= from /\ from <= w + 1 /\ s \in Terms /\ w \in Int
  BY SuppliersHaveTerms
<1>2. /\ ComputeWindow(w, hour, s).d1 = DeliveryDate(from, s)
      /\ ComputeWindow(w, hour, s).d2 = DeliveryDate(from + 1, s)
  BY DEF ComputeWindow
<1> HIDE DEF from
<1>3. /\ DeliveryDate(from, s) \in Int /\ DeliveryDate(from, s) >= from + 1
      /\ DeliveryDate(from + 1, s) \in Int
      /\ DeliveryDate(from, s) <= DeliveryDate(from + 1, s)
      /\ DeliveryDate(from + 1, s) <= DeliveryDate(w + 2, s)
  <2>1. from + 1 \in Int /\ w + 2 \in Int /\ from <= from + 1 /\ from + 1 <= w + 2
    BY <1>1
  <2> QED BY <1>1, <2>1, DeliveriesAreDays, DeliveriesKeepOrder
<1>4. DeliveryDate(w + 2, s) <= w + Horizon /\ Horizon \in Nat
      /\ DeliveryDate(w + 2, s) \in Int
  BY AutopilotAssumption, DeliveriesAreDays
<1> QED BY <1>1, <1>2, <1>3, <1>4 DEF Ahead, Beyond

\* From one day to the next: orders sent yesterday come first, and the first
\* delivery of today is no later than the second of yesterday, unless the hour has
\* moved past the cutoff.
LEMMA NextWindow ==
  ASSUME NEW w \in 0 .. 6, NEW old \in BOOLEAN, NEW hour \in BOOLEAN, NEW s \in Suppliers
  PROVE  LET n == (w + 1) % 7 IN
         /\ n \in 0 .. 6
         /\ Ahead(w, old, s) <= Ahead(n, hour, s) + 1
         /\ (hour => old) => Ahead(n, hour, s) + 1 <= Beyond(w, old, s)
<1> DEFINE n == (w + 1) % 7
           from(x, b) == IF b THEN x + 1 ELSE x
<1>1. n \in 0 .. 6 /\ (n = w + 1 \/ (n = 0 /\ w + 1 = 7))
  OBVIOUS
<1>2. \A x \in Int, b \in BOOLEAN :
         /\ ComputeWindow(x, b, s).d1 = DeliveryDate(from(x, b), s)
         /\ ComputeWindow(x, b, s).d2 = DeliveryDate(from(x, b) + 1, s)
  BY DEF ComputeWindow
<1>3. DeliveryDate(from(n, hour), s) - n = DeliveryDate(from(w + 1, hour), s) - (w + 1)
  <2>1. CASE n = w + 1
    BY <2>1
  <2>2. CASE n = 0 /\ w + 1 = 7
    <3>1. from(0, hour) \in Int /\ from(7, hour) = from(0, hour) + 7
      OBVIOUS
    <3>2. DeliveryDate(from(0, hour) + 7, s) = DeliveryDate(from(0, hour), s) + 7
          /\ DeliveryDate(from(0, hour), s) \in Int
      BY <3>1, DeliveryNextWeek, DeliveriesAreDays
    <3> QED BY <2>2, <3>1, <3>2
  <2> QED BY <1>1, <2>1, <2>2
<1> DEFINE a == from(w, old)
           b == from(w + 1, hour)
<1>4. /\ a \in Int /\ b \in Int /\ a <= b /\ a + 1 \in Int
      /\ (hour => old) => b <= a + 1
  OBVIOUS
<1>5. /\ Ahead(w, old, s) = DeliveryDate(a, s) - w
      /\ Beyond(w, old, s) = DeliveryDate(a + 1, s) - w
      /\ Ahead(n, hour, s) = DeliveryDate(b, s) - (w + 1)
  BY <1>1, <1>2, <1>3 DEF Ahead, Beyond
<1> HIDE DEF a, b, n
<1>6. /\ DeliveryDate(a, s) \in Int /\ DeliveryDate(b, s) \in Int
      /\ DeliveryDate(a + 1, s) \in Int
  BY <1>4, DeliveriesAreDays
<1>7. /\ DeliveryDate(a, s) <= DeliveryDate(b, s)
      /\ (hour => old) => DeliveryDate(b, s) <= DeliveryDate(a + 1, s)
  BY <1>4, SuppliersHaveTerms, DeliveriesKeepOrder
<1>8. /\ Ahead(w, old, s) <= Ahead(n, hour, s) + 1
      /\ (hour => old) => Ahead(n, hour, s) + 1 <= Beyond(w, old, s)
  BY <1>5, <1>6, <1>7
<1> QED BY <1>1, <1>8 DEF n

\* What the days from today on may ask for.
UsageDays(w) == [a \in Nat |-> Usage[Weekday(w + a)]]

LEMMA UsageIsQuantities ==
  ASSUME NEW w \in 0 .. 6
  PROVE  Quantities(UsageDays(w)) /\ \A a \in Nat : On(UsageDays(w), a) = Usage[Weekday(w + a)]
<1>1. ASSUME NEW a \in Nat PROVE Usage[Weekday(w + a)] \in Nat
  <2>1. Weekday(w + a) \in Weekdays
    BY DEF Weekday, Weekdays
  <2> QED BY <2>1, AutopilotAssumption
<1>2. \A a \in Nat : On(UsageDays(w), a) = Usage[Weekday(w + a)]
  BY DEF On, UsageDays
<1>3. \A a \in Int \ Nat : On(UsageDays(w), a) = 0
  BY DEF On, UsageDays
<1> QED BY <1>1, <1>2, <1>3 DEF Quantities

LEMMA UsageNext ==
  ASSUME NEW w \in 0 .. 6, NEW a \in Nat
  PROVE  On(UsageDays((w + 1) % 7), a) = On(UsageDays(w), a + 1)
<1>1. (w + 1) % 7 \in 0 .. 6 /\ a + 1 \in Nat
  OBVIOUS
<1>2. Weekday(((w + 1) % 7) + a) = Weekday(w + (a + 1))
  BY DEF Weekday
<1> QED BY <1>1, <1>2, UsageIsQuantities

-----------------------------------------------------------------------------
(* The invariant of an item whose orders follow the advice.                 *)

\* Orders are on their way, expected within the forecast and no later than one
\* sent now.
AutopilotTypes ==
  /\ weekday \in 0 .. 6 /\ onHand \in Nat /\ late \in BOOLEAN
  /\ item \in ItemKinds /\ consumed \in Nat \cup {-1}
  /\ \E S \in SUBSET (1 .. Horizon) : coming \in [S -> Nat]
  /\ \A a \in DOMAIN coming : a <= Ahead(weekday, late, item.supplier)
  /\ lasting \in BOOLEAN
  /\ consumed = -1 => advice = Undecided

\* What today may still ask for.
Due == IF consumed = -1 THEN Usage[Weekday(weekday)]
       ELSE ClampZero(Usage[Weekday(weekday)] - consumed)

\* What is left after some more days, if all of them ask for the most.
Stock(k) ==
  onHand - Due + SumOf(coming, 1, k) - SumOf(UsageDays(weekday), 1, k)

\* The stock lasts until the first delivery, and with what has been advised today
\* until the second.
StockLasts ==
  lasting =>
    /\ item.model # "M0" /\ ~ short
    /\ \A k \in 0 .. Ahead(weekday, late, item.supplier) - 1 : Stock(k) >= 0
    /\ advice # Undecided =>
         \A k \in 0 .. Beyond(weekday, late, item.supplier) - 1 : Stock(k) >= 0

AutopilotInv == AutopilotTypes /\ StockLasts

LEMMA ItemsAreBought ==
  ASSUME AutopilotTypes
  PROVE  /\ item.supplier \in Suppliers /\ item.pack \in Nat /\ item.minOrder \in Nat
         /\ item.sigma \in Nat /\ item.manualMin \in Nat
         /\ weekday \in 0 .. 6 /\ late \in BOOLEAN
<1>1. item \in ItemKinds /\ weekday \in 0 .. 6 /\ late \in BOOLEAN
  BY DEF AutopilotTypes
<1>2. Packs \subseteq Nat /\ MinOrders \subseteq Nat /\ Sigmas \subseteq Nat /\ Minima \subseteq Nat
  BY AutopilotAssumption
<1>3. CASE item \in [supplier : Suppliers, pack : Packs, minOrder : MinOrders, sigma : Sigmas,
                      model : {"M1"}, manualMin : {0}]
  <2>1. /\ item.supplier \in Suppliers /\ item.pack \in Packs /\ item.minOrder \in MinOrders
        /\ item.sigma \in Sigmas /\ item.manualMin \in {0}
    BY <1>3
  <2>2. item.pack \in Nat /\ item.minOrder \in Nat /\ item.sigma \in Nat /\ item.manualMin \in Nat
    <3>1. 0 \in Nat
      OBVIOUS
    <3> QED BY <1>2, <2>1, <3>1, Zenon
  <2> QED BY <1>1, <2>1, <2>2, Zenon
<1>4. CASE item \in [supplier : Suppliers, pack : Packs, minOrder : MinOrders, sigma : {0},
                      model : {"M0"}, manualMin : Minima]
  <2>1. /\ item.supplier \in Suppliers /\ item.pack \in Packs /\ item.minOrder \in MinOrders
        /\ item.sigma \in {0} /\ item.manualMin \in Minima
    BY <1>4
  <2>2. item.pack \in Nat /\ item.minOrder \in Nat /\ item.sigma \in Nat /\ item.manualMin \in Nat
    <3>1. 0 \in Nat
      OBVIOUS
    <3> QED BY <1>2, <2>1, <3>1, Zenon
  <2> QED BY <1>1, <2>1, <2>2, Zenon
<1> QED BY <1>1, <1>3, <1>4 DEF ItemKinds

LEMMA ComingIsQuantities ==
  ASSUME AutopilotTypes
  PROVE  /\ Quantities(coming) /\ On(coming, 0) = 0
         /\ IsFiniteSet(DOMAIN coming) /\ DOMAIN coming \subseteq 1 .. Horizon
         /\ \A a \in DOMAIN coming : coming[a] \in Nat
         /\ \A a \in Int : a > Ahead(weekday, late, item.supplier) => On(coming, a) = 0
<1>1. PICK S \in SUBSET (1 .. Horizon) : coming \in [S -> Nat]
  BY DEF AutopilotTypes
<1>2. DOMAIN coming = S /\ \A a \in S : coming[a] \in Nat
  BY <1>1
<1>3. IsFiniteSet(S)
  <2>1. IsFiniteSet(1 .. Horizon)
    BY AutopilotAssumption, FS_Interval
  <2> QED BY <2>1, FS_Subset
<1>4. \A a \in Int : On(coming, a) \in Nat
  BY <1>2 DEF On
<1>5. 0 \notin S
  OBVIOUS
<1>6. ASSUME NEW a \in Int, a > Ahead(weekday, late, item.supplier) PROVE On(coming, a) = 0
  <2>1. Ahead(weekday, late, item.supplier) \in Int
    BY ItemsAreBought, WindowAhead
  <2>2. a \notin DOMAIN coming
    BY <1>6, <2>1 DEF AutopilotTypes
  <2> QED BY <2>2 DEF On
<1> QED BY <1>2, <1>3, <1>4, <1>5, <1>6 DEF On, Quantities

LEMMA DueIsNat ==
  ASSUME AutopilotTypes
  PROVE  Due \in Nat
<1>1. Usage[Weekday(weekday)] \in Nat
  <2>1. Weekday(weekday) \in Weekdays
    BY DEF AutopilotTypes, Weekday, Weekdays
  <2> QED BY <2>1, AutopilotAssumption
<1>2. consumed \in Nat \cup {-1}
  BY DEF AutopilotTypes
<1> QED BY <1>1, <1>2 DEF Due, ClampZero

\* The quantities of the input, counted from today.
LEMMA InputIs ==
  ASSUME AutopilotTypes
  PROVE  LET a == Ahead(weekday, late, item.supplier)
             b == Beyond(weekday, late, item.supplier)
         IN  /\ Input.today = weekday /\ Input.onHand = onHand /\ Input.model = item.model
             /\ Input.window.d1 = weekday + a /\ Input.window.d2 = weekday + b
             /\ a \in Int /\ b \in Int /\ 1 <= a /\ a <= b /\ b <= Horizon /\ Horizon \in Nat
             /\ Input.minOrder = item.minOrder /\ Input.pack = item.pack
             /\ Input.sigma = item.sigma /\ Input.level = 95
             /\ Input.manualMin = item.manualMin /\ Input.consumedToday = consumed
             /\ \A k \in Int : On(coming, k) = On(Input.incoming, k + weekday)
             /\ \A k \in 0 .. Horizon - 1 :
                  On(UsageDays(weekday), k) = On(Input.forecast, k + weekday)
             /\ DOMAIN Input.forecast = weekday .. weekday + Horizon - 1
             /\ IsFiniteSet(DOMAIN Input.incoming)
             /\ \A d \in DOMAIN Input.incoming :
                  d \in Int /\ d >= weekday + 1 /\ Input.incoming[d] \in Nat
<1> DEFINE a == Ahead(weekday, late, item.supplier)
           b == Beyond(weekday, late, item.supplier)
<1>1. /\ item.supplier \in Suppliers /\ weekday \in 0 .. 6 /\ late \in BOOLEAN
  BY ItemsAreBought
<1>2. /\ Input.today = weekday /\ Input.onHand = onHand /\ Input.model = item.model
      /\ Input.window = ComputeWindow(weekday, late, item.supplier)
      /\ Input.minOrder = item.minOrder /\ Input.pack = item.pack
      /\ Input.sigma = item.sigma /\ Input.level = 95
      /\ Input.manualMin = item.manualMin /\ Input.consumedToday = consumed
      /\ Input.incoming = [d \in {weekday + n : n \in DOMAIN coming} |-> coming[d - weekday]]
      /\ Input.forecast = [d \in weekday .. weekday + Horizon - 1 |-> Usage[Weekday(d)]]
  BY DEF Input, InputOf
<1>3. /\ Input.window.d1 = weekday + a /\ Input.window.d2 = weekday + b
      /\ a \in Int /\ b \in Int /\ 1 <= a /\ a <= b /\ b <= Horizon /\ Horizon \in Nat
  <2>1. /\ ComputeWindow(weekday, late, item.supplier).d1 = weekday + a
        /\ ComputeWindow(weekday, late, item.supplier).d2 = weekday + b
        /\ a \in Int /\ b \in Int /\ 1 <= a /\ a <= b /\ b <= Horizon /\ Horizon \in Nat
    BY <1>1, WindowAhead
  <2> HIDE DEF a, b
  <2> QED BY <1>2, <2>1
<1>4. DOMAIN coming \subseteq 1 .. Horizon /\ \A n \in DOMAIN coming : coming[n] \in Nat
  BY ComingIsQuantities
<1>5. ASSUME NEW k \in Int PROVE On(coming, k) = On(Input.incoming, k + weekday)
  <2>1. (k + weekday) - weekday = k
    BY <1>1
  <2>2. k + weekday \in {weekday + n : n \in DOMAIN coming} <=> k \in DOMAIN coming
    BY <1>1, <1>4
  <2> QED BY <1>2, <2>1, <2>2 DEF On
<1>6. ASSUME NEW k \in 0 .. Horizon - 1
      PROVE  On(UsageDays(weekday), k) = On(Input.forecast, k + weekday)
  <2>1. On(UsageDays(weekday), k) = Usage[Weekday(weekday + k)]
    BY <1>1, <1>3, UsageIsQuantities
  <2>2. k + weekday \in weekday .. weekday + Horizon - 1 /\ k + weekday = weekday + k
    BY <1>1, <1>3
  <2> QED BY <1>2, <2>1, <2>2 DEF On
<1>7. IsFiniteSet(DOMAIN Input.incoming)
  <2>1. DOMAIN Input.incoming \subseteq weekday .. weekday + Horizon
    BY <1>1, <1>2, <1>3, <1>4
  <2>2. IsFiniteSet(weekday .. weekday + Horizon)
    <3>1. weekday \in Int /\ weekday + Horizon \in Int
      BY <1>1, <1>3
    <3> QED BY <3>1, FS_Interval
  <2> QED BY <2>1, <2>2, FS_Subset
<1>8. ASSUME NEW d \in DOMAIN Input.incoming
      PROVE  d \in Int /\ d >= weekday + 1 /\ Input.incoming[d] \in Nat
  <2>1. PICK n \in DOMAIN coming : d = weekday + n
    BY <1>2
  <2>2. n \in Int /\ n >= 1 /\ coming[n] \in Nat /\ d - weekday = n
    BY <1>1, <1>4, <2>1
  <2> QED BY <1>1, <1>2, <2>1, <2>2
<1>9. DOMAIN Input.forecast = weekday .. weekday + Horizon - 1
  BY <1>2
<1> QED BY <1>2, <1>3, <1>5, <1>6, <1>7, <1>8, <1>9

\* What is needed today is what is due.
LEMMA NeedTodayIs ==
  ASSUME AutopilotTypes, consumed # -1
  PROVE  NeedToday(Input) = Due
<1>1. /\ Input.today = weekday /\ Horizon \in Nat /\ Input.consumedToday = consumed
      /\ 1 <= Horizon
      /\ \A n \in 0 .. Horizon - 1 :
           On(UsageDays(weekday), n) = On(Input.forecast, n + weekday)
  BY InputIs
<1>2. weekday \in 0 .. 6
  BY DEF AutopilotTypes
<1>3. On(UsageDays(weekday), 0) = On(Input.forecast, 0 + weekday) /\ 0 + weekday = weekday
  BY <1>1, <1>2
<1>4. On(UsageDays(weekday), 0) = Usage[Weekday(weekday + 0)] /\ weekday + 0 = weekday
  BY <1>2, UsageIsQuantities
<1> QED BY <1>1, <1>3, <1>4 DEF NeedToday, Due

\* What the status projects is the stock of the invariant.
LEMMA ProjectedIs ==
  ASSUME AutopilotTypes, consumed # -1, NEW k \in 0 .. Horizon - 1
  PROVE  Projected(Input, weekday + k) = Stock(k) /\ Stock(k) \in Int
<1>1. /\ Input.today = weekday /\ Input.onHand = onHand /\ Horizon \in Nat
      /\ Input.consumedToday = consumed
      /\ \A n \in Int : On(coming, n) = On(Input.incoming, n + weekday)
      /\ \A n \in 0 .. Horizon - 1 :
           On(UsageDays(weekday), n) = On(Input.forecast, n + weekday)
  BY InputIs
<1>2. weekday \in Int /\ k \in Int /\ weekday \in 0 .. 6 /\ onHand \in Nat
      /\ 0 <= k /\ k <= Horizon - 1
  BY <1>1 DEF AutopilotTypes
<1>3. NeedToday(Input) = Due
  BY NeedTodayIs
<1>4. SumOf(Input.incoming, weekday, weekday + k) = SumOf(coming, 1, k)
  <2>1. SumOf(coming, 0, k) = SumOf(Input.incoming, 0 + weekday, k + weekday)
    <3>1. Shifted(coming, Input.incoming, 0, k, weekday)
      BY <1>1, <1>2 DEF Shifted
    <3>2. 0 \in Int
      OBVIOUS
    <3> QED BY <1>2, <3>1, <3>2, SumOfShift
  <2>2. SumOf(coming, 0, k) = On(coming, 0) + SumOf(coming, 0 + 1, k)
    BY <1>2, ComingIsQuantities, SumOfFirst
  <2>3. On(coming, 0) = 0 /\ SumOf(coming, 1, k) \in Nat /\ 0 + 1 = 1
        /\ 0 + weekday = weekday /\ k + weekday = weekday + k
    BY <1>2, ComingIsQuantities, SumOfNat
  <2> QED BY <2>1, <2>2, <2>3
<1>5. SumOf(Input.forecast, weekday + 1, weekday + k) = SumOf(UsageDays(weekday), 1, k)
  <2>1. Shifted(UsageDays(weekday), Input.forecast, 1, k, weekday)
    BY <1>1, <1>2 DEF Shifted
  <2>2. SumOf(UsageDays(weekday), 1, k) = SumOf(Input.forecast, 1 + weekday, k + weekday)
    <3>1. 1 \in Int
      OBVIOUS
    <3> QED BY <1>2, <2>1, <3>1, SumOfShift
  <2>3. 1 + weekday = weekday + 1 /\ k + weekday = weekday + k
    BY <1>2
  <2> QED BY <2>2, <2>3
<1>6. SumOf(coming, 1, k) \in Nat /\ SumOf(UsageDays(weekday), 1, k) \in Nat /\ Due \in Nat
  BY <1>2, ComingIsQuantities, UsageIsQuantities, SumOfNat, DueIsNat
<1> QED BY <1>1, <1>2, <1>3, <1>4, <1>5, <1>6 DEF Projected, Stock

LEMMA StockIsInt ==
  ASSUME AutopilotTypes, NEW k \in Int
  PROVE  /\ Stock(k) \in Int /\ Due \in Nat
         /\ SumOf(coming, 1, k) \in Nat /\ SumOf(UsageDays(weekday), 1, k) \in Nat
<1>1. SumOf(coming, 1, k) \in Nat /\ SumOf(UsageDays(weekday), 1, k) \in Nat /\ Due \in Nat
  BY ComingIsQuantities, UsageIsQuantities, SumOfNat, DueIsNat DEF AutopilotTypes
<1> QED BY <1>1 DEF Stock, AutopilotTypes

\* The need until the second delivery, and what arrives before it.
LEMMA NeedIs ==
  ASSUME AutopilotTypes, consumed # -1
  PROVE  LET b == Beyond(weekday, late, item.supplier)
         IN  /\ NeedUntilD2(Input) = Due + SumOf(UsageDays(weekday), 1, b - 1)
             /\ OnOrder(Input) = SumOf(coming, 1, b - 1)
<1> DEFINE b == Beyond(weekday, late, item.supplier)
<1>1. /\ Input.today = weekday /\ Input.window.d2 = weekday + b
      /\ b \in Int /\ 1 <= b /\ b <= Horizon /\ Horizon \in Nat
      /\ \A k \in Int : On(coming, k) = On(Input.incoming, k + weekday)
      /\ \A k \in 0 .. Horizon - 1 :
           On(UsageDays(weekday), k) = On(Input.forecast, k + weekday)
      /\ IsFiniteSet(DOMAIN Input.incoming)
      /\ \A d \in DOMAIN Input.incoming :
           d \in Int /\ d >= weekday + 1 /\ Input.incoming[d] \in Nat
  BY InputIs
<1>2. weekday \in Int /\ 1 \in Int
  BY DEF AutopilotTypes
<1> HIDE DEF b
<1>3. b - 1 \in Int /\ (b - 1) + weekday = weekday + b - 1 /\ 1 + weekday = weekday + 1
      /\ weekday + 1 \in Int /\ weekday + b - 1 \in Int
  BY <1>1, <1>2
<1>4. SumOf(UsageDays(weekday), 1, b - 1) = SumOf(Input.forecast, weekday + 1, weekday + b - 1)
  <2>1. Shifted(UsageDays(weekday), Input.forecast, 1, b - 1, weekday)
    <3>1. \A d \in 1 .. b - 1 : d \in 0 .. Horizon - 1
      BY <1>1
    <3> QED BY <1>1, <3>1 DEF Shifted
  <2>2. SumOf(UsageDays(weekday), 1, b - 1) = SumOf(Input.forecast, 1 + weekday, (b - 1) + weekday)
    BY <1>2, <1>3, <2>1, SumOfShift
  <2> QED BY <1>3, <2>2
<1>5. NeedUntilD2(Input) = Due + SumOf(UsageDays(weekday), 1, b - 1)
  <2>1. NeedUntilD2(Input)
          = NeedToday(Input) + SumOf(Input.forecast, Input.today + 1, Input.window.d2 - 1)
    BY Zenon DEF NeedUntilD2
  <2>2. NeedToday(Input) = Due /\ Input.today = weekday /\ Input.window.d2 = weekday + b
    BY <1>1, NeedTodayIs
  <2>3. (weekday + b) - 1 = weekday + b - 1
    BY <1>1, <1>2
  <2>4. NeedUntilD2(Input) = Due + SumOf(Input.forecast, weekday + 1, (weekday + b) - 1)
    BY <2>1, <2>2, Zenon
  <2> QED BY <1>4, <2>3, <2>4, Zenon
<1>6. SumOf(coming, 1, b - 1) = SumOf(Input.incoming, weekday + 1, weekday + b - 1)
  <2>1. Shifted(coming, Input.incoming, 1, b - 1, weekday)
    <3>1. \A d \in 1 .. b - 1 : d \in Int
      OBVIOUS
    <3> QED BY <1>1, <3>1 DEF Shifted
  <2>2. SumOf(coming, 1, b - 1) = SumOf(Input.incoming, 1 + weekday, (b - 1) + weekday)
    BY <1>2, <1>3, <2>1, SumOfShift
  <2> QED BY <1>3, <2>2
<1>7. OnOrder(Input) = SumOver(Input.incoming,
                         {d \in DOMAIN Input.incoming : d <= weekday + b - 1})
  <2>1. {d \in DOMAIN Input.incoming : d < weekday + b}
          = {d \in DOMAIN Input.incoming : d <= weekday + b - 1}
    BY <1>1, <1>2
  <2>2. OnOrder(Input) = SumOver(Input.incoming,
                           {d \in DOMAIN Input.incoming : d < weekday + b})
    BY <1>1, Zenon DEF OnOrder, IncomingBefore, SumOver
  <2> QED BY <2>1, <2>2, Zenon
<1>8. OnOrder(Input) = SumOf(Input.incoming, weekday + 1, weekday + b - 1)
  BY <1>1, <1>3, <1>7, SumOfIsSumOver
<1> QED BY <1>5, <1>6, <1>8 DEF b

\* Some number's square is not less than a number, and the first such is a root.
LEMMA SafetyStockIsNat ==
  ASSUME AutopilotTypes
  PROVE  SafetyStock(Input) \in Nat
<1> DEFINE n == ClampZero(Input.window.d2 - Input.today)
           S == {r \in Nat : r * r >= n}
           root == CHOOSE r \in 0 .. n : r * r >= n /\ \A q \in 0 .. r - 1 : q * q < n
<1>1. n \in Nat
  <2>1. Input.window.d2 - Input.today \in Int
    <3>1. PICK b : b \in Int /\ Input.window.d2 = weekday + b /\ Input.today = weekday
      BY InputIs
    <3> QED BY <3>1 DEF AutopilotTypes
  <2> QED BY <2>1 DEF ClampZero
<1> HIDE DEF n
<1>2. n * n >= n
  BY <1>1, SMT
<1>3. n \in S
  BY <1>1, <1>2
<1>4. Min(S) \in S /\ \A y \in S : Min(S) <= y
  <2>1. S \in SUBSET Nat /\ S # {}
    BY <1>3
  <2> HIDE DEF S
  <2> QED BY <2>1, LeastIs
<1>5. PICK r \in Nat : r = Min(S)
  BY <1>4
<1>6. r \in 0 .. n /\ r * r >= n
  BY <1>1, <1>3, <1>4, <1>5
<1>7. ASSUME NEW q \in 0 .. r - 1 PROVE q * q < n
  <2>1. q \in Nat /\ ~ (r <= q)
    OBVIOUS
  <2>2. q \notin S
    <3> HIDE DEF S
    <3> QED BY <1>4, <1>5, <2>1
  <2>3. q * q \in Int
    BY <2>1, SMT
  <2> QED BY <1>1, <2>1, <2>2, <2>3
<1>8. \E x \in 0 .. n : x * x >= n /\ \A q \in 0 .. x - 1 : q * q < n
  BY <1>6, <1>7
<1>9. root \in 0 .. n
  BY <1>8, Zenon
<1>10. ZFactor(Input.level) = 165 /\ Input.sigma \in Nat
  <2>1. Input.level = 95 /\ Input.sigma = item.sigma
    BY InputIs
  <2> QED BY <2>1, ItemsAreBought DEF ZFactor
<1>11. PICK x \in Nat : x = root
  BY <1>1, <1>9
<1>12. PICK y \in Nat : y = Input.sigma
  BY <1>10
<1>13. SafetyStock(Input) = (165 * y * x) \div 100
  BY <1>10, <1>11, <1>12, Zenon DEF SafetyStock, n
<1>14. 165 * y * x \in Nat
  BY SMT
<1>15. (165 * y * x) \div 100 \in Nat
  BY <1>14
<1> QED BY <1>13, <1>15

\* What is advised of an item that has a forecast: the whole of what is missing at
\* the end of the last day before the second delivery, the safety stock included.
LEMMA AdviceIs ==
  ASSUME AutopilotTypes, consumed # -1
  PROVE  LET b == Beyond(weekday, late, item.supplier)
         IN  /\ Position(Input) = onHand + SumOf(coming, 1, b - 1)
             /\ Position(Input) \in Int /\ TargetLevel(Input) \in Int
             /\ Shortfall(Input) \in Int
             /\ RecommendedQty(Input) \in Nat
             /\ item.model # "M0" => TargetLevel(Input) - Position(Input) >= 0 - Stock(b - 1)
             /\ Position(Input) + RecommendedQty(Input) >= TargetLevel(Input)
             /\ Shortfall(Input) > 0 =>
                  Position(Input) + RecommendedQty(Input)
                    <= TargetLevel(Input) + item.minOrder + item.pack
<1> DEFINE b == Beyond(weekday, late, item.supplier)
<1>1. /\ Input.onHand = onHand /\ Input.model = item.model /\ Input.manualMin = item.manualMin
      /\ Input.minOrder = item.minOrder /\ Input.pack = item.pack
      /\ b \in Int
  BY InputIs
<1>2. NeedUntilD2(Input) = Due + SumOf(UsageDays(weekday), 1, b - 1)
      /\ OnOrder(Input) = SumOf(coming, 1, b - 1)
  BY NeedIs
<1> HIDE DEF b
<1>3. /\ Stock(b - 1) \in Int /\ Due \in Nat
      /\ SumOf(coming, 1, b - 1) \in Nat /\ SumOf(UsageDays(weekday), 1, b - 1) \in Nat
  BY <1>1, StockIsInt
<1>4. onHand \in Nat /\ item.manualMin \in Nat /\ item.minOrder \in Nat /\ item.pack \in Nat
  BY ItemsAreBought DEF AutopilotTypes
<1>5. Position(Input) = onHand + SumOf(coming, 1, b - 1) /\ Position(Input) \in Int
  BY <1>1, <1>2, <1>3, <1>4 DEF Position
<1>6. /\ TargetLevel(Input) \in Int
      /\ item.model # "M0" => TargetLevel(Input) >= Due + SumOf(UsageDays(weekday), 1, b - 1)
  BY <1>1, <1>2, <1>3, <1>4, SafetyStockIsNat DEF TargetLevel
<1>7. Shortfall(Input) = TargetLevel(Input) - Position(Input) /\ Shortfall(Input) \in Int
  BY <1>5, <1>6 DEF Shortfall
<1>8. /\ RecommendedQty(Input) \in Nat
      /\ Position(Input) + RecommendedQty(Input) >= TargetLevel(Input)
      /\ Shortfall(Input) > 0 =>
           Position(Input) + RecommendedQty(Input)
             <= TargetLevel(Input) + item.minOrder + item.pack
  <2>1. CASE Shortfall(Input) > 0
    <3>0. Input.minOrder \in Nat /\ Input.pack \in Nat
      BY <1>1, <1>4
    <3>1. /\ Position(Input) + RecommendedQty(Input) >= TargetLevel(Input)
          /\ Position(Input) + RecommendedQty(Input)
               <= TargetLevel(Input) + Input.minOrder + Input.pack
          /\ RecommendedQty(Input) >= Input.minOrder
      BY <1>5, <1>6, <2>1, <3>0, RecommendationIsSufficient
    <3>2. RecommendedQty(Input) \in Int
      <4> DEFINE q == IF Shortfall(Input) < Input.minOrder THEN Input.minOrder ELSE Shortfall(Input)
      <4>1. q \in Int
        BY <1>7, <3>0
      <4>2. RecommendedQty(Input) = CeilTo(q, Input.pack)
        BY <2>1, Zenon DEF RecommendedQty
      <4> HIDE DEF q
      <4>3. CeilTo(q, Input.pack) \in Int
        BY <3>0, <4>1, CeilToPositive, CeilToNone
      <4> QED BY <4>2, <4>3
    <3> QED BY <1>1, <1>4, <3>1, <3>2
  <2>2. CASE ~ (Shortfall(Input) > 0)
    <3>1. RecommendedQty(Input) = 0
      BY <2>2 DEF RecommendedQty
    <3> QED BY <1>5, <1>6, <1>7, <2>2, <3>1
  <2> QED BY <2>1, <2>2
<1>9. Stock(b - 1) = onHand - Due + SumOf(coming, 1, b - 1) - SumOf(UsageDays(weekday), 1, b - 1)
  BY DEF Stock
<1>10. item.model # "M0" => TargetLevel(Input) - Position(Input) >= 0 - Stock(b - 1)
  BY <1>3, <1>4, <1>5, <1>6, <1>9
<1> QED BY <1>5, <1>6, <1>7, <1>8, <1>10 DEF b

LEMMA StartsWithStock == AutopilotInit => AutopilotInv
<1> SUFFICES ASSUME AutopilotInit PROVE AutopilotInv
  OBVIOUS
<1>1. /\ weekday \in 0 .. 6 /\ onHand \in 0 .. MaxStart /\ item \in ItemKinds
      /\ late \in BOOLEAN /\ coming = [a \in {} |-> 0]
      /\ consumed \in {0, Usage[Weekday(weekday)]}
      /\ advice = Undecided /\ short = FALSE /\ lasting = LastsUntilDelivery(Input)
  BY DEF AutopilotInit
<1>2. AutopilotTypes
  <2>1. onHand \in Nat
    BY <1>1, AutopilotAssumption
  <2>2. consumed \in Nat
    <3>1. Weekday(weekday) \in Weekdays
      BY <1>1 DEF Weekday, Weekdays
    <3>2. Usage[Weekday(weekday)] \in Nat
      BY <3>1, AutopilotAssumption
    <3> QED BY <1>1, <3>2
  <2>3. DOMAIN coming = {} /\ coming \in [{} -> Nat]
    BY <1>1
  <2>4. \E S \in SUBSET (1 .. Horizon) : coming \in [S -> Nat]
    BY <2>3, Zenon
  <2>5. lasting \in BOOLEAN
    BY <1>1 DEF LastsUntilDelivery
  <2> QED BY <1>1, <2>1, <2>2, <2>3, <2>4, <2>5 DEF AutopilotTypes
<1>3. consumed # -1
  <2>1. Weekday(weekday) \in Weekdays
    BY <1>1 DEF Weekday, Weekdays
  <2>2. Usage[Weekday(weekday)] \in Nat
    BY <2>1, AutopilotAssumption
  <2> QED BY <1>1, <2>2
<1>4. ASSUME lasting PROVE StockLasts
  <2>1. /\ item.model # "M0"
        /\ ProjectStockout(Input) = NoDay \/ ProjectStockout(Input) >= Input.window.d1
    BY <1>1, <1>4, InputIs, <1>2 DEF LastsUntilDelivery
  <2> DEFINE a == Ahead(weekday, late, item.supplier)
             S == {d \in DOMAIN Input.forecast : d >= Input.today /\ Projected(Input, d) < 0}
  <2>2. /\ a \in Int /\ a <= Horizon /\ Horizon \in Nat /\ Input.today = weekday
        /\ Input.window.d1 = weekday + a
        /\ DOMAIN Input.forecast = weekday .. weekday + Horizon - 1
    <3>1. PICK b \in Int : a <= b /\ b <= Horizon
      BY <1>2, InputIs
    <3>2. /\ a \in Int /\ Horizon \in Nat /\ Input.today = weekday
          /\ Input.window.d1 = weekday + a
          /\ DOMAIN Input.forecast = weekday .. weekday + Horizon - 1
      BY <1>2, InputIs
    <3> HIDE DEF a
    <3> QED BY <3>1, <3>2
  <2>3. S \in SUBSET Nat
    BY <1>1, <2>2
  <2> HIDE DEF a
  <2>4. ASSUME NEW k \in 0 .. a - 1, Stock(k) < 0 PROVE FALSE
    <3>1. k \in 0 .. Horizon - 1 /\ k <= a - 1
      BY <2>2
    <3>2. Projected(Input, weekday + k) < 0
      BY <1>2, <1>3, <2>4, <3>1, ProjectedIs
    <3>3. weekday + k \in S
      BY <1>1, <2>2, <3>1, <3>2
    <3>4. Min(S) \in S /\ Min(S) <= weekday + k
      <4> HIDE DEF S
      <4> QED BY <2>3, <3>3, LeastIs
    <3>5. S # {}
      BY <3>3
    <3>6. ProjectStockout(Input) = Min(S)
      BY <3>5, Zenon DEF ProjectStockout
    <3>7. Min(S) \in Nat
      BY <2>3, <3>4
    <3>8. ProjectStockout(Input) # NoDay
      BY <3>6, <3>7, NoDayAssumption
    <3> HIDE DEF S
    <3> QED BY <1>1, <2>1, <2>2, <3>1, <3>4, <3>6, <3>7, <3>8
  <2>5. \A k \in 0 .. a - 1 : Stock(k) >= 0
    <3> SUFFICES ASSUME NEW k \in 0 .. a - 1 PROVE Stock(k) >= 0
      OBVIOUS
    <3>1. Stock(k) \in Int
      BY <1>2, StockIsInt
    <3> QED BY <2>4, <3>1
  <2> QED BY <1>1, <2>1, <2>5 DEF StockLasts, a
<1> QED BY <1>2, <1>4 DEF AutopilotInv, StockLasts

\* A day takes what it asks for from a stock that lasts.
LEMMA ConsumeDayKeeps == AutopilotInv /\ ConsumeDay => AutopilotInv'
<1> SUFFICES ASSUME AutopilotInv, ConsumeDay PROVE AutopilotInv'
  OBVIOUS
<1>1. PICK wanted \in 0 .. Usage[Weekday(weekday)] :
        /\ consumed' = Min({wanted, onHand})
        /\ onHand' = onHand - consumed'
        /\ short' = (short \/ wanted > onHand)
  BY DEF ConsumeDay
<1>2. /\ consumed = -1 /\ weekday' = weekday /\ item' = item /\ late' = late
      /\ coming' = coming /\ advice' = advice /\ lasting' = lasting
  BY DEF ConsumeDay
<1>3. AutopilotTypes /\ StockLasts
  BY DEF AutopilotInv
<1>4. weekday \in 0 .. 6 /\ onHand \in Nat /\ advice = Undecided
  BY <1>2, <1>3 DEF AutopilotTypes
<1>5. Usage[Weekday(weekday)] \in Nat
  <2>1. Weekday(weekday) \in Weekdays
    BY <1>4 DEF Weekday, Weekdays
  <2> QED BY <2>1, AutopilotAssumption
<1>6. wanted \in Nat /\ wanted <= Usage[Weekday(weekday)]
  BY <1>5
<1>7. consumed' \in {wanted, onHand} /\ consumed' <= wanted /\ consumed' <= onHand
  <2>1. {wanted, onHand} \in SUBSET Nat /\ {wanted, onHand} # {}
    BY <1>4, <1>6
  <2> QED BY <1>1, <2>1, LeastIs
<1>8. consumed' \in Nat /\ onHand' \in Nat
  BY <1>1, <1>4, <1>6, <1>7
<1>9. AutopilotTypes'
  BY <1>2, <1>3, <1>8 DEF AutopilotTypes
<1>10. ASSUME lasting PROVE StockLasts'
  <2>1. /\ item.model # "M0" /\ ~ short
        /\ \A k \in 0 .. Ahead(weekday, late, item.supplier) - 1 : Stock(k) >= 0
    BY <1>3, <1>10 DEF StockLasts
  <2>2. Due = Usage[Weekday(weekday)]
    BY <1>2 DEF Due
  <2>3. Ahead(weekday, late, item.supplier) \in Int /\ 1 <= Ahead(weekday, late, item.supplier)
    BY <1>3, ItemsAreBought, WindowAhead
  <2>4. Stock(0) >= 0
    BY <2>1, <2>3
  <2>5. SumOf(coming, 1, 0) = 0 /\ SumOf(UsageDays(weekday), 1, 0) = 0
    BY SumOfStep
  <2>6. onHand >= Usage[Weekday(weekday)]
    BY <1>4, <1>5, <2>2, <2>4, <2>5 DEF Stock
  <2>7. wanted <= onHand
    BY <1>4, <1>5, <1>6, <2>6
  <2>8. consumed' = wanted /\ ~ short'
    <3>1. consumed' = wanted /\ ~ (wanted > onHand)
      BY <1>4, <1>6, <1>7, <2>7
    <3> QED BY <1>1, <2>1, <3>1, Zenon
  <2>9. Due' = Usage[Weekday(weekday)] - wanted
    <3>1. Due' = ClampZero(Usage[Weekday(weekday)] - wanted)
      BY <1>2, <1>6, <2>8 DEF Due
    <3> QED BY <1>5, <1>6, <3>1 DEF ClampZero
  <2>10. onHand' - Due' = onHand - Due
    BY <1>1, <1>4, <1>5, <1>6, <2>2, <2>8, <2>9
  <2>11. \A k : Stock(k)' = Stock(k)
    BY <1>2, <2>10 DEF Stock
  <2> QED BY <1>2, <1>4, <2>1, <2>8, <2>11 DEF StockLasts
<1>11. ~ lasting => StockLasts'
  BY <1>2 DEF StockLasts
<1> QED BY <1>9, <1>10, <1>11 DEF AutopilotInv

\* An order for what is advised covers the days until the second delivery.
LEMMA AutoOrderKeeps == AutopilotInv /\ AutoOrder => AutopilotInv'
<1> SUFFICES ASSUME AutopilotInv, AutoOrder PROVE AutopilotInv'
  OBVIOUS
<1> DEFINE a == Ahead(weekday, late, item.supplier)
           b == Beyond(weekday, late, item.supplier)
           q == RecommendedQty(Input)
<1>1. /\ consumed >= 0 /\ advice' = Decide(Input)
      /\ weekday' = weekday /\ onHand' = onHand /\ item' = item /\ late' = late
      /\ consumed' = consumed /\ lasting' = lasting /\ short' = short
      /\ coming' = IF Suggested(advice')
                   THEN [x \in DOMAIN coming \cup {Input.window.d1 - weekday} |->
                           On(coming, x) + IF x = Input.window.d1 - weekday
                                           THEN advice'.recommended ELSE 0]
                   ELSE coming
  BY DEF AutoOrder
<1>2. AutopilotTypes /\ StockLasts /\ consumed # -1
  <2>1. consumed # -1
    BY <1>1
  <2> QED BY <2>1 DEF AutopilotInv
<1>3. weekday \in 0 .. 6 /\ onHand \in Nat
  BY <1>2 DEF AutopilotTypes
<1>4. /\ Input.window.d1 = weekday + a /\ Input.window.d2 = weekday + b
      /\ a \in Int /\ b \in Int /\ 1 <= a /\ a <= b /\ b <= Horizon /\ Horizon \in Nat
      /\ Input.onHand = onHand /\ Input.model = item.model
  BY <1>2, InputIs
<1>5. /\ q \in Nat /\ Position(Input) \in Int /\ TargetLevel(Input) \in Int
      /\ item.model # "M0" => TargetLevel(Input) - Position(Input) >= 0 - Stock(b - 1)
      /\ Position(Input) + q >= TargetLevel(Input)
  BY <1>2, AdviceIs
<1>6. advice'.recommended = q /\ advice'.status = IF item.model = "M0" THEN DecideManual(Input)
                                                  ELSE Classify(Input)
  BY <1>1, <1>4 DEF Decide
<1>7. /\ Quantities(coming) /\ DOMAIN coming \subseteq 1 .. Horizon
      /\ \A x \in DOMAIN coming : coming[x] \in Nat
      /\ \A x \in Int : x > a => On(coming, x) = 0
  BY <1>2, ComingIsQuantities
<1>8. \A x \in DOMAIN coming : x <= a
  BY <1>2 DEF AutopilotTypes
<1> HIDE DEF a, b, q
<1>9. Input.window.d1 - weekday = a
  BY <1>3, <1>4
<1>10. coming' = IF Suggested(advice')
                 THEN [x \in DOMAIN coming \cup {a} |-> On(coming, x) + IF x = a THEN q ELSE 0]
                 ELSE coming
  BY <1>1, <1>6, <1>9
<1>11. ASSUME Suggested(advice')
       PROVE  /\ \E S \in SUBSET (1 .. Horizon) : coming' \in [S -> Nat]
              /\ \A x \in DOMAIN coming' : x <= a
              /\ OneMore(coming', coming, a, q)
  <2> DEFINE S == DOMAIN coming \cup {a}
  <2>1. coming' = [x \in S |-> On(coming, x) + IF x = a THEN q ELSE 0]
    BY <1>10, <1>11
  <2>2. S \in SUBSET (1 .. Horizon) /\ \A x \in S : x \in Int /\ x <= a
    BY <1>4, <1>7, <1>8
  <2> HIDE DEF S
  <2>3. \A x \in S : On(coming, x) \in Nat
    BY <1>7, <2>2 DEF Quantities
  <2>4. \A x \in S : (On(coming, x) + IF x = a THEN q ELSE 0) \in Nat
    BY <1>5, <2>3
  <2>5. coming' \in [S -> Nat] /\ DOMAIN coming' = S
    BY <2>1, <2>4
  <2>6. OneMore(coming', coming, a, q)
    <3> SUFFICES ASSUME NEW d \in Int
                 PROVE  On(coming', d) = On(coming, d) + IF d = a THEN q ELSE 0
      BY DEF OneMore
    <3>1. CASE d \in S
      <4>1. On(coming', d) = coming'[d]
        BY <2>5, <3>1 DEF On
      <4>2. coming'[d] = On(coming, d) + IF d = a THEN q ELSE 0
        BY <2>1, <3>1
      <4> QED BY <4>1, <4>2
    <3>2. CASE d \notin S
      <4>1. d # a /\ d \notin DOMAIN coming
        BY <3>2 DEF S
      <4>2. On(coming', d) = 0 /\ On(coming, d) = 0
        BY <2>5, <3>2, <4>1 DEF On
      <4> QED BY <4>1, <4>2
    <3> QED BY <3>1, <3>2
  <2> QED BY <2>2, <2>5, <2>6
<1>12. AutopilotTypes'
  <2>1. /\ \E S \in SUBSET (1 .. Horizon) : coming' \in [S -> Nat]
        /\ \A x \in DOMAIN coming' : x <= a
    <3>1. CASE Suggested(advice')
      BY <1>11, <3>1
    <3>2. CASE ~ Suggested(advice')
      <4>1. coming' = coming
        BY <1>10, <3>2
      <4> QED BY <1>2, <1>8, <4>1 DEF AutopilotTypes
    <3> QED BY <3>1, <3>2
  <2>2. /\ weekday' \in 0 .. 6 /\ onHand' \in Nat /\ late' \in BOOLEAN /\ item' \in ItemKinds
        /\ consumed' \in Nat \cup {-1} /\ lasting' \in BOOLEAN /\ consumed' # -1
    BY <1>1, <1>2 DEF AutopilotTypes
  <2>3. Ahead(weekday', late', item'.supplier) = a
    BY <1>1 DEF a
  <2> QED BY <2>1, <2>2, <2>3 DEF AutopilotTypes
<1>13. ASSUME lasting PROVE StockLasts'
  <2>1. /\ item.model # "M0" /\ ~ short
        /\ \A k \in 0 .. a - 1 : Stock(k) >= 0
    BY <1>2, <1>13 DEF StockLasts, a
  <2>2. \A k : Stock(k)' = onHand - Due + SumOf(coming', 1, k) - SumOf(UsageDays(weekday), 1, k)
    <3>1. Due' = Due
      BY <1>1 DEF Due
    <3> QED BY <1>1, <3>1 DEF Stock
  <2>3. \A k : Stock(k) = onHand - Due + SumOf(coming, 1, k) - SumOf(UsageDays(weekday), 1, k)
    BY DEF Stock
  <2>4. \A k \in Int : /\ Stock(k) \in Int /\ Due \in Nat
                       /\ SumOf(coming, 1, k) \in Nat /\ SumOf(UsageDays(weekday), 1, k) \in Nat
    BY <1>2, StockIsInt
  <2>5. \A k \in Int : SumOf(coming', 1, k)
                         = SumOf(coming, 1, k) + IF Suggested(advice') /\ a <= k THEN q ELSE 0
    <3>1. CASE Suggested(advice')
      <4>1. OneMore(coming', coming, a, q) /\ 1 \in Int
        BY <1>11, <3>1
      <4>2. \A k \in Int : SumOf(coming', 1, k)
                             = SumOf(coming, 1, k) + IF a <= k THEN q ELSE 0
        <5>1. a \in Int /\ 1 <= a /\ q \in Nat /\ Quantities(coming)
          BY <1>4, <1>5, <1>7
        <5> SUFFICES ASSUME NEW k \in Int
                     PROVE  SumOf(coming', 1, k) = SumOf(coming, 1, k) + IF a <= k THEN q ELSE 0
          OBVIOUS
        <5>2. PICK g : g = coming'
          OBVIOUS
        <5>3. OneMoreFrom(g, coming, a, q, 1)
          BY <4>1, <5>1, <5>2 DEF OneMoreFrom
        <5>4. /\ a <= k => SumOf(g, 1, k) = SumOf(coming, 1, k) + q
              /\ ~ (a <= k) => SumOf(g, 1, k) = SumOf(coming, 1, k)
          BY <5>3, SumOfOneMore
        <5> QED BY <2>4, <5>2, <5>4
      <4> QED BY <3>1, <4>2
    <3>2. CASE ~ Suggested(advice')
      <4>1. coming' = coming
        BY <1>10, <3>2
      <4> QED BY <2>4, <3>2, <4>1
    <3> QED BY <3>1, <3>2
  <2>6. ASSUME NEW k \in 0 .. a - 1 PROVE Stock(k)' >= 0
    <3>1. k \in Int /\ ~ (a <= k)
      BY <1>4
    <3>2. SumOf(coming', 1, k) = SumOf(coming, 1, k)
      BY <2>4, <2>5, <3>1
    <3>3. Stock(k)' = Stock(k) /\ Stock(k) >= 0
      BY <2>1, <2>2, <2>3, <3>2
    <3> QED BY <3>3
  <2>7. ASSUME NEW k \in 0 .. b - 1, a <= k PROVE Stock(k)' >= 0
    <3>1. k \in Int /\ b - 1 \in Int /\ k <= b - 1 /\ 1 \in Int /\ a # b
      BY <1>4, <2>7
    <3>2. SumOf(coming, 1, b - 1) = SumOf(coming, 1, k)
      <4>1. Still(coming, k, b - 1)
        <5>1. \A x \in k + 1 .. b - 1 : x \in Int /\ x > a
          BY <1>4, <2>7, <3>1
        <5> QED BY <1>7, <5>1 DEF Still
      <4> QED BY <1>7, <3>1, <4>1, SumOfStill
    <3>3. SumOf(UsageDays(weekday), 1, k) <= SumOf(UsageDays(weekday), 1, b - 1)
      <4>1. Quantities(UsageDays(weekday))
        BY <1>3, UsageIsQuantities
      <4> QED BY <3>1, <4>1, SumOfGrows
    <3>4. Stock(k) >= Stock(b - 1)
      <4>1. /\ Stock(k) = onHand - Due + SumOf(coming, 1, k) - SumOf(UsageDays(weekday), 1, k)
            /\ Stock(b - 1) = onHand - Due + SumOf(coming, 1, b - 1)
                                - SumOf(UsageDays(weekday), 1, b - 1)
        BY <2>3
      <4>2. /\ Due \in Nat /\ SumOf(coming, 1, k) \in Nat /\ SumOf(coming, 1, b - 1) \in Nat
            /\ SumOf(UsageDays(weekday), 1, k) \in Nat
            /\ SumOf(UsageDays(weekday), 1, b - 1) \in Nat
        BY <2>4, <3>1
      <4> QED BY <1>3, <3>2, <3>3, <4>1, <4>2
    <3>5. ASSUME ~ Suggested(advice') PROVE Position(Input) >= TargetLevel(Input)
      <4> SUFFICES ASSUME Position(Input) < TargetLevel(Input) PROVE FALSE
        BY <1>5
      <4>1. Shortfall(Input) > 0 /\ q > 0
        BY <1>5 DEF Shortfall
      <4>2. ~ CanWait(Input.window)
        BY <1>3, <1>4, <3>1 DEF CanWait
      <4>3. Classify(Input) \in {"order_today", "critical", "out_of_stock"}
        BY <4>1, <4>2 DEF Classify
      <4>4. advice'.status \in {"order_today", "critical", "out_of_stock"}
        BY <1>6, <2>1, <4>3
      <4> QED BY <1>6, <3>5, <4>1, <4>4 DEF Suggested
    <3>6. Stock(b - 1) >= Position(Input) - TargetLevel(Input)
      BY <1>5, <2>1, <2>4, <3>1
    <3>7. Stock(k) \in Int /\ Stock(b - 1) \in Int
      BY <2>4, <3>1
    <3>8. Stock(k)' = Stock(k) + IF Suggested(advice') THEN q ELSE 0
      <4>1. /\ Stock(k) = onHand - Due + SumOf(coming, 1, k) - SumOf(UsageDays(weekday), 1, k)
            /\ Stock(k)' = onHand - Due + SumOf(coming', 1, k) - SumOf(UsageDays(weekday), 1, k)
        BY <2>2, <2>3
      <4>2. /\ Due \in Nat /\ SumOf(coming, 1, k) \in Nat
            /\ SumOf(UsageDays(weekday), 1, k) \in Nat
            /\ SumOf(coming', 1, k) = SumOf(coming, 1, k) + IF Suggested(advice') THEN q ELSE 0
        BY <2>4, <2>5, <2>7, <3>1
      <4> QED BY <1>3, <1>5, <4>1, <4>2
    <3>9. CASE Suggested(advice')
      BY <1>5, <3>4, <3>6, <3>7, <3>8, <3>9
    <3>10. CASE ~ Suggested(advice')
      BY <1>5, <3>4, <3>5, <3>6, <3>7, <3>8, <3>10
    <3> QED BY <3>9, <3>10
  <2>8. \A k \in 0 .. b - 1 : Stock(k)' >= 0
    <3> SUFFICES ASSUME NEW k \in 0 .. b - 1 PROVE Stock(k)' >= 0
      OBVIOUS
    <3>1. a <= k \/ k \in 0 .. a - 1
      BY <1>4
    <3> QED BY <2>6, <2>7, <3>1
  <2>9. /\ Ahead(weekday', late', item'.supplier) = a
        /\ Beyond(weekday', late', item'.supplier) = b
    BY <1>1 DEF a, b
  <2> QED BY <1>1, <2>1, <2>6, <2>8, <2>9 DEF StockLasts
<1>14. ~ lasting => StockLasts'
  BY <1>1 DEF StockLasts
<1> QED BY <1>12, <1>13, <1>14 DEF AutopilotInv

\* Overnight the days come one nearer, and a stock that lasts until the second
\* delivery lasts until the first of the next day.
LEMMA ShiftClockKeeps == AutopilotInv /\ ShiftClock => AutopilotInv'
<1> SUFFICES ASSUME AutopilotInv, ShiftClock PROVE AutopilotInv'
  OBVIOUS
<1>1. PICK hour \in BOOLEAN, missing \in {0, 1} :
        /\ missing > 0 => On(coming, 0) + On(coming, 1) > 0
        /\ weekday' = (weekday + 1) % 7
        /\ onHand' = onHand + (On(coming, 0) + On(coming, 1)) - missing
        /\ coming' = [x \in {n - 1 : n \in DOMAIN coming \ {0, 1}} |-> coming[x + 1]]
        /\ late' = hour
        /\ lasting' = (lasting /\ missing = 0 /\ (hour => late))
  BY Zenon DEF ShiftClock
<1>2. advice # Undecided /\ consumed' = -1 /\ advice' = Undecided /\ item' = item /\ short' = short
  BY DEF ShiftClock
<1>3. AutopilotTypes /\ StockLasts
  BY DEF AutopilotInv
<1> DEFINE a == Ahead(weekday, late, item.supplier)
           b == Beyond(weekday, late, item.supplier)
           next == Ahead(weekday', hour, item.supplier)
<1>4. weekday \in 0 .. 6 /\ onHand \in Nat /\ late \in BOOLEAN /\ item.supplier \in Suppliers
      /\ item \in ItemKinds
  BY <1>3, ItemsAreBought DEF AutopilotTypes
<1>5. /\ Quantities(coming) /\ On(coming, 0) = 0 /\ DOMAIN coming \subseteq 1 .. Horizon
      /\ \A x \in DOMAIN coming : coming[x] \in Nat
  BY <1>3, ComingIsQuantities
<1>6. On(coming, 1) \in Nat
  BY <1>5 DEF Quantities
<1>7. /\ weekday' \in 0 .. 6 /\ a <= next + 1
      /\ (hour => late) => next + 1 <= b
  BY <1>1, <1>4, NextWindow
<1>8. a \in Int /\ b \in Int /\ next \in Int /\ 1 <= next /\ next <= Horizon /\ Horizon \in Nat
  <2>1. next \in Int /\ 1 <= next /\ next <= Beyond(weekday', hour, item.supplier)
        /\ Beyond(weekday', hour, item.supplier) <= Horizon /\ Horizon \in Nat
        /\ Beyond(weekday', hour, item.supplier) \in Int
    BY <1>4, <1>7, WindowAhead
  <2>2. a \in Int /\ b \in Int
    BY <1>4, WindowAhead
  <2> HIDE DEF a, b, next
  <2> QED BY <2>1, <2>2
<1>9. \A x \in DOMAIN coming : x <= a
  BY <1>3 DEF AutopilotTypes
<1>10. \A x \in Int : x >= 1 => On(coming', x) = On(coming, x + 1)
  <2> SUFFICES ASSUME NEW x \in Int, x >= 1 PROVE On(coming', x) = On(coming, x + 1)
    OBVIOUS
  <2>1. x \in {n - 1 : n \in DOMAIN coming \ {0, 1}} <=> x + 1 \in DOMAIN coming
    BY <1>5
  <2>2. DOMAIN coming' = {n - 1 : n \in DOMAIN coming \ {0, 1}}
    BY <1>1
  <2>3. x \in DOMAIN coming' => coming'[x] = coming[x + 1]
    BY <1>1
  <2> QED BY <2>1, <2>2, <2>3 DEF On
<1> HIDE DEF a, b, next
<1>11. AutopilotTypes'
  <2> DEFINE S == {n - 1 : n \in DOMAIN coming \ {0, 1}}
  <2>1. ASSUME NEW x \in S PROVE x \in 1 .. Horizon /\ x <= next /\ coming[x + 1] \in Nat
    <3>1. PICK n \in DOMAIN coming \ {0, 1} : x = n - 1
      OBVIOUS
    <3>2. n \in 1 .. Horizon /\ n # 1 /\ n <= a /\ x + 1 = n /\ coming[n] \in Nat
      BY <1>5, <1>9, <3>1
    <3> QED BY <1>7, <1>8, <3>1, <3>2
  <2>2. coming' = [x \in S |-> coming[x + 1]]
    BY <1>1
  <2> HIDE DEF S
  <2>3. S \in SUBSET (1 .. Horizon) /\ coming' \in [S -> Nat] /\ DOMAIN coming' = S
    BY <2>1, <2>2
  <2>4. onHand' \in Nat
    BY <1>1, <1>4, <1>5, <1>6
  <2>5. Ahead(weekday', late', item'.supplier) = next
    BY <1>1, <1>2 DEF next
  <2>6. late' \in BOOLEAN /\ lasting' \in BOOLEAN /\ item' \in ItemKinds
    BY <1>1, <1>2, <1>4
  <2>7. \A x \in DOMAIN coming' : x <= next
    BY <2>1, <2>3
  <2> QED BY <1>2, <1>7, <2>3, <2>4, <2>5, <2>6, <2>7 DEF AutopilotTypes
<1>12. ASSUME lasting' PROVE StockLasts'
  <2>1. lasting /\ missing = 0 /\ (hour => late)
    BY <1>1, <1>12
  <2>2. /\ item.model # "M0" /\ ~ short
        /\ \A k \in 0 .. b - 1 : Stock(k) >= 0
    BY <1>2, <1>3, <2>1 DEF StockLasts, b
  <2> DEFINE u == UsageDays(weekday)
             v == UsageDays(weekday')
  <2>3. Quantities(u) /\ Quantities(v) /\ On(u, 1) \in Nat
    <3>1. Quantities(u) /\ Quantities(v)
      BY <1>4, <1>7, UsageIsQuantities
    <3> QED BY <3>1 DEF Quantities
  <2>4. \A x \in Nat : On(v, x) = On(u, x + 1)
    BY <1>1, <1>4, UsageNext
  <2>5. Due' = On(u, 1)
    <3>1. Due' = Usage[Weekday(weekday')]
      BY <1>2 DEF Due
    <3>2. On(v, 0) = Usage[Weekday(weekday' + 0)] /\ weekday' + 0 = weekday'
      <4>1. PICK w \in 0 .. 6 : w = weekday'
        BY <1>7
      <4>2. On(UsageDays(w), 0) = Usage[Weekday(w + 0)] /\ w + 0 = w
        BY UsageIsQuantities
      <4> QED BY <4>1, <4>2 DEF v
    <3>3. On(v, 0) = On(u, 0 + 1) /\ 0 + 1 = 1
      BY <2>4
    <3> QED BY <3>1, <3>2, <3>3
  <2> HIDE DEF u, v
  <2>6. onHand' = onHand + On(coming, 1)
    BY <1>1, <1>4, <1>5, <1>6, <2>1
  <2>7. ASSUME NEW k \in 0 .. next - 1 PROVE Stock(k)' >= 0
    <3>1. k \in Int /\ 1 \in Int /\ 1 <= k + 1 /\ k + 1 \in Int /\ 1 + 1 \in Int
      BY <1>8
    <3>2. SumOf(coming', 1, k) = SumOf(coming, 1 + 1, k + 1)
      <4>1. Shifted(coming', coming, 1, k, 1)
        BY <1>10 DEF Shifted
      <4> QED BY <3>1, <4>1, SumOfShift
    <3>3. SumOf(v, 1, k) = SumOf(u, 1 + 1, k + 1)
      <4>1. Shifted(v, u, 1, k, 1)
        BY <2>4 DEF Shifted
      <4> QED BY <3>1, <4>1, SumOfShift
    <3>4. SumOf(coming, 1, k + 1) = On(coming, 1) + SumOf(coming, 1 + 1, k + 1)
      BY <1>5, <3>1, SumOfFirst
    <3>5. SumOf(u, 1, k + 1) = On(u, 1) + SumOf(u, 1 + 1, k + 1)
      BY <2>3, <3>1, SumOfFirst
    <3>6. Stock(k + 1) >= 0
      BY <1>7, <1>8, <2>1, <2>2
    <3>7. Stock(k + 1) = onHand - Due + SumOf(coming, 1, k + 1) - SumOf(u, 1, k + 1)
      BY DEF Stock, u
    <3>8. Stock(k)' = onHand' - Due' + SumOf(coming', 1, k) - SumOf(v, 1, k)
      BY DEF Stock, v
    <3>9. /\ SumOf(coming, 1 + 1, k + 1) \in Nat /\ SumOf(u, 1 + 1, k + 1) \in Nat
          /\ Due \in Nat
      BY <1>3, <1>5, <2>3, <3>1, SumOfNat, DueIsNat
    <3>10. Stock(k)' = onHand + On(coming, 1) - On(u, 1)
                        + SumOf(coming, 1 + 1, k + 1) - SumOf(u, 1 + 1, k + 1)
      BY <1>4, <1>6, <2>3, <2>5, <2>6, <3>2, <3>3, <3>8, <3>9
    <3> QED BY <1>4, <1>6, <2>3, <3>4, <3>5, <3>6, <3>7, <3>9, <3>10
  <2>8. Ahead(weekday', late', item'.supplier) = next
    BY <1>1, <1>2 DEF next
  <2> QED BY <1>2, <2>2, <2>7, <2>8 DEF StockLasts
<1>13. ~ lasting' => StockLasts'
  BY DEF StockLasts
<1> QED BY <1>11, <1>12, <1>13 DEF AutopilotInv

LEMMA AutopilotInductive == AutopilotSpec => []AutopilotInv
<1>1. AutopilotInv /\ [AutopilotNext]_autopilotVars => AutopilotInv'
  <2> SUFFICES ASSUME AutopilotInv, [AutopilotNext]_autopilotVars PROVE AutopilotInv'
    OBVIOUS
  <2>1. CASE ShiftClock
    BY <2>1, ShiftClockKeeps
  <2>2. CASE ConsumeDay
    BY <2>2, ConsumeDayKeeps
  <2>3. CASE AutoOrder
    BY <2>3, AutoOrderKeeps
  <2>4. CASE UNCHANGED autopilotVars
    BY <2>4 DEF autopilotVars, AutopilotInv, AutopilotTypes, StockLasts, Stock, Due
  <2> QED BY <2>1, <2>2, <2>3, <2>4 DEF AutopilotNext
<1> QED BY StartsWithStock, <1>1, PTL DEF AutopilotSpec

\* An item whose orders follow the advice does not run out, if the stock at the start
\* lasts until the first delivery, demand stays within the forecast and orders come
\* in full and in time: for every supplier's calendar, every usage, pack and least
\* order, on every day to come (reorder.go, Decide; window.go, ComputeWindow).
THEOREM AdviceIsEnough == AutopilotSpec => []AdvicePreventsShortage
<1>1. AutopilotInv => AdvicePreventsShortage
  BY DEF AutopilotInv, StockLasts, AdvicePreventsShortage
<1> QED BY <1>1, AutopilotInductive, PTL

\* What an order in yellow leaves the item with.
LEMMA OrderIsModest ==
  ASSUME AutopilotInv, AutoOrder, advice'.status = "order_today", item.model # "M0"
  PROVE  LET held == onHand + SumOf(coming, 0, Horizon)
         IN  /\ held < TargetLevel(Input)
             /\ held + advice'.recommended <= TargetLevel(Input) + item.minOrder + item.pack
<1> DEFINE a == Ahead(weekday, late, item.supplier)
           b == Beyond(weekday, late, item.supplier)
<1>1. AutopilotTypes /\ consumed # -1 /\ advice' = Decide(Input)
  <2>1. consumed >= 0 /\ advice' = Decide(Input)
    BY DEF AutoOrder
  <2>2. consumed # -1
    BY <2>1
  <2> QED BY <2>1, <2>2 DEF AutopilotInv
<1>2. weekday \in 0 .. 6 /\ onHand \in Nat
  BY <1>1 DEF AutopilotTypes
<1>3. /\ Input.window.d1 = weekday + a /\ Input.window.d2 = weekday + b
      /\ a \in Int /\ b \in Int /\ 1 <= a /\ a <= b /\ b <= Horizon /\ Horizon \in Nat
      /\ Input.model = item.model
  BY <1>1, InputIs
<1>4. /\ Position(Input) = onHand + SumOf(coming, 1, b - 1)
      /\ Position(Input) \in Int /\ TargetLevel(Input) \in Int
      /\ Shortfall(Input) > 0 =>
           Position(Input) + RecommendedQty(Input)
             <= TargetLevel(Input) + item.minOrder + item.pack
  BY <1>1, AdviceIs
<1>5. /\ Quantities(coming) /\ On(coming, 0) = 0
      /\ \A x \in Int : x > a => On(coming, x) = 0
  BY <1>1, ComingIsQuantities
<1> HIDE DEF a, b
<1>6. Classify(Input) = "order_today" /\ advice'.recommended = RecommendedQty(Input)
  BY <1>1, <1>3 DEF Decide
<1>7. Shortfall(Input) > 0 /\ ~ CanWait(Input.window)
  BY <1>6 DEF Classify
<1>8. a < b
  BY <1>2, <1>3, <1>7 DEF CanWait
<1>9. SumOf(coming, 1, Horizon) = SumOf(coming, 1, b - 1)
  <2>1. Still(coming, b - 1, Horizon)
    <3>1. \A x \in b - 1 + 1 .. Horizon : x \in Int /\ x > a
      BY <1>3, <1>8
    <3> QED BY <1>5, <3>1 DEF Still
  <2>2. b - 1 \in Int /\ Horizon \in Int /\ b - 1 <= Horizon /\ 1 \in Int
    BY <1>3
  <2> QED BY <1>5, <2>1, <2>2, SumOfStill
<1>10. SumOf(coming, 0, Horizon) = SumOf(coming, 1, Horizon)
  <2>1. 0 \in Int /\ Horizon \in Int /\ 0 <= Horizon /\ 0 + 1 = 1 /\ 1 \in Int
    BY <1>3
  <2>2. SumOf(coming, 0, Horizon) = On(coming, 0) + SumOf(coming, 0 + 1, Horizon)
    BY <1>5, <2>1, SumOfFirst
  <2>3. SumOf(coming, 1, Horizon) \in Nat
    BY <1>5, <2>1, SumOfNat
  <2> QED BY <1>5, <2>1, <2>2, <2>3
<1>11. Position(Input) < TargetLevel(Input)
  BY <1>4, <1>7 DEF Shortfall
<1> QED BY <1>4, <1>6, <1>7, <1>9, <1>10, <1>11

\* An item advised in yellow is below its target with all that is on its way counted,
\* and the order leaves it at most a pack and a least order above (reorder.go, Decide).
THEOREM AdviceIsNeverMuch == AutopilotSpec => AdviceIsModest
<1> DEFINE Modest ==
      (advice' # Undecided /\ advice'.status = "order_today" /\ item.model # "M0") =>
        LET held == onHand + SumOf(coming, 0, Horizon)
        IN  /\ held < TargetLevel(Input)
            /\ held + advice'.recommended <= TargetLevel(Input) + item.minOrder + item.pack
<1>1. AutopilotInv /\ [AutopilotNext]_autopilotVars => [Modest]_autopilotVars
  <2> SUFFICES ASSUME AutopilotInv, AutopilotNext PROVE Modest
    OBVIOUS
  <2>1. CASE ShiftClock
    BY <2>1 DEF ShiftClock
  <2>2. CASE ConsumeDay
    BY <2>2 DEF ConsumeDay, AutopilotInv, AutopilotTypes
  <2>3. CASE AutoOrder
    BY <2>3, OrderIsModest
  <2> QED BY <2>1, <2>2, <2>3 DEF AutopilotNext
<1> QED BY <1>1, AutopilotInductive, PTL DEF AutopilotSpec, AdviceIsModest

-----------------------------------------------------------------------------
USE NightlyAssumption, NoTxAssumption, NoRowAssumption

-----------------------------------------------------------------------------
(* What some of the items have.                                             *)

LEMMA SomeProperties ==
  ASSUME NEW V, NEW f \in Some(V)
  PROVE  DOMAIN f \subseteq Items /\ \A i \in DOMAIN f : f[i] \in V
<1>1. PICK S \in SUBSET Items : f \in [S -> V]
  BY DEF Some
<1> QED BY <1>1

LEMMA NoneIsSome ==
  ASSUME NEW V
  PROVE  <<>> \in Some(V) /\ DOMAIN <<>> = {}
<1>1. <<>> \in [{} -> V]
  OBVIOUS
<1> QED BY <1>1 DEF Some

LEMMA WithIsSome ==
  ASSUME NEW V, NEW f \in Some(V), NEW i \in Items, NEW v \in V
  PROVE  With(f, i, v) \in Some(V)
<1>1. DOMAIN f \cup {i} \in SUBSET Items
  BY SomeProperties
<1>2. With(f, i, v) \in [DOMAIN f \cup {i} -> V]
  BY SomeProperties DEF With
<1> QED BY <1>1, <1>2 DEF Some

LEMMA AllIsSome ==
  ASSUME NEW V, NEW f \in [Items -> V]
  PROVE  f \in Some(V)
  BY DEF Some

LEMMA LevelType ==
  ASSUME NEW h, NEW f
  PROVE  Level(h, f) \in 0..2
  BY DEF Level

LEMMA AlertsType ==
  ASSUME NightlyTypeOK, NEW i \in Items, NEW level, NEW previous
  PROVE  AlertFor(i, level, previous) \in Alerts
  BY DEF AlertFor, Alerts, NightlyTypeOK

-----------------------------------------------------------------------------
(* The invariant.                                                           *)

\* There is an alert among A, of some day up to today, that item i is red.
Alerted(i, A, today) == \E d \in 1..today : <<i, d>> \in A

\* What a transaction has written so far: a red row has been alerted, by the
\* transaction or before, and its alerts are about its own red rows.
WritesFit(t, A, today) ==
  /\ \A i \in DOMAIN t.rows :
       IsRed(t.rows[i].level) => Alerted(i, A \cup t.alerts, today)
  /\ \A a \in t.alerts : \E i \in DOMAIN t.rows :
       IsRed(t.rows[i].level) /\ a = <<i, t.rows[i].day>>

\* A movement of balances h: it holds those it has changed, and the statuses it
\* has written are computed from them.
MoveFits(t, h, A, today) ==
  /\ t.at # "commit" => t.todo # <<>>
  /\ DOMAIN t.hand = IF t.at \in {"lock", "commit"} THEN DOMAIN t.rows
                     ELSE DOMAIN t.rows \cup {Head(t.todo)}
  /\ \A i \in DOMAIN t.hand : t.hand[i] = h[i] + t.q
  /\ \A i \in DOMAIN t.rows : t.rows[i].hand = t.hand[i]
  /\ (t.at \in {"forecast", "write"} /\ t.previous > 0) =>
       Alerted(Head(t.todo), A, today)
  /\ WritesFit(t, A, today)

\* A night has read every item before it writes the first status.
NightFits(n, A, today) ==
  /\ n.at \in {"forecasts", "previous", "write"} =>
       n.todo # <<>> /\ DOMAIN n.hand = Items
  /\ n.at \in {"previous", "write"} => DOMAIN n.need = Items
  /\ n.at = "write" =>
       /\ DOMAIN n.previous = Items
       /\ \A i \in Items : n.previous[i] > 0 => Alerted(i, A, today)
  /\ \A i \in DOMAIN n.rows : n.rows[i].by = "night"
  /\ WritesFit(n, A, today)

MoveInv(m) == Open(m) => MoveFits(tx[m], hand, alerts, day)
NightInv   == night # NoTx => NightFits(night, alerts, day)

\* Two movements do not hold the same balance.
LocksDisjoint ==
  \A m, n \in Movers : (m # n /\ Open(m) /\ Open(n)) =>
    DOMAIN tx[m].hand \cap DOMAIN tx[n].hand = {}

TotalIsHand == \A i \in Items : total[i] = hand[i]

\* A sum the reconciliation has read is out of date only where something moved.
CheckInv ==
  check # NoTx => \A i \in Items \ check.moved : check.sums[i] = hand[i]

\* Transactions have what their statements call for, too.
NightlyType ==
  /\ NightlyTypeOK
  /\ tx    \in [Movers -> Move \cup {NoTx}]
  /\ night \in Night \cup {NoTx}

\* The properties of Nightly say nothing of what is read and not yet committed.
Inv ==
  /\ NightlyType
  /\ LocksDisjoint /\ (\A m \in Movers : MoveInv(m)) /\ NightInv
  /\ TotalIsHand /\ CheckInv
  /\ StalenessIsTheNights /\ RedIsAlerted /\ AlertsAreTrue

\* Alerts stay, and days only come.
LEMMA AlertedStays ==
  ASSUME NEW i, NEW A, NEW B, A \subseteq B, NEW d \in Nat, NEW e \in Nat, d <= e,
         Alerted(i, A, d)
  PROVE  Alerted(i, B, e)
  BY DEF Alerted

LEMMA WritesStay ==
  ASSUME NEW t, NEW A, NEW B, A \subseteq B, NEW d \in Nat, NEW e \in Nat, d <= e,
         WritesFit(t, A, d)
  PROVE  WritesFit(t, B, e)
<1>1. ASSUME NEW i, Alerted(i, A \cup t.alerts, d)
      PROVE  Alerted(i, B \cup t.alerts, e)
  BY <1>1, AlertedStays
<1> QED BY <1>1 DEF WritesFit

LEMMA MoveStays ==
  ASSUME NEW t, NEW h, NEW g, \A i \in DOMAIN t.hand : g[i] = h[i],
         NEW A, NEW B, A \subseteq B, NEW d \in Nat, NEW e \in Nat, d <= e,
         MoveFits(t, h, A, d)
  PROVE  MoveFits(t, g, B, e)
<1>1. WritesFit(t, B, e)
  BY WritesStay DEF MoveFits
<1>2. (t.at \in {"forecast", "write"} /\ t.previous > 0) =>
         Alerted(Head(t.todo), B, e)
  BY AlertedStays DEF MoveFits
<1> QED BY <1>1, <1>2 DEF MoveFits

LEMMA NightStays ==
  ASSUME NEW n, NEW A, NEW B, A \subseteq B, NEW d \in Nat, NEW e \in Nat, d <= e,
         NightFits(n, A, d)
  PROVE  NightFits(n, B, e)
<1>1. WritesFit(n, B, e)
  BY WritesStay DEF NightFits
<1>2. \A i \in Items : Alerted(i, A, d) => Alerted(i, B, e)
  BY AlertedStays
<1> QED BY <1>1, <1>2 DEF NightFits

\* What a transaction writes next fits, when the status it had read was alerted
\* or was not red.
LEMMA WritesMore ==
  ASSUME NightlyTypeOK, NEW t, NEW u, NEW i \in Items, NEW row, NEW previous \in 0..2,
         WritesFit(t, alerts, day), i \notin DOMAIN t.rows,
         row.level \in 0..2, row.day = day,
         previous > 0 => Alerted(i, alerts, day),
         u.rows = With(t.rows, i, row),
         u.alerts = t.alerts \cup AlertFor(i, row.level, previous)
  PROVE  WritesFit(u, alerts, day)
<1> DEFINE new == AlertFor(i, row.level, previous)
<1>1. /\ DOMAIN u.rows = DOMAIN t.rows \cup {i} /\ u.rows[i] = row
      /\ \A j \in DOMAIN t.rows : u.rows[j] = t.rows[j]
  BY DEF With
<1>2. day \in Nat /\ day \in 1..day
  BY DEF NightlyTypeOK
<1>3. ASSUME NEW j \in DOMAIN t.rows, IsRed(t.rows[j].level)
      PROVE  Alerted(j, alerts \cup u.alerts, day)
  <2>1. Alerted(j, alerts \cup t.alerts, day)
    BY <1>3 DEF WritesFit
  <2> QED BY <1>2, <2>1, AlertedStays
<1>4. IsRed(row.level) => Alerted(i, alerts \cup u.alerts, day)
  <2>1. CASE IsRed(row.level) /\ row.level > previous
    <3>1. <<i, day>> \in new
      BY <2>1 DEF AlertFor
    <3> QED BY <1>2, <3>1 DEF Alerted
  <2>2. CASE IsRed(row.level) /\ ~ (row.level > previous)
    <3>1. Alerted(i, alerts, day)
      BY <2>2 DEF IsRed
    <3> QED BY <1>2, <3>1, AlertedStays
  <2> QED BY <2>1, <2>2
<1>5. ASSUME NEW a \in u.alerts
      PROVE  \E j \in DOMAIN u.rows :
               IsRed(u.rows[j].level) /\ a = <<j, u.rows[j].day>>
  <2>1. CASE a \in t.alerts
    <3>1. PICK j \in DOMAIN t.rows :
             IsRed(t.rows[j].level) /\ a = <<j, t.rows[j].day>>
      BY <2>1 DEF WritesFit
    <3> QED BY <1>1, <3>1
  <2>2. CASE a \in new
    <3>1. IsRed(row.level) /\ a = <<i, day>>
      BY <2>2 DEF AlertFor
    <3> QED BY <1>1, <3>1
  <2> QED BY <2>1, <2>2
<1> QED BY <1>1, <1>3, <1>4, <1>5 DEF WritesFit

-----------------------------------------------------------------------------
(* Steps of a movement before its commit.                                   *)

\* An open transaction, and what it may hold.
LEMMA OpenMove ==
  ASSUME Inv, NEW m \in Movers, Open(m)
  PROVE  /\ tx[m] \in Move /\ MoveFits(tx[m], hand, alerts, day)
         /\ tx[m].at # "commit" => /\ tx[m].todo # <<>> /\ Head(tx[m].todo) \in Items
                                   /\ Tail(tx[m].todo) \in Seq(Items)
<1>1. tx[m] \in Move /\ MoveFits(tx[m], hand, alerts, day)
  BY DEF Inv, NightlyType, Open, MoveInv
<1>2. tx[m].todo \in Seq(Items)
  BY <1>1 DEF Move
<1>3. tx[m].at # "commit" => tx[m].todo # <<>>
  BY <1>1 DEF MoveFits
<1> QED BY <1>1, <1>2, <1>3, HeadTailProperties

\* A step of a movement that commits nothing keeps the invariant, if the
\* transaction fits afterwards, or is over.
LEMMA MoverGoes ==
  ASSUME Inv, NEW m \in Movers, NEW t \in Move \cup {NoTx},
         tx' = [tx EXCEPT ![m] = t], UNCHANGED <<tables, others, night>>,
         t # NoTx =>
           /\ MoveFits(t, hand, alerts, day)
           /\ \A n \in Movers \ {m} : Open(n) =>
                DOMAIN t.hand \cap DOMAIN tx[n].hand = {}
  PROVE  Inv'
<1>1. /\ tx'[m] = t /\ \A n \in Movers \ {m} : tx'[n] = tx[n]
      /\ UNCHANGED <<hand, total, forecast, status, alerts, reds, day, check, night>>
  BY DEF Inv, NightlyType, tables, others
<1>2. NightlyType'
  BY <1>1 DEF Inv, NightlyType, NightlyTypeOK
<1>3. LocksDisjoint'
  BY <1>1 DEF Inv, LocksDisjoint, Open
<1>4. \A n \in Movers : MoveInv(n)'
  BY <1>1 DEF Inv, MoveInv, Open
<1> QED BY <1>1, <1>2, <1>3, <1>4
        DEF Inv, NightInv, TotalIsHand, CheckInv, StalenessIsTheNights,
            RedIsAlerted, AlertsAreTrue

\* A step that neither locks a balance nor ends the transaction.
LEMMA MoverHolds ==
  ASSUME Inv, NEW m \in Movers, Open(m), NEW t \in Move,
         tx' = [tx EXCEPT ![m] = t], UNCHANGED <<tables, others, night>>,
         MoveFits(t, hand, alerts, day), t.hand = tx[m].hand
  PROVE  Inv'
<1>1. \A n \in Movers \ {m} : Open(n) => DOMAIN t.hand \cap DOMAIN tx[n].hand = {}
  BY DEF Inv, LocksDisjoint
<1> QED BY <1>1, MoverGoes

LEMMA StartMoveKeeps ==
  ASSUME Inv, NEW m \in Movers, NEW items \in Batches, NEW q \in {-1, 1},
         StartMove(m, items, q)
  PROVE  Inv'
<1> DEFINE t == [at |-> "lock", todo |-> items, q |-> q, hand |-> <<>>,
                 rows |-> <<>>, alerts |-> {}, previous |-> 0, need |-> 0]
<1>1. t \in Move
  BY NoneIsSome DEF Move, Alerts
<1>2. MoveFits(t, hand, alerts, day)
  BY NoneIsSome DEF MoveFits, WritesFit
<1>3. DOMAIN t.hand = {}
  BY NoneIsSome
<1>4. tx' = [tx EXCEPT ![m] = t] /\ UNCHANGED <<tables, others, night>>
  BY DEF StartMove
<1> HIDE DEF t
<1> QED BY <1>1, <1>2, <1>3, <1>4, MoverGoes

LEMMA LockBalanceKeeps ==
  ASSUME Inv, NEW m \in Movers, LockBalance(m)
  PROVE  Inv'
<1> DEFINE i == Head(tx[m].todo)
           h == hand[i] + tx[m].q
           t == [tx[m] EXCEPT !.hand = With(@, i, h), !.at = "previous"]
<1>1. /\ Open(m) /\ tx[m].at = "lock" /\ BalanceFree(i) /\ h \in 0..MaxHand
      /\ tx' = [tx EXCEPT ![m] = t] /\ UNCHANGED <<tables, others, night>>
  BY DEF LockBalance, TxAt
<1>2. /\ tx[m] \in Move /\ MoveFits(tx[m], hand, alerts, day)
      /\ tx[m].todo # <<>> /\ i \in Items
  BY <1>1, OpenMove
<1>3. tx[m].hand \in Some(0..MaxHand)
  BY <1>2 DEF Move
<1>4. With(tx[m].hand, i, h) \in Some(0..MaxHand)
  <2> HIDE DEF i, h
  <2> QED BY <1>1, <1>2, <1>3, WithIsSome
<1>5. /\ t \in Move /\ t.hand = With(tx[m].hand, i, h) /\ t.at = "previous"
      /\ t.todo = tx[m].todo /\ t.q = tx[m].q /\ t.rows = tx[m].rows
      /\ t.alerts = tx[m].alerts
  <2> HIDE DEF i, h
  <2> QED BY <1>2, <1>4 DEF Move
<1> HIDE DEF t
<1>6. MoveFits(t, hand, alerts, day)
  <2>1. DOMAIN tx[m].hand = DOMAIN tx[m].rows /\ i \notin DOMAIN tx[m].hand
    BY <1>1, <1>2 DEF MoveFits, BalanceFree
  <2>2. WritesFit(t, alerts, day)
    BY <1>2, <1>5 DEF MoveFits, WritesFit
  <2>3. /\ DOMAIN t.hand = DOMAIN tx[m].hand \cup {i} /\ t.hand[i] = h
        /\ \A j \in DOMAIN tx[m].hand : t.hand[j] = tx[m].hand[j]
    <3> HIDE DEF h, i
    <3> QED BY <1>5, <2>1 DEF With
  <2>4. DOMAIN t.hand = DOMAIN t.rows \cup {Head(t.todo)}
    BY <1>5, <2>1, <2>3
  <2>5. /\ \A j \in DOMAIN tx[m].hand : tx[m].hand[j] = hand[j] + tx[m].q
        /\ \A j \in DOMAIN tx[m].rows : tx[m].rows[j].hand = tx[m].hand[j]
    BY <1>2 DEF MoveFits
  <2>6. /\ \A j \in DOMAIN t.hand : t.hand[j] = hand[j] + t.q
        /\ \A j \in DOMAIN t.rows : t.rows[j].hand = t.hand[j]
    BY <1>5, <2>1, <2>3, <2>5
  <2> QED BY <1>2, <1>5, <2>2, <2>4, <2>6 DEF MoveFits
<1>7. \A n \in Movers \ {m} : Open(n) => DOMAIN t.hand \cap DOMAIN tx[n].hand = {}
  <2>1. DOMAIN t.hand = DOMAIN tx[m].hand \cup {i}
    BY <1>5 DEF With
  <2> QED BY <1>1, <2>1 DEF Inv, LocksDisjoint, BalanceFree
<1> QED BY <1>1, <1>5, <1>6, <1>7, MoverGoes

LEMMA ReadPreviousKeeps ==
  ASSUME Inv, NEW m \in Movers, ReadPrevious(m)
  PROVE  Inv'
<1> DEFINE i == Head(tx[m].todo)
           previous == LevelOf(status[i])
           t == [tx[m] EXCEPT !.previous = previous, !.at = "forecast"]
<1>1. /\ Open(m) /\ tx[m].at = "previous"
      /\ tx' = [tx EXCEPT ![m] = t] /\ UNCHANGED <<tables, others, night>>
  BY DEF ReadPrevious, TxAt
<1>2. /\ tx[m] \in Move /\ MoveFits(tx[m], hand, alerts, day)
      /\ tx[m].todo # <<>> /\ i \in Items
  BY <1>1, OpenMove
<1>3. previous \in 0..2 /\ (previous > 0 => Alerted(i, alerts, day))
  <2>1. status[i] \in Rows \cup {NoRow}
    BY <1>2 DEF Inv, NightlyType, NightlyTypeOK
  <2>2. previous \in 0..2
    BY <2>1 DEF LevelOf, Rows
  <2> QED BY <1>2, <2>2 DEF Inv, RedIsAlerted, IsRed, Alerted
<1>4. /\ t \in Move /\ t.hand = tx[m].hand /\ t.at = "forecast"
      /\ t.todo = tx[m].todo /\ t.q = tx[m].q /\ t.rows = tx[m].rows
      /\ t.alerts = tx[m].alerts /\ t.previous = previous
  <2> HIDE DEF i, previous
  <2> QED BY <1>2, <1>3 DEF Move
<1> HIDE DEF t, previous
<1>5. MoveFits(t, hand, alerts, day)
  BY <1>1, <1>2, <1>3, <1>4 DEF MoveFits, WritesFit
<1> QED BY <1>1, <1>4, <1>5, MoverHolds

LEMMA ReadForecastKeeps ==
  ASSUME Inv, NEW m \in Movers, ReadForecast(m)
  PROVE  Inv'
<1> DEFINE need == forecast[Head(tx[m].todo)]
           t == [tx[m] EXCEPT !.need = need, !.at = "write"]
<1>1. /\ Open(m) /\ tx[m].at = "forecast"
      /\ tx' = [tx EXCEPT ![m] = t] /\ UNCHANGED <<tables, others, night>>
  BY DEF ReadForecast, TxAt
<1>2. /\ tx[m] \in Move /\ MoveFits(tx[m], hand, alerts, day)
      /\ need \in Nat
  BY <1>1, OpenMove DEF Inv, NightlyType, NightlyTypeOK
<1>3. /\ t \in Move /\ t.hand = tx[m].hand /\ t.at = "write"
      /\ t.todo = tx[m].todo /\ t.q = tx[m].q /\ t.rows = tx[m].rows
      /\ t.alerts = tx[m].alerts /\ t.previous = tx[m].previous
  <2> HIDE DEF need
  <2> QED BY <1>2 DEF Move
<1> HIDE DEF t, need
<1>4. MoveFits(t, hand, alerts, day)
  BY <1>1, <1>2, <1>3 DEF MoveFits, WritesFit
<1> QED BY <1>1, <1>3, <1>4, MoverHolds

LEMMA WriteStatusKeeps ==
  ASSUME Inv, NEW m \in Movers, WriteStatus(m)
  PROVE  Inv'
<1> DEFINE i     == Head(tx[m].todo)
           h     == tx[m].hand[i]
           level == Level(h, tx[m].need)
           row   == [level |-> level, hand |-> h, by |-> "movement", day |-> day]
           rest  == IF Len(tx[m].todo) = 1 THEN "commit" ELSE "lock"
           t == [tx[m] EXCEPT !.rows = With(@, i, row),
                              !.alerts = @ \cup AlertFor(i, level, tx[m].previous),
                              !.todo = Tail(@), !.at = rest]
<1>1. /\ Open(m) /\ tx[m].at = "write" /\ StatusFree(i)
      /\ tx' = [tx EXCEPT ![m] = t] /\ UNCHANGED <<tables, others, night>>
  BY DEF WriteStatus, TxAt
<1>2. /\ tx[m] \in Move /\ MoveFits(tx[m], hand, alerts, day)
      /\ tx[m].todo # <<>> /\ i \in Items /\ Tail(tx[m].todo) \in Seq(Items)
  BY <1>1, OpenMove
<1>3. /\ tx[m].rows \in Some(Rows) /\ tx[m].hand \in Some(0..MaxHand)
      /\ tx[m].previous \in 0..2 /\ tx[m].alerts \in Alerts /\ tx[m].todo \in Seq(Items)
  BY <1>2 DEF Move
<1>4. DOMAIN tx[m].hand = DOMAIN tx[m].rows \cup {i} /\ i \notin DOMAIN tx[m].rows
  BY <1>1, <1>2 DEF MoveFits, StatusFree
<1>5. h \in 0..MaxHand
  BY <1>3, <1>4, SomeProperties
<1>6. row \in Rows /\ row.level = level /\ row.day = day /\ row.hand = h
      /\ level \in 0..2
  <2>1. level \in 0..2
    BY LevelType
  <2> HIDE DEF level, h
  <2> QED BY <1>5, <2>1 DEF Rows, Inv, NightlyType, NightlyTypeOK
<1> HIDE DEF row
<1>7. With(tx[m].rows, i, row) \in Some(Rows)
  <2> HIDE DEF i
  <2> QED BY <1>2, <1>3, <1>6, WithIsSome
<1>8. tx[m].alerts \cup AlertFor(i, level, tx[m].previous) \in Alerts
  BY <1>2, <1>3, AlertsType DEF Alerts, Inv, NightlyType
<1>9. /\ t \in Move /\ t.hand = tx[m].hand /\ t.at = rest
      /\ t.todo = Tail(tx[m].todo) /\ t.q = tx[m].q
      /\ t.rows = With(tx[m].rows, i, row)
      /\ t.alerts = tx[m].alerts \cup AlertFor(i, level, tx[m].previous)
  <2> HIDE DEF i, level
  <2> QED BY <1>2, <1>7, <1>8 DEF Move
<1> HIDE DEF t
<1>10. WritesFit(t, alerts, day)
  <2>1. tx[m].previous > 0 => Alerted(i, alerts, day)
    BY <1>1, <1>2 DEF MoveFits
  <2>2. WritesFit(tx[m], alerts, day)
    BY <1>2 DEF MoveFits
  <2>3. NightlyTypeOK
    BY DEF Inv, NightlyType
  <2> HIDE DEF i, level
  <2> QED BY <1>2, <1>3, <1>4, <1>6, <1>9, <2>1, <2>2, <2>3, WritesMore
<1>11. t.at # "commit" => t.todo # <<>>
  <2>1. PICK s \in Seq(Items) : s = tx[m].todo
    BY <1>3
  <2>2. Len(Tail(s)) = Len(s) - 1 /\ Len(s) \in Nat /\ Tail(s) \in Seq(Items)
    BY <1>2, <2>1, HeadTailProperties, LenProperties
  <2>3. ASSUME Tail(s) = <<>>
        PROVE  Len(s) = 1
    <3>1. Len(Tail(s)) = Len(<<>>)
      BY <2>3
    <3>2. Len(<<>>) = 0
      OBVIOUS
    <3>3. Len(s) - 1 = 0
      BY <2>2, <3>1, <3>2, Zenon
    <3>4. Len(s) \in Nat
      BY LenProperties
    <3> QED BY <3>3, <3>4
  <2>4. t.at = IF Len(s) = 1 THEN "commit" ELSE "lock"
    BY <1>9, <2>1
  <2>5. t.todo = Tail(s)
    BY <1>9, <2>1
  <2> QED BY <2>3, <2>4, <2>5
<1>12. MoveFits(t, hand, alerts, day)
  <2>1. t.at \in {"lock", "commit"} /\ DOMAIN t.rows = DOMAIN tx[m].rows \cup {i}
    BY <1>9 DEF With
  <2>2. \A j \in DOMAIN t.rows : t.rows[j].hand = t.hand[j]
    BY <1>2, <1>4, <1>6, <1>9 DEF MoveFits, With
  <2> QED BY <1>2, <1>4, <1>9, <1>10, <1>11, <2>1, <2>2 DEF MoveFits
<1> QED BY <1>1, <1>9, <1>12, MoverHolds

\* A movement that is refused, fails or is chosen to break a deadlock.
LEMMA MoverEnds ==
  ASSUME Inv, NEW m \in Movers, Refuse(m) \/ AbortMove(m)
  PROVE  Inv'
<1>1. tx' = [tx EXCEPT ![m] = NoTx] /\ UNCHANGED <<tables, others, night>>
  BY DEF Refuse, AbortMove
<1> QED BY <1>1, MoverGoes

-----------------------------------------------------------------------------
(* Commits.                                                                 *)

\* The statuses and alerts of a transaction whose writes fit.
LEMMA WritesCommitted ==
  ASSUME Inv, NEW t, t.rows \in Some(Rows), t.alerts \in Alerts,
         WritesFit(t, alerts, day), CommitWrites(t), day' = day
  PROVE  /\ status' \in [Items -> Rows \cup {NoRow}]
         /\ alerts' \in Alerts /\ reds' \in Alerts /\ alerts \subseteq alerts'
         /\ RedIsAlerted' /\ AlertsAreTrue'
<1>1. /\ status' = [i \in Items |-> IF i \in DOMAIN t.rows THEN t.rows[i] ELSE status[i]]
      /\ alerts' = alerts \cup t.alerts
      /\ reds' = reds \cup {<<i, t.rows[i].day>> :
                              i \in {j \in DOMAIN t.rows : IsRed(t.rows[j].level)}}
  BY DEF CommitWrites
<1>2. /\ status \in [Items -> Rows \cup {NoRow}] /\ alerts \in Alerts /\ reds \in Alerts
      /\ day \in 1..MaxDay /\ RedIsAlerted /\ AlertsAreTrue
  BY DEF Inv, NightlyType, NightlyTypeOK
<1>3. DOMAIN t.rows \subseteq Items /\ \A i \in DOMAIN t.rows : t.rows[i] \in Rows
  BY SomeProperties
<1>4. status' \in [Items -> Rows \cup {NoRow}]
  BY <1>1, <1>2, <1>3
<1>5. alerts' \in Alerts /\ alerts \subseteq alerts'
  BY <1>1, <1>2 DEF Alerts
<1>6. reds' \in Alerts
  <2>1. \A i \in DOMAIN t.rows : t.rows[i].day \in 1..MaxDay
    BY <1>3 DEF Rows
  <2> QED BY <1>1, <1>2, <1>3, <2>1 DEF Alerts
<1>7. RedIsAlerted'
  <2> SUFFICES ASSUME NEW i \in Items, IsRed(LevelOf(status'[i]))
               PROVE  Alerted(i, alerts', day)
    BY DEF RedIsAlerted, Alerted
  <2>1. CASE i \in DOMAIN t.rows
    <3>1. status'[i] = t.rows[i] /\ t.rows[i] # NoRow
      BY <1>1, <1>3, <2>1
    <3>2. IsRed(t.rows[i].level)
      BY <3>1 DEF LevelOf
    <3> QED BY <1>1, <2>1, <3>2 DEF WritesFit
  <2>2. CASE i \notin DOMAIN t.rows
    <3>1. Alerted(i, alerts, day)
      BY <1>1, <1>2, <2>2 DEF RedIsAlerted, Alerted
    <3> QED BY <1>2, <1>5, <3>1, AlertedStays
  <2> QED BY <2>1, <2>2
<1>8. AlertsAreTrue'
  <2>1. t.alerts \subseteq reds'
    BY <1>1 DEF WritesFit
  <2> QED BY <1>1, <1>2, <2>1 DEF AlertsAreTrue
<1> QED BY <1>4, <1>5, <1>6, <1>7, <1>8

\* What stays open when the alerts of another transaction are committed and
\* balances move that it does not hold.
LEMMA OpenStay ==
  ASSUME Inv, NEW m \in Movers, tx'[m] = tx[m], day' = day, alerts \subseteq alerts',
         Open(m) => \A i \in DOMAIN tx[m].hand : hand'[i] = hand[i]
  PROVE  MoveInv(m)'
<1> SUFFICES ASSUME Open(m) PROVE MoveFits(tx[m], hand', alerts', day')
  BY DEF MoveInv, Open
<1>1. MoveFits(tx[m], hand, alerts, day)
  BY OpenMove
<1>2. day \in Nat /\ day <= day'
  BY DEF Inv, NightlyType, NightlyTypeOK
<1> QED BY <1>1, <1>2, MoveStays

LEMMA CommitMoveKeeps ==
  ASSUME Inv, NEW m \in Movers, CommitMove(m)
  PROVE  Inv'
<1> DEFINE t == tx[m]
<1>1. /\ Open(m) /\ t.at = "commit"
      /\ hand' = [i \in Items |-> IF i \in DOMAIN t.hand THEN t.hand[i] ELSE hand[i]]
      /\ total' = [i \in Items |-> IF i \in DOMAIN t.hand THEN total[i] + t.q ELSE total[i]]
      /\ CommitWrites(t)
      /\ check' = IF check = NoTx THEN NoTx
                  ELSE [check EXCEPT !.moved = @ \cup DOMAIN t.hand]
      /\ tx' = [tx EXCEPT ![m] = NoTx]
      /\ UNCHANGED <<forecast, day, nights, night>>
  BY DEF CommitMove, TxAt
<1>2. t \in Move /\ MoveFits(t, hand, alerts, day)
  BY <1>1, OpenMove
<1>3. /\ t.rows \in Some(Rows) /\ t.hand \in Some(0..MaxHand)
      /\ t.alerts \in Alerts /\ t.q \in {-1, 1}
  BY <1>2 DEF Move
<1>4. /\ DOMAIN t.hand = DOMAIN t.rows
      /\ \A i \in DOMAIN t.hand : t.hand[i] = hand[i] + t.q
      /\ \A i \in DOMAIN t.rows : t.rows[i].hand = t.hand[i]
      /\ WritesFit(t, alerts, day)
  BY <1>1, <1>2 DEF MoveFits
<1>5. DOMAIN t.hand \subseteq Items /\ \A i \in DOMAIN t.hand : t.hand[i] \in 0..MaxHand
  BY <1>3, SomeProperties
<1>6. /\ status' \in [Items -> Rows \cup {NoRow}]
      /\ alerts' \in Alerts /\ reds' \in Alerts /\ alerts \subseteq alerts'
      /\ RedIsAlerted' /\ AlertsAreTrue'
  <2> HIDE DEF t
  <2> QED BY <1>1, <1>3, <1>4, WritesCommitted
<1>7. /\ tx'[m] = NoTx /\ \A n \in Movers \ {m} : tx'[n] = tx[n]
      /\ tx' \in [Movers -> Move \cup {NoTx}]
  BY <1>1 DEF Inv, NightlyType
<1>8. /\ hand \in [Items -> 0..MaxHand] /\ total \in [Items -> Int]
      /\ check \in Check \cup {NoTx} /\ TotalIsHand /\ CheckInv /\ StalenessIsTheNights
  BY DEF Inv, NightlyType, NightlyTypeOK
<1> HIDE DEF t
<1>9. hand' \in [Items -> 0..MaxHand] /\ total' \in [Items -> Int]
  BY <1>1, <1>3, <1>5, <1>8
<1>10. check' \in Check \cup {NoTx} /\ CheckInv'
  <2>1. CASE check = NoTx
    BY <1>1, <2>1 DEF CheckInv
  <2>2. CASE check # NoTx
    <3>1. check \in Check
      BY <1>8, <2>2
    <3>2. /\ check' \in Check /\ check'.sums = check.sums
          /\ check'.moved = check.moved \cup DOMAIN t.hand
      BY <1>1, <1>5, <2>2, <3>1 DEF Check
    <3>3. \A i \in Items \ check'.moved : hand'[i] = hand[i]
      BY <1>1, <3>2
    <3> QED BY <1>8, <2>2, <3>2, <3>3 DEF CheckInv
  <2> QED BY <2>1, <2>2
<1>11. NightlyType'
  BY <1>1, <1>6, <1>7, <1>9, <1>10 DEF Inv, NightlyType, NightlyTypeOK
<1>12. LocksDisjoint'
  BY <1>7 DEF Inv, LocksDisjoint, Open
<1>13. ASSUME NEW n \in Movers
       PROVE  MoveInv(n)'
  <2>1. CASE n = m
    BY <1>7, <2>1 DEF MoveInv, Open
  <2>2. CASE n # m
    <3>1. tx'[n] = tx[n]
      BY <1>7, <2>2
    <3>2. ASSUME Open(n), NEW i \in DOMAIN tx[n].hand
          PROVE  hand'[i] = hand[i]
      <4>1. i \notin DOMAIN t.hand
        BY <1>1, <2>2, <3>2 DEF Inv, LocksDisjoint, t
      <4>2. tx[n].hand \in Some(0..MaxHand)
        BY <3>2, OpenMove DEF Move
      <4>3. i \in Items
        BY <3>2, <4>2, SomeProperties
      <4> QED BY <1>1, <4>1, <4>3
    <3> QED BY <1>1, <1>6, <3>1, <3>2, OpenStay
  <2> QED BY <2>1, <2>2
<1>14. NightInv'
  <2>1. day \in Nat /\ day <= day
    BY DEF Inv, NightlyType, NightlyTypeOK
  <2> QED BY <1>1, <1>6, <2>1, NightStays DEF Inv, NightInv
<1>15. TotalIsHand'
  BY <1>1, <1>4, <1>5, <1>8 DEF TotalIsHand
<1>16. StalenessIsTheNights'
  BY <1>1, <1>4, <1>5, <1>8 DEF StalenessIsTheNights, CommitWrites
<1> QED BY <1>6, <1>10, <1>11, <1>12, <1>13, <1>14, <1>15, <1>16 DEF Inv

-----------------------------------------------------------------------------
(* The night.                                                               *)

LEMMA OpenNight ==
  ASSUME Inv, night # NoTx
  PROVE  night \in Night /\ NightFits(night, alerts, day)
  BY DEF Inv, NightlyType, NightInv

\* A step of the night that commits nothing.
LEMMA NightGoesOn ==
  ASSUME Inv, NEW n \in Night \cup {NoTx}, night' = n,
         UNCHANGED <<tables, day, check, tx>>,
         n # NoTx => NightFits(n, alerts, day)
  PROVE  Inv'
<1>1. UNCHANGED <<hand, total, forecast, status, alerts, reds, day, check, tx>>
  BY DEF tables
<1>2. n # NoTx => DOMAIN n.rows \subseteq Items
  BY SomeProperties DEF Night
<1>3. NightlyType'
  BY <1>1, <1>2 DEF Inv, NightlyType, NightlyTypeOK
<1>4. LocksDisjoint' /\ \A m \in Movers : MoveInv(m)'
  BY <1>1 DEF Inv, LocksDisjoint, MoveInv, Open
<1>5. NightInv'
  BY <1>1 DEF NightInv
<1> QED BY <1>1, <1>3, <1>4, <1>5
        DEF Inv, TotalIsHand, CheckInv, StalenessIsTheNights, RedIsAlerted, AlertsAreTrue

LEMMA StartNightKeeps ==
  ASSUME Inv, StartNight
  PROVE  Inv'
<1>1. PICK computed \in [Items -> Forecasts] :
        night' = [at |-> "store", forecast |-> computed, hand |-> <<>>, need |-> <<>>,
                  previous |-> <<>>, todo |-> <<>>, rows |-> <<>>, alerts |-> {}]
  BY DEF StartNight
<1> DEFINE n == [at |-> "store", forecast |-> computed, hand |-> <<>>, need |-> <<>>,
                 previous |-> <<>>, todo |-> <<>>, rows |-> <<>>, alerts |-> {}]
<1>2. n \in Night
  BY NoneIsSome DEF Night, Alerts
<1>3. NightFits(n, alerts, day)
  BY NoneIsSome DEF NightFits, WritesFit
<1>4. night' = n /\ UNCHANGED <<tables, day, check, tx>>
  BY <1>1 DEF StartNight
<1> HIDE DEF n
<1> QED BY <1>2, <1>3, <1>4, NightGoesOn

LEMMA StoreAllKeeps ==
  ASSUME Inv, StoreAll
  PROVE  Inv'
<1> DEFINE n == [night EXCEPT !.at = "items"]
<1>1. /\ night # NoTx /\ night.at = "store" /\ forecast' = night.forecast /\ night' = n
      /\ UNCHANGED <<hand, total, status, alerts, reds, day, check, tx>>
  BY DEF StoreAll, NightAt, others
<1>2. night \in Night /\ NightFits(night, alerts, day)
  BY <1>1, OpenNight
<1>3. n \in Night /\ n.at = "items" /\ n.rows = night.rows /\ n.alerts = night.alerts
  BY <1>2 DEF Night
<1> HIDE DEF n
<1>4. NightFits(n, alerts, day) /\ DOMAIN n.rows \subseteq Items
  <2>1. DOMAIN n.rows \subseteq Items
    BY <1>3, SomeProperties DEF Night
  <2> QED BY <1>2, <1>3, <2>1 DEF NightFits, WritesFit
<1>5. forecast' \in [Items -> Nat]
  BY <1>1, <1>2 DEF Night
<1>6. NightlyType'
  BY <1>1, <1>3, <1>4, <1>5 DEF Inv, NightlyType, NightlyTypeOK
<1>7. LocksDisjoint' /\ \A m \in Movers : MoveInv(m)'
  BY <1>1 DEF Inv, LocksDisjoint, MoveInv, Open
<1>8. NightInv'
  BY <1>1, <1>4 DEF NightInv
<1> QED BY <1>1, <1>6, <1>7, <1>8
        DEF Inv, TotalIsHand, CheckInv, StalenessIsTheNights, RedIsAlerted, AlertsAreTrue

LEMMA InIdOrderProperties ==
  ASSUME NEW ids \in InIdOrder
  PROVE  ids \in Seq(Items) /\ (Items # {} => ids # <<>>)
<1> DEFINE c == Cardinality(Items)
<1>1. ids \in [1..c -> Items]
  BY DEF InIdOrder
<1>2. c \in Nat /\ (Items # {} => c # 0)
  BY FS_CardinalityType, FS_EmptySet
<1> HIDE DEF c
<1>3. ids \in Seq(Items)
  BY <1>1, <1>2, SeqDef
<1>4. Items # {} => ids # <<>>
  <2>1. Items # {} => 1 \in DOMAIN ids
    BY <1>1, <1>2
  <2>2. DOMAIN <<>> = {}
    BY NoneIsSome
  <2> QED BY <2>1, <2>2, Zenon
<1> QED BY <1>3, <1>4

LEMMA ReadItemsKeeps ==
  ASSUME Inv, ReadItems
  PROVE  Inv'
<1>1. PICK ids \in InIdOrder :
        NightGoes([night EXCEPT !.hand = hand, !.todo = ids,
                                !.at = IF Items = {} THEN "commit" ELSE "forecasts"])
  BY DEF ReadItems
<1> DEFINE n == [night EXCEPT !.hand = hand, !.todo = ids,
                              !.at = IF Items = {} THEN "commit" ELSE "forecasts"]
<1>2. /\ night # NoTx /\ night' = n /\ UNCHANGED <<tables, day, check, tx>>
  BY <1>1 DEF ReadItems, NightAt, NightGoes, others
<1>3. night \in Night /\ NightFits(night, alerts, day)
  BY <1>2, OpenNight
<1>4. ids \in Seq(Items) /\ (Items # {} => ids # <<>>)
  BY InIdOrderProperties
<1>5. hand \in [Items -> 0..MaxHand]
  BY DEF Inv, NightlyType, NightlyTypeOK
<1>6. hand \in Some(0..MaxHand)
  BY <1>5, AllIsSome
<1>7. /\ n \in Night /\ n.at = IF Items = {} THEN "commit" ELSE "forecasts"
      /\ n.hand = hand /\ n.todo = ids /\ n.rows = night.rows /\ n.alerts = night.alerts
  BY <1>3, <1>4, <1>6 DEF Night
<1> HIDE DEF n
<1>8. NightFits(n, alerts, day)
  BY <1>3, <1>4, <1>5, <1>7 DEF NightFits, WritesFit
<1> QED BY <1>2, <1>7, <1>8, NightGoesOn

LEMMA LoadForecastsKeeps ==
  ASSUME Inv, LoadForecasts
  PROVE  Inv'
<1> DEFINE n == [night EXCEPT !.need = forecast, !.at = "previous"]
<1>1. /\ night # NoTx /\ night.at = "forecasts" /\ night' = n
      /\ UNCHANGED <<tables, day, check, tx>>
  BY DEF LoadForecasts, NightAt, NightGoes, others
<1>2. night \in Night /\ NightFits(night, alerts, day)
  BY <1>1, OpenNight
<1>3. forecast \in [Items -> Nat]
  BY DEF Inv, NightlyType, NightlyTypeOK
<1>4. forecast \in Some(Nat)
  BY <1>3, AllIsSome
<1>5. /\ n \in Night /\ n.at = "previous" /\ n.need = forecast /\ n.hand = night.hand
      /\ n.todo = night.todo /\ n.rows = night.rows /\ n.alerts = night.alerts
  BY <1>2, <1>4 DEF Night
<1> HIDE DEF n
<1>6. NightFits(n, alerts, day)
  BY <1>1, <1>2, <1>3, <1>5 DEF NightFits, WritesFit
<1> QED BY <1>1, <1>5, <1>6, NightGoesOn

LEMMA LoadPreviousStatusesKeeps ==
  ASSUME Inv, LoadPreviousStatuses
  PROVE  Inv'
<1> DEFINE previous == [i \in Items |-> LevelOf(status[i])]
           n == [night EXCEPT !.previous = previous, !.at = "write"]
<1>1. /\ night # NoTx /\ night.at = "previous" /\ night' = n
      /\ UNCHANGED <<tables, day, check, tx>>
  BY DEF LoadPreviousStatuses, NightAt, NightGoes, others
<1>2. night \in Night /\ NightFits(night, alerts, day)
  BY <1>1, OpenNight
<1>3. \A i \in Items : status[i] \in Rows \cup {NoRow}
  BY DEF Inv, NightlyType, NightlyTypeOK
<1>4. previous \in [Items -> 0..2]
  BY <1>3 DEF LevelOf, Rows
<1>5. \A i \in Items : previous[i] > 0 => Alerted(i, alerts, day)
  BY <1>3 DEF Inv, RedIsAlerted, IsRed, Alerted
<1> HIDE DEF previous
<1>6. previous \in Some(0..2)
  BY <1>4, AllIsSome
<1>7. /\ n \in Night /\ n.at = "write" /\ n.previous = previous /\ n.need = night.need
      /\ n.hand = night.hand /\ n.todo = night.todo /\ n.rows = night.rows
      /\ n.alerts = night.alerts
  BY <1>2, <1>6 DEF Night
<1> HIDE DEF n
<1>8. NightFits(n, alerts, day)
  BY <1>1, <1>2, <1>4, <1>5, <1>7 DEF NightFits, WritesFit
<1> QED BY <1>1, <1>7, <1>8, NightGoesOn

LEMMA PersistNextKeeps ==
  ASSUME Inv, PersistNext
  PROVE  Inv'
<1> DEFINE i     == Head(night.todo)
           h     == night.hand[i]
           level == Level(h, night.need[i])
           row   == [level |-> level, hand |-> h, by |-> "night", day |-> day]
           rest  == IF Len(night.todo) = 1 THEN "commit" ELSE "write"
           n == [night EXCEPT !.rows = With(@, i, row),
                              !.alerts = @ \cup AlertFor(i, level, night.previous[i]),
                              !.todo = Tail(@), !.at = rest]
<1>1. /\ night # NoTx /\ night.at = "write" /\ StatusFree(i) /\ night' = n
      /\ UNCHANGED <<tables, day, check, tx>>
  BY DEF PersistNext, NightAt, NightGoes, others
<1>2. night \in Night /\ NightFits(night, alerts, day)
  BY <1>1, OpenNight
<1>3. /\ night.rows \in Some(Rows) /\ night.hand \in Some(0..MaxHand)
      /\ night.previous \in Some(0..2) /\ night.alerts \in Alerts
      /\ night.todo \in Seq(Items)
  BY <1>2 DEF Night
<1>4. /\ night.todo # <<>> /\ DOMAIN night.hand = Items /\ DOMAIN night.need = Items
      /\ DOMAIN night.previous = Items /\ WritesFit(night, alerts, day)
      /\ \A j \in Items : night.previous[j] > 0 => Alerted(j, alerts, day)
  BY <1>1, <1>2 DEF NightFits
<1>5. i \in Items /\ i \notin DOMAIN night.rows
  BY <1>1, <1>3, <1>4, HeadTailProperties DEF StatusFree
<1>6. h \in 0..MaxHand /\ night.previous[i] \in 0..2
  <2> HIDE DEF i
  <2> QED BY <1>3, <1>4, <1>5, SomeProperties
<1>7. row \in Rows /\ row.level = level /\ row.day = day /\ row.by = "night"
      /\ level \in 0..2
  <2>1. level \in 0..2
    BY LevelType
  <2> HIDE DEF level, h
  <2> QED BY <1>6, <2>1 DEF Rows, Inv, NightlyType, NightlyTypeOK
<1> HIDE DEF row
<1>8. With(night.rows, i, row) \in Some(Rows)
  <2> HIDE DEF i
  <2> QED BY <1>3, <1>5, <1>7, WithIsSome
<1>9. night.alerts \cup AlertFor(i, level, night.previous[i]) \in Alerts
  BY <1>3, <1>5, AlertsType DEF Alerts, Inv, NightlyType
<1>10. Tail(night.todo) \in Seq(Items)
  BY <1>3, <1>4, HeadTailProperties
<1>11. /\ n \in Night /\ n.hand = night.hand /\ n.need = night.need
       /\ n.previous = night.previous /\ n.at = rest /\ n.todo = Tail(night.todo)
       /\ n.rows = With(night.rows, i, row)
       /\ n.alerts = night.alerts \cup AlertFor(i, level, night.previous[i])
  <2> HIDE DEF i, level
  <2> QED BY <1>2, <1>8, <1>9, <1>10 DEF Night
<1> HIDE DEF n
<1>12. WritesFit(n, alerts, day)
  <2>1. night.previous[i] > 0 => Alerted(i, alerts, day)
    BY <1>4, <1>5
  <2>2. NightlyTypeOK
    BY DEF Inv, NightlyType
  <2> DEFINE previous == night.previous[i]
  <2>3. /\ previous \in 0..2 /\ (previous > 0 => Alerted(i, alerts, day))
        /\ n.alerts = night.alerts \cup AlertFor(i, level, previous)
    BY <1>6, <1>11, <2>1
  <2> HIDE DEF i, level, previous
  <2> QED BY <1>4, <1>5, <1>7, <1>11, <2>2, <2>3, WritesMore
<1>13. n.at # "commit" => n.todo # <<>>
  <2>1. PICK s \in Seq(Items) : s = night.todo
    BY <1>3
  <2>2. Len(Tail(s)) = Len(s) - 1
    BY <1>4, <2>1, HeadTailProperties
  <2>3. ASSUME Tail(s) = <<>>
        PROVE  Len(s) = 1
    <3>1. Len(Tail(s)) = Len(<<>>)
      BY <2>3
    <3>2. Len(<<>>) = 0
      OBVIOUS
    <3>3. Len(s) - 1 = 0
      BY <2>2, <3>1, <3>2, Zenon
    <3>4. Len(s) \in Nat
      BY LenProperties
    <3> QED BY <3>3, <3>4
  <2>4. n.at = IF Len(s) = 1 THEN "commit" ELSE "write"
    BY <1>11, <2>1
  <2>5. n.todo = Tail(s)
    BY <1>11, <2>1
  <2> QED BY <2>3, <2>4, <2>5
<1>14. NightFits(n, alerts, day)
  <2>1. \A j \in DOMAIN n.rows : n.rows[j].by = "night"
    BY <1>2, <1>7, <1>11 DEF NightFits, With
  <2>2. n.at \in {"write", "commit"}
    BY <1>11
  <2> QED BY <1>4, <1>11, <1>12, <1>13, <2>1, <2>2 DEF NightFits
<1> QED BY <1>1, <1>11, <1>14, NightGoesOn

LEMMA CommitNightKeeps ==
  ASSUME Inv, CommitNight
  PROVE  Inv'
<1>1. /\ night # NoTx /\ CommitWrites(night) /\ night' = NoTx
      /\ UNCHANGED <<hand, total, forecast, day, check, tx>>
  BY DEF CommitNight, NightAt, others
<1>2. night \in Night /\ NightFits(night, alerts, day)
  BY <1>1, OpenNight
<1>3. /\ night.rows \in Some(Rows) /\ night.alerts \in Alerts
      /\ WritesFit(night, alerts, day) /\ \A i \in DOMAIN night.rows : night.rows[i].by = "night"
  BY <1>2 DEF Night, NightFits
<1>4. /\ status' \in [Items -> Rows \cup {NoRow}]
      /\ alerts' \in Alerts /\ reds' \in Alerts /\ alerts \subseteq alerts'
      /\ RedIsAlerted' /\ AlertsAreTrue'
  BY <1>1, <1>3, WritesCommitted
<1>5. NightlyType'
  BY <1>1, <1>4 DEF Inv, NightlyType, NightlyTypeOK
<1>6. LocksDisjoint'
  BY <1>1 DEF Inv, LocksDisjoint, Open
<1>7. \A m \in Movers : MoveInv(m)'
  BY <1>1, <1>4, OpenStay
<1>8. NightInv' /\ TotalIsHand' /\ CheckInv'
  BY <1>1 DEF Inv, NightInv, TotalIsHand, CheckInv
<1>9. StalenessIsTheNights'
  BY <1>1, <1>3 DEF Inv, StalenessIsTheNights, CommitWrites
<1> QED BY <1>4, <1>5, <1>6, <1>7, <1>8, <1>9 DEF Inv

LEMMA FailNightKeeps ==
  ASSUME Inv, FailNight
  PROVE  Inv'
<1>1. night' = NoTx /\ UNCHANGED <<tables, day, check, tx>>
  BY DEF FailNight, NightGoes, others
<1> QED BY <1>1, NightGoesOn

LEMMA NextDayKeeps ==
  ASSUME Inv, NextDay
  PROVE  Inv'
<1>1. /\ day < MaxDay /\ day' = day + 1
      /\ UNCHANGED <<hand, total, forecast, status, alerts, reds, check, tx, night>>
  BY DEF NextDay, tables
<1>2. day \in 1..MaxDay /\ day \in Nat /\ day' \in 1..MaxDay /\ day' \in Nat /\ day <= day'
  BY <1>1 DEF Inv, NightlyType, NightlyTypeOK
<1>3. NightlyType'
  BY <1>1, <1>2 DEF Inv, NightlyType, NightlyTypeOK
<1>4. LocksDisjoint'
  BY <1>1 DEF Inv, LocksDisjoint, Open
<1>5. ASSUME NEW m \in Movers
      PROVE  MoveInv(m)'
  <2> SUFFICES ASSUME Open(m) PROVE MoveFits(tx[m], hand, alerts, day')
    BY <1>1 DEF MoveInv, Open
  <2> QED BY <1>2, OpenMove, MoveStays
<1>6. NightInv'
  <2> SUFFICES ASSUME night # NoTx PROVE NightFits(night, alerts, day')
    BY <1>1 DEF NightInv
  <2> QED BY <1>2, OpenNight, NightStays
<1>7. RedIsAlerted'
  <2> SUFFICES ASSUME NEW i \in Items, IsRed(LevelOf(status[i]))
               PROVE  Alerted(i, alerts, day')
    BY <1>1 DEF RedIsAlerted, Alerted
  <2>1. Alerted(i, alerts, day)
    BY DEF Inv, RedIsAlerted, Alerted
  <2> QED BY <1>2, <2>1, AlertedStays
<1> QED BY <1>1, <1>3, <1>4, <1>5, <1>6, <1>7
        DEF Inv, TotalIsHand, CheckInv, StalenessIsTheNights, AlertsAreTrue

\* The sums are those of the balances when they are read; reading the balances
\* ends the reconciliation.
LEMMA ReconcileKeeps ==
  ASSUME Inv, Reconcile
  PROVE  Inv'
<1>1. UNCHANGED <<hand, total, forecast, status, alerts, reds, day, tx, night>>
  BY DEF Reconcile, ReadSums, ReadBalances, tables
<1>2. check' \in Check \cup {NoTx} /\ CheckInv'
  <2>1. CASE ReadSums
    <3>1. check' = [sums |-> total, moved |-> {}]
      BY <2>1 DEF ReadSums
    <3>2. check' \in Check
      BY <3>1 DEF Check, Inv, NightlyType, NightlyTypeOK
    <3> QED BY <1>1, <3>1, <3>2 DEF CheckInv, Inv, TotalIsHand
  <2>2. CASE ReadBalances
    BY <2>2 DEF ReadBalances, CheckInv
  <2> QED BY <2>1, <2>2 DEF Reconcile
<1>3. NightlyType'
  BY <1>1, <1>2 DEF Inv, NightlyType, NightlyTypeOK
<1>4. LocksDisjoint' /\ \A m \in Movers : MoveInv(m)'
  BY <1>1 DEF Inv, LocksDisjoint, MoveInv, Open
<1> QED BY <1>1, <1>2, <1>3, <1>4
        DEF Inv, NightInv, TotalIsHand, StalenessIsTheNights, RedIsAlerted, AlertsAreTrue

-----------------------------------------------------------------------------
(* What a movement compares with before it alerts.                          *)

\* A status a movement holds the item of is as the movement found it, or the night
\* has stored another: an item it makes red has an alert, was red, or met the night.
Compared(m) ==
  Open(m) =>
    /\ tx[m].at \in {"forecast", "write"} =>
         \/ tx[m].previous = LevelOf(status[Head(tx[m].todo)])
         \/ ByNight(status[Head(tx[m].todo)])
    /\ \A i \in DOMAIN tx[m].rows : IsRed(tx[m].rows[i].level) =>
         \/ <<i, tx[m].rows[i].day>> \in tx[m].alerts
         \/ IsRed(LevelOf(status[i])) \/ ByNight(status[i])

AllCompared == \A m \in Movers : Compared(m)

\* Others change the status of an item that is held only by the night.
LEMMA ComparedStays ==
  ASSUME Inv, NEW m \in Movers, Compared(m), tx'[m] = tx[m],
         Open(m) => \A i \in DOMAIN tx[m].hand :
                      status'[i] = status[i] \/ ByNight(status'[i])
  PROVE  Compared(m)'
<1> SUFFICES ASSUME Open(m) PROVE Compared(m)'
  BY DEF Compared, Open
<1>1. MoveFits(tx[m], hand, alerts, day)
  BY OpenMove
<1>2. DOMAIN tx[m].rows \subseteq DOMAIN tx[m].hand
  BY <1>1 DEF MoveFits
<1>3. tx[m].at \in {"forecast", "write"} => Head(tx[m].todo) \in DOMAIN tx[m].hand
  BY <1>1 DEF MoveFits
<1>4. ASSUME NEW i \in DOMAIN tx[m].hand, IsRed(LevelOf(status[i])) \/ ByNight(status[i])
      PROVE  IsRed(LevelOf(status'[i])) \/ ByNight(status'[i])
  BY <1>4
<1>5. ASSUME tx[m].at \in {"forecast", "write"}
      PROVE  \/ tx[m].previous = LevelOf(status'[Head(tx[m].todo)])
             \/ ByNight(status'[Head(tx[m].todo)])
  BY <1>3, <1>5 DEF Compared
<1>6. ASSUME NEW i \in DOMAIN tx[m].rows, IsRed(tx[m].rows[i].level)
      PROVE  \/ <<i, tx[m].rows[i].day>> \in tx[m].alerts
             \/ IsRed(LevelOf(status'[i])) \/ ByNight(status'[i])
  BY <1>2, <1>4, <1>6 DEF Compared
<1> QED BY <1>5, <1>6 DEF Compared, LevelOf, ByNight

\* A movement that locks, reads or writes compares with the status that is there.
LEMMA MoverCompares ==
  ASSUME Inv, NEW m \in Movers, Compared(m),
         LockBalance(m) \/ ReadPrevious(m) \/ ReadForecast(m) \/ WriteStatus(m)
  PROVE  Compared(m)'
<1>1. tx[m] \in Move /\ MoveFits(tx[m], hand, alerts, day) /\ Open(m)
  BY OpenMove DEF LockBalance, ReadPrevious, ReadForecast, WriteStatus, TxAt
<1>2. status' = status
  BY DEF LockBalance, ReadPrevious, ReadForecast, WriteStatus, tables
<1>3. \A i \in DOMAIN tx[m].rows : IsRed(tx[m].rows[i].level) =>
         \/ <<i, tx[m].rows[i].day>> \in tx[m].alerts
         \/ IsRed(LevelOf(status[i])) \/ ByNight(status[i])
  BY <1>1 DEF Compared
<1>4. tx \in [Movers -> Move \cup {NoTx}]
  BY DEF Inv, NightlyType
<1>5. CASE LockBalance(m)
  <2>1. /\ tx'[m].at = "previous" /\ tx'[m].rows = tx[m].rows
        /\ tx'[m].alerts = tx[m].alerts
    BY <1>1, <1>4, <1>5 DEF LockBalance, Move
  <2> QED BY <1>2, <1>3, <2>1 DEF Compared, LevelOf, ByNight
<1>6. CASE ReadPrevious(m)
  <2>1. /\ tx'[m].rows = tx[m].rows /\ tx'[m].alerts = tx[m].alerts
        /\ tx'[m].todo = tx[m].todo
        /\ tx'[m].previous = LevelOf(status[Head(tx[m].todo)])
    BY <1>1, <1>4, <1>6 DEF ReadPrevious, Move
  <2> QED BY <1>2, <1>3, <2>1 DEF Compared, LevelOf, ByNight
<1>7. CASE ReadForecast(m)
  <2>1. /\ tx'[m].rows = tx[m].rows /\ tx'[m].alerts = tx[m].alerts
        /\ tx'[m].todo = tx[m].todo /\ tx'[m].previous = tx[m].previous
        /\ tx[m].at = "forecast"
    BY <1>1, <1>4, <1>7 DEF ReadForecast, TxAt, Move
  <2> QED BY <1>1, <1>2, <1>3, <2>1 DEF Compared, LevelOf, ByNight
<1>8. CASE WriteStatus(m)
  <2> DEFINE i     == Head(tx[m].todo)
             h     == tx[m].hand[i]
             level == Level(h, tx[m].need)
             row   == [level |-> level, hand |-> h, by |-> "movement", day |-> day]
             new   == AlertFor(i, level, tx[m].previous)
  <2>1. /\ tx[m].at = "write" /\ tx'[m].rows = With(tx[m].rows, i, row)
        /\ tx'[m].alerts = tx[m].alerts \cup new
        /\ tx'[m].at = IF Len(tx[m].todo) = 1 THEN "commit" ELSE "lock"
    BY <1>1, <1>4, <1>8 DEF WriteStatus, TxAt, Move
  <2>2. row.level = level /\ row.day = day
    OBVIOUS
  <2>3. tx[m].previous \in 0..2 /\ level \in 0..2
    BY <1>1, LevelType DEF Move
  <2>4. tx[m].previous = LevelOf(status[i]) \/ ByNight(status[i])
    BY <1>1, <2>1 DEF Compared
  <2> HIDE DEF i, level, row
  <2>5. IsRed(level) =>
          \/ <<i, day>> \in new \/ IsRed(LevelOf(status[i])) \/ ByNight(status[i])
    BY <2>3, <2>4 DEF AlertFor, IsRed
  <2>6. ASSUME NEW j \in DOMAIN tx'[m].rows, IsRed(tx'[m].rows[j].level)
        PROVE  \/ <<j, tx'[m].rows[j].day>> \in tx'[m].alerts
               \/ IsRed(LevelOf(status[j])) \/ ByNight(status[j])
    <3>1. CASE j = i
      <4>1. tx'[m].rows[j] = row
        BY <2>1, <3>1 DEF With
      <4> QED BY <2>1, <2>2, <2>5, <2>6, <3>1, <4>1
    <3>2. CASE j # i
      <4>1. j \in DOMAIN tx[m].rows /\ tx'[m].rows[j] = tx[m].rows[j]
        BY <2>1, <2>6, <3>2 DEF With
      <4> QED BY <1>3, <2>1, <2>6, <4>1
    <3> QED BY <3>1, <3>2
  <2>7. tx'[m].at \notin {"forecast", "write"}
    BY <2>1
  <2> QED BY <1>2, <2>6, <2>7 DEF Compared, LevelOf, ByNight
<1> QED BY <1>5, <1>6, <1>7, <1>8

\* A movement that commits stores no status of an item that another holds.
LEMMA CommitLeavesHeld ==
  ASSUME Inv, NEW m \in Movers, CommitMove(m), NEW n \in Movers, n # m, Open(n),
         NEW i \in DOMAIN tx[n].hand
  PROVE  status'[i] = status[i]
<1>1. tx[m] \in Move /\ MoveFits(tx[m], hand, alerts, day) /\ Open(m) /\ tx[m].at = "commit"
  BY OpenMove DEF CommitMove, TxAt
<1>2. DOMAIN tx[m].hand = DOMAIN tx[m].rows
  BY <1>1 DEF MoveFits
<1>3. i \notin DOMAIN tx[m].rows
  BY <1>1, <1>2 DEF Inv, LocksDisjoint
<1>4. i \in Items
  BY OpenMove, SomeProperties DEF Move
<1> QED BY <1>3, <1>4 DEF CommitMove, CommitWrites

LEMMA MoverNextCompares ==
  ASSUME Inv, AllCompared, NEW m \in Movers, MoverNext(m)
  PROVE  AllCompared'
<1>1. tx \in [Movers -> Move \cup {NoTx}]
  BY DEF Inv, NightlyType
<1>2. \A n \in Movers \ {m} : tx'[n] = tx[n]
  BY <1>1 DEF MoverNext, MoveStep, StartMove, LockBalance, Refuse, ReadPrevious, ReadForecast,
     WriteStatus, CommitMove, CrossedVictim, AbortMove, FailNight, NightGoes
<1>3. ASSUME NEW n \in Movers, n # m
      PROVE  Compared(n)'
  <2>1. CASE CommitMove(m)
    BY <1>2, <1>3, <2>1, CommitLeavesHeld, ComparedStays DEF AllCompared
  <2>2. CASE ~ CommitMove(m)
    <3>1. status' = status
      BY <2>2 DEF MoverNext, MoveStep, StartMove, LockBalance, Refuse, ReadPrevious,
         ReadForecast, WriteStatus, CrossedVictim, AbortMove, FailNight, NightGoes, tables
    <3> QED BY <1>2, <1>3, <3>1, ComparedStays DEF AllCompared
  <2> QED BY <2>1, <2>2
<1>4. Compared(m)'
  <2>1. ASSUME NEW items \in Batches, NEW q \in {-1, 1}, StartMove(m, items, q)
        PROVE  Compared(m)'
    <3>1. tx'[m].at = "lock" /\ tx'[m].rows = <<>>
      BY <1>1, <2>1 DEF StartMove
    <3> QED BY <3>1, NoneIsSome DEF Compared
  <2>2. CASE LockBalance(m) \/ ReadPrevious(m) \/ ReadForecast(m) \/ WriteStatus(m)
    BY <2>2, MoverCompares DEF AllCompared
  <2>3. CASE Refuse(m) \/ CommitMove(m) \/ AbortMove(m)
    <3>1. tx'[m] = NoTx
      BY <1>1, <2>3 DEF Refuse, CommitMove, AbortMove
    <3> QED BY <3>1 DEF Compared, Open
  <2>4. CASE FailNight
    <3>1. tx' = tx /\ status' = status
      BY <2>4 DEF FailNight, NightGoes, tables
    <3> QED BY <3>1, ComparedStays DEF AllCompared
  <2> QED BY <2>1, <2>2, <2>3, <2>4 DEF MoverNext, MoveStep, CrossedVictim
<1> QED BY <1>3, <1>4 DEF AllCompared

\* What the night stores is known by its rows.
LEMMA CommitNightIsKnown ==
  ASSUME Inv, CommitNight, NEW i \in Items
  PROVE  status'[i] = status[i] \/ ByNight(status'[i])
<1>1. night \in Night /\ NightFits(night, alerts, day)
  BY OpenNight DEF CommitNight, NightAt
<1>2. night.rows \in Some(Rows) /\ \A j \in DOMAIN night.rows : night.rows[j].by = "night"
  BY <1>1 DEF Night, NightFits
<1>3. \A j \in DOMAIN night.rows : night.rows[j] \in Rows
  BY <1>2, SomeProperties
<1>4. status'[i] = IF i \in DOMAIN night.rows THEN night.rows[i] ELSE status[i]
  BY DEF CommitNight, CommitWrites
<1> QED BY <1>2, <1>3, <1>4 DEF ByNight

LEMMA ComparedNext ==
  ASSUME Inv, AllCompared, [NightlyNext]_nightlyVars
  PROVE  AllCompared'
<1>1. ASSUME NEW m \in Movers, MoverNext(m)
      PROVE  AllCompared'
  BY <1>1, MoverNextCompares
<1>2. CASE CommitNight
  <2>1. tx' = tx
    BY <1>2 DEF CommitNight
  <2>2. ASSUME NEW m \in Movers, Open(m), NEW i \in DOMAIN tx[m].hand
        PROVE  status'[i] = status[i] \/ ByNight(status'[i])
    <3>1. i \in Items
      BY <2>2, OpenMove, SomeProperties DEF Move
    <3> QED BY <1>2, <3>1, CommitNightIsKnown
  <2> QED BY <2>1, <2>2, ComparedStays DEF AllCompared
<1>3. CASE (NightNext /\ ~ CommitNight) \/ Reconcile \/ UNCHANGED nightlyVars
  <2>1. tx' = tx /\ status' = status
    BY <1>3 DEF NightNext, NightStep, StartNight, StoreAll, ReadItems, LoadForecasts,
       LoadPreviousStatuses, PersistNext, FailNight, NextDay, NightGoes, Reconcile, ReadSums,
       ReadBalances, nightlyVars, tables
  <2> QED BY <2>1, ComparedStays DEF AllCompared
<1> QED BY <1>1, <1>2, <1>3 DEF NightlyNext, NightNext, NightStep

-----------------------------------------------------------------------------
(* What NightlySpec promises.                                               *)

LEMMA NightlyInvInit ==
  ASSUME NightlyInit
  PROVE  Inv
<1>1. \A m \in Movers : ~ Open(m)
  BY DEF NightlyInit, Open
<1>2. NightlyType
  BY DEF NightlyInit, NightlyType, NightlyTypeOK, Alerts
<1>3. LocksDisjoint /\ (\A m \in Movers : MoveInv(m)) /\ NightInv
  BY <1>1 DEF NightlyInit, LocksDisjoint, MoveInv, NightInv
<1> QED BY <1>2, <1>3
        DEF NightlyInit, Inv, TotalIsHand, CheckInv, StalenessIsTheNights,
            RedIsAlerted, AlertsAreTrue, LevelOf, IsRed

LEMMA NightlyInvNext ==
  ASSUME Inv, [NightlyNext]_nightlyVars
  PROVE  Inv'
<1>1. ASSUME NEW m \in Movers, MoverNext(m)
      PROVE  Inv'
  <2>1. ASSUME NEW items \in Batches, NEW q \in {-1, 1}, StartMove(m, items, q)
        PROVE  Inv'
    BY <2>1, StartMoveKeeps
  <2>2. CASE LockBalance(m)
    BY <2>2, LockBalanceKeeps
  <2>3. CASE Refuse(m) \/ AbortMove(m)
    BY <2>3, MoverEnds
  <2>4. CASE ReadPrevious(m)
    BY <2>4, ReadPreviousKeeps
  <2>5. CASE ReadForecast(m)
    BY <2>5, ReadForecastKeeps
  <2>6. CASE WriteStatus(m)
    BY <2>6, WriteStatusKeeps
  <2>7. CASE CommitMove(m)
    BY <2>7, CommitMoveKeeps
  <2>8. CASE CrossedVictim(m)
    BY <2>8, MoverEnds, FailNightKeeps DEF CrossedVictim
  <2> QED BY <1>1, <2>1, <2>2, <2>3, <2>4, <2>5, <2>6, <2>7, <2>8 DEF MoverNext, MoveStep
<1>2. CASE NightNext
  BY <1>2, StartNightKeeps, StoreAllKeeps, ReadItemsKeeps, LoadForecastsKeeps,
     LoadPreviousStatusesKeeps, PersistNextKeeps, CommitNightKeeps, FailNightKeeps,
     NextDayKeeps DEF NightNext, NightStep
<1>3. CASE Reconcile
  BY <1>3, ReconcileKeeps
<1>4. CASE UNCHANGED nightlyVars
  <2>1. UNCHANGED <<tables, day, check, tx>> /\ night' = night
    BY <1>4 DEF nightlyVars, others
  <2>2. night \in Night \cup {NoTx}
    BY DEF Inv, NightlyType
  <2> QED BY <2>1, <2>2, OpenNight, NightGoesOn
<1> QED BY <1>1, <1>2, <1>3, <1>4 DEF NightlyNext

LEMMA NightlyInductive == NightlySpec => []Inv
  BY NightlyInvInit, NightlyInvNext, PTL DEF NightlySpec

\* The tables are well-formed, no status is red without an alert that said so,
\* although both Recalculate and RecalculateAll compare with a status they read
\* without a lock, and a status that disagrees with the balance was written by the
\* recomputation of the night, never by a movement: the lock on the balance covers
\* the computation of the status (Record).
THEOREM NightlyIsSound == NightlySpec => []NightlyInv
<1>1. Inv => NightlyInv
  BY DEF Inv, NightlyType, NightlyInv
<1> QED BY <1>1, NightlyInductive, PTL

\* No alert is about a status that was rolled back: both are rows of one
\* transaction.
THEOREM AlertsAreAboutReds == NightlySpec => []AlertsAreTrue
<1>1. Inv => AlertsAreTrue
  BY DEF Inv
<1> QED BY <1>1, NightlyInductive, PTL

\* Recalculate and RecalculateAll compare with a status read without a lock, and
\* an alert may be missing on the day an item turns red: only where the night
\* stores the status that is replaced, or the one that replaces it.
THEOREM RedsUntoldMetTheNight == NightlySpec => UntoldMetTheNight
<1> DEFINE Told ==
      \A i \in Items :
        ~ IsRed(LevelOf(status[i])) /\ IsRed(LevelOf(status'[i])) =>
          \/ <<i, status'[i].day>> \in alerts'
          \/ ByNight(status[i]) \/ ByNight(status'[i])
<1>1. NightlyInit => AllCompared
  BY DEF NightlyInit, AllCompared, Compared, Open
<1>2. Inv /\ AllCompared /\ [NightlyNext]_nightlyVars => AllCompared'
  BY ComparedNext
<1>3. Inv /\ AllCompared /\ [NightlyNext]_nightlyVars => [Told]_nightlyVars
  <2> SUFFICES ASSUME Inv, AllCompared, NightlyNext, NEW i \in Items,
                      ~ IsRed(LevelOf(status[i])), IsRed(LevelOf(status'[i]))
               PROVE  \/ <<i, status'[i].day>> \in alerts'
                      \/ ByNight(status[i]) \/ ByNight(status'[i])
    OBVIOUS
  <2>1. status'[i] # status[i]
    OBVIOUS
  <2>2. ASSUME NEW m \in Movers, CommitMove(m)
        PROVE  \/ <<i, status'[i].day>> \in alerts'
               \/ ByNight(status[i]) \/ ByNight(status'[i])
    <3>1. /\ status'[i] = IF i \in DOMAIN tx[m].rows THEN tx[m].rows[i] ELSE status[i]
          /\ alerts' = alerts \cup tx[m].alerts
      BY <2>2 DEF CommitMove, CommitWrites
    <3>2. i \in DOMAIN tx[m].rows /\ status'[i] = tx[m].rows[i]
      BY <2>1, <3>1
    <3>3. Open(m) /\ tx[m] \in Move
      BY <2>2, OpenMove DEF CommitMove, TxAt
    <3>4. tx[m].rows[i] \in Rows
      BY <3>2, <3>3, SomeProperties DEF Move
    <3>5. IsRed(tx[m].rows[i].level)
      BY <3>2, <3>4 DEF LevelOf
    <3> QED BY <3>1, <3>2, <3>3, <3>5 DEF AllCompared, Compared
  <2>3. CASE CommitNight
    BY <2>1, <2>3, CommitNightIsKnown
  <2>4. CASE ~ CommitNight /\ \A m \in Movers : ~ CommitMove(m)
    <3>1. status' = status
      BY <2>4 DEF NightlyNext, MoverNext, MoveStep, StartMove, LockBalance, Refuse, ReadPrevious,
         ReadForecast, WriteStatus, CrossedVictim, AbortMove, NightNext, NightStep, StartNight,
         StoreAll, ReadItems, LoadForecasts, LoadPreviousStatuses, PersistNext, FailNight,
         NextDay, NightGoes, Reconcile, ReadSums, ReadBalances, tables
    <3> QED BY <2>1, <3>1
  <2> QED BY <2>2, <2>3, <2>4
<1> QED BY <1>1, <1>2, <1>3, NightlyInductive, PTL DEF NightlySpec, UntoldMetTheNight

\* Whatever Reconcile reports is an item that moved between its two reads.
THEOREM DriftIsAlwaysARace == NightlySpec => []DriftsAreRaces
<1>1. Inv => DriftsAreRaces
  BY DEF Inv, CheckInv, DriftsAreRaces, Drifted
<1> QED BY <1>1, NightlyInductive, PTL

=============================================================================
