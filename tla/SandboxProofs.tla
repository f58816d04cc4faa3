---------------------------- MODULE SandboxProofs ----------------------------
(***************************************************************************)
(* Proofs about Sandbox, for any number of visitors, requests and demos.   *)
(* A demo that is being made belongs to the request that makes it, since   *)
(* nobody has a session for it; a step of the guide belongs to the request *)
(* that holds its lock; a day belongs to the request that moved the clock  *)
(* to it.                                                                  *)
(***************************************************************************)
EXTENDS Sandbox, SumTheorems

Steps == Range(GuideSteps)

DemoType ==
  [autopilot : BOOLEAN, traces : SUBSET Steps, histories : Nat, counts : Nat,
   days : Nat, lived : SUBSET Nat, lost : SUBSET Nat]

SandboxTypes ==
  /\ created \in 0..MaxDemos
  /\ live \subseteq 1..created /\ expired \subseteq 1..created
  /\ demo \in [Demos -> DemoType]
  /\ \A d \in Demos \ live : demo[d] = Empty
  /\ vain \in Nat
  /\ sessions \subseteq Visitors \X live
  /\ cookie \in [Visitors -> Demos \cup {NoDemo}]
  /\ req \in [Requests -> Request \cup {NoReq}]

Busy(r) == req[r] # NoReq

Filled == {"suppliers", "items", "history"}

Finished == {{}, Filled \cup {"forecast"}}

\* Making a demo, in front of the step that enters it included; moving a clock;
\* filling a step of the guide.
Making == {"fill", "forecast", "session"}
Moving == {"shift", "arrivals", "consume", "evening"}
Filling == {"guide", "template", "history", "write", "draft", "post"}

\* What a request may count on.
ReqFits(r) ==
  /\ req[r].demo \in 1..created \cup {NoDemo}
  /\ req[r].at \notin {"capacity", "shell"} => req[r].demo \in 1..created
  /\ req[r].at \in Making => \A s \in sessions : s[2] # req[r].demo
  /\ req[r].at = "fill" => demo[req[r].demo] = Empty
  /\ req[r].at = "forecast" /\ req[r].demo \in live => demo[req[r].demo].traces = Filled
  /\ req[r].at = "session" /\ req[r].demo \in live =>
       demo[req[r].demo].traces \in Finished
  /\ req[r].at \in Filling => req[r].locked
  /\ req[r].at = "write" /\ ~ req[r].seen => demo[req[r].demo].histories = 0
  /\ req[r].at = "draft" /\ ~ req[r].seen => demo[req[r].demo].counts = 0
  /\ req[r].at = "post" => demo[req[r].demo].counts = 0
  /\ req[r].at \in Moving => req[r].left \in 1..Week

\* Whose demo nobody else works in, and whose step nobody else fills.
Apart(r, q) ==
  Busy(r) /\ Busy(q) /\ r # q =>
    /\ req[r].at \in Making => req[q].demo # req[r].demo
    /\ req[r].locked /\ req[q].locked => req[q].demo # req[r].demo

\* A template is applied once, and a count it has posted leaves its trace.
DemoFits(d) ==
  /\ demo[d].histories <= 1 /\ demo[d].counts <= 1
  /\ demo[d].counts > 0 => "count" \in demo[d].traces

Shells == {r \in Requests : req[r] # NoReq /\ req[r].at = "shell"}

ActiveBounded ==
  Cardinality(Active) + Cardinality(Shells)
    <= MaxActive + Cardinality(Requests) - 1 + vain

\* The days a request is still to move the clock of d by.
Due(request, d) ==
  IF request = NoReq \/ request.demo # d THEN 0
  ELSE CASE request.at = "shift" -> request.left
         [] request.at \in Moving \ {"shift"} -> request.left - 1
         [] OTHER -> 0

Owed(reqs, d) == SumOver([r \in Requests |-> Due(reqs[r], d)], Requests)

MostDays == MaxVirtualDays + (Cardinality(Requests) - 1) * Week

DaysBounded == \A d \in live : demo[d].days + Owed(req, d) <= MostDays

\* SandboxInv, DaysAreLived and OverrunsAreExplained say nothing of what requests
\* in flight may count on, nor of the days they still owe.
SandboxInductive ==
  /\ SandboxTypes
  /\ \A r \in Requests : Busy(r) => ReqFits(r)
  /\ \A r \in Requests, q \in Requests : Apart(r, q)
  /\ \A d \in Demos : DemoFits(d)
  /\ DaysAreLived
  /\ ActiveBounded
  /\ DaysBounded

-----------------------------------------------------------------------------
(* Sets and sums.                                                           *)

LEMMA StepsAre ==
  /\ {"suppliers", "items", "history", "count", "forecast", "order", "receive", "time",
      "notifications"} = Steps
  /\ Filled \subseteq Steps
<1>1. Steps = {GuideSteps[n] : n \in 1..9}
  BY DEF Steps, Range, GuideSteps
<1>2. 1..9 = {1, 2, 3, 4, 5, 6, 7, 8, 9}
  OBVIOUS
<1>3. Steps = {"suppliers", "items", "history", "count", "forecast", "order", "receive",
               "time", "notifications"}
  BY <1>1, <1>2 DEF GuideSteps
<1> QED BY <1>3 DEF Filled

LEMMA Constants ==
  /\ MaxDemos \in Nat \ {0} /\ MaxActive \in Nat \ {0} /\ MaxVirtualDays \in Nat \ {0}
  /\ Week \in Nat \ {0} /\ NoDemo \notin Demos
  /\ IsFiniteSet(Requests) /\ Cardinality(Requests) \in Nat \ {0}
  /\ MostDays \in Nat /\ MaxVirtualDays <= MostDays
<1>1. /\ MaxDemos \in Nat \ {0} /\ MaxActive \in Nat \ {0} /\ MaxVirtualDays \in Nat \ {0}
      /\ Week \in Nat \ {0} /\ NoDemo \notin Demos /\ IsFiniteSet(Requests)
  BY LimitsAssumption
<1>2. Cardinality(Requests) \in Nat \ {0}
  BY LimitsAssumption, FS_CardinalityType, FS_EmptySet
<1>3. \A n \in Nat : n * Week \in Nat
  BY <1>1
<1>4. Cardinality(Requests) - 1 \in Nat
  BY <1>2
<1>5. (Cardinality(Requests) - 1) * Week \in Nat
  BY <1>3, <1>4
<1> DEFINE more == (Cardinality(Requests) - 1) * Week
<1>6. MostDays = MaxVirtualDays + more
  BY DEF MostDays
<1> HIDE DEF more
<1>7. MostDays \in Nat /\ MaxVirtualDays <= MostDays
  BY <1>1, <1>5, <1>6 DEF more
<1> QED BY <1>1, <1>2, <1>7

LEMMA LiveAreDemos ==
  SandboxTypes => live \subseteq Demos
BY Constants DEF SandboxTypes, Demos

\* What the demos are, in a state and in the next.
LEMMA ActiveFinite ==
  /\ SandboxTypes => IsFiniteSet(Active) /\ Cardinality(Active) \in Nat
  /\ IsFiniteSet(Shells) /\ Cardinality(Shells) \in Nat
<1>1. ASSUME SandboxTypes PROVE IsFiniteSet(Active)
  <2>1. created \in Int /\ live \subseteq 1..created
    BY <1>1, Constants DEF SandboxTypes
  <2>2. IsFiniteSet(1..created)
    BY <2>1, FS_Interval
  <2>3. Active \subseteq 1..created
    BY <2>1 DEF Active
  <2> QED BY <2>2, <2>3, FS_Subset
<1>2. IsFiniteSet(Shells)
  BY Constants, FS_Subset DEF Shells
<1> QED BY <1>1, <1>2, FS_CardinalityType

LEMMA ActiveFiniteAfter ==
  /\ SandboxTypes' => IsFiniteSet(Active') /\ Cardinality(Active') \in Nat
  /\ IsFiniteSet(Shells') /\ Cardinality(Shells') \in Nat
<1>1. ASSUME SandboxTypes' PROVE IsFiniteSet(Active')
  <2>1. created' \in Int /\ live' \subseteq 1..created'
    BY <1>1, Constants DEF SandboxTypes
  <2>2. IsFiniteSet(1..created')
    BY <2>1, FS_Interval
  <2>3. Active' \subseteq 1..created'
    BY <2>1 DEF Active
  <2> QED BY <2>2, <2>3, FS_Subset
<1>2. IsFiniteSet(Shells')
  BY Constants, FS_Subset DEF Shells
<1> QED BY <1>1, <1>2, FS_CardinalityType

\* What is owed changes by what one request owes.
LEMMA OneDebtor ==
  ASSUME NEW r \in Requests, NEW d,
         \A q \in Requests : Due(req[q], d) \in Int /\ Due(req'[q], d) \in Int,
         \A q \in Requests \ {r} : req'[q] = req[q]
  PROVE  /\ Owed(req, d) \in Int /\ Owed(req', d) \in Int
         /\ Owed(req', d) = Owed(req, d) - Due(req[r], d) + Due(req'[r], d)
<1> DEFINE f == [q \in Requests |-> Due(req[q], d)]
           g == [q \in Requests |-> Due(req'[q], d)]
           Others == Requests \ {r}
<1>1. \A q \in Requests : f[q] \in Int /\ g[q] \in Int
  OBVIOUS
<1>2. \A q \in Others : f[q] = g[q]
  OBVIOUS
<1>3. f[r] = Due(req[r], d) /\ g[r] = Due(req'[r], d)
  OBVIOUS
<1>4. Owed(req, d) = SumOver(f, Requests) /\ Owed(req', d) = SumOver(g, Requests)
  BY DEF Owed
<1> HIDE DEF f, g
<1>5. Others \in SUBSET Requests /\ IsFiniteSet(Others) /\ IsFiniteSet(Requests)
  BY Constants, FS_Subset
<1>6. /\ SumOver(f, Requests) \in Int /\ SumOver(f, Others) \in Int
      /\ SumOver(f, Requests) = f[r] + SumOver(f, Others)
  BY <1>1, <1>5, SumTakeOut
<1>7. /\ SumOver(g, Requests) \in Int /\ SumOver(g, Others) \in Int
      /\ SumOver(g, Requests) = g[r] + SumOver(g, Others)
  BY <1>1, <1>5, SumTakeOut
<1>8. SumOver(f, Others) = SumOver(g, Others)
  BY <1>2, <1>5, SumSame
<1> HIDE DEF Others
<1> QED BY <1>1, <1>3, <1>4, <1>6, <1>7, <1>8

\* What the others owe is at most a week each.
LEMMA OthersOwe ==
  ASSUME NEW r \in Requests, NEW d,
         \A q \in Requests : Due(req[q], d) \in Int /\ Due(req[q], d) <= Week,
         Due(req[r], d) = 0
  PROVE  Owed(req, d) <= (Cardinality(Requests) - 1) * Week
<1> DEFINE f == [q \in Requests |-> Due(req[q], d)]
           Others == Requests \ {r}
<1>1. \A q \in Requests : f[q] \in Int /\ f[q] <= Week
  OBVIOUS
<1>2. f[r] = 0
  OBVIOUS
<1>3. Owed(req, d) = SumOver(f, Requests)
  BY DEF Owed
<1> HIDE DEF f
<1>4. Others \in SUBSET Requests /\ IsFiniteSet(Others) /\ IsFiniteSet(Requests)
  BY Constants, FS_Subset
<1>5. Cardinality(Others) = Cardinality(Requests) - 1
  BY <1>4, FS_RemoveElement
<1>6. SumOver(f, Others) \in Int /\ SumOver(f, Requests) = f[r] + SumOver(f, Others)
  BY <1>1, <1>4, SumTakeOut
<1>7. SumOver(f, Others) <= Cardinality(Others) * Week
  BY <1>1, <1>4, Constants, SumBounded
<1>8. SumOver(f, Requests) = SumOver(f, Others)
  BY <1>2, <1>6
<1> QED BY <1>3, <1>5, <1>7, <1>8

-----------------------------------------------------------------------------
(* A request that writes, the others standing still.                        *)

\* Day n of demo d is in the hands of a request that will write its usage.
Holds(request, d, n) ==
  /\ request # NoReq
  /\ request.demo = d /\ request.at \in {"arrivals", "consume"} /\ request.today = n

\* DaysAreLived, day by day.
LEMMA DaysMean ==
  DaysAreLived <=>
    \A d \in live : \A n :
      n \in 1..demo[d].days <=> \/ n \in demo[d].lived \/ n \in demo[d].lost
                                \/ \E q \in Requests : Holds(req[q], d, n)
<1> DEFINE Days(d) == {req[r].today : r \in {q \in Requests :
                         req[q] # NoReq /\ req[q].demo = d
                                        /\ req[q].at \in {"arrivals", "consume"}}}
<1>1. \A d, n : n \in Days(d) <=> \E q \in Requests : Holds(req[q], d, n)
  BY DEF Holds
<1>2. DaysAreLived <=> \A d \in live :
         1..demo[d].days = demo[d].lived \cup demo[d].lost \cup Days(d)
  BY DEF DaysAreLived
<1> HIDE DEF Days
<1>3. \A d \in live :
        (1..demo[d].days = demo[d].lived \cup demo[d].lost \cup Days(d)) <=>
        \A n : n \in 1..demo[d].days <=>
                 n \in demo[d].lived \/ n \in demo[d].lost \/ n \in Days(d)
  <2> SUFFICES ASSUME NEW d \in live,
                      NEW X, X = 1..demo[d].days, NEW Y, Y = demo[d].lived,
                      NEW Z, Z = demo[d].lost, NEW W, W = Days(d)
               PROVE  (X = Y \cup Z \cup W) <=> \A n : n \in X <=> n \in Y \/ n \in Z \/ n \in W
    OBVIOUS
  <2> QED OBVIOUS
<1> QED BY <1>1, <1>2, <1>3

LEMMA DaysMeanAfter ==
  DaysAreLived' <=>
    \A d \in live' : \A n :
      n \in 1..demo'[d].days <=> \/ n \in demo'[d].lived \/ n \in demo'[d].lost
                                 \/ \E q \in Requests : Holds(req'[q], d, n)
<1> DEFINE Days(d) == {req'[r].today : r \in {q \in Requests :
                         req'[q] # NoReq /\ req'[q].demo = d
                                        /\ req'[q].at \in {"arrivals", "consume"}}}
<1>1. \A d, n : n \in Days(d) <=> \E q \in Requests : Holds(req'[q], d, n)
  BY DEF Holds
<1>2. DaysAreLived' <=> \A d \in live' :
         1..demo'[d].days = demo'[d].lived \cup demo'[d].lost \cup Days(d)
  BY DEF DaysAreLived
<1> HIDE DEF Days
<1>3. \A d \in live' :
        (1..demo'[d].days = demo'[d].lived \cup demo'[d].lost \cup Days(d)) <=>
        \A n : n \in 1..demo'[d].days <=>
                 n \in demo'[d].lived \/ n \in demo'[d].lost \/ n \in Days(d)
  <2> SUFFICES ASSUME NEW d \in live',
                      NEW X, X = 1..demo'[d].days, NEW Y, Y = demo'[d].lived,
                      NEW Z, Z = demo'[d].lost, NEW W, W = Days(d)
               PROVE  (X = Y \cup Z \cup W) <=> \A n : n \in X <=> n \in Y \/ n \in Z \/ n \in W
    OBVIOUS
  <2> QED OBVIOUS
<1> QED BY <1>1, <1>2, <1>3

LEMMA DueIsInt ==
  ASSUME NEW request \in Request \cup {NoReq}, NEW d
  PROVE  Due(request, d) \in Int
BY DEF Due, Request, Moving

\* The bound on demos: nothing but a request that passes the limit uses it up.
LEMMA ActiveRests ==
  ASSUME SandboxTypes, SandboxTypes', ActiveBounded,
         Active' \subseteq Active, Shells' \subseteq Shells, vain' >= vain
  PROVE  ActiveBounded'
<1>1. /\ IsFiniteSet(Active) /\ Cardinality(Active) \in Nat /\ Cardinality(Active') \in Nat
      /\ IsFiniteSet(Shells) /\ Cardinality(Shells) \in Nat /\ Cardinality(Shells') \in Nat
  BY ActiveFinite, ActiveFiniteAfter
<1>2. Cardinality(Active') <= Cardinality(Active) /\ Cardinality(Shells') <= Cardinality(Shells)
  BY <1>1, FS_Subset
<1>3. vain \in Nat /\ vain' \in Nat
  BY DEF SandboxTypes
<1> QED BY <1>1, <1>2, <1>3, Constants DEF ActiveBounded

\* The bound on days: what a request moves the clock by it no longer owes.
LEMMA DaysRest ==
  ASSUME SandboxTypes, SandboxTypes', DaysBounded, NEW r \in Requests,
         \A q \in Requests \ {r} : req'[q] = req[q],
         NEW d \in live,
         demo'[d].days + Due(req'[r], d) <= demo[d].days + Due(req[r], d)
  PROVE  demo'[d].days + Owed(req', d) <= MostDays
<1>1. \A q \in Requests : Due(req[q], d) \in Int /\ Due(req'[q], d) \in Int
  BY DueIsInt DEF SandboxTypes
<1>2. /\ Owed(req, d) \in Int /\ Owed(req', d) \in Int
      /\ Owed(req', d) = Owed(req, d) - Due(req[r], d) + Due(req'[r], d)
  BY <1>1, OneDebtor
<1>3. demo[d].days + Owed(req, d) <= MostDays
  BY DEF DaysBounded
<1>4. d \in Demos
  BY Constants DEF SandboxTypes, Demos
<1>5. demo[d].days \in Nat /\ demo'[d].days \in Nat
  BY <1>4 DEF SandboxTypes, DemoType
<1> DEFINE o == Owed(req, d)
           p == Owed(req', d)
           u == Due(req[r], d)
           w == Due(req'[r], d)
<1>6. o \in Int /\ p \in Int /\ p = o - u + w /\ u \in Int /\ w \in Int
  BY <1>1, <1>2
<1>7. demo'[d].days + w <= demo[d].days + u /\ demo[d].days + o <= MostDays
  BY <1>3
<1> HIDE DEF o, p, u, w
<1>8. demo'[d].days + p <= MostDays
  BY <1>5, <1>6, <1>7, Constants
<1> QED BY <1>8 DEF p

\* A request goes on in its demo: it makes it if it made it before, and fills a
\* step if it has the lock or nobody else has.  If it may create a demo next, the
\* limit leaves room for one.
Continues(r, rec) ==
  rec # NoReq =>
    /\ rec.demo = req[r].demo
    /\ rec.at = "shell" => ActiveBounded'
    /\ rec.at \in Making => req[r].at \in Making
    /\ rec.locked => req[r].locked \/ LockFree(req[r].demo)

\* What the demo of a request may become: a template is applied by a request that
\* makes the demo or has its lock, a day is owed by somebody, and lived, lost or
\* in somebody's hands.
Writes(r, rec, x) ==
  LET d == req[r].demo IN
  /\ x \in DemoType
  /\ x.histories <= 1 /\ x.counts <= 1
  /\ x.counts > 0 => "count" \in x.traces
  /\ \/ x.histories = demo[d].histories /\ x.counts = demo[d].counts
     \/ req[r].at \in Making \/ req[r].locked
  /\ x.days + Due(rec, d) <= demo[d].days + Due(req[r], d)
  /\ \/ /\ x.days = demo[d].days
        /\ \A n : (n \in x.lived \/ n \in x.lost \/ Holds(rec, d, n)) <=>
                  \/ n \in demo[d].lived \/ n \in demo[d].lost \/ Holds(req[r], d, n)
     \/ /\ x.days = demo[d].days + 1
        /\ \A n : (n \in x.lived \/ n \in x.lost \/ Holds(rec, d, n)) <=>
                  \/ n \in demo[d].lived \/ n \in demo[d].lost \/ Holds(req[r], d, n)
                  \/ n = demo[d].days + 1

\* A request works in its demo: it becomes rec, and the demo x.
LEMMA RequestWrites ==
  ASSUME SandboxInductive, NEW r \in Requests, Busy(r), NEW rec \in Request \cup {NoReq}, NEW x,
         req' = [req EXCEPT ![r] = rec],
         UNCHANGED <<created, live, expired, vain, sessions, cookie>>,
         Continues(r, rec), Busy(r)' => ReqFits(r)',
         req[r].demo \notin live => demo' = demo,
         req[r].demo \in live => Writes(r, rec, x) /\ demo' = [demo EXCEPT ![req[r].demo] = x]
  PROVE  SandboxInductive'
<1> USE DEF Continues, Writes
<1> DEFINE c == req[r].demo
<1>1. SandboxTypes /\ ReqFits(r)
  BY DEF SandboxInductive
<1>2. live \subseteq Demos /\ req[r] \in Request
  BY <1>1, Constants DEF SandboxTypes, Demos, Busy
<1>3. \A e \in Demos : e = c /\ e \in live => demo'[e] = x
  BY <1>1, <1>2 DEF SandboxTypes
<1>4. \A e \in Demos : e # c \/ e \notin live => demo'[e] = demo[e]
  BY <1>1 DEF SandboxTypes
<1>5. req'[r] = rec /\ \A q \in Requests \ {r} : req'[q] = req[q]
  BY <1>1 DEF SandboxTypes
<1>6. SandboxTypes'
  <2>1. demo' \in [Demos -> DemoType]
    <3>1. CASE c \in live
      BY <1>1, <1>2, <3>1 DEF SandboxTypes
    <3>2. CASE c \notin live
      BY <1>1, <3>2 DEF SandboxTypes
    <3> QED BY <3>1, <3>2
  <2>2. req' \in [Requests -> Request \cup {NoReq}]
    BY <1>1 DEF SandboxTypes
  <2>3. \A e \in Demos \ live' : demo'[e] = Empty
    BY <1>1, <1>4 DEF SandboxTypes
  <2> QED BY <1>1, <2>1, <2>2, <2>3 DEF SandboxTypes
<1>7. ASSUME NEW q \in Requests, Busy(q)' PROVE ReqFits(q)'
  <2>1. CASE q = r
    BY <1>5, <1>7, <2>1 DEF Busy
  <2>2. CASE q # r
    <3>1. Busy(q) /\ req'[q] = req[q] /\ ReqFits(q) /\ Apart(q, r) /\ Apart(r, q)
      BY <1>5, <1>7, <2>2 DEF Busy, SandboxInductive
    <3>2. req[q].at \in Making => req[q].demo # c
      BY <3>1, <2>2 DEF Apart
    <3>3. ASSUME req[q].demo # c \/ c \notin live PROVE ReqFits(q)'
      <4>1. \A e \in 1..created : demo'[e] = demo[e] \/ e # req[q].demo
        BY <1>1, <1>4, <3>3, Constants DEF SandboxTypes, Demos
      <4>2. req[q].at \in Making \cup {"write", "draft", "post"} => req[q].demo \in 1..created
        BY <3>1 DEF ReqFits, Making
      <4>3. req[q].at \in Making \cup {"write", "draft", "post"} =>
              demo'[req[q].demo] = demo[req[q].demo]
        BY <4>1, <4>2
      <4> QED BY <3>1, <4>3 DEF ReqFits, Making
    <3>4. ASSUME req[q].demo = c, c \in live PROVE ReqFits(q)'
      <4>1. req[q].at \notin Making
        BY <3>2, <3>4
      <4>2. demo'[c] = x
        BY <1>2, <1>3, <3>4
      <4>3. CASE x.histories = demo[c].histories /\ x.counts = demo[c].counts
        BY <3>1, <3>4, <4>1, <4>2, <4>3 DEF ReqFits, Making
      <4>4. CASE req[r].at \in Making \/ req[r].locked
        <5>1. ~ req[q].locked
          BY <2>2, <3>1, <3>4, <4>4 DEF Apart
        <5>2. req[q].at \notin Filling
          BY <3>1, <5>1 DEF ReqFits
        <5> QED BY <3>1, <4>1, <5>1, <5>2 DEF ReqFits, Making, Filling
      <4> QED BY <3>4, <4>3, <4>4
    <3> QED BY <3>3, <3>4
  <2> QED BY <2>1, <2>2
<1>8. ASSUME NEW p \in Requests, NEW q \in Requests PROVE Apart(p, q)'
  <2>1. Apart(p, q) /\ Apart(q, p)
    BY DEF SandboxInductive
  <2>2. CASE p # r /\ q # r
    BY <1>5, <2>1, <2>2 DEF Apart, Busy
  <2>3. CASE p = r /\ q # r
    <3>1. rec = NoReq \/ (rec # NoReq /\ rec.locked /\ LockFree(c) /\ Busy(q) =>
                            ~ req[q].locked \/ req[q].demo # c)
      BY DEF LockFree, Busy
    <3> QED BY <1>5, <2>1, <2>3, <3>1 DEF Apart, Busy
  <2>4. CASE q = r /\ p # r
    <3>1. rec = NoReq \/ (rec # NoReq /\ rec.locked /\ LockFree(c) /\ Busy(p) =>
                            ~ req[p].locked \/ req[p].demo # c)
      BY DEF LockFree, Busy
    <3> QED BY <1>5, <2>1, <2>4, <3>1 DEF Apart, Busy
  <2>5. CASE p = r /\ q = r
    BY <2>5 DEF Apart
  <2> QED BY <2>2, <2>3, <2>4, <2>5
<1>9. ASSUME NEW e \in Demos PROVE DemoFits(e)'
  <2>1. DemoFits(e)
    BY DEF SandboxInductive
  <2>2. CASE e = c /\ e \in live
    BY <1>3, <2>2 DEF DemoFits
  <2>3. CASE e # c \/ e \notin live
    BY <1>4, <2>1, <2>3 DEF DemoFits
  <2> QED BY <2>2, <2>3
<1>10. DaysAreLived'
  <2> SUFFICES ASSUME NEW e \in live, NEW n
               PROVE  n \in 1..demo'[e].days <=>
                        \/ n \in demo'[e].lived \/ n \in demo'[e].lost
                        \/ \E q \in Requests : Holds(req'[q], e, n)
    BY DaysMeanAfter
  <2>1. n \in 1..demo[e].days <=>
          \/ n \in demo[e].lived \/ n \in demo[e].lost
          \/ \E q \in Requests : Holds(req[q], e, n)
    BY DaysMean DEF SandboxInductive
  <2> DEFINE Others == \E q \in Requests \ {r} : Holds(req[q], e, n)
  <2>2. (\E q \in Requests : Holds(req[q], e, n)) <=> Others \/ Holds(req[r], e, n)
    OBVIOUS
  <2>3. (\E q \in Requests : Holds(req'[q], e, n)) <=> Others \/ Holds(rec, e, n)
    BY <1>5
  <2> HIDE DEF Others
  <2>4. CASE e = c
    <3>1. demo'[e] = x /\ demo[e].days \in Nat
      BY <1>1, <1>2, <1>3, <2>4 DEF SandboxTypes, DemoType
    <3>2. CASE x.days = demo[e].days + 1
      <4>1. n \in 1..x.days <=> n \in 1..demo[e].days \/ n = demo[e].days + 1
        BY <3>1, <3>2
      <4>2. (n \in x.lived \/ n \in x.lost \/ Holds(rec, e, n)) <=>
              \/ n \in demo[e].lived \/ n \in demo[e].lost
              \/ Holds(req[r], e, n) \/ n = demo[e].days + 1
        BY <2>4, <3>1, <3>2
      <4> QED BY <2>1, <2>2, <2>3, <3>1, <4>1, <4>2
    <3>3. CASE x.days = demo[e].days
      <4>1. (n \in x.lived \/ n \in x.lost \/ Holds(rec, e, n)) <=>
              \/ n \in demo[e].lived \/ n \in demo[e].lost \/ Holds(req[r], e, n)
        BY <2>4, <3>1, <3>3
      <4> QED BY <2>1, <2>2, <2>3, <3>1, <3>3, <4>1
    <3> QED BY <2>4, <3>2, <3>3
  <2>5. CASE e # c
    <3>1. demo'[e] = demo[e]
      BY <1>2, <1>4, <2>5
    <3>2. ~ Holds(req[r], e, n) /\ ~ Holds(rec, e, n)
      BY <2>5 DEF Holds
    <3> QED BY <2>1, <2>2, <2>3, <3>1, <3>2
  <2> QED BY <2>4, <2>5
<1>11. ActiveBounded'
  <2>1. Active' = Active /\ vain' = vain /\ vain \in Nat
    BY <1>1 DEF Active, SandboxTypes
  <2>2. CASE rec = NoReq \/ rec.at # "shell"
    <3>1. Shells' \subseteq Shells
      BY <1>5, <2>2 DEF Shells
    <3> QED BY <1>1, <1>6, <2>1, <3>1, ActiveRests DEF SandboxInductive
  <2> QED BY <2>2
<1>12. DaysBounded'
  <2>1. ASSUME NEW e \in live'
        PROVE  e \in live /\ demo'[e].days + Due(rec, e) <= demo[e].days + Due(req[r], e)
    <3>1. CASE e = c
      BY <1>2, <1>3, <2>1, <3>1
    <3>2. CASE e # c
      <4>1. Due(req[r], e) = 0 /\ Due(rec, e) = 0
        BY <3>2 DEF Due
      <4>2. demo'[e].days = demo[e].days /\ demo[e].days \in Nat
        BY <1>1, <1>2, <1>4, <2>1, <3>2 DEF SandboxTypes, DemoType
      <4> QED BY <2>1, <4>1, <4>2
    <3> QED BY <3>1, <3>2
  <2>2. ASSUME NEW e \in live' PROVE demo'[e].days + Owed(req', e) <= MostDays
    BY <1>1, <1>5, <1>6, <2>1, DaysRest DEF SandboxInductive
  <2> QED BY <2>2 DEF DaysBounded
<1> QED BY <1>6, <1>7, <1>8, <1>9, <1>10, <1>11, <1>12 DEF SandboxInductive

LEMMA RequestAt ==
  ASSUME SandboxInductive, NEW r \in Requests, Busy(r)
  PROVE  /\ req[r] \in Request /\ ReqFits(r) /\ SandboxTypes
         /\ req[r].demo \in live => req[r].demo \in Demos /\ demo[req[r].demo] \in DemoType
<1>1. SandboxTypes
  BY DEF SandboxInductive
<1>2. ReqFits(r)
  BY DEF SandboxInductive
<1>3. live \subseteq Demos
  BY <1>1, Constants DEF SandboxTypes, Demos
<1> QED BY <1>1, <1>2, <1>3 DEF SandboxTypes, Busy

\* A request that writes nothing.
LEMMA RequestMoves ==
  ASSUME SandboxInductive, NEW r \in Requests, Busy(r), NEW rec \in Request \cup {NoReq},
         req' = [req EXCEPT ![r] = rec],
         UNCHANGED <<demoVars, sessions, cookie>>,
         Continues(r, rec), Busy(r)' => ReqFits(r)',
         req[r].demo \in live =>
           /\ Due(rec, req[r].demo) <= Due(req[r], req[r].demo)
           /\ \A n : Holds(rec, req[r].demo, n) <=> Holds(req[r], req[r].demo, n)
  PROVE  SandboxInductive'
<1> DEFINE c == req[r].demo
           x == demo[c]
<1>1. UNCHANGED <<created, live, expired, demo, vain, sessions, cookie>>
  BY DEF demoVars
<1>2. /\ req[r] \in Request /\ SandboxTypes
      /\ c \in live => c \in Demos /\ demo[c] \in DemoType
  BY RequestAt
<1>3. c \in live =>
        /\ x \in DemoType
        /\ demo' = [demo EXCEPT ![c] = x]
  BY <1>1, <1>2 DEF SandboxTypes
<1>4. c \in live => DemoFits(c)
  BY <1>2 DEF SandboxInductive
<1>5. c \in live => x.days + Due(rec, c) <= demo[c].days + Due(req[r], c)
  <2>1. Due(rec, c) \in Int /\ Due(req[r], c) \in Int
    BY <1>2, DueIsInt
  <2>2. c \in live => x.days = demo[c].days /\ demo[c].days \in Nat
    BY <1>2 DEF DemoType
  <2> HIDE DEF x
  <2> QED BY <2>1, <2>2
<1>6. c \in live =>
        /\ x.days = demo[c].days
        /\ \A n : (n \in x.lived \/ n \in x.lost \/ Holds(rec, c, n)) <=>
                  \/ n \in demo[c].lived \/ n \in demo[c].lost \/ Holds(req[r], c, n)
  OBVIOUS
<1> HIDE DEF x
<1>7. c \in live => /\ x.histories = demo[c].histories /\ x.counts = demo[c].counts
                    /\ x.histories <= 1 /\ x.counts <= 1
                    /\ x.counts > 0 => "count" \in x.traces
  BY <1>4 DEF x, DemoFits
<1>8. c \in live => Writes(r, rec, x)
  BY <1>3, <1>5, <1>6, <1>7 DEF Writes
<1> QED BY <1>1, <1>3, <1>8, RequestWrites

\* A request that leaves traces of steps.
LEMMA RequestMarks ==
  ASSUME SandboxInductive, NEW r \in Requests, Busy(r), NEW rec \in Request \cup {NoReq},
         NEW marks \in SUBSET Steps, req[r].demo \in live, demo[req[r].demo].traces \subseteq marks,
         req' = [req EXCEPT ![r] = rec],
         demo' = [demo EXCEPT ![req[r].demo].traces = marks],
         UNCHANGED <<created, live, expired, vain, sessions, cookie>>,
         Continues(r, rec), Busy(r)' => ReqFits(r)',
         Due(rec, req[r].demo) <= Due(req[r], req[r].demo),
         \A n : Holds(rec, req[r].demo, n) <=> Holds(req[r], req[r].demo, n)
  PROVE  SandboxInductive'
<1> DEFINE c == req[r].demo
           x == [demo[c] EXCEPT !.traces = marks]
<1>1. /\ req[r] \in Request /\ SandboxTypes
      /\ c \in Demos /\ demo[c] \in DemoType
  BY RequestAt
<1>2. x \in DemoType /\ demo' = [demo EXCEPT ![c] = x]
  BY <1>1 DEF DemoType
<1>3. /\ x.days = demo[c].days /\ x.lived = demo[c].lived /\ x.lost = demo[c].lost
      /\ x.histories = demo[c].histories /\ x.counts = demo[c].counts /\ x.traces = marks
  BY <1>1 DEF DemoType
<1> HIDE DEF x
<1>4. /\ x.histories <= 1 /\ x.counts <= 1
      /\ x.counts > 0 => "count" \in x.traces
  BY <1>1, <1>3 DEF SandboxInductive, DemoFits
<1>5. x.days + Due(rec, c) <= demo[c].days + Due(req[r], c)
  <2>1. Due(rec, c) \in Int /\ Due(req[r], c) \in Int
    BY <1>1, <1>3, DueIsInt
  <2>2. x.days = demo[c].days /\ demo[c].days \in Nat
    BY <1>1, <1>3 DEF DemoType
  <2> HIDE DEF x
  <2> QED BY <2>1, <2>2
<1>6. /\ x.days = demo[c].days
      /\ \A n : (n \in x.lived \/ n \in x.lost \/ Holds(rec, c, n)) <=>
                \/ n \in demo[c].lived \/ n \in demo[c].lost \/ Holds(req[r], c, n)
  BY <1>3
<1>7. Writes(r, rec, x)
  BY <1>2, <1>3, <1>4, <1>5, <1>6 DEF Writes
<1> QED BY <1>2, <1>7, RequestWrites

-----------------------------------------------------------------------------
(* The steps of a request.                                                  *)


\* A request that is updated is still one.
LEMMA Updated ==
  ASSUME NEW q \in Request, NEW stage \in Stages
  PROVE  /\ \A n \in Nat : [q EXCEPT !.at = stage, !.today = n] \in Request
         /\ \A n \in Nat : [q EXCEPT !.at = stage, !.left = n] \in Request
         /\ \A b \in BOOLEAN : [q EXCEPT !.seen = b, !.at = stage] \in Request
<1>1. \A n \in Nat : [q EXCEPT !.at = stage, !.today = n] \in Request
  BY DEF Request
<1>2. \A n \in Nat : [q EXCEPT !.at = stage, !.left = n] \in Request
  BY DEF Request
<1>3. \A b \in BOOLEAN : [q EXCEPT !.seen = b, !.at = stage] \in Request
  BY DEF Request
<1> QED BY <1>1, <1>2, <1>3

\* What a request owes and holds, by the transaction it is at.
LEMMA Unmoving ==
  ASSUME NEW request, NEW d, request = NoReq \/ request.at \notin Moving
  PROVE  Due(request, d) = 0 /\ \A n : ~ Holds(request, d, n)
BY DEF Due, Holds, Moving

LEMMA OnTheMove ==
  ASSUME NEW request, NEW d, request # NoReq, request.demo = d
  PROVE  /\ request.at = "shift" => Due(request, d) = request.left
         /\ request.at \in {"arrivals", "consume", "evening"} =>
              Due(request, d) = request.left - 1
BY DEF Due, Moving

LEMMA FillDemoKeeps ==
  ASSUME SandboxInductive, NEW r \in Requests, FillDemo(r)
  PROVE  SandboxInductive'
<1> DEFINE c == req[r].demo
           x == [demo[c] EXCEPT !.traces = Filled, !.histories = @ + 1]
           rec == [req[r] EXCEPT !.at = "forecast"]
<1>1. /\ Busy(r) /\ req[r].at = "fill" /\ c \in live
      /\ UNCHANGED <<created, live, expired, vain, sessions, cookie>>
  BY DEF FillDemo, WritesIn, At, Busy
<1>2. /\ req[r] \in Request /\ ReqFits(r) /\ SandboxTypes
      /\ c \in Demos /\ demo[c] \in DemoType
  BY <1>1, RequestAt
<1>3. demo[c] = Empty
  BY <1>1, <1>2 DEF ReqFits
<1>4. rec \in Request /\ rec # NoReq /\ req' = [req EXCEPT ![r] = rec] /\ req'[r] = rec
  BY <1>1, <1>2, NoReqAssumption DEF FillDemo, Goto, Request, Stages, Busy, SandboxTypes
<1>5. /\ demo' = [demo EXCEPT ![c] = x] /\ x \in DemoType
      /\ x.histories = 1 /\ x.counts = 0 /\ x.days = demo[c].days
      /\ x.lived = demo[c].lived /\ x.lost = demo[c].lost /\ x.traces = Filled
  <2>1. demo' = [demo EXCEPT ![c] = x]
    BY <1>2 DEF FillDemo, Filled, SandboxTypes
  <2>2. demo[c].histories = 0 /\ demo[c].counts = 0
    BY <1>3 DEF Empty
  <2>3. x = [demo[c] EXCEPT !.traces = Filled, !.histories = 1]
    BY <1>2, <2>2 DEF DemoType
  <2>4. x \in DemoType
    <3>1. Filled \in SUBSET Steps
      BY StepsAre
    <3>2. \A y \in DemoType, t \in SUBSET Steps :
            [y EXCEPT !.traces = t, !.histories = 1] \in DemoType
      BY DEF DemoType
    <3> QED BY <1>2, <2>3, <3>1, <3>2
  <2>5. /\ x.histories = 1 /\ x.counts = demo[c].counts /\ x.days = demo[c].days
        /\ x.lived = demo[c].lived /\ x.lost = demo[c].lost /\ x.traces = Filled
    BY <1>2, <2>3 DEF DemoType
  <2> QED BY <2>1, <2>2, <2>4, <2>5
<1>6. ReqFits(r)'
  BY <1>1, <1>2, <1>4, <1>5 DEF ReqFits, Making, Filling, Moving, SandboxTypes
<1>7. /\ Due(rec, c) = 0 /\ Due(req[r], c) = 0
      /\ \A n : ~ Holds(rec, c, n) /\ ~ Holds(req[r], c, n)
  <2>1. rec.at = "forecast"
    BY <1>2 DEF Request
  <2> QED BY <1>1, <2>1, Unmoving DEF Moving
<1>8. Continues(r, rec)
  BY <1>1, <1>2 DEF Continues, Request, Making
<1> HIDE DEF x, rec
<1>9. x.days + Due(rec, c) <= demo[c].days + Due(req[r], c)
  BY <1>2, <1>5, <1>7 DEF DemoType
<1>10. Writes(r, rec, x)
  BY <1>1, <1>5, <1>7, <1>9 DEF Writes, Making, Filled
<1> QED BY <1>1, <1>4, <1>5, <1>6, <1>8, <1>10, RequestWrites

LEMMA RunForecastKeeps ==
  ASSUME SandboxInductive, NEW r \in Requests, RunForecast(r)
  PROVE  SandboxInductive'
<1> DEFINE c == req[r].demo
           marks == demo[c].traces \cup {"forecast"}
           rec == [req[r] EXCEPT !.at = "session"]
<1>1. /\ Busy(r) /\ req[r].at = "forecast" /\ c \in live
      /\ UNCHANGED <<created, live, expired, vain, sessions, cookie>>
  BY DEF RunForecast, WritesIn, At, Busy
<1>2. /\ req[r] \in Request /\ ReqFits(r) /\ SandboxTypes
      /\ c \in Demos /\ demo[c] \in DemoType
  BY <1>1, RequestAt
<1>3. rec \in Request /\ rec # NoReq /\ req' = [req EXCEPT ![r] = rec] /\ req'[r] = rec
  BY <1>1, <1>2, NoReqAssumption DEF RunForecast, Goto, Request, Stages, Busy, SandboxTypes
<1>4. /\ demo' = [demo EXCEPT ![c].traces = marks] /\ marks \in SUBSET Steps
      /\ demo[c].traces \subseteq marks
  BY <1>2, StepsAre DEF RunForecast, DemoType
<1>5. demo'[c].traces \in Finished
  <2>1. demo'[c].traces = Filled \cup {"forecast"}
    BY <1>1, <1>2, <1>4 DEF ReqFits, SandboxTypes, DemoType
  <2> QED BY <2>1 DEF Finished
<1>6. rec.demo = c /\ rec.at = "session" /\ rec.locked = req[r].locked
  BY <1>2 DEF Request
<1>7. ReqFits(r)'
  BY <1>1, <1>2, <1>3, <1>5, <1>6 DEF ReqFits, Making, Filling, Moving
<1>8. /\ Due(rec, c) = 0 /\ Due(req[r], c) = 0
      /\ \A n : ~ Holds(rec, c, n) /\ ~ Holds(req[r], c, n)
  BY <1>1, <1>6, Unmoving DEF Moving
<1>9. Continues(r, rec)
  BY <1>1, <1>6 DEF Continues, Making
<1> HIDE DEF marks, rec
<1>10. Due(rec, c) <= Due(req[r], c)
  BY <1>8
<1> QED BY <1>1, <1>3, <1>4, <1>7, <1>8, <1>9, <1>10, RequestMarks

\* A request that ends here, owing and holding nothing.
LEMMA EndsQuietly ==
  ASSUME SandboxInductive, NEW r \in Requests, Busy(r), EndReq(r),
         UNCHANGED <<demoVars, sessions, cookie>>,
         req[r].at \notin {"arrivals", "consume"}
  PROVE  SandboxInductive'
<1>1. req[r] \in Request /\ ReqFits(r)
  BY RequestAt
<1>2. Due(NoReq, req[r].demo) = 0 /\ \A n : ~ Holds(NoReq, req[r].demo, n)
  BY Unmoving
<1>3. \A n : ~ Holds(req[r], req[r].demo, n)
  BY DEF Holds
<1>4. Due(NoReq, req[r].demo) <= Due(req[r], req[r].demo)
  <2>1. CASE req[r].at \notin Moving
    BY <1>2, <2>1, Unmoving
  <2>2. CASE req[r].at \in Moving
    <3>1. req[r].left \in Nat \ {0}
      BY <1>1, <2>2, Constants DEF ReqFits
    <3>2. req[r].at = "shift" \/ req[r].at = "evening"
      BY <2>2 DEF Moving
    <3> QED BY <1>2, <3>1, <3>2, OnTheMove DEF Busy
  <2> QED BY <2>1, <2>2
<1>5. req' = [req EXCEPT ![r] = NoReq] /\ Continues(r, NoReq)
  BY DEF EndReq, Continues
<1>6. ~ Busy(r)'
  BY <1>5, RequestAt DEF SandboxTypes, Busy
<1> QED BY <1>2, <1>3, <1>4, <1>5, <1>6, RequestMoves

LEMMA TakeGuideLockKeeps ==
  ASSUME SandboxInductive, NEW r \in Requests, TakeGuideLock(r)
  PROVE  SandboxInductive'
<1> DEFINE c == req[r].demo
           rec == [req[r] EXCEPT !.locked = TRUE, !.at = "guide"]
<1>1. Busy(r) /\ req[r].at = "lock" /\ UNCHANGED <<demoVars, sessions, cookie>>
  BY DEF TakeGuideLock, At, Busy, Reads
<1>2. req[r] \in Request /\ ReqFits(r) /\ SandboxTypes
  BY <1>1, RequestAt
<1>3. CASE LockFree(c)
  <2>1. rec \in Request /\ rec # NoReq /\ req' = [req EXCEPT ![r] = rec] /\ req'[r] = rec
    BY <1>1, <1>2, <1>3, NoReqAssumption DEF TakeGuideLock, Request, Stages, Busy, SandboxTypes
  <2>2. rec.demo = c /\ rec.at = "guide" /\ rec.locked
    BY <1>2 DEF Request
  <2>3. ReqFits(r)'
    BY <1>1, <1>2, <2>1, <2>2 DEF ReqFits, Making, Filling, Moving, demoVars
  <2>4. /\ Due(rec, c) = 0 /\ Due(req[r], c) = 0
        /\ \A n : ~ Holds(rec, c, n) /\ ~ Holds(req[r], c, n)
    BY <1>1, <2>2, Unmoving DEF Moving
  <2>5. Continues(r, rec)
    BY <1>1, <1>3, <2>2 DEF Continues, Making
  <2> HIDE DEF rec
  <2>6. Due(rec, c) <= Due(req[r], c)
    BY <2>4
  <2> QED BY <1>1, <2>1, <2>3, <2>4, <2>5, <2>6, RequestMoves
<1>4. CASE ~ LockFree(c)
  BY <1>1, <1>4, EndsQuietly DEF TakeGuideLock
<1> QED BY <1>3, <1>4

LEMMA ReadGuideKeeps ==
  ASSUME SandboxInductive, NEW r \in Requests, ReadGuide(r)
  PROVE  SandboxInductive'
<1> DEFINE c == req[r].demo
           s == req[r].step
           stage == CASE s = "history" -> "history"
                      [] s = "count"   -> "draft"
                      [] OTHER         -> "template"
           rec == [req[r] EXCEPT !.seen = s \in Done(c), !.at = stage]
<1>1. /\ Busy(r) /\ req[r].at = "guide" /\ c \in live
      /\ UNCHANGED <<demoVars, sessions, cookie>>
  BY DEF ReadGuide, At, Busy, Reads
<1>2. req[r] \in Request /\ ReqFits(r) /\ SandboxTypes /\ c \in Demos /\ demo[c] \in DemoType
  BY <1>1, RequestAt
<1>3. CASE s \in Fillable /\ Ready(Done(c), s)
  <2>1. /\ stage \in {"history", "draft", "template"} /\ (stage = "draft" => s = "count")
        /\ (s \in Done(c)) \in BOOLEAN
    OBVIOUS
  <2>2. req' = [req EXCEPT ![r] = rec] /\ req'[r] = rec
    BY <1>2, <1>3 DEF ReadGuide, SandboxTypes
  <2>3. rec.demo = c /\ rec.at = stage /\ rec.locked = req[r].locked /\ rec.seen = (s \in Done(c))
    BY <1>2 DEF Request
  <2> HIDE DEF stage
  <2>4. rec \in Request /\ rec # NoReq
    <3>1. stage \in Stages
      BY <2>1 DEF Stages
    <3> QED BY <1>2, <2>1, <3>1, NoReqAssumption DEF Request
  <2>5. rec.at = "draft" /\ ~ rec.seen => demo[c].counts = 0
    <3>1. DemoFits(c)
      BY <1>2 DEF SandboxInductive
    <3>2. demo[c].counts > 0 => "count" \in Done(c)
      BY <3>1 DEF DemoFits, Done
    <3>3. demo[c].counts \in Nat
      BY <1>2 DEF DemoType
    <3>4. rec.at = "draft" /\ ~ rec.seen => "count" \notin Done(c)
      BY <2>1, <2>3
    <3> QED BY <3>2, <3>3, <3>4
  <2>6. ReqFits(r)'
    BY <1>1, <1>2, <2>1, <2>2, <2>3, <2>5 DEF ReqFits, Making, Filling, Moving, demoVars
  <2>7. /\ Due(rec, c) = 0 /\ Due(req[r], c) = 0
        /\ \A n : ~ Holds(rec, c, n) /\ ~ Holds(req[r], c, n)
    BY <1>1, <2>1, <2>3, Unmoving DEF Moving
  <2>8. Continues(r, rec)
    BY <2>1, <2>3 DEF Continues, Making
  <2> HIDE DEF rec
  <2>9. Due(rec, c) <= Due(req[r], c)
    BY <2>7
  <2> QED BY <1>1, <2>2, <2>4, <2>6, <2>7, <2>8, <2>9, RequestMoves
<1>4. CASE ~ (s \in Fillable /\ Ready(Done(c), s))
  BY <1>1, <1>4, EndsQuietly DEF ReadGuide
<1> QED BY <1>3, <1>4

LEMMA ShiftClockKeeps ==
  ASSUME SandboxInductive, NEW r \in Requests, ShiftClock(r)
  PROVE  SandboxInductive'
<1> DEFINE c == req[r].demo
           day == demo[c].days + 1
           x == [demo[c] EXCEPT !.days = day]
           rec == [req[r] EXCEPT !.at = "arrivals", !.today = day]
<1>1. /\ Busy(r) /\ req[r].at = "shift" /\ c \in live
      /\ UNCHANGED <<created, live, expired, vain, sessions, cookie>>
  BY DEF ShiftClock, WritesIn, At, Busy
<1>2. /\ req[r] \in Request /\ ReqFits(r) /\ SandboxTypes
      /\ c \in Demos /\ demo[c] \in DemoType
  BY <1>1, RequestAt
<1>3. day \in Nat
  BY <1>2 DEF DemoType
<1>4. req' = [req EXCEPT ![r] = rec] /\ req'[r] = rec
  BY <1>2 DEF ShiftClock, SandboxTypes
<1>5. demo' = [demo EXCEPT ![c] = x] /\ demo'[c] = x
  BY <1>2 DEF ShiftClock, SandboxTypes
<1>6. /\ rec.demo = c /\ rec.at = "arrivals" /\ rec.locked = req[r].locked
      /\ rec.left = req[r].left /\ rec.today = day
  BY <1>2 DEF Request
<1>7. /\ x.histories = demo[c].histories /\ x.counts = demo[c].counts /\ x.days = day
      /\ x.lived = demo[c].lived /\ x.lost = demo[c].lost /\ x.traces = demo[c].traces
  BY <1>2 DEF DemoType
<1> HIDE DEF day
<1>8. rec \in Request /\ rec # NoReq
  <2>1. "arrivals" \in Stages
    BY DEF Stages
  <2>2. rec \in Request
    BY <1>2, <1>3, <2>1, Updated, Zenon
  <2> QED BY <2>2, NoReqAssumption
<1>9. x \in DemoType
  BY <1>2, <1>3 DEF DemoType
<1> HIDE DEF x, rec
<1>10. ReqFits(r)'
  BY <1>1, <1>2, <1>4, <1>6 DEF ReqFits, Making, Filling, Moving
<1>11. Due(rec, c) = req[r].left - 1 /\ Due(req[r], c) = req[r].left
  BY <1>1, <1>6, <1>8, OnTheMove DEF Busy
<1>12. \A n : (Holds(rec, c, n) <=> n = day) /\ ~ Holds(req[r], c, n)
  BY <1>1, <1>6, <1>8 DEF Holds
<1>13. x.days + Due(rec, c) <= demo[c].days + Due(req[r], c)
  BY <1>2, <1>7, <1>11 DEF day, DemoType, Request
<1>14. DemoFits(c)
  BY <1>2 DEF SandboxInductive
<1>15. Writes(r, rec, x)
  BY <1>7, <1>9, <1>12, <1>13, <1>14 DEF Writes, DemoFits, day
<1>16. Continues(r, rec)
  BY <1>6 DEF Continues, Making
<1> QED BY <1>1, <1>4, <1>5, <1>8, <1>10, <1>15, <1>16, RequestWrites

LEMMA ReceiveArrivalsKeeps ==
  ASSUME SandboxInductive, NEW r \in Requests, ReceiveArrivals(r)
  PROVE  SandboxInductive'
<1> DEFINE c == req[r].demo
           rec == [req[r] EXCEPT !.at = "consume"]
<1>1. /\ Busy(r) /\ req[r].at = "arrivals" /\ c \in live
      /\ UNCHANGED <<created, live, expired, vain, sessions, cookie>>
  BY DEF ReceiveArrivals, WritesIn, At, Busy
<1>2. /\ req[r] \in Request /\ ReqFits(r) /\ SandboxTypes
      /\ c \in Demos /\ demo[c] \in DemoType
  BY <1>1, RequestAt
<1>3. PICK arrived \in SUBSET {"receive"} :
        demo' = [demo EXCEPT ![c].traces = @ \cup arrived]
  BY DEF ReceiveArrivals
<1> DEFINE marks == demo[c].traces \cup arrived
<1>4. /\ demo' = [demo EXCEPT ![c].traces = marks] /\ marks \in SUBSET Steps
      /\ demo[c].traces \subseteq marks
  BY <1>2, <1>3, StepsAre DEF DemoType
<1>5. rec \in Request /\ rec # NoReq /\ req' = [req EXCEPT ![r] = rec] /\ req'[r] = rec
  BY <1>1, <1>2, NoReqAssumption DEF ReceiveArrivals, Goto, Request, Stages, Busy, SandboxTypes
<1>6. /\ rec.demo = c /\ rec.at = "consume" /\ rec.locked = req[r].locked
      /\ rec.left = req[r].left /\ rec.today = req[r].today
  BY <1>2 DEF Request
<1> HIDE DEF marks, rec
<1>7. ReqFits(r)'
  BY <1>1, <1>2, <1>5, <1>6 DEF ReqFits, Making, Filling, Moving
<1>8. Due(rec, c) <= Due(req[r], c)
  <2>1. Due(rec, c) = req[r].left - 1 /\ Due(req[r], c) = req[r].left - 1
    BY <1>1, <1>5, <1>6, OnTheMove DEF Busy
  <2> QED BY <1>2, <2>1 DEF Request
<1>9. \A n : Holds(rec, c, n) <=> Holds(req[r], c, n)
  BY <1>1, <1>5, <1>6 DEF Holds, Busy
<1>10. Continues(r, rec)
  BY <1>6 DEF Continues, Making
<1> QED BY <1>1, <1>4, <1>5, <1>7, <1>8, <1>9, <1>10, RequestMarks

LEMMA ConsumeDayKeeps ==
  ASSUME SandboxInductive, NEW r \in Requests, ConsumeDay(r)
  PROVE  SandboxInductive'
<1> DEFINE c == req[r].demo
           x == [demo[c] EXCEPT !.lived = @ \cup {req[r].today}]
           rec == [req[r] EXCEPT !.at = "evening"]
<1>1. /\ Busy(r) /\ req[r].at = "consume" /\ c \in live
      /\ UNCHANGED <<created, live, expired, vain, sessions, cookie>>
  BY DEF ConsumeDay, WritesIn, At, Busy
<1>2. /\ req[r] \in Request /\ ReqFits(r) /\ SandboxTypes
      /\ c \in Demos /\ demo[c] \in DemoType
  BY <1>1, RequestAt
<1>3. rec \in Request /\ rec # NoReq /\ req' = [req EXCEPT ![r] = rec] /\ req'[r] = rec
  BY <1>1, <1>2, NoReqAssumption DEF ConsumeDay, Goto, Request, Stages, Busy, SandboxTypes
<1>4. demo' = [demo EXCEPT ![c] = x] /\ demo'[c] = x
  BY <1>2 DEF ConsumeDay, SandboxTypes
<1>5. /\ rec.demo = c /\ rec.at = "evening" /\ rec.locked = req[r].locked
      /\ rec.left = req[r].left
  BY <1>2 DEF Request
<1>6. /\ x.histories = demo[c].histories /\ x.counts = demo[c].counts
      /\ x.days = demo[c].days /\ x.lived = demo[c].lived \cup {req[r].today}
      /\ x.lost = demo[c].lost /\ x.traces = demo[c].traces
  BY <1>2 DEF DemoType
<1>7. x \in DemoType
  BY <1>2 DEF DemoType, Request
<1> HIDE DEF x, rec
<1>8. ReqFits(r)'
  BY <1>1, <1>2, <1>3, <1>5 DEF ReqFits, Making, Filling, Moving
<1>9. x.days + Due(rec, c) <= demo[c].days + Due(req[r], c)
  <2>1. Due(rec, c) = req[r].left - 1 /\ Due(req[r], c) = req[r].left - 1
    BY <1>1, <1>3, <1>5, OnTheMove DEF Busy
  <2> QED BY <1>2, <1>6, <2>1 DEF Request, DemoType
<1>10. \A n : ~ Holds(rec, c, n) /\ (Holds(req[r], c, n) <=> n = req[r].today)
  BY <1>1, <1>5 DEF Holds, Busy
<1>11. DemoFits(c)
  BY <1>2 DEF SandboxInductive
<1>12. Writes(r, rec, x)
  BY <1>6, <1>7, <1>9, <1>10, <1>11 DEF Writes, DemoFits
<1>13. Continues(r, rec)
  BY <1>5 DEF Continues, Making
<1> QED BY <1>1, <1>3, <1>4, <1>8, <1>12, <1>13, RequestWrites

LEMMA FinishDayKeeps ==
  ASSUME SandboxInductive, NEW r \in Requests, FinishDay(r)
  PROVE  SandboxInductive'
<1> DEFINE c == req[r].demo
<1>1. /\ Busy(r) /\ req[r].at = "evening" /\ c \in live
      /\ UNCHANGED <<created, live, expired, vain, sessions, cookie>>
  BY DEF FinishDay, WritesIn, At, Busy
<1>2. /\ req[r] \in Request /\ ReqFits(r) /\ SandboxTypes
      /\ c \in Demos /\ demo[c] \in DemoType
  BY <1>1, RequestAt
<1>3. PICK placed \in SUBSET {"order"} :
        demo' = [demo EXCEPT ![c].traces = @ \cup {"forecast"} \cup placed]
  BY DEF FinishDay, OrdersPlaced
<1> DEFINE marks == demo[c].traces \cup {"forecast"} \cup placed
<1>4. /\ demo' = [demo EXCEPT ![c].traces = marks] /\ marks \in SUBSET Steps
      /\ demo[c].traces \subseteq marks
  BY <1>2, <1>3, StepsAre DEF DemoType
<1> HIDE DEF marks
<1>5. req[r].left \in 1..Week /\ Due(req[r], c) = req[r].left - 1
  BY <1>1, <1>2, OnTheMove DEF ReqFits, Busy, Moving
<1>6. \A n : ~ Holds(req[r], c, n)
  BY <1>1 DEF Holds
<1>7. CASE req[r].left = 1
  <2>1. req' = [req EXCEPT ![r] = NoReq] /\ Continues(r, NoReq)
    BY <1>7 DEF FinishDay, EndReq, Continues
  <2>2. ~ Busy(r)'
    BY <1>2, <2>1 DEF SandboxTypes, Busy
  <2>3. Due(NoReq, c) = 0 /\ \A n : ~ Holds(NoReq, c, n)
    BY Unmoving
  <2>4. Due(NoReq, c) <= Due(req[r], c)
    BY <1>5, <1>7, <2>3
  <2> QED BY <1>1, <1>4, <1>6, <2>1, <2>2, <2>3, <2>4, RequestMarks
<1>8. CASE req[r].left # 1
  <2> DEFINE k == req[r].left - 1
             rec == [req[r] EXCEPT !.at = "shift", !.left = k]
  <2>1. /\ rec.demo = c /\ rec.at = "shift" /\ rec.locked = req[r].locked
        /\ rec.left = k
    BY <1>2 DEF Request
  <2>2. k \in Nat /\ k \in 1..Week
    BY <1>5, <1>8, Constants
  <2>3. req' = [req EXCEPT ![r] = rec] /\ req'[r] = rec
    BY <1>2, <1>8 DEF FinishDay, SandboxTypes
  <2> HIDE DEF k
  <2>4. rec \in Request /\ rec # NoReq
    <3>1. "shift" \in Stages
      BY DEF Stages
    <3>2. rec \in Request
      BY <1>2, <2>2, <3>1, Updated, Zenon
    <3> QED BY <3>2, NoReqAssumption
  <2> HIDE DEF rec
  <2>5. ReqFits(r)'
    BY <1>1, <1>2, <2>1, <2>2, <2>3 DEF ReqFits, Making, Filling, Moving
  <2>6. Due(rec, c) <= Due(req[r], c)
    BY <1>5, <2>1, <2>2, <2>4, OnTheMove DEF k
  <2>7. \A n : ~ Holds(rec, c, n)
    BY <2>1 DEF Holds
  <2>8. Continues(r, rec)
    BY <2>1 DEF Continues, Making
  <2> QED BY <1>1, <1>4, <1>6, <2>3, <2>4, <2>5, <2>6, <2>7, <2>8, RequestMarks
<1> QED BY <1>7, <1>8

\* A request that leaves traces of a step, and ends.
LEMMA MarksAndEnds ==
  ASSUME SandboxInductive, NEW r \in Requests, Busy(r), EndReq(r), NEW added \in SUBSET Steps,
         req[r].demo \in live, req[r].at = "template",
         demo' = [demo EXCEPT ![req[r].demo].traces = @ \cup added],
         UNCHANGED <<created, live, expired, vain, sessions, cookie>>
  PROVE  SandboxInductive'
<1> DEFINE c == req[r].demo
           marks == demo[c].traces \cup added
<1>1. SandboxTypes /\ c \in Demos /\ demo[c] \in DemoType
  BY RequestAt
<1>2. /\ demo' = [demo EXCEPT ![c].traces = marks] /\ marks \in SUBSET Steps
      /\ demo[c].traces \subseteq marks
  BY <1>1 DEF DemoType
<1>3. req' = [req EXCEPT ![r] = NoReq] /\ Continues(r, NoReq)
  BY DEF EndReq, Continues
<1>4. ~ Busy(r)'
  BY <1>1, <1>3 DEF SandboxTypes, Busy
<1>5. /\ Due(NoReq, c) = 0 /\ Due(req[r], c) = 0
      /\ \A n : ~ Holds(NoReq, c, n) /\ ~ Holds(req[r], c, n)
  BY Unmoving DEF Moving
<1> HIDE DEF marks
<1>6. Due(NoReq, c) <= Due(req[r], c)
  BY <1>5
<1> QED BY <1>2, <1>3, <1>4, <1>5, <1>6, RequestMarks

LEMMA FillDirectoryKeeps ==
  ASSUME SandboxInductive, NEW r \in Requests, FillDirectory(r)
  PROVE  SandboxInductive'
<1>1. /\ Busy(r) /\ req[r].at = "template" /\ req[r].demo \in live /\ EndReq(r)
      /\ UNCHANGED <<created, live, expired, vain, sessions, cookie>>
  BY DEF FillDirectory, WritesIn, At, Busy
<1>2. {"suppliers", req[r].step} \in SUBSET Steps
  BY StepsAre DEF FillDirectory
<1>3. demo' = [demo EXCEPT ![req[r].demo].traces = @ \cup {"suppliers", req[r].step}]
  BY DEF FillDirectory
<1> QED BY <1>1, <1>2, <1>3, MarksAndEnds

LEMMA FillWorkKeeps ==
  ASSUME SandboxInductive, NEW r \in Requests, FillWork(r)
  PROVE  SandboxInductive'
<1>1. /\ Busy(r) /\ req[r].at = "template" /\ req[r].demo \in live /\ EndReq(r)
      /\ UNCHANGED <<created, live, expired, vain, sessions, cookie>>
  BY DEF FillWork, WritesIn, At, Busy
<1> DEFINE s == req[r].step
           Added == CASE s = "forecast" -> {{s}}
                      [] s = "order"    -> OrdersPlaced
                      [] s = "receive"  -> IF "order" \in demo[req[r].demo].traces
                                           THEN SUBSET {s} ELSE {{}}
<1>2. \E added \in Added : demo' = [demo EXCEPT ![req[r].demo].traces = @ \cup added]
  BY DEF FillWork
<1>3. Added \subseteq SUBSET Steps
  <2>1. s \in {"forecast", "order", "receive"}
    BY DEF FillWork
  <2>2. CASE s = "forecast"
    BY <2>2, StepsAre
  <2>3. CASE s = "order"
    BY <2>3, StepsAre DEF OrdersPlaced
  <2>4. CASE s = "receive"
    BY <2>4, StepsAre
  <2> QED BY <2>1, <2>2, <2>3, <2>4
<1> HIDE DEF Added
<1>4. PICK added \in SUBSET Steps : demo' = [demo EXCEPT ![req[r].demo].traces = @ \cup added]
  BY <1>2, <1>3
<1> QED BY <1>1, <1>4, MarksAndEnds

LEMMA ReadHistoryKeeps ==
  ASSUME SandboxInductive, NEW r \in Requests, ReadHistory(r)
  PROVE  SandboxInductive'
<1> DEFINE c == req[r].demo
<1>1. /\ Busy(r) /\ req[r].at = "history" /\ c \in live
      /\ UNCHANGED <<demoVars, sessions, cookie>>
  BY DEF ReadHistory, At, Busy, Reads
<1>2. /\ req[r] \in Request /\ ReqFits(r) /\ SandboxTypes
      /\ c \in Demos /\ demo[c] \in DemoType
  BY <1>1, RequestAt
<1>3. PICK old \in BOOLEAN :
        /\ demo[c].histories > 0 => old
        /\ req' = [req EXCEPT ![r].seen = old, ![r].at = "write"]
  BY DEF ReadHistory
<1>4. ~ old => demo[c].histories = 0
  BY <1>2, <1>3 DEF DemoType
<1> DEFINE rec == [req[r] EXCEPT !.seen = old, !.at = "write"]
<1>5. req' = [req EXCEPT ![r] = rec] /\ req'[r] = rec
  BY <1>2, <1>3 DEF SandboxTypes
<1>6. rec.demo = c /\ rec.at = "write" /\ rec.locked = req[r].locked /\ rec.seen = old
  BY <1>2 DEF Request
<1>7. rec \in Request /\ rec # NoReq
  <2>1. "write" \in Stages
    BY DEF Stages
  <2>2. rec \in Request
    BY <1>2, <2>1, Updated, Zenon
  <2> QED BY <2>2, NoReqAssumption
<1>8. ReqFits(r)'
  BY <1>1, <1>2, <1>4, <1>5, <1>6 DEF ReqFits, Making, Filling, Moving, demoVars
<1>9. /\ Due(rec, c) = 0 /\ Due(req[r], c) = 0
      /\ \A n : ~ Holds(rec, c, n) /\ ~ Holds(req[r], c, n)
  BY <1>1, <1>6, Unmoving DEF Moving
<1>10. Continues(r, rec)
  BY <1>6 DEF Continues, Making
<1> HIDE DEF rec
<1>11. Due(rec, c) <= Due(req[r], c)
  BY <1>9
<1> QED BY <1>1, <1>5, <1>7, <1>8, <1>9, <1>10, <1>11, RequestMoves

\* A template is applied by a request that has the lock of the demo, and ends.
LEMMA AppliesAndEnds ==
  ASSUME SandboxInductive, NEW r \in Requests, Busy(r), EndReq(r), NEW x \in DemoType,
         req[r].demo \in live, req[r].at \in Filling,
         demo' = [demo EXCEPT ![req[r].demo] = x],
         x.histories <= 1 /\ x.counts <= 1,
         x.counts > 0 => "count" \in x.traces,
         x.days = demo[req[r].demo].days,
         x.lived = demo[req[r].demo].lived /\ x.lost = demo[req[r].demo].lost,
         UNCHANGED <<created, live, expired, vain, sessions, cookie>>
  PROVE  SandboxInductive'
<1> DEFINE c == req[r].demo
<1>1. /\ req[r] \in Request /\ ReqFits(r) /\ SandboxTypes
      /\ c \in Demos /\ demo[c] \in DemoType
  BY RequestAt
<1>2. req' = [req EXCEPT ![r] = NoReq] /\ Continues(r, NoReq)
  BY DEF EndReq, Continues
<1>3. ~ Busy(r)'
  BY <1>1, <1>2 DEF SandboxTypes, Busy
<1>4. /\ Due(NoReq, c) = 0 /\ Due(req[r], c) = 0
      /\ \A n : ~ Holds(NoReq, c, n) /\ ~ Holds(req[r], c, n)
  BY Unmoving DEF Moving, Filling
<1>5. x.days + Due(NoReq, c) <= demo[c].days + Due(req[r], c)
  BY <1>1, <1>4 DEF DemoType
<1>6. req[r].locked
  BY <1>1 DEF ReqFits
<1>7. Writes(r, NoReq, x)
  BY <1>4, <1>5, <1>6 DEF Writes
<1> QED BY <1>2, <1>3, <1>7, RequestWrites

LEMMA WriteHistoryKeeps ==
  ASSUME SandboxInductive, NEW r \in Requests, WriteHistory(r)
  PROVE  SandboxInductive'
<1> DEFINE c == req[r].demo
<1>1. /\ Busy(r) /\ req[r].at = "write" /\ c \in live /\ EndReq(r)
      /\ UNCHANGED <<created, live, expired, vain, sessions, cookie>>
  BY DEF WriteHistory, WritesIn, At, Busy
<1>2. /\ req[r] \in Request /\ ReqFits(r) /\ SandboxTypes
      /\ c \in Demos /\ demo[c] \in DemoType
  BY <1>1, RequestAt
<1>3. CASE req[r].seen
  <2>1. demo' = demo
    BY <1>3 DEF WriteHistory
  <2> QED BY <1>1, <2>1, EndsQuietly DEF demoVars
<1>4. CASE ~ req[r].seen
  <2> DEFINE marks == demo[c].traces \cup {"history"}
             x == [demo[c] EXCEPT !.histories = @ + 1, !.traces = marks]
  <2>1. demo[c].histories = 0 /\ DemoFits(c)
    BY <1>1, <1>2, <1>4 DEF ReqFits, SandboxInductive
  <2>2. demo' = [demo EXCEPT ![c] = x]
    BY <1>2, <1>4 DEF WriteHistory, SandboxTypes, DemoType
  <2>3. marks \in SUBSET Steps /\ demo[c].traces \subseteq marks
    BY <1>2, StepsAre DEF DemoType
  <2> HIDE DEF marks
  <2>4. x \in DemoType
    <3>1. \A y \in DemoType, k \in Nat, t \in SUBSET Steps :
            [y EXCEPT !.histories = k, !.traces = t] \in DemoType
      BY DEF DemoType
    <3>2. demo[c].histories + 1 \in Nat
      BY <2>1
    <3> QED BY <1>2, <2>3, <3>1, <3>2
  <2>5. /\ x.histories = 1 /\ x.counts = demo[c].counts /\ x.days = demo[c].days
        /\ x.lived = demo[c].lived /\ x.lost = demo[c].lost /\ x.traces = marks
    BY <1>2, <2>1 DEF DemoType
  <2> HIDE DEF x
  <2>6. /\ x.histories <= 1 /\ x.counts <= 1
        /\ x.counts > 0 => "count" \in x.traces
    BY <2>1, <2>3, <2>5 DEF DemoFits
  <2> QED BY <1>1, <2>2, <2>4, <2>5, <2>6, AppliesAndEnds DEF Filling
<1> QED BY <1>3, <1>4

LEMMA DraftCountKeeps ==
  ASSUME SandboxInductive, NEW r \in Requests, DraftCount(r)
  PROVE  SandboxInductive'
<1> DEFINE c == req[r].demo
           rec == [req[r] EXCEPT !.at = "post"]
<1>1. Busy(r) /\ req[r].at = "draft" /\ UNCHANGED <<demoVars, sessions, cookie>>
  BY DEF DraftCount, At, Busy, Reads
<1>2. req[r] \in Request /\ ReqFits(r) /\ SandboxTypes
  BY <1>1, RequestAt
<1>3. CASE req[r].seen
  BY <1>1, <1>3, EndsQuietly DEF DraftCount
<1>4. CASE ~ req[r].seen
  <2>1. req' = [req EXCEPT ![r] = rec] /\ req'[r] = rec
    BY <1>2, <1>4 DEF DraftCount, Goto, SandboxTypes
  <2>2. rec.demo = c /\ rec.at = "post" /\ rec.locked = req[r].locked
    BY <1>2 DEF Request
  <2>3. rec \in Request /\ rec # NoReq
    BY <1>2, NoReqAssumption DEF Request, Stages
  <2> HIDE DEF rec
  <2>4. ReqFits(r)'
    BY <1>1, <1>2, <1>4, <2>1, <2>2 DEF ReqFits, Making, Filling, Moving, demoVars
  <2>5. /\ Due(rec, c) = 0 /\ Due(req[r], c) = 0
        /\ \A n : ~ Holds(rec, c, n) /\ ~ Holds(req[r], c, n)
    BY <1>1, <2>2, Unmoving DEF Moving
  <2>6. Continues(r, rec)
    BY <2>2 DEF Continues, Making
  <2>7. Due(rec, c) <= Due(req[r], c)
    BY <2>5
  <2> QED BY <1>1, <2>1, <2>3, <2>4, <2>5, <2>6, <2>7, RequestMoves
<1> QED BY <1>3, <1>4

LEMMA PostCountKeeps ==
  ASSUME SandboxInductive, NEW r \in Requests, PostCount(r)
  PROVE  SandboxInductive'
<1> DEFINE c == req[r].demo
           marks == demo[c].traces \cup {"count"}
           x == [demo[c] EXCEPT !.counts = @ + 1, !.traces = marks]
<1>1. /\ Busy(r) /\ req[r].at = "post" /\ c \in live /\ EndReq(r)
      /\ UNCHANGED <<created, live, expired, vain, sessions, cookie>>
  BY DEF PostCount, WritesIn, At, Busy
<1>2. /\ req[r] \in Request /\ ReqFits(r) /\ SandboxTypes
      /\ c \in Demos /\ demo[c] \in DemoType
  BY <1>1, RequestAt
<1>3. demo[c].counts = 0 /\ DemoFits(c)
  BY <1>1, <1>2 DEF ReqFits, SandboxInductive
<1>4. demo' = [demo EXCEPT ![c] = x]
  BY <1>2 DEF PostCount, SandboxTypes, DemoType
<1>5. marks \in SUBSET Steps /\ "count" \in marks
  BY <1>2, StepsAre DEF DemoType
<1> HIDE DEF marks
<1>6. x \in DemoType
  <2>1. \A y \in DemoType, k \in Nat, t \in SUBSET Steps :
          [y EXCEPT !.counts = k, !.traces = t] \in DemoType
    BY DEF DemoType
  <2>2. demo[c].counts + 1 \in Nat
    BY <1>3
  <2> QED BY <1>2, <1>5, <2>1, <2>2
<1>7. /\ x.histories = demo[c].histories /\ x.counts = 1 /\ x.days = demo[c].days
      /\ x.lived = demo[c].lived /\ x.lost = demo[c].lost /\ x.traces = marks
  BY <1>2, <1>3 DEF DemoType
<1> HIDE DEF x
<1>8. /\ x.histories <= 1 /\ x.counts <= 1
      /\ x.counts > 0 => "count" \in x.traces
  BY <1>3, <1>5, <1>7 DEF DemoFits
<1> QED BY <1>1, <1>4, <1>6, <1>7, <1>8, AppliesAndEnds DEF Filling

\* A request that fails, its day given up; one that has no demo yet fails quietly.
LEMMA FailKeeps ==
  ASSUME SandboxInductive, NEW r \in Requests, Fail(r)
  PROVE  SandboxInductive'
<1> DEFINE c == req[r].demo
           x == [demo[c] EXCEPT !.lost = @ \cup {req[r].today}]
<1>1. Busy(r) /\ EndReq(r) /\ UNCHANGED <<created, live, expired, vain, sessions, cookie>>
  BY DEF Fail, Busy
<1>2. CASE req[r].at \in {"arrivals", "consume"} /\ c \in live
  <2>1. /\ req[r] \in Request /\ ReqFits(r) /\ SandboxTypes
        /\ c \in Demos /\ demo[c] \in DemoType
    BY <1>1, <1>2, RequestAt
  <2>2. demo' = [demo EXCEPT ![c] = x]
    BY <1>2, <2>1 DEF Fail, SandboxTypes
  <2>3. x \in DemoType
    BY <2>1 DEF DemoType, Request
  <2>4. /\ x.histories = demo[c].histories /\ x.counts = demo[c].counts
        /\ x.days = demo[c].days /\ x.lived = demo[c].lived
        /\ x.lost = demo[c].lost \cup {req[r].today} /\ x.traces = demo[c].traces
    BY <2>1 DEF DemoType
  <2> HIDE DEF x
  <2>5. req' = [req EXCEPT ![r] = NoReq] /\ Continues(r, NoReq)
    BY <1>1 DEF EndReq, Continues
  <2>6. ~ Busy(r)'
    BY <2>1, <2>5 DEF SandboxTypes, Busy
  <2>7. x.days + Due(NoReq, c) <= demo[c].days + Due(req[r], c)
    <3>1. Due(NoReq, c) = 0 /\ Due(req[r], c) = req[r].left - 1
      BY <1>1, <1>2, Unmoving, OnTheMove DEF Busy
    <3>2. req[r].left \in 1..Week
      BY <1>2, <2>1 DEF ReqFits, Moving
    <3> QED BY <2>1, <2>4, <3>1, <3>2, Constants DEF DemoType
  <2>8. \A n : ~ Holds(NoReq, c, n) /\ (Holds(req[r], c, n) <=> n = req[r].today)
    BY <1>1, <1>2 DEF Holds, Busy
  <2>9. DemoFits(c)
    BY <2>1 DEF SandboxInductive
  <2>10. Writes(r, NoReq, x)
    BY <2>3, <2>4, <2>7, <2>8, <2>9 DEF Writes, DemoFits
  <2> QED BY <1>1, <1>2, <2>2, <2>5, <2>6, <2>10, RequestWrites
<1>3. CASE ~ (req[r].at \in {"arrivals", "consume"} /\ c \in live)
  <2>1. demo' = demo
    BY <1>3 DEF Fail
  <2>2. req' = [req EXCEPT ![r] = NoReq] /\ Continues(r, NoReq)
    BY <1>1 DEF EndReq, Continues
  <2>3. ~ Busy(r)'
    BY <1>1, <2>2, RequestAt DEF SandboxTypes, Busy
  <2>4. CASE c \in live
    BY <1>1, <1>3, <2>1, <2>4, EndsQuietly DEF demoVars
  <2>5. CASE c \notin live
    BY <1>1, <2>1, <2>2, <2>3, <2>5, RequestWrites
  <2> QED BY <2>4, <2>5
<1> QED BY <1>2, <1>3

\* The limit was checked, and at most all the others are about to create one.
LEMMA CountActiveKeeps ==
  ASSUME SandboxInductive, NEW r \in Requests, CountActive(r)
  PROVE  SandboxInductive'
<1> DEFINE c == req[r].demo
           rec == [req[r] EXCEPT !.at = "shell"]
<1>1. Busy(r) /\ req[r].at = "capacity" /\ UNCHANGED <<demoVars, sessions, cookie>>
  BY DEF CountActive, At, Busy, Reads
<1>2. req[r] \in Request /\ ReqFits(r) /\ SandboxTypes
  BY <1>1, RequestAt
<1>3. CASE Cardinality(Active) >= MaxActive
  BY <1>1, <1>3, EndsQuietly DEF CountActive
<1>4. CASE ~ (Cardinality(Active) >= MaxActive)
  <2>1. req' = [req EXCEPT ![r] = rec] /\ req'[r] = rec
    BY <1>2, <1>4 DEF CountActive, Goto, SandboxTypes
  <2>2. rec.demo = c /\ rec.at = "shell" /\ rec.locked = req[r].locked
    BY <1>2 DEF Request
  <2>3. rec \in Request /\ rec # NoReq
    BY <1>2, NoReqAssumption DEF Request, Stages
  <2> HIDE DEF rec
  <2>4. ReqFits(r)'
    BY <1>1, <1>2, <2>1, <2>2 DEF ReqFits, Making, Filling, Moving, demoVars
  <2>5. /\ Due(rec, c) = 0 /\ Due(req[r], c) = 0
        /\ \A n : ~ Holds(rec, c, n) /\ ~ Holds(req[r], c, n)
    BY <1>1, <2>2, Unmoving DEF Moving
  <2>6. ActiveBounded'
    <3>1. Active' = Active /\ vain' = vain /\ vain \in Nat
      BY <1>1, <1>2 DEF demoVars, Active, SandboxTypes
    <3>2. Cardinality(Active) \in Nat /\ Cardinality(Shells') \in Nat
      BY <1>2, ActiveFinite, ActiveFiniteAfter
    <3>3. Cardinality(Shells') <= Cardinality(Requests)
      BY Constants, FS_Subset DEF Shells
    <3> QED BY <1>4, <3>1, <3>2, <3>3, Constants DEF ActiveBounded
  <2>7. Continues(r, rec)
    BY <2>2, <2>6 DEF Continues, Making
  <2>8. Due(rec, c) <= Due(req[r], c)
    BY <2>5
  <2> QED BY <1>1, <2>1, <2>3, <2>4, <2>5, <2>7, <2>8, RequestMoves
<1> QED BY <1>3, <1>4

-----------------------------------------------------------------------------
(* A demo is deleted, created, entered or worked in by hand.                *)

\* Whoever still works in a demo that is deleted finds nothing to write into.
LEMMA DeleteKeeps ==
  ASSUME SandboxInductive, NEW d, DeleteTenant(d), cookie' = cookie, vain' \in Nat,
         NEW r \in Requests, NEW rec \in Request \cup {NoReq}, req' = [req EXCEPT ![r] = rec],
         \/ rec = req[r]
         \/ Busy(r) /\ req[r].at \notin Moving /\ rec = NoReq
         \/ Busy(r) /\ req[r].at \notin Moving /\ rec = [req[r] EXCEPT !.at = "shell"],
         ActiveBounded'
  PROVE  SandboxInductive'
<1>1. SandboxTypes /\ live \subseteq Demos
  BY Constants DEF SandboxInductive, SandboxTypes, Demos
<1>2. /\ live' = live \ {d} /\ created' = created /\ expired' = expired
      /\ sessions' = {s \in sessions : s[2] # d}
  BY DEF DeleteTenant
<1>3. \A e \in Demos : demo'[e] = IF e = d THEN Empty ELSE demo[e]
  BY <1>1 DEF DeleteTenant, SandboxTypes
<1>4. req'[r] = rec /\ \A q \in Requests \ {r} : req'[q] = req[q]
  BY <1>1 DEF SandboxTypes
<1>5. Empty \in DemoType
  BY DEF Empty, DemoType
<1>6. SandboxTypes'
  <2>1. demo' \in [Demos -> DemoType]
    BY <1>1, <1>5 DEF SandboxTypes, DeleteTenant
  <2>2. req' \in [Requests -> Request \cup {NoReq}]
    BY <1>1 DEF SandboxTypes
  <2>3. \A e \in Demos \ live' : demo'[e] = Empty
    BY <1>1, <1>2, <1>3 DEF SandboxTypes
  <2>4. sessions' \subseteq Visitors \X live'
    BY <1>1, <1>2 DEF SandboxTypes
  <2> QED BY <1>1, <1>2, <2>1, <2>2, <2>3, <2>4 DEF SandboxTypes
<1>7. ASSUME NEW q \in Requests, Busy(q)' PROVE ReqFits(q)'
  <2>1. CASE req'[q] = req[q]
    <3>1. Busy(q) /\ ReqFits(q)
      BY <1>7, <2>1 DEF Busy, SandboxInductive
    <3>2. req[q].at \notin {"capacity", "shell"} => req[q].demo \in Demos
      BY <1>1, <3>1, Constants DEF ReqFits, Demos, SandboxTypes
    <3>3. req[q].at \notin {"capacity", "shell"} =>
            demo'[req[q].demo] = IF req[q].demo = d THEN Empty ELSE demo[req[q].demo]
      BY <1>3, <3>2
    <3>4. Empty.histories = 0 /\ Empty.counts = 0
      BY DEF Empty
    <3> QED BY <1>2, <2>1, <3>1, <3>3, <3>4 DEF ReqFits, Making
  <2>2. CASE req'[q] # req[q]
    <3>1. q = r /\ rec = [req[r] EXCEPT !.at = "shell"] /\ Busy(r)
      BY <1>4, <1>7, <2>2 DEF Busy
    <3>2. ReqFits(r) /\ req[r] \in Request
      BY <3>1, RequestAt
    <3>3. rec.at = "shell" /\ rec.demo = req[r].demo
      BY <3>1, <3>2 DEF Request
    <3> QED BY <1>2, <1>4, <3>1, <3>2, <3>3 DEF ReqFits, Making, Filling, Moving
  <2> QED BY <2>1, <2>2
<1>8. ASSUME NEW p \in Requests, NEW q \in Requests PROVE Apart(p, q)'
  <2>1. Apart(p, q)
    BY DEF SandboxInductive
  <2>2. \A o \in Requests : Busy(o)' =>
          /\ Busy(o) /\ req'[o].demo = req[o].demo /\ req'[o].locked = req[o].locked
          /\ req'[o].at \in Making => req[o].at \in Making
    <3> SUFFICES ASSUME NEW o \in Requests, Busy(o)'
                 PROVE  /\ Busy(o) /\ req'[o].demo = req[o].demo
                        /\ req'[o].locked = req[o].locked
                        /\ req'[o].at \in Making => req[o].at \in Making
      OBVIOUS
    <3>1. CASE req'[o] = req[o]
      BY <3>1 DEF Busy
    <3>2. CASE req'[o] # req[o]
      <4>1. o = r /\ rec = [req[r] EXCEPT !.at = "shell"] /\ Busy(r)
        BY <1>4, <3>2 DEF Busy
      <4>2. req[r] \in Request
        BY <4>1, RequestAt
      <4> QED BY <1>4, <4>1, <4>2 DEF Request, Making
    <3> QED BY <3>1, <3>2
  <2> QED BY <2>1, <2>2 DEF Apart
<1>9. ASSUME NEW e \in Demos PROVE DemoFits(e)'
  <2>1. DemoFits(e)
    BY DEF SandboxInductive
  <2>2. Empty.histories = 0 /\ Empty.counts = 0
    BY DEF Empty
  <2> QED BY <1>3, <2>1, <2>2 DEF DemoFits
<1>10. \A e : Due(rec, e) = Due(req[r], e) /\ \A n : Holds(rec, e, n) <=> Holds(req[r], e, n)
  <2> SUFFICES ASSUME NEW e, rec # req[r]
               PROVE  Due(rec, e) = Due(req[r], e) /\ \A n : Holds(rec, e, n) <=> Holds(req[r], e, n)
    OBVIOUS
  <2>1. Busy(r) /\ req[r].at \notin Moving
    OBVIOUS
  <2>2. req[r] \in Request
    BY <2>1, RequestAt
  <2>3. rec = NoReq \/ rec.at \notin Moving
    BY <2>2 DEF Request, Moving
  <2> QED BY <2>1, <2>3, Unmoving
<1>11. DaysAreLived'
  <2> SUFFICES ASSUME NEW e \in live', NEW n
               PROVE  n \in 1..demo'[e].days <=>
                        \/ n \in demo'[e].lived \/ n \in demo'[e].lost
                        \/ \E q \in Requests : Holds(req'[q], e, n)
    BY DaysMeanAfter
  <2>1. e \in live /\ demo'[e] = demo[e]
    BY <1>1, <1>2, <1>3
  <2>2. \A q \in Requests : Holds(req'[q], e, n) <=> Holds(req[q], e, n)
    BY <1>4, <1>10
  <2> QED BY <2>1, <2>2, DaysMean DEF SandboxInductive
<1>12. ASSUME NEW e \in live' PROVE demo'[e].days + Owed(req', e) <= MostDays
  <2>1. e \in live /\ demo'[e] = demo[e] /\ demo[e].days \in Nat
    BY <1>1, <1>2, <1>3 DEF SandboxTypes, DemoType
  <2>2. Due(req[r], e) \in Int
    BY <1>1, DueIsInt DEF SandboxTypes
  <2>3. demo'[e].days + Due(req'[r], e) <= demo[e].days + Due(req[r], e)
    BY <1>4, <1>10, <2>1, <2>2
  <2> QED BY <1>1, <1>4, <1>6, <2>1, <2>3, DaysRest DEF SandboxInductive
<1> QED BY <1>6, <1>7, <1>8, <1>9, <1>11, <1>12 DEF SandboxInductive, DaysBounded

\* A reset gives up the place of its demo before it takes one; a demo that was not
\* active had none to give up.
LEMMA DropKeeps ==
  ASSUME SandboxInductive, NEW r \in Requests, Drop(r)
  PROVE  SandboxInductive'
<1> DEFINE d == req[r].demo
           rec == [req[r] EXCEPT !.at = "shell"]
<1>1. /\ Busy(r) /\ req[r].at = "drop" /\ DeleteTenant(d) /\ cookie' = cookie
      /\ req' = [req EXCEPT ![r].at = "shell"]
  BY DEF Drop, At, Busy, Goto
<1>2. req[r] \in Request /\ SandboxTypes /\ SandboxTypes
  BY <1>1, RequestAt
<1>3. rec \in Request /\ req' = [req EXCEPT ![r] = rec]
  BY <1>1, <1>2 DEF Request, Stages, SandboxTypes
<1>4. vain \in Nat /\ vain' = IF d \in Active THEN vain ELSE vain + 1
  BY <1>2 DEF Drop, SandboxTypes
<1>5. Active' = Active \ {d}
  BY <1>1 DEF DeleteTenant, Active
<1>6. Shells' \subseteq Shells \cup {r}
  BY <1>3, <1>2 DEF Shells, SandboxTypes
<1>7. /\ IsFiniteSet(Active) /\ Cardinality(Active) \in Nat
      /\ IsFiniteSet(Shells) /\ Cardinality(Shells) \in Nat
      /\ IsFiniteSet(Shells') /\ Cardinality(Shells') \in Nat
  BY <1>2, ActiveFinite, ActiveFiniteAfter
<1>8. Cardinality(Shells') <= Cardinality(Shells) + 1
  <2>1. /\ IsFiniteSet(Shells \cup {r})
        /\ Cardinality(Shells \cup {r}) = IF r \in Shells THEN Cardinality(Shells)
                                                         ELSE Cardinality(Shells) + 1
    BY <1>7, FS_AddElement
  <2>2. Cardinality(Shells') <= Cardinality(Shells \cup {r})
    BY <1>6, <2>1, FS_Subset
  <2> QED BY <1>7, <2>1, <2>2
<1>9. Cardinality(Active') = IF d \in Active THEN Cardinality(Active) - 1
                                             ELSE Cardinality(Active)
  BY <1>5, <1>7, FS_RemoveElement
<1>10. ActiveBounded'
  <2>1. ActiveBounded
    BY DEF SandboxInductive
  <2> QED BY <1>4, <1>7, <1>8, <1>9, <2>1, Constants DEF ActiveBounded
<1>11. vain' \in Nat /\ req[r].at \notin Moving
  BY <1>1, <1>4 DEF Moving
<1> HIDE DEF rec
<1>12. rec = [req[r] EXCEPT !.at = "shell"]
  BY DEF rec
<1> QED BY <1>1, <1>3, <1>10, <1>11, <1>12, DeleteKeeps

LEMMA DeleteUnfinishedKeeps ==
  ASSUME SandboxInductive, NEW r \in Requests, DeleteUnfinished(r)
  PROVE  SandboxInductive'
<1>1. /\ Busy(r) /\ req[r].at \in {"fill", "forecast"} /\ EndReq(r)
      /\ vain' = vain /\ cookie' = cookie
  BY DEF DeleteUnfinished, At, Busy
<1>2. SandboxTypes
  BY DEF SandboxInductive
<1>3. CASE DeleteTenant(req[r].demo)
  <2>1. req' = [req EXCEPT ![r] = NoReq]
    BY <1>1 DEF EndReq
  <2>2. ActiveBounded'
    <3>1. Active' \subseteq Active
      BY <1>3 DEF DeleteTenant, Active
    <3>2. Shells' \subseteq Shells
      BY <1>2, <2>1 DEF Shells, SandboxTypes
    <3>3. Cardinality(Active') <= Cardinality(Active) /\ Cardinality(Shells') <= Cardinality(Shells)
      BY <1>2, <3>1, <3>2, ActiveFinite, FS_Subset
    <3>4. /\ Cardinality(Active) \in Nat /\ Cardinality(Shells) \in Nat
          /\ Cardinality(Active') \in Nat /\ Cardinality(Shells') \in Nat
      BY <1>2, <3>1, <3>2, ActiveFinite, FS_Subset, FS_CardinalityType
    <3>5. ActiveBounded /\ vain \in Nat
      BY <1>2 DEF SandboxInductive, SandboxTypes
    <3> QED BY <1>1, <3>3, <3>4, <3>5, Constants DEF ActiveBounded
  <2>3. vain' \in Nat /\ req[r].at \notin Moving
    BY <1>1, <1>2 DEF SandboxTypes, Moving
  <2> QED BY <1>1, <1>3, <2>1, <2>2, <2>3, DeleteKeeps
<1>4. CASE UNCHANGED <<created, live, expired, demo, sessions>>
  BY <1>1, <1>4, EndsQuietly DEF demoVars
<1> QED BY <1>3, <1>4 DEF DeleteUnfinished

LEMMA DeleteNextKeeps ==
  ASSUME SandboxInductive, DeleteNext
  PROVE  SandboxInductive'
<1> DEFINE d == Head(sweep.batch)
<1>1. vain' = vain /\ cookie' = cookie /\ req' = req
  BY DEF DeleteNext
<1>2. SandboxTypes /\ ActiveBounded
  BY DEF SandboxInductive
<1>3. CASE d \in Stuck
  <2>1. UNCHANGED <<demoVars, sessions, cookie, req>>
    BY <1>1, <1>3 DEF DeleteNext, demoVars
  <2> QED BY <2>1 DEF demoVars, SandboxInductive, SandboxTypes, ReqFits, Apart, DemoFits, Busy,
            DaysAreLived, ActiveBounded, Active, Shells, DaysBounded
<1>4. CASE d \notin Stuck
  <2>1. DeleteTenant(d)
    BY <1>4 DEF DeleteNext
  <2>2. PICK r \in Requests : TRUE
    BY LimitsAssumption
  <2>3. req[r] \in Request \cup {NoReq} /\ req' = [req EXCEPT ![r] = req[r]]
    BY <1>1, <1>2 DEF SandboxTypes
  <2>4. ActiveBounded'
    <3>1. Active' \subseteq Active
      BY <2>1 DEF DeleteTenant, Active
    <3>2. Shells' = Shells
      BY <1>1 DEF Shells
    <3>3. /\ Cardinality(Active') <= Cardinality(Active)
          /\ Cardinality(Active) \in Nat /\ Cardinality(Active') \in Nat
      BY <1>2, <3>1, ActiveFinite, FS_Subset, FS_CardinalityType
    <3>4. Cardinality(Shells) \in Nat /\ vain \in Nat
      BY <1>2, ActiveFinite DEF SandboxTypes
    <3> QED BY <1>1, <1>2, <3>2, <3>3, <3>4, Constants DEF ActiveBounded
  <2>5. vain' \in Nat
    BY <1>1, <1>2 DEF SandboxTypes
  <2> HIDE DEF d
  <2> QED BY <1>1, <2>1, <2>3, <2>4, <2>5, DeleteKeeps
<1> QED BY <1>3, <1>4

\* A demo nobody owes a day has none of its own yet.
LEMMA OwesNothing ==
  ASSUME NEW d, \A q \in Requests : Due(req'[q], d) = 0
  PROVE  Owed(req', d) \in Int /\ Owed(req', d) <= 0
<1> DEFINE f == [q \in Requests |-> Due(req'[q], d)]
<1>1. \A q \in Requests : f[q] \in Int /\ f[q] <= 0
  OBVIOUS
<1>2. Owed(req', d) = SumOver(f, Requests)
  BY DEF Owed
<1> HIDE DEF f
<1>3. SumOver(f, Requests) <= Cardinality(Requests) * 0
  BY <1>1, Constants, SumBounded
<1>4. SumOver(f, Requests) \in Int
  BY <1>1, Constants, SumTakeOut
<1>5. Cardinality(Requests) * 0 = 0
  BY Constants
<1> QED BY <1>2, <1>3, <1>4, <1>5

\* The new demo is younger than all that anybody holds.
LEMMA CreateShellKeeps ==
  ASSUME SandboxInductive, NEW r \in Requests, CreateShell(r)
  PROVE  SandboxInductive'
<1> DEFINE d == created + 1
           stage == IF req[r].mode = "guided" THEN "session" ELSE "fill"
           rec == [req[r] EXCEPT !.demo = d, !.at = stage]
<1>1. /\ Busy(r) /\ req[r].at = "shell" /\ d \in Demos
      /\ created' = d /\ live' = live \cup {d}
      /\ UNCHANGED <<expired, demo, vain, sessions, cookie>>
  BY DEF CreateShell, At, Busy
<1>2. req[r] \in Request /\ ReqFits(r) /\ SandboxTypes
  BY <1>1, RequestAt
<1>3. /\ created \in 0..MaxDemos /\ MaxDemos \in Nat /\ d \notin live /\ d \notin 1..created
      /\ 1..created \subseteq 1..d /\ d \in 1..d /\ d \in 0..MaxDemos /\ d # NoDemo
  BY <1>1, <1>2, Constants DEF SandboxTypes, Demos
<1>4. req' = [req EXCEPT ![r] = rec] /\ req'[r] = rec
  BY <1>2 DEF CreateShell, SandboxTypes
<1>5. rec.demo = d /\ rec.at = stage /\ rec.locked = req[r].locked
  BY <1>2 DEF Request
<1>6. stage \in {"session", "fill"}
  OBVIOUS
<1> HIDE DEF stage
<1>7. rec \in Request
  BY <1>1, <1>2, <1>6 DEF Request, Stages
<1>8. demo[d] = Empty
  BY <1>1, <1>2, <1>3 DEF SandboxTypes
<1>9. \A q \in Requests \ {r} : req'[q] = req[q]
  BY <1>2, <1>4 DEF SandboxTypes
<1> HIDE DEF rec, d
<1>10. SandboxTypes'
  <2>1. req' \in [Requests -> Request \cup {NoReq}]
    BY <1>2, <1>4, <1>7 DEF SandboxTypes
  <2>2. created' \in 0..MaxDemos /\ live' \subseteq 1..created' /\ expired' \subseteq 1..created'
    BY <1>1, <1>2, <1>3 DEF SandboxTypes
  <2>3. /\ sessions' \subseteq Visitors \X live'
        /\ \A e \in Demos \ live' : demo'[e] = Empty
    BY <1>1, <1>2 DEF SandboxTypes
  <2> QED BY <1>1, <1>2, <2>1, <2>2, <2>3 DEF SandboxTypes
<1>11. \A q \in Requests \ {r} : Busy(q) => req[q].demo # d
  BY <1>3 DEF SandboxInductive, ReqFits
<1>12. \A s \in sessions : s[2] # d
  BY <1>2, <1>3 DEF SandboxTypes
<1>13. ASSUME NEW q \in Requests, Busy(q)' PROVE ReqFits(q)'
  <2>1. CASE q = r
    <3>1. demo[d].traces \in Finished
      BY <1>8 DEF Empty, Finished
    <3> QED BY <1>1, <1>3, <1>4, <1>5, <1>6, <1>8, <1>12, <2>1, <3>1
            DEF ReqFits, Making, Filling, Moving
  <2>2. CASE q # r
    <3>1. Busy(q) /\ ReqFits(q) /\ req'[q] = req[q] /\ req[q].demo # d
      BY <1>9, <1>11, <1>13, <2>2 DEF Busy, SandboxInductive
    <3> QED BY <1>1, <1>3, <3>1 DEF ReqFits
  <2> QED BY <2>1, <2>2
<1>14. ASSUME NEW p \in Requests, NEW q \in Requests PROVE Apart(p, q)'
  <2>1. Apart(p, q)
    BY DEF SandboxInductive
  <2>2. CASE p # r /\ q # r
    BY <1>9, <2>1, <2>2 DEF Apart, Busy
  <2>3. CASE p = r /\ q # r
    BY <1>4, <1>5, <1>9, <1>11, <2>3 DEF Apart, Busy
  <2>4. CASE p # r /\ q = r
    BY <1>4, <1>5, <1>9, <1>11, <2>4 DEF Apart, Busy
  <2>5. CASE p = r /\ q = r
    BY <2>5 DEF Apart
  <2> QED BY <2>2, <2>3, <2>4, <2>5
<1>15. ASSUME NEW e \in Demos PROVE DemoFits(e)'
  BY <1>1 DEF DemoFits, SandboxInductive
<1>16. \A q \in Requests :
         Due(req'[q], d) = 0 /\ \A n : ~ Holds(req'[q], d, n)
  <2> SUFFICES ASSUME NEW q \in Requests
               PROVE  Due(req'[q], d) = 0 /\ \A n : ~ Holds(req'[q], d, n)
    OBVIOUS
  <2>1. CASE q = r
    BY <1>4, <1>5, <1>6, <2>1, Unmoving DEF Moving
  <2>2. CASE q # r
    <3>1. req'[q] = NoReq \/ req'[q].demo # d
      BY <1>9, <1>11, <2>2 DEF Busy
    <3> QED BY <3>1 DEF Due, Holds
  <2> QED BY <2>1, <2>2
<1>17. \A e : Due(req[r], e) = 0 /\ Due(rec, e) = 0
              /\ \A n : ~ Holds(req[r], e, n) /\ ~ Holds(rec, e, n)
  BY <1>1, <1>5, <1>6, Unmoving DEF Moving
<1>18. DaysAreLived'
  <2> SUFFICES ASSUME NEW e \in live', NEW n
               PROVE  n \in 1..demo'[e].days <=>
                        \/ n \in demo'[e].lived \/ n \in demo'[e].lost
                        \/ \E q \in Requests : Holds(req'[q], e, n)
    BY DaysMeanAfter
  <2>1. CASE e = d
    <3>1. demo'[e] = Empty
      BY <1>1, <1>8, <2>1
    <3>2. n \notin 1..demo'[e].days /\ n \notin demo'[e].lived /\ n \notin demo'[e].lost
      BY <3>1 DEF Empty
    <3> QED BY <1>16, <2>1, <3>2
  <2>2. CASE e # d
    <3>1. e \in live /\ demo'[e] = demo[e]
      BY <1>1, <2>2
    <3>2. \A q \in Requests : Holds(req'[q], e, n) <=> Holds(req[q], e, n)
      BY <1>4, <1>9, <1>17
    <3> QED BY <3>1, <3>2, DaysMean DEF SandboxInductive
  <2> QED BY <2>1, <2>2
<1>19. ActiveBounded'
  <2>1. Active' \subseteq Active \cup {d} /\ vain' = vain /\ vain \in Nat
    BY <1>1, <1>2 DEF Active, SandboxTypes
  <2>2. r \in Shells /\ Shells' \subseteq Shells \ {r}
    BY <1>1, <1>4, <1>5, <1>6, <1>9 DEF Shells, Busy
  <2>3. /\ IsFiniteSet(Active) /\ Cardinality(Active) \in Nat /\ Cardinality(Active') \in Nat
        /\ IsFiniteSet(Shells) /\ Cardinality(Shells) \in Nat /\ Cardinality(Shells') \in Nat
    BY <1>2, <1>10, ActiveFinite, ActiveFiniteAfter
  <2>4. Cardinality(Active') <= Cardinality(Active) + 1
    <3>1. /\ IsFiniteSet(Active \cup {d})
          /\ Cardinality(Active \cup {d}) = IF d \in Active THEN Cardinality(Active)
                                                           ELSE Cardinality(Active) + 1
      BY <2>3, FS_AddElement
    <3>2. Cardinality(Active') <= Cardinality(Active \cup {d})
      BY <2>1, <3>1, FS_Subset
    <3> QED BY <2>3, <3>1, <3>2
  <2>5. Cardinality(Shells') <= Cardinality(Shells) - 1
    <3>1. IsFiniteSet(Shells \ {r}) /\ Cardinality(Shells \ {r}) = Cardinality(Shells) - 1
      BY <2>2, <2>3, FS_RemoveElement
    <3>2. Cardinality(Shells') <= Cardinality(Shells \ {r})
      BY <2>2, <3>1, FS_Subset
    <3> QED BY <3>1, <3>2
  <2>6. ActiveBounded
    BY DEF SandboxInductive
  <2> QED BY <2>1, <2>3, <2>4, <2>5, <2>6, Constants DEF ActiveBounded
<1>20. ASSUME NEW e \in live' PROVE demo'[e].days + Owed(req', e) <= MostDays
  <2>1. CASE e = d
    <3>1. demo'[e].days = 0
      BY <1>1, <1>8, <2>1 DEF Empty
    <3>2. Owed(req', e) \in Int /\ Owed(req', e) <= 0
      BY <1>16, <2>1, OwesNothing
    <3> QED BY <3>1, <3>2, Constants
  <2>2. CASE e # d
    <3>1. e \in live /\ demo'[e] = demo[e] /\ demo[e].days \in Nat
      BY <1>1, <1>2, <1>20, <2>2, Constants DEF SandboxTypes, DemoType, Demos
    <3>2. demo'[e].days + Due(req'[r], e) <= demo[e].days + Due(req[r], e)
      BY <1>4, <1>17, <3>1
    <3> QED BY <1>2, <1>9, <1>10, <3>1, <3>2, DaysRest DEF SandboxInductive
  <2> QED BY <2>1, <2>2
<1> QED BY <1>10, <1>13, <1>14, <1>15, <1>18, <1>19, <1>20 DEF SandboxInductive, DaysBounded

\* The visitor gets a session of the finished demo, if it is still there.
LEMMA OpenSessionKeeps ==
  ASSUME SandboxInductive, NEW r \in Requests, OpenSession(r)
  PROVE  /\ SandboxInductive'
         /\ \A s \in sessions' \ sessions : demo[s[2]].traces \in Finished
<1> DEFINE d == req[r].demo
           v == req[r].by
<1>1. /\ Busy(r) /\ req[r].at = "session" /\ EndReq(r)
      /\ UNCHANGED demoVars /\ req' = [req EXCEPT ![r] = NoReq]
  BY DEF OpenSession, At, Busy, EndReq
<1>2. req[r] \in Request /\ ReqFits(r) /\ SandboxTypes
  BY <1>1, RequestAt
<1>3. CASE d \notin live
  <2>1. UNCHANGED <<sessions, cookie>>
    BY <1>3 DEF OpenSession
  <2> QED BY <1>1, <2>1, EndsQuietly
<1>4. CASE d \in live
  <2>1. /\ sessions' = sessions \cup {<<v, d>>}
        /\ cookie' = IF d \in expired THEN cookie ELSE [cookie EXCEPT ![v] = d]
    BY <1>4 DEF OpenSession
  <2>2. v \in Visitors /\ d \in Demos
    BY <1>2, <1>4, LiveAreDemos DEF Request
  <2>3. req'[r] = NoReq /\ \A q \in Requests \ {r} : req'[q] = req[q]
    BY <1>1, <1>2 DEF SandboxTypes
  <2>4. SandboxTypes'
    <3>1. req' \in [Requests -> Request \cup {NoReq}]
      BY <1>1, <1>2 DEF SandboxTypes
    <3>2. cookie' \in [Visitors -> Demos \cup {NoDemo}]
      BY <1>2, <2>1, <2>2 DEF SandboxTypes
    <3>3. sessions' \subseteq Visitors \X live'
      BY <1>1, <1>2, <1>4, <2>1, <2>2 DEF SandboxTypes, demoVars
    <3> QED BY <1>1, <1>2, <3>1, <3>2, <3>3 DEF SandboxTypes, demoVars
  <2>5. ASSUME NEW q \in Requests, Busy(q)' PROVE ReqFits(q)'
    <3>1. q # r /\ req'[q] = req[q] /\ Busy(q) /\ ReqFits(q) /\ Apart(r, q)
      BY <2>3, <2>5 DEF Busy, SandboxInductive
    <3>2. req[q].demo # d
      BY <1>1, <3>1 DEF Apart, Making
    <3>3. \A s \in sessions' : s \in sessions \/ s[2] = d
      BY <2>1
    <3> QED BY <1>1, <3>1, <3>2, <3>3 DEF ReqFits, demoVars
  <2>6. ASSUME NEW p \in Requests, NEW q \in Requests PROVE Apart(p, q)'
    BY <2>3 DEF Apart, Busy, SandboxInductive
  <2>7. ASSUME NEW e \in Demos PROVE DemoFits(e)'
    BY <1>1 DEF DemoFits, SandboxInductive, demoVars
  <2>8. \A e : /\ Due(req[r], e) = 0 /\ Due(req'[r], e) = 0
               /\ \A n : ~ Holds(req[r], e, n) /\ ~ Holds(req'[r], e, n)
    BY <1>1, <2>3, Unmoving DEF Moving
  <2>9. DaysAreLived'
    <3> SUFFICES ASSUME NEW e \in live', NEW n
                 PROVE  n \in 1..demo'[e].days <=>
                          \/ n \in demo'[e].lived \/ n \in demo'[e].lost
                          \/ \E q \in Requests : Holds(req'[q], e, n)
      BY DaysMeanAfter
    <3>1. \A q \in Requests : Holds(req'[q], e, n) <=> Holds(req[q], e, n)
      BY <2>3, <2>8
    <3> QED BY <1>1, <3>1, DaysMean DEF SandboxInductive, demoVars
  <2>10. ActiveBounded'
    <3>1. Active' = Active /\ vain' = vain /\ vain \in Nat
      BY <1>1, <1>2 DEF demoVars, Active, SandboxTypes
    <3>2. Shells' \subseteq Shells
      BY <2>3 DEF Shells
    <3> QED BY <1>2, <2>4, <3>1, <3>2, ActiveRests DEF SandboxInductive
  <2>11. ASSUME NEW e \in live' PROVE demo'[e].days + Owed(req', e) <= MostDays
    <3>1. e \in live /\ demo'[e] = demo[e] /\ demo[e].days \in Nat
      BY <1>1, <1>2, <2>11, Constants DEF SandboxTypes, DemoType, Demos, demoVars
    <3>2. demo'[e].days + Due(req'[r], e) <= demo[e].days + Due(req[r], e)
      BY <2>8, <3>1
    <3> QED BY <1>2, <2>3, <2>4, <3>1, <3>2, DaysRest DEF SandboxInductive
  <2>12. SandboxInductive'
    BY <2>4, <2>5, <2>6, <2>7, <2>9, <2>10, <2>11 DEF SandboxInductive, DaysBounded
  <2>13. ASSUME NEW s \in sessions' \ sessions PROVE demo[s[2]].traces \in Finished
    <3>1. s = <<v, d>>
      BY <2>1, <2>13
    <3>2. demo[d].traces \in Finished
      BY <1>1, <1>2, <1>4 DEF ReqFits
    <3> QED BY <3>1, <3>2
  <2> QED BY <2>12, <2>13
<1> QED BY <1>3, <1>4

\* A visitor who works in a demo has a session of it, so nobody is making it.
LEMMA HandKeeps ==
  ASSUME SandboxInductive, NEW v \in Visitors, Enters(v, cookie[v]), NEW x \in DemoType,
         demo' = [demo EXCEPT ![cookie[v]] = x],
         x.histories = demo[cookie[v]].histories, x.counts = demo[cookie[v]].counts,
         x.days = demo[cookie[v]].days, x.lived = demo[cookie[v]].lived,
         x.lost = demo[cookie[v]].lost, demo[cookie[v]].traces \subseteq x.traces,
         UNCHANGED <<created, live, expired, vain, sessions, cookie, req>>
  PROVE  SandboxInductive'
<1> DEFINE c == cookie[v]
<1>1. SandboxTypes /\ live \subseteq Demos
  BY Constants DEF SandboxInductive, SandboxTypes, Demos
<1>2. c \in live /\ c \in Demos /\ <<v, c>> \in sessions
  BY <1>1 DEF Enters, Active
<1>3. demo'[c] = x /\ \A e \in Demos : e # c => demo'[e] = demo[e]
  BY <1>1, <1>2 DEF SandboxTypes
<1>4. SandboxTypes'
  <2>1. demo' \in [Demos -> DemoType]
    BY <1>1 DEF SandboxTypes
  <2>2. \A e \in Demos \ live' : demo'[e] = Empty
    BY <1>1, <1>2, <1>3 DEF SandboxTypes
  <2> QED BY <1>1, <2>1, <2>2 DEF SandboxTypes
<1>5. ASSUME NEW q \in Requests, Busy(q)' PROVE ReqFits(q)'
  <2>1. Busy(q) /\ ReqFits(q)
    BY <1>5 DEF Busy, SandboxInductive
  <2>2. req[q].at \notin {"capacity", "shell"} => req[q].demo \in Demos
    BY <1>1, <2>1, Constants DEF ReqFits, Demos, SandboxTypes
  <2>3. CASE req[q].demo = c
    <3>1. req[q].at \notin Making
      BY <1>2, <2>1, <2>3 DEF ReqFits
    <3> QED BY <1>3, <2>1, <2>3, <3>1 DEF ReqFits, Making
  <2>4. CASE req[q].demo # c
    <3>1. req[q].at \notin {"capacity", "shell"} => demo'[req[q].demo] = demo[req[q].demo]
      BY <1>3, <2>2, <2>4
    <3> QED BY <2>1, <3>1 DEF ReqFits, Making
  <2> QED BY <2>3, <2>4
<1>6. ASSUME NEW p \in Requests, NEW q \in Requests PROVE Apart(p, q)'
  BY DEF Apart, Busy, SandboxInductive
<1>7. ASSUME NEW e \in Demos PROVE DemoFits(e)'
  <2>1. DemoFits(e)
    BY DEF SandboxInductive
  <2>2. CASE e = c
    BY <1>3, <2>1, <2>2 DEF DemoFits
  <2>3. CASE e # c
    BY <1>3, <2>1, <2>3 DEF DemoFits
  <2> QED BY <2>2, <2>3
<1>8. \A e \in live : /\ demo'[e].days = demo[e].days /\ demo'[e].lived = demo[e].lived
                      /\ demo'[e].lost = demo[e].lost
  BY <1>1, <1>3
<1>9. DaysAreLived'
  <2> SUFFICES ASSUME NEW e \in live', NEW n
               PROVE  n \in 1..demo'[e].days <=>
                        \/ n \in demo'[e].lived \/ n \in demo'[e].lost
                        \/ \E q \in Requests : Holds(req'[q], e, n)
    BY DaysMeanAfter
  <2> QED BY <1>8, DaysMean DEF SandboxInductive
<1>10. ActiveBounded'
  BY DEF ActiveBounded, Active, Shells, SandboxInductive
<1>11. DaysBounded'
  <2> SUFFICES ASSUME NEW e \in live' PROVE demo'[e].days + Owed(req', e) <= MostDays
    BY DEF DaysBounded
  <2> QED BY <1>8 DEF DaysBounded, SandboxInductive
<1> QED BY <1>4, <1>5, <1>6, <1>7, <1>9, <1>10, <1>11 DEF SandboxInductive

LEMMA ByHandKeeps ==
  ASSUME SandboxInductive, NEW v \in Visitors, NEW s \in Steps, ByHand(v, s)
  PROVE  SandboxInductive'
<1> DEFINE c == cookie[v]
           marks == demo[c].traces \cup {s}
           x == [demo[c] EXCEPT !.traces = marks]
<1>1. Enters(v, c) /\ UNCHANGED <<created, live, expired, vain, sessions, cookie, req>>
  BY DEF ByHand
<1>2. SandboxTypes /\ c \in Demos /\ demo[c] \in DemoType
  <2>1. SandboxTypes /\ c \in live
    BY <1>1 DEF Enters, Active, SandboxInductive
  <2> QED BY <2>1, LiveAreDemos DEF SandboxTypes
<1>3. demo' = [demo EXCEPT ![c] = x]
  BY <1>2 DEF ByHand, SandboxTypes
<1>4. marks \in SUBSET Steps /\ demo[c].traces \subseteq marks
  BY <1>2 DEF DemoType
<1> HIDE DEF marks
<1>5. /\ x \in DemoType /\ x.histories = demo[c].histories /\ x.counts = demo[c].counts
      /\ x.days = demo[c].days /\ x.lived = demo[c].lived /\ x.lost = demo[c].lost
      /\ x.traces = marks
  BY <1>2, <1>4 DEF DemoType
<1> HIDE DEF x
<1> QED BY <1>1, <1>3, <1>4, <1>5, HandKeeps

LEMMA SetAutopilotKeeps ==
  ASSUME SandboxInductive, NEW v \in Visitors, NEW on \in BOOLEAN, SetAutopilot(v, on)
  PROVE  SandboxInductive'
<1> DEFINE c == cookie[v]
           x == [demo[c] EXCEPT !.autopilot = on]
<1>1. Enters(v, c) /\ UNCHANGED <<created, live, expired, vain, sessions, cookie, req>>
  BY DEF SetAutopilot
<1>2. SandboxTypes /\ c \in Demos /\ demo[c] \in DemoType
  <2>1. SandboxTypes /\ c \in live
    BY <1>1 DEF Enters, Active, SandboxInductive
  <2> QED BY <2>1, LiveAreDemos DEF SandboxTypes
<1>3. demo' = [demo EXCEPT ![c] = x]
  BY <1>2 DEF SetAutopilot, SandboxTypes
<1>4. /\ x \in DemoType /\ x.histories = demo[c].histories /\ x.counts = demo[c].counts
      /\ x.days = demo[c].days /\ x.lived = demo[c].lived /\ x.lost = demo[c].lost
      /\ demo[c].traces \subseteq x.traces
  BY <1>2 DEF DemoType
<1> HIDE DEF x
<1> QED BY <1>1, <1>3, <1>4, HandKeeps

\* A demo that expires makes room; nothing else changes.
LEMMA ExpireKeeps ==
  ASSUME SandboxInductive, NEW d \in Demos, Expire(d)
  PROVE  SandboxInductive'
<1>1. /\ expired' = expired \cup {d} /\ d \in live
      /\ UNCHANGED <<created, live, demo, vain, sessions, cookie, req>>
  BY DEF Expire, Active
<1>2. SandboxTypes
  BY DEF SandboxInductive
<1>3. SandboxTypes'
  BY <1>1, <1>2 DEF SandboxTypes
<1>4. ActiveBounded'
  <2>1. Active' \subseteq Active /\ Shells' = Shells /\ vain' = vain /\ vain \in Nat
    BY <1>1, <1>2 DEF Active, Shells, SandboxTypes
  <2> QED BY <1>2, <1>3, <2>1, ActiveRests DEF SandboxInductive
<1> QED BY <1>1, <1>3, <1>4 DEF SandboxInductive, ReqFits, Apart, DemoFits, Busy,
           DaysAreLived, DaysBounded

\* Nothing but the clean-up's own plan changes.
LEMMA Rests ==
  ASSUME SandboxInductive, UNCHANGED <<demoVars, sessions, cookie, req>>
  PROVE  SandboxInductive'
BY DEF demoVars, SandboxInductive, SandboxTypes, ReqFits, Apart, DemoFits, Busy,
       DaysAreLived, ActiveBounded, Active, Shells, DaysBounded

-----------------------------------------------------------------------------
(* A request comes.                                                         *)

\* The lock is free of it, the demo it works in is open to visitors, and it may
\* owe what the clock of that demo leaves.
LEMMA BeginKeeps ==
  ASSUME SandboxInductive, NEW r \in Requests, NEW rec \in Request, Begin(r, rec),
         rec.at \in {"capacity", "drop", "shift", "lock"}, ~ rec.locked,
         rec.at = "capacity" => rec.demo = NoDemo,
         rec.at # "capacity" =>
           rec.demo \in live /\ \E s \in sessions : s[2] = rec.demo,
         rec.at = "shift" =>
           rec.left \in 1..Week /\ demo[rec.demo].days + rec.left <= MaxVirtualDays
  PROVE  SandboxInductive'
<1>1. /\ req[r] = NoReq /\ req' = [req EXCEPT ![r] = rec] /\ UNCHANGED <<sessions, cookie>>
      /\ UNCHANGED <<created, live, expired, demo, vain>>
  BY DEF Begin, Reads, demoVars
<1>2. SandboxTypes /\ rec # NoReq
  BY NoReqAssumption DEF SandboxInductive
<1>3. req'[r] = rec /\ \A q \in Requests \ {r} : req'[q] = req[q]
  BY <1>1, <1>2 DEF SandboxTypes
<1>4. rec.demo \in 1..created \cup {NoDemo}
  BY <1>2 DEF SandboxTypes
<1>5. \A q \in Requests : Busy(q) /\ req[q].at \in Making => req[q].demo # rec.demo
  <2> SUFFICES ASSUME NEW q \in Requests, Busy(q), req[q].at \in Making
               PROVE  req[q].demo # rec.demo
    OBVIOUS
  <2>1. ReqFits(q)
    BY DEF SandboxInductive
  <2>2. req[q].demo \in 1..created /\ \A s \in sessions : s[2] # req[q].demo
    BY <2>1 DEF ReqFits, Making
  <2>3. 1..created \subseteq Demos
    BY <1>2, Constants DEF SandboxTypes, Demos
  <2> QED BY <2>2, <2>3, Constants
<1>6. SandboxTypes'
  <2>1. req' \in [Requests -> Request \cup {NoReq}]
    BY <1>1, <1>2 DEF SandboxTypes
  <2> QED BY <1>1, <1>2, <2>1 DEF SandboxTypes
<1>7. ASSUME NEW q \in Requests, Busy(q)' PROVE ReqFits(q)'
  <2>1. CASE q = r
    <3>1. rec.at # "capacity" => rec.demo \in 1..created
      BY <1>2 DEF SandboxTypes
    <3> QED BY <1>1, <1>3, <1>4, <2>1, <3>1 DEF ReqFits, Making, Filling, Moving
  <2>2. CASE q # r
    <3>1. Busy(q) /\ ReqFits(q) /\ req'[q] = req[q]
      BY <1>3, <1>7, <2>2 DEF Busy, SandboxInductive
    <3> QED BY <1>1, <3>1 DEF ReqFits
  <2> QED BY <2>1, <2>2
<1>8. ASSUME NEW p \in Requests, NEW q \in Requests PROVE Apart(p, q)'
  <2>1. Apart(p, q)
    BY DEF SandboxInductive
  <2>2. CASE p # r /\ q # r
    BY <1>3, <2>1, <2>2 DEF Apart, Busy
  <2>3. CASE p = r /\ q # r
    BY <1>3, <2>3 DEF Apart, Busy, Making
  <2>4. CASE p # r /\ q = r
    BY <1>3, <1>5, <2>4 DEF Apart, Busy
  <2>5. CASE p = r /\ q = r
    BY <2>5 DEF Apart
  <2> QED BY <2>2, <2>3, <2>4, <2>5
<1>9. ASSUME NEW e \in Demos PROVE DemoFits(e)'
  BY <1>1 DEF DemoFits, SandboxInductive
<1>10. DaysAreLived'
  <2> SUFFICES ASSUME NEW e \in live', NEW n
               PROVE  n \in 1..demo'[e].days <=>
                        \/ n \in demo'[e].lived \/ n \in demo'[e].lost
                        \/ \E q \in Requests : Holds(req'[q], e, n)
    BY DaysMeanAfter
  <2>1. \A q \in Requests : Holds(req'[q], e, n) <=> Holds(req[q], e, n)
    BY <1>1, <1>3 DEF Holds
  <2> QED BY <1>1, <2>1, DaysMean DEF SandboxInductive
<1>11. ActiveBounded'
  <2>1. Active' = Active /\ vain' = vain /\ vain \in Nat
    BY <1>1, <1>2 DEF Active, SandboxTypes
  <2>2. Shells' \subseteq Shells
    BY <1>3 DEF Shells
  <2> QED BY <1>2, <1>6, <2>1, <2>2, ActiveRests DEF SandboxInductive
<1>12. ASSUME NEW e \in live' PROVE demo'[e].days + Owed(req', e) <= MostDays
  <2>1. e \in live /\ demo'[e] = demo[e] /\ demo[e].days \in Nat
    BY <1>1, <1>2, <1>12, Constants DEF SandboxTypes, DemoType, Demos
  <2>2. Due(req[r], e) = 0
    BY <1>1, Unmoving
  <2>3. CASE rec.at = "shift" /\ rec.demo = e
    <3>1. \A q \in Requests : Due(req[q], e) \in Int /\ Due(req'[q], e) \in Int
      BY <1>2, <1>6, DueIsInt DEF SandboxTypes
    <3>2. \A q \in Requests : Due(req[q], e) <= Week
      <4> SUFFICES ASSUME NEW q \in Requests PROVE Due(req[q], e) <= Week
        OBVIOUS
      <4>1. CASE Busy(q) /\ req[q].at \in Moving /\ req[q].demo = e
        <5>1. req[q].left \in 1..Week
          BY <4>1 DEF SandboxInductive, ReqFits
        <5>2. Due(req[q], e) = req[q].left \/ Due(req[q], e) = req[q].left - 1
          BY <4>1, OnTheMove DEF Busy, Moving
        <5> QED BY <5>1, <5>2, Constants
      <4>2. CASE ~ (Busy(q) /\ req[q].at \in Moving /\ req[q].demo = e)
        <5>1. Due(req[q], e) = 0
          BY <4>2 DEF Due, Busy, Moving
        <5> QED BY <5>1, Constants
      <4> QED BY <4>1, <4>2
    <3>3. Owed(req, e) <= (Cardinality(Requests) - 1) * Week
      BY <2>2, <3>1, <3>2, OthersOwe
    <3>4. Owed(req, e) \in Int /\ Owed(req', e) = Owed(req, e) - 0 + rec.left
      <4>1. Due(req'[r], e) = rec.left
        BY <1>2, <1>3, <2>3, OnTheMove
      <4> QED BY <1>3, <2>2, <3>1, <4>1, OneDebtor
    <3> DEFINE more == (Cardinality(Requests) - 1) * Week
               owed == Owed(req, e)
    <3>5. MostDays = MaxVirtualDays + more
      BY DEF MostDays
    <3>6. owed <= more /\ owed \in Int /\ Owed(req', e) = owed + rec.left
      BY <2>3, <3>3, <3>4
    <3>7. more \in Int
      BY Constants
    <3> HIDE DEF more, owed
    <3> QED BY <2>1, <2>3, <3>5, <3>6, <3>7, Constants
  <2>4. CASE ~ (rec.at = "shift" /\ rec.demo = e)
    <3>1. Due(req'[r], e) = 0
      BY <1>3, <2>4 DEF Due, Moving
    <3>2. demo'[e].days + Due(req'[r], e) <= demo[e].days + Due(req[r], e)
      BY <2>1, <2>2, <3>1
    <3> QED BY <1>2, <1>3, <1>6, <2>1, <3>2, DaysRest DEF SandboxInductive
  <2> QED BY <2>3, <2>4
<1> QED BY <1>6, <1>7, <1>8, <1>9, <1>10, <1>11, <1>12 DEF SandboxInductive, DaysBounded

LEMMA StartKeeps ==
  ASSUME SandboxInductive, NEW r \in Requests, NEW v \in Visitors,
         \/ \E mode \in {"ready", "guided"} : StartCreate(r, v, mode) \/ StartReset(r, v, mode)
         \/ \E n \in {1, Week} : StartAdvance(r, v, n)
         \/ \E s \in Steps : StartFill(r, v, s)
  PROVE  SandboxInductive' /\ sessions' = sessions
<1>1. SandboxTypes
  BY DEF SandboxInductive
<1>2. \A op \in {"create", "reset", "advance", "fill"}, d \in Demos \cup {NoDemo}, at \in Stages :
        NewReq(v, op, d, at) \in Request
  BY DEF NewReq, Request
<1>3. Enters(v, cookie[v]) =>
        /\ cookie[v] \in live /\ cookie[v] \in Demos
        /\ \E s \in sessions : s[2] = cookie[v]
  <2> SUFFICES ASSUME Enters(v, cookie[v])
               PROVE  /\ cookie[v] \in live /\ cookie[v] \in Demos
                      /\ \E s \in sessions : s[2] = cookie[v]
    OBVIOUS
  <2>1. cookie[v] \in live /\ <<v, cookie[v]>> \in sessions
    BY DEF Enters, Active
  <2>2. <<v, cookie[v]>>[2] = cookie[v]
    OBVIOUS
  <2> QED BY <1>1, <2>1, <2>2, LiveAreDemos
<1>4. ASSUME NEW mode \in {"ready", "guided"}, StartCreate(r, v, mode)
      PROVE  SandboxInductive' /\ sessions' = sessions
  <2> DEFINE new == NewReq(v, "create", NoDemo, "capacity")
             rec == [new EXCEPT !.mode = mode]
  <2>1. Begin(r, rec) /\ sessions' = sessions
    BY <1>4 DEF StartCreate, Begin, Reads
  <2>2. new \in Request
    BY <1>2 DEF Stages
  <2>3. new.at = "capacity" /\ new.demo = NoDemo /\ ~ new.locked
    BY DEF NewReq
  <2> HIDE DEF new
  <2>4. rec \in Request /\ rec.at = "capacity" /\ rec.demo = NoDemo /\ ~ rec.locked
    BY <2>2, <2>3 DEF Request
  <2> HIDE DEF rec
  <2> QED BY <2>1, <2>4, BeginKeeps
<1>5. ASSUME NEW mode \in {"ready", "guided"}, StartReset(r, v, mode)
      PROVE  SandboxInductive' /\ sessions' = sessions
  <2> DEFINE new == NewReq(v, "reset", cookie[v], "drop")
             rec == [new EXCEPT !.mode = mode]
  <2>1. Begin(r, rec) /\ sessions' = sessions /\ Enters(v, cookie[v])
    BY <1>5 DEF StartReset, Begin, Reads
  <2>2. new \in Request
    BY <1>2, <1>3, <2>1 DEF Stages
  <2>3. new.at = "drop" /\ new.demo = cookie[v] /\ ~ new.locked
    BY DEF NewReq
  <2> HIDE DEF new
  <2>4. rec \in Request /\ rec.at = "drop" /\ rec.demo = cookie[v] /\ ~ rec.locked
    BY <2>2, <2>3 DEF Request
  <2> HIDE DEF rec
  <2> QED BY <1>3, <2>1, <2>4, BeginKeeps
<1>6. ASSUME NEW n \in {1, Week}, StartAdvance(r, v, n)
      PROVE  SandboxInductive' /\ sessions' = sessions
  <2> DEFINE new == NewReq(v, "advance", cookie[v], "shift")
             on == demo[cookie[v]].autopilot
             rec == [new EXCEPT !.left = n, !.autopilot = on]
  <2>1. /\ Begin(r, rec) /\ sessions' = sessions /\ Enters(v, cookie[v])
        /\ demo[cookie[v]].days + n <= MaxVirtualDays
    BY <1>6 DEF StartAdvance, Begin, Reads
  <2>2. new \in Request
    BY <1>2, <1>3, <2>1 DEF Stages
  <2>3. new.at = "shift" /\ new.demo = cookie[v] /\ ~ new.locked
    BY DEF NewReq
  <2>4. on \in BOOLEAN /\ n \in Nat /\ n \in 1..Week
    BY <1>1, <1>3, <2>1, Constants DEF SandboxTypes, DemoType
  <2> HIDE DEF new, on
  <2>5. /\ rec \in Request /\ rec.at = "shift" /\ rec.demo = cookie[v] /\ ~ rec.locked
        /\ rec.left = n
    BY <2>2, <2>3, <2>4 DEF Request
  <2> HIDE DEF rec
  <2> QED BY <1>3, <2>1, <2>4, <2>5, BeginKeeps
<1>7. ASSUME NEW s \in Steps, StartFill(r, v, s)
      PROVE  SandboxInductive' /\ sessions' = sessions
  <2> DEFINE new == NewReq(v, "fill", cookie[v], "lock")
             rec == [new EXCEPT !.step = s]
  <2>1. Begin(r, rec) /\ sessions' = sessions /\ Enters(v, cookie[v])
    BY <1>7 DEF StartFill, Begin, Reads
  <2>2. new \in Request
    BY <1>2, <1>3, <2>1 DEF Stages
  <2>3. new.at = "lock" /\ new.demo = cookie[v] /\ ~ new.locked
    BY DEF NewReq
  <2> HIDE DEF new
  <2>4. rec \in Request /\ rec.at = "lock" /\ rec.demo = cookie[v] /\ ~ rec.locked
    BY <2>2, <2>3 DEF Request, Steps
  <2> HIDE DEF rec
  <2> QED BY <1>3, <2>1, <2>4, BeginKeeps
<1> QED BY <1>4, <1>5, <1>6, <1>7

-----------------------------------------------------------------------------
(* The theorems.                                                            *)

LEMMA SandboxStarts ==
  Init => SandboxInductive
<1> SUFFICES ASSUME Init PROVE SandboxInductive
  OBVIOUS
<1>1. /\ created = 0 /\ live = {} /\ expired = {} /\ demo = [d \in Demos |-> Empty]
      /\ vain = 0 /\ sessions = {} /\ cookie = [v \in Visitors |-> NoDemo]
      /\ req = [r \in Requests |-> NoReq]
  BY DEF Init
<1>2. Empty \in DemoType /\ Empty.histories = 0 /\ Empty.counts = 0
  BY DEF Empty, DemoType
<1>3. SandboxTypes
  BY <1>1, <1>2, Constants DEF SandboxTypes
<1>4. \A r \in Requests : ~ Busy(r)
  BY <1>1 DEF Busy
<1>5. \A d \in Demos : DemoFits(d)
  BY <1>1, <1>2 DEF DemoFits
<1>6. ActiveBounded
  <2>1. Active = {} /\ Shells = {}
    BY <1>1 DEF Active, Shells
  <2>2. Cardinality(Active) = 0 /\ Cardinality(Shells) = 0
    BY <2>1, FS_EmptySet
  <2> QED BY <1>1, <2>2, Constants DEF ActiveBounded
<1> QED BY <1>1, <1>3, <1>4, <1>5, <1>6 DEF SandboxInductive, Apart, DaysAreLived, DaysBounded

LEMMA RequestStepKeeps ==
  ASSUME SandboxInductive, NEW r \in Requests, RequestStep(r)
  PROVE  SandboxInductive'
<1>1. CASE CreateStep(r)
  BY <1>1, CountActiveKeeps, DropKeeps, CreateShellKeeps, FillDemoKeeps, RunForecastKeeps,
     DeleteUnfinishedKeeps, OpenSessionKeeps DEF CreateStep
<1>2. CASE AdvanceStep(r)
  BY <1>2, ShiftClockKeeps, ReceiveArrivalsKeeps, ConsumeDayKeeps, FinishDayKeeps
     DEF AdvanceStep
<1>3. CASE FillStep(r)
  BY <1>3, TakeGuideLockKeeps, ReadGuideKeeps, FillDirectoryKeeps, FillWorkKeeps,
     ReadHistoryKeeps, WriteHistoryKeeps, DraftCountKeeps, PostCountKeeps DEF FillStep
<1>4. CASE Fail(r)
  BY <1>4, FailKeeps
<1> QED BY <1>1, <1>2, <1>3, <1>4 DEF RequestStep

LEMMA PassingKeeps ==
  ASSUME SandboxInductive, Passing
  PROVE  SandboxInductive' /\ sessions' \subseteq sessions
<1>1. CASE \E d \in Demos : Expire(d)
  BY <1>1, ExpireKeeps DEF Expire
<1>2. CASE StartCleanup \/ ListExpired
  <2>1. UNCHANGED <<demoVars, sessions, cookie, req>>
    BY <1>2 DEF StartCleanup, ListExpired
  <2> QED BY <2>1, Rests
<1>3. CASE DeleteNext
  BY <1>3, DeleteNextKeeps DEF DeleteNext, DeleteTenant
<1> QED BY <1>1, <1>2, <1>3 DEF Passing, Cleanup

\* Every step keeps the invariant, and whom it lets into a demo finds it finished.
LEMMA SandboxSteps ==
  ASSUME SandboxInductive, [Next]_vars
  PROVE  /\ SandboxInductive'
         /\ \A s \in sessions' \ sessions : demo[s[2]].traces \in Finished
<1>1. CASE \E r \in Requests, v \in Visitors :
             \/ \E mode \in {"ready", "guided"} :
                  StartCreate(r, v, mode) \/ StartReset(r, v, mode)
             \/ \E n \in {1, Week} : StartAdvance(r, v, n)
             \/ \E s \in Steps : StartFill(r, v, s)
  BY <1>1, StartKeeps
<1>2. CASE \E r \in Requests : RequestStep(r)
  <2>1. PICK r \in Requests : RequestStep(r)
    BY <1>2
  <2>2. CASE OpenSession(r)
    BY <2>2, OpenSessionKeeps
  <2>3. CASE ~ OpenSession(r)
    <3>1. sessions' \subseteq sessions
      <4>1. CASE CreateStep(r)
        BY <2>3, <4>1 DEF CreateStep, CountActive, Drop, CreateShell, FillDemo, RunForecast,
                          DeleteUnfinished, DeleteTenant, Reads, WritesIn
      <4>2. CASE AdvanceStep(r)
        BY <4>2 DEF AdvanceStep, ShiftClock, ReceiveArrivals, ConsumeDay, FinishDay, WritesIn
      <4>3. CASE FillStep(r)
        BY <4>3 DEF FillStep, TakeGuideLock, ReadGuide, FillDirectory, FillWork, ReadHistory,
                    WriteHistory, DraftCount, PostCount, Reads, WritesIn
      <4>4. CASE Fail(r)
        BY <4>4 DEF Fail
      <4> QED BY <2>1, <4>1, <4>2, <4>3, <4>4 DEF RequestStep
    <3> QED BY <2>1, <3>1, RequestStepKeeps
  <2> QED BY <2>2, <2>3
<1>3. CASE \E v \in Visitors, s \in Steps \ {"time"} : ByHand(v, s)
  BY <1>3, ByHandKeeps DEF ByHand
<1>4. CASE \E v \in Visitors, on \in BOOLEAN : SetAutopilot(v, on)
  BY <1>4, SetAutopilotKeeps DEF SetAutopilot
<1>5. CASE Passing
  BY <1>5, PassingKeeps
<1>6. CASE UNCHANGED vars
  BY <1>6, Rests DEF vars
<1> QED BY <1>1, <1>2, <1>3, <1>4, <1>5, <1>6 DEF Next, Steps

THEOREM SandboxIsInductive == Spec => []SandboxInductive
<1>1. SandboxInductive /\ [Next]_vars => SandboxInductive'
  BY SandboxSteps
<1> QED BY <1>1, SandboxStarts, PTL DEF Spec

\* No template is applied twice, whatever requests fill a demo at once and wherever
\* they are cut off (internal/sandbox/guidefill.go).
THEOREM TemplatesAreAppliedOnce == Spec => []SandboxInv
<1>1. SandboxInductive => SandboxInv
  <2> SUFFICES ASSUME SandboxInductive PROVE SandboxInv
    OBVIOUS
  <2>1. SandboxTypes /\ \A d \in Demos : DemoFits(d)
    BY DEF SandboxInductive
  <2>2. \A d \in live : demo[d].traces \subseteq Steps
    BY <2>1, LiveAreDemos DEF SandboxTypes, DemoType
  <2>3. SandboxTypeOK
    BY <2>1, <2>2 DEF SandboxTypes, SandboxTypeOK, Steps
  <2>4. TemplateAppliedOnce
    BY <2>1 DEF DemoFits, TemplateAppliedOnce
  <2> QED BY <2>3, <2>4 DEF SandboxInv
<1> QED BY <1>1, SandboxIsInductive, PTL

\* Every day a clock was moved to is written, will be, or was given up with its
\* request (internal/sandbox/advance.go).
THEOREM NoDayIsSkipped == Spec => []DaysAreLived
<1>1. SandboxInductive => DaysAreLived
  BY DEF SandboxInductive
<1> QED BY <1>1, SandboxIsInductive, PTL

\* The limits on demos and days are overrun by no more than what the other requests
\* in flight hold and what resets of vanished demos add.
THEOREM LimitsAreOverrunByOthersOnly == Spec => []OverrunsAreExplained
<1>1. SandboxInductive => OverrunsAreExplained
  <2> SUFFICES ASSUME SandboxInductive PROVE OverrunsAreExplained
    OBVIOUS
  <2>1. SandboxTypes /\ ActiveBounded /\ DaysBounded
    BY DEF SandboxInductive
  <2>2. ASSUME NEW d \in live PROVE demo[d].days <= MostDays
    <3> DEFINE f == [r \in Requests |-> Due(req[r], d)]
    <3>1. \A r \in Requests : f[r] \in Nat
      <4> SUFFICES ASSUME NEW r \in Requests PROVE Due(req[r], d) \in Nat
        OBVIOUS
      <4>1. CASE Busy(r) /\ req[r].at \in Moving /\ req[r].demo = d
        <5>1. req[r].left \in 1..Week
          BY <4>1 DEF SandboxInductive, ReqFits
        <5>2. Due(req[r], d) = req[r].left \/ Due(req[r], d) = req[r].left - 1
          BY <4>1, OnTheMove DEF Busy, Moving
        <5> QED BY <5>1, <5>2, Constants
      <4>2. CASE ~ (Busy(r) /\ req[r].at \in Moving /\ req[r].demo = d)
        <5>1. Due(req[r], d) = 0
          BY <4>2 DEF Due, Busy, Moving
        <5> QED BY <5>1
      <4> QED BY <4>1, <4>2
    <3>2. Owed(req, d) = SumOver(f, Requests)
      BY DEF Owed
    <3> HIDE DEF f
    <3>3. SumOver(f, Requests) \in Nat
      <4>1. \A r \in Requests : f[r] \in Int /\ f[r] <= f[r]
        BY <3>1
      <4> QED BY <3>1, <4>1, Constants, SumMonotone
    <3>4. demo[d].days + Owed(req, d) <= MostDays /\ demo[d].days \in Nat
      BY <2>1, LiveAreDemos DEF DaysBounded, SandboxTypes, DemoType
    <3> QED BY <3>2, <3>3, <3>4, Constants
  <2> QED BY <2>1, <2>2 DEF OverrunsAreExplained, ActiveBounded, Shells, MostDays
<1> QED BY <1>1, SandboxIsInductive, PTL

\* A visitor is let into a demo that is empty or complete, whichever transaction of
\* its creation failed (internal/sandbox/service.go, Create and fill).
THEOREM DemosAreFinishedFirst == Spec => VisitorsEnterFinishedDemos
<1>1. SandboxInductive /\ [Next]_vars =>
        [ \A s \in sessions' \ sessions :
            demo[s[2]].traces \in {{}, {"suppliers", "items", "history", "forecast"}} ]_vars
  <2> SUFFICES ASSUME SandboxInductive, [Next]_vars
               PROVE  \A s \in sessions' \ sessions :
                        demo[s[2]].traces \in {{}, {"suppliers", "items", "history", "forecast"}}
    OBVIOUS
  <2>1. \A s \in sessions' \ sessions : demo[s[2]].traces \in Finished
    BY SandboxSteps
  <2>2. Finished = {{}, {"suppliers", "items", "history", "forecast"}}
    <3>1. Filled \cup {"forecast"} = {"suppliers", "items", "history", "forecast"}
      BY DEF Filled
    <3> QED BY <3>1 DEF Finished
  <2> QED BY <2>1, <2>2
<1> QED BY <1>1, SandboxIsInductive, PTL DEF Spec, VisitorsEnterFinishedDemos

=============================================================================
