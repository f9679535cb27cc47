---------------------------- MODULE AccountProofs ----------------------------
(***************************************************************************)
(* What holds of the accounts: the proofs of the properties of Gate, for   *)
(* every number of tasks and calls, every limit, ceiling, estimate and     *)
(* cost; and of those of Spending, for every number of servers and grants, *)
(* every ceiling and charge and any number of mishaps.                     *)
(***************************************************************************)
EXTENDS Gate, Spending, FiniteSetTheorems, WellFoundedInduction, TLAPS

------------------------------------------------------------------------------
(* The gate: a day's record.  A sum over the threads has no definition the *)
(* provers can reason about by induction, so it is given by its partial    *)
(* sums in an order of the threads that is fixed.                          *)

(* A sum over the threads, in an order that is fixed: its partial sums.    *)
Count == Cardinality(Thread)
Order == CHOOSE e : e \in Bijection(1 .. Count, Thread)
IsSum(f, v) == \E g \in [0 .. Count -> Int] :
  /\ g[0] = 0 /\ g[Count] = v
  /\ \A i \in 1 .. Count : g[i] = g[i - 1] + f[Order[i]]

(* The order names every thread, each of them once.                        *)
LEMMA OrderIs ==
  /\ Count \in Nat /\ Order \in [1 .. Count -> Thread]
  /\ \A p \in Thread : \E i \in 1 .. Count : Order[i] = p
  /\ \A i, j \in 1 .. Count : Order[i] = Order[j] => i = j
<1>1. IsFiniteSet(Thread)
  <2>1. IsFiniteSet(Task)
    BY GateAssumption
  <2> QED BY <2>1, FS_AddElement DEF Thread
<1>2. Count \in Nat /\ ExistsBijection(1 .. Count, Thread)
  BY <1>1, FS_CardinalityType DEF Count
<1>3. Order \in Bijection(1 .. Count, Thread)
  BY <1>2 DEF ExistsBijection, Order
<1> QED BY <1>2, <1>3 DEF Bijection, Injection, Surjection, IsInjective

(* In a set of numbers there is a smallest one.                            *)
LEMMA Least ==
  ASSUME NEW n \in Nat, NEW S, S \subseteq 0 .. n, S # {}
  PROVE  \E k \in S : \A j \in S : k <= j
<1> DEFINE R == {ss \in Nat \X Nat : ss[1] < ss[2]}
<1>1. IsWellFoundedOn(R, Nat)
  BY NatLessThanWellFounded DEF OpToRel
<1>2. S \subseteq Nat
  OBVIOUS
<1>3. PICK k \in S : \A j \in S : ~(<<j, k>> \in R)
  <2> HIDE DEF R
  <2> QED BY <1>1, <1>2, WFMin
<1>4. ASSUME NEW j \in S PROVE k <= j
  <2>1. j \in Nat /\ k \in Nat /\ <<j, k>>[1] = j /\ <<j, k>>[2] = k
    BY <1>2
  <2>2. ~(j < k)
    BY <1>3, <2>1
  <2> QED BY <2>1, <2>2
<1> QED BY <1>4

(* Threads that claim nothing sum to nothing.                              *)
LEMMA SumOfNone ==
  ASSUME NEW f \in [Thread -> Int], \A p \in Thread : f[p] = 0
  PROVE  IsSum(f, 0)
<1> DEFINE g == [i \in 0 .. Count |-> 0]
<1>1. g \in [0 .. Count -> Int] /\ g[0] = 0 /\ g[Count] = 0
  BY OrderIs
<1>2. \A i \in 1 .. Count : g[i] = g[i - 1] + f[Order[i]]
  BY OrderIs
<1> QED BY <1>1, <1>2 DEF IsSum

(* A sum of claims none of which is negative is not negative either.       *)
LEMMA SumIsNat ==
  ASSUME NEW f \in [Thread -> Int], \A p \in Thread : f[p] >= 0, NEW v, IsSum(f, v)
  PROVE  v \in Int /\ v >= 0 /\ ((\A p \in Thread : f[p] = 0) => v = 0)
<1>1. PICK g \in [0 .. Count -> Int] :
        /\ g[0] = 0 /\ g[Count] = v
        /\ \A i \in 1 .. Count : g[i] = g[i - 1] + f[Order[i]]
  BY DEF IsSum
<1>2. ASSUME NEW i \in 0 .. Count PROVE g[i] >= 0
  <2> DEFINE S == {j \in 0 .. Count : ~(g[j] >= 0)}
  <2> SUFFICES ASSUME S # {} PROVE FALSE
    OBVIOUS
  <2>1. PICK k \in S : \A j \in S : k <= j
    BY OrderIs, Least
  <2>2. k \in 1 .. Count /\ k - 1 \in 0 .. Count /\ ~(k <= k - 1)
    BY <1>1, <2>1, OrderIs
  <2>3. g[k - 1] >= 0
    BY <2>1, <2>2
  <2>4. g[k] = g[k - 1] + f[Order[k]] /\ f[Order[k]] >= 0 /\ f[Order[k]] \in Int /\ g[k - 1] \in Int
    BY <1>1, <2>2, OrderIs
  <2> QED BY <2>1, <2>3, <2>4
<1>3. ASSUME \A p \in Thread : f[p] = 0, NEW i \in 0 .. Count PROVE g[i] = 0
  <2> DEFINE S == {j \in 0 .. Count : g[j] # 0}
  <2> SUFFICES ASSUME S # {} PROVE FALSE
    OBVIOUS
  <2>1. PICK k \in S : \A j \in S : k <= j
    BY OrderIs, Least
  <2>2. k \in 1 .. Count /\ k - 1 \in 0 .. Count /\ ~(k <= k - 1)
    BY <1>1, <2>1, OrderIs
  <2>3. g[k - 1] = 0
    BY <2>1, <2>2
  <2>4. g[k] = g[k - 1] + 0
    BY <1>1, <1>3, <2>2, OrderIs
  <2> QED BY <2>1, <2>3, <2>4
<1>4. Count \in 0 .. Count /\ g[Count] \in Int
  BY OrderIs
<1> QED BY <1>1, <1>2, <1>3, <1>4

(* One thread's claim changes, and the sum changes by as much.             *)
LEMMA SumChanges ==
  ASSUME NEW f \in [Thread -> Int], NEW h \in [Thread -> Int], NEW v, IsSum(f, v), NEW p \in Thread,
         \A q \in Thread : q # p => h[q] = f[q]
  PROVE  v \in Int /\ IsSum(h, v + (h[p] - f[p]))
<1>1. PICK g \in [0 .. Count -> Int] :
        /\ g[0] = 0 /\ g[Count] = v
        /\ \A i \in 1 .. Count : g[i] = g[i - 1] + f[Order[i]]
  BY DEF IsSum
<1>2. PICK k \in 1 .. Count : Order[k] = p
  BY OrderIs
<1>3. PICK d \in Int : d = h[p] - f[p] /\ h[p] = f[p] + d
  OBVIOUS
<1> DEFINE s == [i \in 0 .. Count |-> IF i < k THEN g[i] ELSE g[i] + d]
<1>4. s \in [0 .. Count -> Int] /\ s[0] = 0 /\ s[Count] = v + d /\ v \in Int
  <2>1. Count \in Nat /\ k \in Nat /\ 0 < k /\ k <= Count /\ 0 \in 0 .. Count
          /\ Count \in 0 .. Count
    BY OrderIs
  <2>2. v \in Int
    BY <1>1, <2>1
  <2>3. s[0] = 0
    BY <1>1, <2>1
  <2>4. s[Count] = v + d
    BY <1>1, <2>1
  <2>5. s \in [0 .. Count -> Int]
    <3>1. ASSUME NEW i \in 0 .. Count PROVE g[i] \in Int /\ g[i] + d \in Int
      BY <1>1
    <3> QED BY <3>1
  <2> QED BY <2>2, <2>3, <2>4, <2>5
<1>5. ASSUME NEW i \in 1 .. Count PROVE s[i] = s[i - 1] + h[Order[i]]
  <2>1. /\ i \in 0 .. Count /\ i - 1 \in 0 .. Count /\ g[i] = g[i - 1] + f[Order[i]]
             /\ g[i - 1] \in Int
        /\ Order[i] \in Thread /\ f[Order[i]] \in Int
    <3>1. i \in 0 .. Count /\ i - 1 \in 0 .. Count /\ Order[i] \in Thread
      BY OrderIs
    <3>2. g[i] = g[i - 1] + f[Order[i]] /\ g[i - 1] \in Int
      BY <1>1, <3>1
    <3> QED BY <3>1, <3>2
  <2>2. CASE i < k
    <3>1. Order[i] # p
      BY <1>2, <2>2, OrderIs
    <3>2. h[Order[i]] = f[Order[i]] /\ s[i] = g[i] /\ s[i - 1] = g[i - 1]
      BY <2>1, <2>2, <3>1
    <3> QED BY <2>1, <3>2
  <2>3. CASE i = k
    <3>1. s[i] = g[i] + d /\ s[i - 1] = g[i - 1] /\ h[Order[i]] = f[Order[i]] + d
      BY <1>2, <1>3, <2>1, <2>3
    <3> HIDE DEF s
    <3> QED BY <2>1, <3>1
  <2>4. CASE i > k
    <3>1. Order[i] # p
      BY <1>2, <2>4, OrderIs
    <3>2. h[Order[i]] = f[Order[i]] /\ s[i] = g[i] + d /\ s[i - 1] = g[i - 1] + d
      BY <2>1, <2>4, <3>1
    <3> HIDE DEF s
    <3> QED BY <2>1, <3>2
  <2> QED BY <2>2, <2>3, <2>4
<1> HIDE DEF s
<1>6. IsSum(h, v + d)
  BY <1>4, <1>5 DEF IsSum
<1> QED BY <1>3, <1>4, <1>6

(* Claims that add up have sums that do.                                   *)
LEMMA SumAdds ==
  ASSUME NEW f \in [Thread -> Int], NEW h \in [Thread -> Int], NEW m \in [Thread -> Int],
         \A p \in Thread : m[p] = f[p] + h[p], NEW v \in Int, NEW w \in Int, IsSum(f, v), IsSum(h, w)
  PROVE  IsSum(m, v + w)
<1>1. PICK g \in [0 .. Count -> Int] :
        /\ g[0] = 0 /\ g[Count] = v
        /\ \A i \in 1 .. Count : g[i] = g[i - 1] + f[Order[i]]
  BY DEF IsSum
<1>2. PICK k \in [0 .. Count -> Int] :
        /\ k[0] = 0 /\ k[Count] = w
        /\ \A i \in 1 .. Count : k[i] = k[i - 1] + h[Order[i]]
  BY DEF IsSum
<1> DEFINE s == [i \in 0 .. Count |-> g[i] + k[i]]
<1>3. Count \in Nat /\ 0 \in 0 .. Count /\ Count \in 0 .. Count
  BY OrderIs
<1>4. ASSUME NEW i \in 0 .. Count PROVE s[i] = g[i] + k[i] /\ g[i] \in Int /\ k[i] \in Int
  BY <1>1, <1>2
<1>5. s \in [0 .. Count -> Int]
  BY <1>4
<1>6. ASSUME NEW i \in 1 .. Count PROVE s[i] = s[i - 1] + m[Order[i]]
  <2>1. i \in 0 .. Count /\ i - 1 \in 0 .. Count /\ Order[i] \in Thread
    BY OrderIs
  <2>2. /\ g[i] = g[i - 1] + f[Order[i]] /\ k[i] = k[i - 1] + h[Order[i]]
        /\ m[Order[i]] = f[Order[i]] + h[Order[i]]
        /\ f[Order[i]] \in Int /\ h[Order[i]] \in Int
    BY <1>1, <1>2, <2>1
  <2>3. /\ s[i] = g[i] + k[i] /\ s[i - 1] = g[i - 1] + k[i - 1]
        /\ g[i - 1] \in Int /\ k[i - 1] \in Int
    BY <1>4, <2>1
  <2> HIDE DEF s
  <2> QED BY <2>2, <2>3
<1>7. s[0] = 0 /\ s[Count] = v + w
  BY <1>1, <1>2, <1>3, <1>4
<1> HIDE DEF s
<1> QED BY <1>5, <1>6, <1>7 DEF IsSum

(* What the ledger's floor at zero makes of a number.                      *)
LEMMA MaxIs ==
  ASSUME NEW x \in Int
  PROVE  /\ Max({0, x}) \in Int /\ Max({0, x}) >= 0 /\ Max({0, x}) >= x
         /\ x >= 0 => Max({0, x}) = x
<1> DEFINE S == {0, x}
<1>1. \E m \in S : \A y \in S : m >= y
  BY 0 >= x \/ x >= 0
<1>2. Max(S) \in S /\ \A y \in S : Max(S) >= y
  BY <1>1 DEF Max
<1> QED BY <1>2

------------------------------------------------------------------------------
(* What a thread's bookings are, and what of it the record does not say yet. *)

\* What the record is to hold for a thread on a day once it is settled: the loop's
\* admission or the task's outer booking, and that of the call the task is in ...
HeldBy(p, a, o, b, d) ==
  IF p = Loop THEN IF a \in Gated /\ o = d THEN Ceiling ELSE 0
  ELSE (IF a \in {"submitted", "working", "booking", "calling", "settling"} /\ Of(b, d)
        THEN Ceiling ELSE 0)
       + (IF a \in {"booking", "calling"} /\ o = d THEN Estimate ELSE 0)
\* ... and what the adjustments that are still to be made will change.
Part(q, i, d) == IF i \in DOMAIN q /\ q[i].day = d THEN q[i].delta ELSE 0
Pend(q, d) == Part(q, 1, d) + Part(q, 2, d)
ClaimBy(p, a, o, b, q, d) == HeldBy(p, a, o, b, d) - Pend(q, d)

OuterOf(p) == IF p = Loop THEN Nothing ELSE outer[p]
ThreadClaim(p, d) == ClaimBy(p, at[p], on[p], OuterOf(p), todo[p], d)
Claims(d) == [p \in Thread |-> ThreadClaim(p, d)]

Balance(u, w, f, exact) ==
  \E v \in Int : /\ IsSum(f, v) /\ u >= w + v
                 /\ exact => u = w + v
\* The record holds what it should be left with and what the threads claim.
Balanced(d) == Balance(used[d], owed[d], Claims(d), astray = {})

Adjustment == [day : Day, delta : Int]
Booking == [day : Day, n : {Ceiling, Estimate}]
IsSmall(q) == Len(q) <= 2 /\ \A i \in DOMAIN q : q[i].delta <= 0
IsRise(q) == Len(q) = 1 /\ q[1].delta > 0

\* What of a call's cost, above what it booked, a task has still to write ...
Rise(a, q, d) ==
  IF a = "settling" /\ q # <<>> /\ Head(q).day = d /\ Head(q).delta > 0 THEN Head(q).delta ELSE 0
ThreadRise(p, d) == IF p = Loop THEN 0 ELSE Rise(at[p], todo[p], d)
Rises(d) == [p \in Thread |-> ThreadRise(p, d)]
\* ... is owed already: no floor cuts off what others take back.
Covered(d) == \E s \in Int : IsSum(Rises(d), s) /\ s <= owed[d]

Place == {"scan", "full", "sleep", "waiting", "submitted", "working", "booking", "calling",
          "settling", "dropping", "ending", "over"} \union Gated

GateTypes ==
  /\ used \in [Day -> Int] /\ real \in [Day -> Int] /\ owed \in [Day -> Nat]
  /\ unnamed \in [Day -> Nat] /\ at \in [Thread -> Place] /\ on \in [Thread -> Day]
  /\ todo \in [Thread -> Seq(Adjustment)] /\ seen \in [Thread -> Int \union {Nothing}]
  /\ outer \in [Task -> Booking \union {Nothing}] /\ inner \in [Task -> Booking \union {Nothing}]
  /\ pending \subseteq Task /\ left \subseteq pending /\ any \in BOOLEAN /\ wake \in BOOLEAN
  /\ fut \in [Task -> {"pending", "running", "cancelled", "done"}]
  /\ calls \in [Task -> Nat] /\ astray \subseteq {"lost", "expired", "midnight"}

\* A task has its place once the loop has given it up, and the loop stands at one of its own.
PlacesFit ==
  /\ at[Loop] \in {"scan", "full", "sleep", "over"} \union (Gated \cap left)
  /\ \A t \in pending : at[t] = "waiting"
  /\ \A t \in Task : at[t] \in {"waiting", "submitted", "working", "booking", "calling",
                                "settling", "dropping", "ending", "over"}

One(d, n) == <<[day |-> d, delta |-> n]>>
\* A booking is under way where a thread reserves; what a thread releases lowers the record.
LoopFits == todo[Loop] # <<>> => at[Loop] \in Gated /\ todo[Loop] = One(on[Loop], Ceiling)
TaskFits(t) ==
  /\ at[t] = "booking" => todo[t] = <<>> \/ todo[t] = One(on[t], Estimate)
  /\ at[t] \in {"dropping", "ending"} => IsSmall(todo[t])
  /\ at[t] = "settling" => IsSmall(todo[t]) \/ IsRise(todo[t])
  /\ at[t] \notin {"booking", "settling", "dropping", "ending"} => todo[t] = <<>>
  /\ outer[t] = Nothing \/ outer[t].n = Ceiling
  /\ at[t] = "calling" => inner[t] = [day |-> on[t], n |-> Estimate]
BookingsFit == LoopFits /\ \A t \in Task : TaskFits(t)

Accounted ==
  astray \subseteq {"expired"} => BookingsFit /\ \A d \in Day : Balanced(d) /\ Covered(d)

Charged == \A d \in Day : real[d] <= owed[d] + unnamed[d]

GateInv == GateTypes /\ PlacesFit /\ Charged /\ Accounted

------------------------------------------------------------------------------
(* What an amount is, whatever the thread.                                 *)
LEMMA Amounts ==
  /\ Ceiling \in Nat /\ Estimate \in Nat /\ Limit \in Nat /\ Costs \in [Task -> SUBSET Nat]
  /\ Today = 0 /\ Yesterday = 1 /\ Day = {0, 1}
  /\ Task \subseteq Thread /\ Loop \in Thread /\ Loop \notin Task /\ Gated \subseteq Task
  /\ Free \subseteq Task /\ Gated \cap Free = {} /\ Thread = Task \union {Loop}
  /\ \A t \in Task : t \notin {"waiting", "scan", "full", "sleep", "over"}
  /\ Nothing \notin Nat /\ Nothing \notin Booking /\ MaxCalls \in [Task -> Nat]
  BY GateAssumption DEF Task, Thread, Today, Yesterday, Day, Booking

(* The part of a queue of adjustments that is of a day is a number.        *)
LEMMA PartIsInt ==
  ASSUME NEW q \in Seq(Adjustment), NEW i, NEW d
  PROVE  Part(q, i, d) \in Int
<1>1. CASE i \in DOMAIN q /\ q[i].day = d
  <2>1. q[i] \in Adjustment
    BY <1>1
  <2> QED BY <1>1, <2>1 DEF Part, Adjustment
<1> QED BY <1>1 DEF Part

(* A thread's claim is a number.                                           *)
LEMMA ClaimByIsInt ==
  ASSUME NEW p, NEW a, NEW o, NEW b, NEW q \in Seq(Adjustment), NEW d
  PROVE  /\ HeldBy(p, a, o, b, d) \in Nat /\ Pend(q, d) \in Int
         /\ ClaimBy(p, a, o, b, q, d) \in Int
<1>1. HeldBy(p, a, o, b, d) \in Nat
  <2>1. (IF a \in {"submitted", "working", "booking", "calling", "settling"} /\ Of(b, d)
        THEN Ceiling ELSE 0) \in Nat
    BY Amounts
  <2>2. (IF a \in {"booking", "calling"} /\ o = d THEN Estimate ELSE 0) \in Nat
    BY Amounts
  <2>3. (IF a \in Gated /\ o = d THEN Ceiling ELSE 0) \in Nat
    BY Amounts
  <2> QED BY <2>1, <2>2, <2>3 DEF HeldBy
<1>2. Pend(q, d) \in Int
  <2>1. Part(q, 1, d) \in Int /\ Part(q, 2, d) \in Int
    BY PartIsInt
  <2> QED BY <2>1 DEF Pend
<1> QED BY <1>1, <1>2 DEF ClaimBy

(* Every thread's claim is a number.                                       *)
LEMMA ClaimsAre ==
  ASSUME GateTypes, NEW d
  PROVE  Claims(d) \in [Thread -> Int] /\ \A p \in Thread : Claims(d)[p] = ThreadClaim(p, d)
<1>1. ASSUME NEW p \in Thread PROVE ThreadClaim(p, d) \in Int
  <2>1. todo[p] \in Seq(Adjustment)
    BY DEF GateTypes
  <2> QED BY <2>1, ClaimByIsInt DEF ThreadClaim
<1> QED BY <1>1 DEF Claims

(* The same of the next state.                                             *)
LEMMA ClaimsWillBe ==
  ASSUME GateTypes', NEW d
  PROVE  Claims(d)' \in [Thread -> Int] /\ \A p \in Thread : Claims(d)'[p] = ThreadClaim(p, d)'
<1>1. ASSUME NEW p \in Thread PROVE ThreadClaim(p, d)' \in Int
  <2>1. todo'[p] \in Seq(Adjustment)
    BY DEF GateTypes
  <2> QED BY <2>1, ClaimByIsInt DEF ThreadClaim
<1> QED BY <1>1 DEF Claims

(* A record that moves with a thread's claim keeps its balance.            *)
LEMMA BalanceMoves ==
  ASSUME NEW f \in [Thread -> Int], NEW h \in [Thread -> Int], NEW p \in Thread,
         \A q \in Thread : q # p => h[q] = f[q],
         NEW u \in Int, NEW w \in Int, NEW e, NEW x \in Int, NEW y \in Int, NEW e2,
         Balance(u, w, f, e), x - y >= (u - w) + (h[p] - f[p]),
         e2 => e /\ x - y = (u - w) + (h[p] - f[p])
  PROVE  Balance(x, y, h, e2)
<1>1. PICK v \in Int : IsSum(f, v) /\ u >= w + v /\ (e => u = w + v)
  BY DEF Balance
<1>2. PICK c \in Int : c = h[p] - f[p]
  OBVIOUS
<1>3. IsSum(h, v + c) /\ v + c \in Int
  BY <1>1, <1>2, SumChanges
<1>4. x >= y + (v + c)
  BY <1>1, <1>2
<1>5. e2 => x = y + (v + c)
  BY <1>1, <1>2
<1> QED BY <1>3, <1>4, <1>5 DEF Balance

\* Whose claim an action does not touch.
Left(q) == /\ at'[q] = at[q] /\ on'[q] = on[q] /\ todo'[q] = todo[q]
           /\ q \in Task => outer'[q] = outer[q]

(* A thread that an action does not touch claims what it claimed.          *)
LEMMA LeftClaims ==
  ASSUME NEW q \in Thread, Left(q), NEW d
  PROVE  ThreadClaim(q, d)' = ThreadClaim(q, d)
<1>1. OuterOf(q)' = OuterOf(q)
  BY Amounts DEF Left, OuterOf
<1> QED BY <1>1 DEF ThreadClaim, Left

(* What a thread has still to add is a number, and of its own correction.  *)
LEMMA RiseIs ==
  ASSUME NEW a, NEW q \in Seq(Adjustment), NEW d
  PROVE  /\ Rise(a, q, d) \in Nat
         /\ a # "settling" \/ IsSmall(q) => Rise(a, q, d) = 0
         /\ IsRise(q) /\ a = "settling" => Rise(a, q, d) = IF q[1].day = d THEN q[1].delta ELSE 0
<1>1. CASE q = <<>>
  BY <1>1 DEF Rise, IsRise
<1>2. CASE q # <<>>
  <2>1. Head(q) \in Adjustment /\ Head(q) = q[1] /\ 1 \in DOMAIN q
    BY <1>2
  <2>2. Head(q).delta \in Int
    BY <2>1 DEF Adjustment
  <2> QED BY <1>2, <2>1, <2>2 DEF Rise, IsRise, IsSmall
<1> QED BY <1>1, <1>2

(* The same of every thread, now and after a step.                         *)
LEMMA RisesAre ==
  ASSUME GateTypes, NEW d
  PROVE  /\ Rises(d) \in [Thread -> Int]
         /\ \A p \in Thread : Rises(d)[p] = ThreadRise(p, d) /\ ThreadRise(p, d) \in Nat
<1>1. ASSUME NEW p \in Thread PROVE ThreadRise(p, d) \in Nat
  <2>1. todo[p] \in Seq(Adjustment)
    BY DEF GateTypes
  <2> QED BY <2>1, RiseIs DEF ThreadRise
<1> QED BY <1>1 DEF Rises

LEMMA RisesWillBe ==
  ASSUME GateTypes', NEW d
  PROVE  /\ Rises(d)' \in [Thread -> Int]
         /\ \A p \in Thread : Rises(d)'[p] = ThreadRise(p, d)' /\ ThreadRise(p, d)' \in Nat
<1>1. ASSUME NEW p \in Thread PROVE ThreadRise(p, d)' \in Nat
  <2>1. todo'[p] \in Seq(Adjustment)
    BY DEF GateTypes
  <2> QED BY <2>1, RiseIs DEF ThreadRise
<1> QED BY <1>1 DEF Rises

(* A thread that an action does not touch has as much to add as it had.    *)
LEMMA LeftRises ==
  ASSUME NEW q \in Thread, Left(q), NEW d
  PROVE  ThreadRise(q, d)' = ThreadRise(q, d)
  BY DEF ThreadRise, Left

(* What is to be added stays owed when no thread has more to add ...       *)
LEMMA CoverStays ==
  ASSUME NEW d, \A q \in Thread : ThreadRise(q, d)' = ThreadRise(q, d),
         owed'[d] = owed[d], Covered(d)
  PROVE  Covered(d)'
<1>1. Rises(d)' = Rises(d)
  BY DEF Rises
<1> QED BY <1>1 DEF Covered

(* ... and when one has, if as much more is owed.                          *)
LEMMA CoverMoves ==
  ASSUME GateTypes, GateTypes', NEW p \in Thread, NEW d \in Day, Covered(d),
         \A q \in Thread \ {p} : ThreadRise(q, d)' = ThreadRise(q, d),
         owed'[d] - owed[d] >= ThreadRise(p, d)' - ThreadRise(p, d)
  PROVE  Covered(d)'
<1> DEFINE f == Rises(d)
           h == Rises(d)'
<1>1. /\ f \in [Thread -> Int] /\ h \in [Thread -> Int]
      /\ f[p] = ThreadRise(p, d) /\ h[p] = ThreadRise(p, d)'
      /\ \A q \in Thread : q # p => h[q] = f[q]
  BY RisesAre, RisesWillBe
<1>2. PICK s \in Int : IsSum(f, s) /\ s <= owed[d]
  BY DEF Covered
<1>3. owed[d] \in Int /\ owed'[d] \in Int /\ owed'[d] - owed[d] >= h[p] - f[p]
  BY <1>1 DEF GateTypes
<1> HIDE DEF f, h
<1>4. PICK x \in Int : x = h[p] - f[p]
  BY <1>1
<1>5. IsSum(h, s + x)
  BY <1>1, <1>2, <1>4, SumChanges
<1>6. s + x \in Int /\ s + x <= owed'[d]
  BY <1>2, <1>3, <1>4
<1> QED BY <1>5, <1>6 DEF Covered, h

(* An action moves the record as it moves the claim of its own thread.     *)
LEMMA MovesClaim ==
  ASSUME GateTypes, GateTypes', NEW p \in Thread, \A q \in Thread \ {p} : Left(q),
         NEW d \in Day, Balanced(d), astray' = {} => astray = {},
         used'[d] - owed'[d] = (used[d] - owed[d]) + (ThreadClaim(p, d)' - ThreadClaim(p, d))
  PROVE  Balanced(d)'
<1> DEFINE f == Claims(d)
           h == Claims(d)'
           e == astray = {}
           e2 == astray' = {}
<1>1. f \in [Thread -> Int] /\ h \in [Thread -> Int] /\ f[p] = ThreadClaim(p, d)
        /\ h[p] = ThreadClaim(p, d)'
  BY ClaimsAre, ClaimsWillBe
<1>2. \A q \in Thread : q # p => h[q] = f[q]
  BY LeftClaims, ClaimsAre, ClaimsWillBe
<1>3. used[d] \in Int /\ owed[d] \in Int /\ used'[d] \in Int /\ owed'[d] \in Int
  BY DEF GateTypes
<1>4. Balance(used[d], owed[d], f, e) /\ (e2 => e)
  BY DEF Balanced
<1>5. used'[d] - owed'[d] = (used[d] - owed[d]) + (h[p] - f[p])
  BY <1>1
<1> HIDE DEF f, h, e, e2
<1>6. used'[d] - owed'[d] >= (used[d] - owed[d]) + (h[p] - f[p])
  BY <1>1, <1>3, <1>5
<1>7. Balance(used'[d], owed'[d], h, e2)
  BY <1>1, <1>2, <1>3, <1>4, <1>5, <1>6, BalanceMoves
<1> QED BY <1>7 DEF Balanced, h, e2

(* An action that moves no claim leaves the record balanced.               *)
LEMMA Stays ==
  ASSUME GateTypes, GateTypes', NEW d \in Day,
         \A q \in Thread : ThreadClaim(q, d)' = ThreadClaim(q, d),
         Balanced(d), astray' = {} => astray = {},
         used'[d] = used[d], owed'[d] = owed[d]
  PROVE  Balanced(d)'
<1>1. Claims(d)' = Claims(d)
  BY DEF Claims
<1>2. PICK v \in Int : IsSum(Claims(d), v) /\ used[d] >= owed[d] + v
                       /\ (astray = {} => used[d] = owed[d] + v)
  BY DEF Balanced, Balance
<1> QED BY <1>1, <1>2 DEF Balanced, Balance

------------------------------------------------------------------------------
(* What a step may be.                                                     *)
LEMMA Steps ==
  ASSUME [GateNext]_gateVars
  PROVE  \/ UNCHANGED gateVars
         \/ \E p \in Thread : AdjustRead(p) \/ AdjustWrite(p)
         \/ Scanned \/ Clear \/ Wake \/ Midnight
         \/ \E t \in Task : \/ AdmitFree(t) \/ Admit(t) \/ Admitted(t) \/ AdmittedOpen(t)
                            \/ RunOne(t) \/ Dropped(t) \/ Ask(t) \/ Proceed(t) \/ ProceedOpen(t)
                            \/ Answer(t) \/ Failed(t) \/ Broken(t) \/ Recorded(t) \/ ReleaseOuter(t)
                            \/ Finish(t) \/ Cancel(t) \/ Expire(t)
  BY Amounts DEF GateNext, LoopStep, TaskStep, Adjust

(* A short queue of adjustments is one.                                    *)
LEMMA Queues ==
  /\ <<>> \in Seq(Adjustment)
  /\ \A d \in Day, n \in Int : One(d, n) \in Seq(Adjustment)
  /\ \A d, e \in Day, m, n \in Int :
       <<[day |-> d, delta |-> m], [day |-> e, delta |-> n]>> \in Seq(Adjustment)
<1>1. \A d \in Day, n \in Int : [day |-> d, delta |-> n] \in Adjustment
  BY DEF Adjustment
<1> QED BY <1>1 DEF One

(* A release books what it is to take back, and says what went wrong.      *)
LEMMA RollbackTypes ==
  ASSUME GateTypes, NEW p \in Task, NEW b \in Booking \union {Nothing}, Rollback(p, b)
  PROVE  /\ todo' \in [Thread -> Seq(Adjustment)]
              /\ astray' \subseteq {"lost", "expired", "midnight"}
         /\ \A q \in Thread \ {p} : todo'[q] = todo[q]
<1>1. CASE b = Nothing
  BY <1>1 DEF Rollback, Happens, GateTypes
<1>2. CASE b # Nothing
  <2>1. b \in Booking /\ b.n \in Int /\ b.day \in Day /\ -b.n \in Int /\ Today \in Day
          /\ p \in Thread
    BY <1>2, Amounts DEF Booking
  <2>2. <<[day |-> b.day, delta |-> 0], [day |-> Today, delta |-> -b.n]>> \in Seq(Adjustment)
    BY <2>1, Queues, SMTT(20)
  <2> QED BY <1>2, <2>1, <2>2, ZenonT(40) DEF Rollback, Happens, GateTypes
<1> QED BY <1>1, <1>2

(* The same of a booking that gives way to what the call cost.             *)
LEMMA TrueUpTypes ==
  ASSUME GateTypes, NEW p \in Task, NEW b \in Booking \union {Nothing},
         NEW cost \in Nat \union {Nothing},
         TrueUp(p, b, cost)
  PROVE  /\ todo' \in [Thread -> Seq(Adjustment)]
              /\ astray' \subseteq {"lost", "expired", "midnight"}
         /\ \A q \in Thread \ {p} : todo'[q] = todo[q]
<1>1. CASE b = Nothing \/ cost = Nothing \/ cost = b.n
  BY <1>1 DEF TrueUp, Happens, GateTypes
<1>2. CASE ~(b = Nothing \/ cost = Nothing \/ cost = b.n)
  <2>1. b \in Booking /\ b.n \in Int /\ b.day \in Day /\ cost \in Int /\ cost - b.n \in Int
          /\ Today \in Day
        /\ p \in Thread
    BY <1>2, Amounts DEF Booking
  <2>2. <<[day |-> Today, delta |-> cost - b.n]>> \in Seq(Adjustment)
    BY <2>1, Queues DEF One
  <2> QED BY <1>2, <2>1, <2>2 DEF TrueUp, Happens, GateTypes
<1> QED BY <1>1, <1>2

(* A call is charged to the histories: never more than what is owed and    *)
(* what no answer named.                                                   *)
LEMMA BillTypes ==
  ASSUME GateTypes, NEW t \in Task, NEW c \in Nat, NEW n \in Nat, Bill(t, c, n)
  PROVE  /\ real' \in [Day -> Int] /\ owed' \in [Day -> Nat] /\ unnamed' \in [Day -> Nat]
         /\ Charged => Charged'
         /\ "lost" \notin astray => /\ owed'[on[t]] = owed[on[t]] + n
                                     /\ \A d \in Day \ {on[t]} : owed'[d] = owed[d]
<1>1. t \in Thread /\ on[t] \in Day
  BY Amounts DEF GateTypes
<1>2. CASE "lost" \in astray
  <2>1. UNCHANGED <<real, owed, unnamed>>
    BY <1>2 DEF Bill
  <2> QED BY <1>2, <2>1 DEF GateTypes, Charged
<1>3. CASE "lost" \notin astray
  <2>1. PICK x \in Nat : x = Max({0, c - n}) /\ x >= c - n
    <3>1. c - n \in Int
      OBVIOUS
    <3> QED BY <3>1, MaxIs
  <2>2. /\ real' = [real EXCEPT ![on[t]] = real[on[t]] + c]
        /\ owed' = [owed EXCEPT ![on[t]] = owed[on[t]] + n]
        /\ unnamed' = [unnamed EXCEPT ![on[t]] = unnamed[on[t]] + x]
    BY <1>3, <2>1 DEF Bill
  <2>3. real' \in [Day -> Int] /\ owed' \in [Day -> Nat] /\ unnamed' \in [Day -> Nat]
    <3>1. real \in [Day -> Int] /\ owed \in [Day -> Nat] /\ unnamed \in [Day -> Nat]
      BY DEF GateTypes
    <3>2. \A d \in Day : real[d] + c \in Int /\ owed[d] + n \in Nat /\ unnamed[d] + x \in Nat
      BY <1>1, <2>1, <3>1
    <3>3. real' \in [Day -> Int]
      BY <1>1, <2>2, <3>1, <3>2
    <3>4. owed' \in [Day -> Nat]
      BY <1>1, <2>2, <3>1, <3>2
    <3>5. unnamed' \in [Day -> Nat]
      BY <1>1, <2>2, <3>1, <3>2
    <3> QED BY <3>3, <3>4, <3>5
  <2>4. ASSUME Charged PROVE Charged'
    <3>1. ASSUME NEW d \in Day PROVE real'[d] <= owed'[d] + unnamed'[d]
      <4>1. /\ real[d] <= owed[d] + unnamed[d]
            /\ real[d] \in Int /\ owed[d] \in Int /\ unnamed[d] \in Int
        BY <2>4 DEF Charged, GateTypes
      <4>2. CASE d = on[t]
        <5>1. /\ real'[d] = real[d] + c /\ owed'[d] = owed[d] + n
              /\ unnamed'[d] = unnamed[d] + x
          BY <1>1, <2>2, <4>2 DEF GateTypes
        <5> QED BY <2>1, <4>1, <5>1
      <4>3. CASE d # on[t]
        <5>1. real'[d] = real[d] /\ owed'[d] = owed[d] /\ unnamed'[d] = unnamed[d]
          BY <2>2, <4>3 DEF GateTypes
        <5> QED BY <4>1, <5>1
      <4> QED BY <4>2, <4>3
    <3> QED BY <3>1 DEF Charged
  <2>5. owed'[on[t]] = owed[on[t]] + n /\ \A d \in Day \ {on[t]} : owed'[d] = owed[d]
    BY <1>1, <2>2 DEF GateTypes
  <2> QED BY <2>3, <2>4, <2>5
<1> QED BY <1>2, <1>3

(* A thread that goes on is where it goes to, and no other is.             *)
LEMMA GoesTo ==
  ASSUME GateTypes, NEW p \in Thread, NEW from, NEW to \in Place, Goto(p, from, to)
  PROVE  /\ at' \in [Thread -> Place] /\ at[p] = from /\ at'[p] = to
         /\ \A q \in Thread \ {p} : at'[q] = at[q]
  BY DEF Goto, GateTypes

\* The places there are.
LEMMA Places ==
  /\ {"scan", "full", "sleep", "waiting", "submitted", "working", "booking", "calling",
      "settling", "dropping", "ending", "over"} \subseteq Place
  /\ Gated \subseteq Place
  BY DEF Place

(* The ledger's floor yields a number.                                     *)
LEMMA Greatest == \A x \in Int : Max({0, x}) \in Int
  BY MaxIs

\* From a loss on, nothing has been charged.
LEMMA LostTypes ==
  ASSUME Lost
  PROVE  /\ real' \in [Day -> Int] /\ owed' \in [Day -> Nat] /\ unnamed' \in [Day -> Nat]
         /\ astray' \subseteq {"lost", "expired", "midnight"} /\ ~(astray' \subseteq {"expired"})
         /\ Charged'
  BY DEF Lost, Clean, Charged

(* An adjustment's write, spelled out, is of the types.                    *)
LEMMA WritesTypes ==
  ASSUME GateTypes, NEW p \in Thread, AdjustWrite(p)
  PROVE  /\ Head(todo[p]) \in Adjustment /\ seen[p] \in Int
         /\ used' = [used EXCEPT ![Head(todo[p]).day] = Max({0, seen[p] + Head(todo[p]).delta})]
         /\ used' \in [Day -> Int] /\ todo' \in [Thread -> Seq(Adjustment)]
         /\ seen' \in [Thread -> Int \union {Nothing}]
         /\ astray' \subseteq {"lost", "expired", "midnight"}
         /\ Lost \/ UNCHANGED <<real, owed, unnamed>>
<1>1. todo[p] \in Seq(Adjustment) /\ todo[p] # <<>> /\ seen[p] \in Int
  BY DEF GateTypes, AdjustWrite, Settled
<1>2. Head(todo[p]) \in Adjustment /\ Tail(todo[p]) \in Seq(Adjustment)
  BY <1>1
<1>3. Head(todo[p]).day \in Day /\ Head(todo[p]).delta \in Int
  BY <1>2 DEF Adjustment
<1>4. PICK a \in Adjustment : a = Head(todo[p])
  BY <1>2
<1>5. /\ used' = [used EXCEPT ![a.day] = Max({0, seen[p] + a.delta})]
      /\ Lost \/ UNCHANGED <<real, owed, unnamed>>
      /\ Lost \/ astray' = astray
  BY <1>4, ZenonT(20) DEF AdjustWrite
<1>9. astray' \subseteq {"lost", "expired", "midnight"}
  BY <1>5, LostTypes DEF GateTypes
<1>6. Max({0, seen[p] + a.delta}) \in Int
  BY <1>1, <1>3, <1>4, Greatest
<1>7. used' \in [Day -> Int]
  BY <1>3, <1>4, <1>5, <1>6 DEF GateTypes
<1>8. todo' \in [Thread -> Seq(Adjustment)] /\ seen' \in [Thread -> Int \union {Nothing}]
  BY <1>2 DEF AdjustWrite, GateTypes
<1> QED BY <1>1, <1>2, <1>4, <1>5, <1>7, <1>8, <1>9

(* Midnight ages what is of today.                                         *)
LEMMA MidnightAges ==
  ASSUME GateTypes, Midnight
  PROVE  /\ used' = [d \in Day |-> IF d = Today THEN 0 ELSE used[Today]]
         /\ real' = [d \in Day |-> IF d = Today THEN 0 ELSE real[Today]]
         /\ owed' = [d \in Day |-> IF d = Today THEN 0 ELSE owed[Today]]
         /\ unnamed' = [d \in Day |-> IF d = Today THEN 0 ELSE unnamed[Today]]
         /\ todo' \in [Thread -> Seq(Adjustment)]
         /\ \A p \in Thread : /\ on[p] = Today /\ on'[p] = IF Reserving(p) THEN Yesterday ELSE Today
                              /\ Len(todo'[p]) = Len(todo[p])
                              /\ \A i \in 1 .. Len(todo[p]) :
                                   /\ todo'[p][i] = [day |-> Yesterday, delta |-> todo[p][i].delta]
                                   /\ todo[p][i].day = Today
         /\ \A t \in Task : /\ outer'[t] = IF outer[t] = Nothing THEN Nothing
                                           ELSE [day |-> Yesterday, n |-> outer[t].n]
                            /\ inner'[t] = IF inner[t] = Nothing THEN Nothing
                                           ELSE [day |-> Yesterday, n |-> inner[t].n]
                            /\ ~Of(outer[t], Yesterday) /\ ~Of(inner[t], Yesterday)
         /\ UNCHANGED <<seen, at, gate, fut, calls, astray>>
<1>1. ASSUME NEW p \in Thread
      PROVE  /\ todo'[p] \in Seq(Adjustment) /\ Len(todo'[p]) = Len(todo[p])
             /\ \A i \in 1 .. Len(todo[p]) :
                  /\ todo'[p][i] = [day |-> Yesterday, delta |-> todo[p][i].delta]
                  /\ todo[p][i].day = Today
  <2> DEFINE s == todo[p]
  <2>1. s \in Seq(Adjustment) /\ DOMAIN s = 1 .. Len(s) /\ Len(s) \in Nat
    BY DEF GateTypes
  <2>2. todo'[p] = [i \in 1 .. Len(s) |-> [s[i] EXCEPT !.day = Yesterday]]
    BY <2>1 DEF Midnight
  <2>3. ASSUME NEW i \in 1 .. Len(s)
        PROVE  /\ [s[i] EXCEPT !.day = Yesterday] = [day |-> Yesterday, delta |-> s[i].delta]
               /\ [s[i] EXCEPT !.day = Yesterday] \in Adjustment /\ s[i].day = Today
    <3>1. s[i] \in Adjustment
      BY <2>1
    <3>2. s[i].day = Today
      BY <2>1 DEF Midnight, YesterdayIsOver
    <3> QED BY <3>1, <3>2, Amounts DEF Adjustment
  <2> HIDE DEF s
  <2>4. todo'[p] \in Seq(Adjustment) /\ Len(todo'[p]) = Len(s)
    <3> DEFINE r == [i \in 1 .. Len(s) |-> [s[i] EXCEPT !.day = Yesterday]]
    <3>1. r \in [1 .. Len(s) -> Adjustment]
      BY <2>3
    <3>2. r \in Seq(Adjustment) /\ Len(r) = Len(s)
      <4> HIDE DEF r
      <4> QED BY <2>1, <3>1
    <3> QED BY <2>2, <3>2
  <2>5. \A i \in 1 .. Len(s) : todo'[p][i] = [day |-> Yesterday, delta |-> s[i].delta]
          /\ s[i].day = Today
    BY <2>1, <2>2, <2>3
  <2> QED BY <2>4, <2>5 DEF s
<1>2. todo' \in [Thread -> Seq(Adjustment)]
  <2>1. todo' = [p \in Thread |-> todo'[p]]
    BY DEF Midnight
  <2> QED BY <1>1, <2>1
<1>3. ASSUME NEW t \in Task
      PROVE  /\ outer'[t] = IF outer[t] = Nothing THEN Nothing ELSE [day |-> Yesterday,
                                                                     n |-> outer[t].n]
             /\ inner'[t] = IF inner[t] = Nothing THEN Nothing ELSE [day |-> Yesterday,
                                                                     n |-> inner[t].n]
             /\ ~Of(outer[t], Yesterday) /\ ~Of(inner[t], Yesterday)
  <2>1. outer[t] \in Booking \union {Nothing} /\ inner[t] \in Booking \union {Nothing}
    BY DEF GateTypes
  <2>2. /\ outer'[t] = IF outer[t] = Nothing THEN Nothing ELSE [outer[t] EXCEPT !.day = Yesterday]
        /\ inner'[t] = IF inner[t] = Nothing THEN Nothing ELSE [inner[t] EXCEPT !.day = Yesterday]
    BY DEF Midnight
  <2> QED BY <2>1, <2>2 DEF Booking, Midnight, YesterdayIsOver
<1>4. \A p \in Thread : on[p] = Today /\ on'[p] = IF Reserving(p) THEN Yesterday ELSE Today
  BY DEF Midnight, YesterdayIsOver
<1>5. /\ used' = [d \in Day |-> IF d = Today THEN 0 ELSE used[Today]]
      /\ real' = [d \in Day |-> IF d = Today THEN 0 ELSE real[Today]]
      /\ owed' = [d \in Day |-> IF d = Today THEN 0 ELSE owed[Today]]
      /\ unnamed' = [d \in Day |-> IF d = Today THEN 0 ELSE unnamed[Today]]
      /\ UNCHANGED <<seen, at, gate, fut, calls, astray>>
  BY DEF Midnight
<1> QED BY <1>1, <1>2, <1>3, <1>4, <1>5

(* Every variable keeps its type.                                          *)
LEMMA TypesKept ==
  ASSUME GateTypes, [GateNext]_gateVars
  PROVE  GateTypes'
<1>1. CASE UNCHANGED gateVars
  BY <1>1 DEF GateTypes, gateVars, books, gate, truth
<1>2. ASSUME NEW p \in Thread, AdjustRead(p) PROVE GateTypes'
  <2>1. todo[p] \in Seq(Adjustment) /\ todo[p] # <<>>
    BY <1>2 DEF GateTypes, AdjustRead, Settled
  <2>2. Head(todo[p]) \in Adjustment
    BY <2>1
  <2>3. used[Head(todo[p]).day] \in Int
    BY <2>2 DEF Adjustment, GateTypes
  <2>4. seen' \in [Thread -> Int \union {Nothing}]
    BY <1>2, <2>3 DEF AdjustRead, GateTypes
  <2> QED BY <1>2, <2>4 DEF AdjustRead, GateTypes, gate, truth
<1>3. ASSUME NEW p \in Thread, AdjustWrite(p) PROVE GateTypes'
  <2>1. /\ used' \in [Day -> Int] /\ todo' \in [Thread -> Seq(Adjustment)]
        /\ seen' \in [Thread -> Int \union {Nothing}]
             /\ astray' \subseteq {"lost", "expired", "midnight"}
    BY <1>3, WritesTypes
  <2>2. real' \in [Day -> Int] /\ owed' \in [Day -> Nat] /\ unnamed' \in [Day -> Nat]
    BY <1>3, WritesTypes, LostTypes DEF GateTypes
  <2> QED BY <1>3, <2>1, <2>2 DEF AdjustWrite, GateTypes, gate
<1>4. CASE Scanned
  <2>1. PICK to \in {"over", "scan", "full"} : Goto(Loop, "scan", to)
    BY <1>4 DEF Scanned
  <2>2. at' \in [Thread -> Place]
    BY <2>1, GoesTo, Places, Amounts
  <2> QED BY <1>4, <2>2 DEF Scanned, GateTypes, books, truth
<1>5. CASE Clear
  BY <1>5, GoesTo, Places, Amounts DEF Clear, GateTypes, books, truth
<1>6. CASE Wake
  BY <1>6, GoesTo, Places, Amounts DEF Wake, GateTypes, books, gate, truth
<1>7. CASE Midnight
  <2>1. /\ todo' \in [Thread -> Seq(Adjustment)] /\ on' \in [Thread -> Day]
        /\ used' \in [Day -> Int] /\ real' \in [Day -> Int] /\ owed' \in [Day -> Nat]
        /\ unnamed' \in [Day -> Nat]
    <3>1. on' \in [Thread -> Day]
      BY <1>7, Amounts DEF Midnight
    <3>2. /\ used' = [d \in Day |-> IF d = Today THEN 0 ELSE used[Today]]
          /\ real' = [d \in Day |-> IF d = Today THEN 0 ELSE real[Today]]
          /\ owed' = [d \in Day |-> IF d = Today THEN 0 ELSE owed[Today]]
          /\ unnamed' = [d \in Day |-> IF d = Today THEN 0 ELSE unnamed[Today]]
          /\ todo' \in [Thread -> Seq(Adjustment)]
      BY <1>7, MidnightAges
    <3>3. used[Today] \in Int /\ real[Today] \in Int /\ owed[Today] \in Nat /\ unnamed[Today] \in Nat
      BY Amounts DEF GateTypes
    <3> QED BY <3>1, <3>2, <3>3
  <2>2. outer' \in [Task -> Booking \union {Nothing}]
          /\ inner' \in [Task -> Booking \union {Nothing}]
    <3>1. ASSUME NEW t \in Task PROVE outer'[t] \in Booking \union {Nothing}
                 /\ inner'[t] \in Booking \union {Nothing}
      <4>1. outer[t] \in Booking \union {Nothing} /\ inner[t] \in Booking \union {Nothing}
        BY DEF GateTypes
      <4>2. /\ outer'[t] = IF outer[t] = Nothing THEN Nothing ELSE [day |-> Yesterday,
                                                                    n |-> outer[t].n]
            /\ inner'[t] = IF inner[t] = Nothing THEN Nothing ELSE [day |-> Yesterday,
                                                                    n |-> inner[t].n]
        BY <1>7, MidnightAges
      <4>3. Yesterday \in Day
        BY Amounts
      <4> QED BY <4>1, <4>2, <4>3 DEF Booking
    <3>2. outer' = [t \in Task |-> outer'[t]] /\ inner' = [t \in Task |-> inner'[t]]
      BY <1>7 DEF Midnight
    <3> QED BY <3>1, <3>2
  <2> QED BY <1>7, <2>1, <2>2, MidnightAges DEF GateTypes, gate
<1>8. ASSUME NEW t \in Task, AdmitFree(t) PROVE GateTypes'
  <2>1. at' \in [Thread -> Place]
    BY <1>8, Places, Amounts DEF AdmitFree, Submit, GateTypes
  <2> QED BY <1>8, <2>1, Amounts DEF AdmitFree, Submit, Forget, GateTypes, books, truth
<1>9. ASSUME NEW t \in Task, Admit(t) PROVE GateTypes'
  <2>1. at' \in [Thread -> Place]
    BY <1>9, GoesTo, Places, Amounts DEF Admit, GateTypes
  <2>2. on[Loop] \in Day /\ Ceiling \in Int
    BY Amounts DEF GateTypes
  <2>3. One(on[Loop], Ceiling) \in Seq(Adjustment)
    BY <2>2, Queues
  <2>4. todo' \in [Thread -> Seq(Adjustment)] /\ left' \subseteq left
    BY <1>9, <2>3 DEF Admit, Book, One, GateTypes
  <2> QED BY <1>9, <2>1, <2>4 DEF Admit, GateTypes, truth
<1>10. ASSUME NEW t \in Task, Admitted(t) PROVE GateTypes'
  <2>1. at' \in [Thread -> Place]
    BY <1>10, Places, Amounts DEF Admitted, Submit, GateTypes
  <2>2. [day |-> on[Loop], n |-> Ceiling] \in Booking
    BY Amounts DEF GateTypes, Booking
  <2> QED BY <1>10, <2>1, <2>2, Amounts DEF Admitted, Submit, Forget, GateTypes, books, truth
<1>11. ASSUME NEW t \in Task, AdmittedOpen(t) PROVE GateTypes'
  <2>1. at' \in [Thread -> Place]
    BY <1>11, Places, Amounts DEF AdmittedOpen, Submit, GateTypes
  <2>2. Lost
    BY <1>11 DEF AdmittedOpen
  <2> QED BY <1>11, <2>1, <2>2, LostTypes, Amounts DEF AdmittedOpen, Submit, Forget, GateTypes, books
<1>12. ASSUME NEW t \in Task, RunOne(t) PROVE GateTypes'
  <2>1. at' \in [Thread -> Place]
    BY <1>12, GoesTo, Places, Amounts DEF RunOne
  <2>2. outer[t] \in Booking \union {Nothing}
    BY DEF GateTypes
  <2>3. todo' \in [Thread -> Seq(Adjustment)] /\ astray' \subseteq {"lost", "expired", "midnight"}
    BY <1>12, <2>2, RollbackTypes DEF RunOne, GateTypes
  <2> QED BY <1>12, <2>1, <2>3, Amounts DEF RunOne, GateTypes, gate, truth
<1>13. ASSUME NEW t \in Task, Dropped(t) PROVE GateTypes'
  <2>1. at' \in [Thread -> Place]
    BY <1>13, GoesTo, Places, Amounts DEF Dropped
  <2> QED BY <1>13, <2>1, Amounts DEF Dropped, GateTypes, books, gate, truth
<1>14. ASSUME NEW t \in Task, Ask(t) PROVE GateTypes'
  <2>1. at' \in [Thread -> Place]
    BY <1>14, GoesTo, Places, Amounts DEF Ask, GateTypes
  <2>2. on[t] \in Day /\ Estimate \in Int
    BY Amounts DEF GateTypes
  <2>3. One(on[t], Estimate) \in Seq(Adjustment)
    BY <2>2, Queues
  <2>4. todo' \in [Thread -> Seq(Adjustment)] /\ calls' \in [Task -> Nat]
    <3>1. todo' = todo \/ todo' = [todo EXCEPT ![t] = One(on[t], Estimate)]
      BY <1>14 DEF Ask, Book, One
    <3>2. todo' \in [Thread -> Seq(Adjustment)]
      BY <2>3, <3>1 DEF GateTypes
    <3>3. calls' \in [Task -> Nat]
      BY <1>14 DEF Ask, Starts, GateTypes
    <3> QED BY <3>2, <3>3
  <2> QED BY <1>14, <2>1, <2>4 DEF Ask, GateTypes, gate
<1>15. ASSUME NEW t \in Task, Proceed(t) PROVE GateTypes'
  <2>1. at' \in [Thread -> Place]
    BY <1>15, GoesTo, Places, Amounts DEF Proceed
  <2>2. [day |-> on[t], n |-> Estimate] \in Booking
    BY Amounts DEF GateTypes, Booking
  <2> QED BY <1>15, <2>1, <2>2, Amounts DEF Proceed, GateTypes, books, gate, truth
<1>16. ASSUME NEW t \in Task, ProceedOpen(t) PROVE GateTypes'
  <2>1. at' \in [Thread -> Place]
    BY <1>16, GoesTo, Places, Amounts DEF ProceedOpen, Starts
  <2>2. calls' \in [Task -> Nat]
    <3>1. calls' = calls \/ calls' = [calls EXCEPT ![t] = calls[t] + 1]
      BY <1>16 DEF ProceedOpen, Starts
    <3>2. calls \in [Task -> Nat] /\ calls[t] + 1 \in Nat
      BY DEF GateTypes
    <3> QED BY <3>1, <3>2
  <2>3. Lost
    BY <1>16 DEF ProceedOpen
  <2> QED BY <1>16, <2>1, <2>2, <2>3, LostTypes DEF ProceedOpen, GateTypes, books, gate
<1>17. ASSUME NEW t \in Task, Answer(t) PROVE GateTypes'
  <2>1. at' \in [Thread -> Place]
    BY <1>17, GoesTo, Places, Amounts DEF Answer
  <2>2. inner[t] \in Booking \union {Nothing} /\ t \in Thread
    BY Amounts DEF GateTypes
  <2>3. PICK cost \in Costs[t], known \in BOOLEAN :
          /\ Bill(t, cost, IF known THEN cost ELSE Estimate)
          /\ TrueUp(t, inner[t], IF known THEN cost ELSE Nothing)
    BY <1>17 DEF Answer
  <2>4. cost \in Nat /\ (IF known THEN cost ELSE Estimate) \in Nat
          /\ (IF known THEN cost ELSE Nothing) \in Nat \union {Nothing}
    BY Amounts
  <2>5. real' \in [Day -> Int] /\ owed' \in [Day -> Nat] /\ unnamed' \in [Day -> Nat]
    BY <2>3, <2>4, BillTypes
  <2>6. todo' \in [Thread -> Seq(Adjustment)] /\ astray' \subseteq {"lost", "expired", "midnight"}
    BY <2>2, <2>3, <2>4, TrueUpTypes
  <2> QED BY <1>17, <2>1, <2>2, <2>5, <2>6, Amounts DEF Answer, Forget, GateTypes, gate
<1>18. ASSUME NEW t \in Task, Failed(t) PROVE GateTypes'
  <2>1. at' \in [Thread -> Place]
    BY <1>18, GoesTo, Places, Amounts DEF Failed
  <2>2. inner[t] \in Booking \union {Nothing}
    BY DEF GateTypes
  <2>3. todo' \in [Thread -> Seq(Adjustment)] /\ astray' \subseteq {"lost", "expired", "midnight"}
    BY <1>18, <2>2, RollbackTypes DEF Failed
  <2>4. real' \in [Day -> Int] /\ owed' \in [Day -> Nat] /\ unnamed' \in [Day -> Nat]
    <3>1. PICK cost \in Costs[t] \union {0} : Bill(t, cost, 0)
      BY <1>18 DEF Failed
    <3>2. cost \in Nat
      BY Amounts
    <3> QED BY <3>1, <3>2, BillTypes
  <2> QED BY <1>18, <2>1, <2>3, <2>4, Amounts DEF Failed, Forget, GateTypes, gate
<1>19. ASSUME NEW t \in Task, Broken(t) PROVE GateTypes'
  <2>1. at' \in [Thread -> Place]
    BY <1>19, GoesTo, Places, Amounts DEF Broken
  <2>2. real' \in [Day -> Int] /\ owed' \in [Day -> Nat] /\ unnamed' \in [Day -> Nat]
    <3>1. PICK cost \in Costs[t] \union {0} : Bill(t, cost, Estimate)
      BY <1>19 DEF Broken
    <3>2. cost \in Nat /\ Estimate \in Nat
      BY Amounts
    <3> QED BY <3>1, <3>2, BillTypes
  <2> QED BY <1>19, <2>1, <2>2, Amounts DEF Broken, Forget, GateTypes, books, gate
<1>20. ASSUME NEW t \in Task, Recorded(t) PROVE GateTypes'
  <2>1. at' \in [Thread -> Place]
    BY <1>20, GoesTo, Places, Amounts DEF Recorded
  <2> QED BY <1>20, <2>1, Amounts DEF Recorded, GateTypes, books, gate, truth
<1>21. ASSUME NEW t \in Task, ReleaseOuter(t) PROVE GateTypes'
  <2>1. at' \in [Thread -> Place]
    BY <1>21, GoesTo, Places, Amounts DEF ReleaseOuter
  <2>2. outer[t] \in Booking \union {Nothing}
    BY DEF GateTypes
  <2>3. todo' \in [Thread -> Seq(Adjustment)] /\ astray' \subseteq {"lost", "expired", "midnight"}
    BY <1>21, <2>2, RollbackTypes DEF ReleaseOuter
  <2> QED BY <1>21, <2>1, <2>3, Amounts DEF ReleaseOuter, GateTypes, gate, truth
<1>22. ASSUME NEW t \in Task, Finish(t) PROVE GateTypes'
  <2>1. at' \in [Thread -> Place]
    BY <1>22, GoesTo, Places, Amounts DEF Finish
  <2> QED BY <1>22, <2>1, Amounts DEF Finish, GateTypes, books, truth
<1>23. ASSUME NEW t \in Task, Cancel(t) PROVE GateTypes'
  BY <1>23 DEF Cancel, GateTypes, books, gate, truth
<1>24. ASSUME NEW t \in Task, Expire(t) PROVE GateTypes'
  BY <1>24 DEF Expire, Happens, GateTypes, books, gate, truth
<1> QED BY <1>1, <1>2, <1>3, <1>4, <1>5, <1>6, <1>7, <1>8, <1>9, <1>10, <1>11, <1>12, <1>13, <1>14,
           <1>15, <1>16, <1>17, <1>18, <1>19, <1>20, <1>21, <1>22, <1>23, <1>24, Steps

(* A task that goes on leaves every other thread where it is.              *)
LEMMA TaskGoes ==
  ASSUME GateTypes, PlacesFit, NEW t \in Task, NEW from, from # "waiting",
         NEW to \in {"submitted", "working", "booking", "calling", "settling", "dropping", "ending",
                     "over"},
         Goto(t, from, to), UNCHANGED <<pending, left>>
  PROVE  PlacesFit'
<1>1. to \in Place /\ t \in Thread /\ t # Loop
  BY Places, Amounts
<1>2. at[t] = from /\ at'[t] = to /\ \A q \in Thread \ {t} : at'[q] = at[q]
  BY <1>1, GoesTo
<1>3. at'[Loop] = at[Loop]
  BY <1>1, <1>2, Amounts
<1>4. \A u \in pending : at'[u] = "waiting"
  BY <1>1, <1>2, Amounts DEF PlacesFit, GateTypes
<1>5. \A u \in Task : at'[u] \in {"waiting", "submitted", "working", "booking", "calling",
                                  "settling", "dropping", "ending", "over"}
  BY <1>1, <1>2, Amounts DEF PlacesFit
<1> QED BY <1>3, <1>4, <1>5 DEF PlacesFit

(* Only the loop gives a task its place.                                   *)
LEMMA Submits ==
  ASSUME GateTypes, PlacesFit, NEW t \in left, NEW b, Submit(t, b)
  PROVE  PlacesFit'
<1>1. t \in Task /\ t # Loop /\ Loop \in Thread /\ t \in Thread
  BY Amounts DEF GateTypes
<1>2. at'[Loop] = "scan" /\ at'[t] = "submitted" /\ \A q \in Thread \ {Loop, t} : at'[q] = at[q]
  BY <1>1 DEF Submit, GateTypes
<1>3. pending' = pending \ {t} /\ left' = left \ {t}
  BY DEF Submit
<1>4. ASSUME NEW u \in pending' PROVE at'[u] = "waiting"
  <2>1. u \in pending /\ u \in Task /\ u # t
    BY <1>3 DEF GateTypes
  <2>2. u \in Thread \ {Loop, t}
    BY <2>1, Amounts
  <2> QED BY <1>2, <2>1, <2>2 DEF PlacesFit
<1>5. \A u \in Task : at'[u] \in {"waiting", "submitted", "working", "booking", "calling",
                                  "settling", "dropping", "ending", "over"}
  BY <1>1, <1>2, Amounts DEF PlacesFit
<1> QED BY <1>2, <1>4, <1>5 DEF PlacesFit

(* The loop goes from one of its own places to another.                    *)
LEMMA LoopGoes ==
  ASSUME GateTypes, PlacesFit, NEW from,
         NEW to \in {"scan", "full", "sleep", "over"} \union (Gated \cap left'),
         Goto(Loop, from, to), UNCHANGED pending
  PROVE  PlacesFit'
<1>1. to \in Place /\ Loop \in Thread
  BY Places, Amounts
<1>2. at'[Loop] = to /\ \A q \in Thread \ {Loop} : at'[q] = at[q]
  BY <1>1, GoesTo
<1>3. \A u \in Task : u \in Thread \ {Loop} /\ at'[u] = at[u]
  BY <1>2, Amounts
<1>4. \A u \in pending' : at'[u] = "waiting"
  BY <1>3 DEF PlacesFit, GateTypes
<1>5. \A u \in Task : at'[u] \in {"waiting", "submitted", "working", "booking", "calling",
                                  "settling", "dropping", "ending", "over"}
  BY <1>3 DEF PlacesFit
<1> QED BY <1>2, <1>4, <1>5 DEF PlacesFit

(* Every step leaves the loop and the tasks at places that fit.            *)
LEMMA PlacesKept ==
  ASSUME GateTypes, PlacesFit, [GateNext]_gateVars
  PROVE  PlacesFit'
<1>1. CASE UNCHANGED gateVars
  BY <1>1 DEF PlacesFit, gateVars, gate
<1>2. ASSUME NEW p \in Thread, AdjustRead(p) \/ AdjustWrite(p) PROVE PlacesFit'
  BY <1>2 DEF PlacesFit, AdjustRead, AdjustWrite, gate
<1>3. CASE Scanned
  <2>1. PICK to \in {"over", "scan", "full"} : Goto(Loop, "scan", to)
    BY <1>3 DEF Scanned
  <2> QED BY <1>3, <2>1, LoopGoes DEF Scanned
<1>4. CASE Clear
  BY <1>4, LoopGoes DEF Clear
<1>5. CASE Wake
  BY <1>5, LoopGoes DEF Wake, gate
<1>6. CASE Midnight
  BY <1>6 DEF PlacesFit, Midnight, gate
<1>7. ASSUME NEW t \in Task, AdmitFree(t) \/ Admitted(t) \/ AdmittedOpen(t) PROVE PlacesFit'
  <2>1. PICK b : Submit(t, b)
    BY <1>7 DEF AdmitFree, Admitted, AdmittedOpen
  <2>2. t \in left
    <3>1. t \notin {"scan", "full", "sleep", "over"}
      BY Amounts
    <3>2. CASE Admitted(t)
      BY <3>1, <3>2 DEF Admitted, PlacesFit
    <3> QED BY <1>7, <3>2 DEF AdmitFree, AdmittedOpen
  <2> QED BY <2>1, <2>2, Submits
<1>8. ASSUME NEW t \in Task, Admit(t) PROVE PlacesFit'
  <2>1. CASE HasRoom(Ceiling)
    <3>1. Goto(Loop, "scan", t) /\ UNCHANGED <<pending, left>> /\ t \in Gated \cap left
      BY <1>8, <2>1 DEF Admit
    <3> QED BY <3>1, LoopGoes
  <2>2. CASE ~HasRoom(Ceiling)
    <3>1. at[Loop] = "scan" /\ at' = at /\ pending' = pending
      BY <1>8, <2>2 DEF Admit
    <3> QED BY <3>1 DEF PlacesFit
  <2> QED BY <2>1, <2>2
<1>9. ASSUME NEW t \in Task, RunOne(t) PROVE PlacesFit'
  BY <1>9, TaskGoes DEF RunOne, gate
<1>10. ASSUME NEW t \in Task, Dropped(t) PROVE PlacesFit'
  BY <1>10, TaskGoes DEF Dropped, gate
<1>11. ASSUME NEW t \in Task, Ask(t) PROVE PlacesFit'
  <2>1. CASE at' = at
    BY <1>11, <2>1 DEF Ask, gate, PlacesFit
  <2>2. CASE Goto(t, "working", "booking")
    BY <1>11, <2>2, TaskGoes DEF Ask, gate
  <2> QED BY <1>11, <2>1, <2>2 DEF Ask
<1>12. ASSUME NEW t \in Task, Proceed(t) PROVE PlacesFit'
  BY <1>12, TaskGoes DEF Proceed, gate
<1>13. ASSUME NEW t \in Task, ProceedOpen(t) PROVE PlacesFit'
  BY <1>13, TaskGoes DEF ProceedOpen, gate
<1>14. ASSUME NEW t \in Task, Answer(t) PROVE PlacesFit'
  BY <1>14, TaskGoes DEF Answer, gate
<1>15. ASSUME NEW t \in Task, Failed(t) PROVE PlacesFit'
  BY <1>15, TaskGoes DEF Failed, gate
<1>16. ASSUME NEW t \in Task, Broken(t) PROVE PlacesFit'
  BY <1>16, TaskGoes DEF Broken, gate
<1>17. ASSUME NEW t \in Task, Recorded(t) PROVE PlacesFit'
  BY <1>17, TaskGoes DEF Recorded, gate
<1>18. ASSUME NEW t \in Task, ReleaseOuter(t) PROVE PlacesFit'
  BY <1>18, TaskGoes DEF ReleaseOuter, gate
<1>19. ASSUME NEW t \in Task, Finish(t) PROVE PlacesFit'
  BY <1>19, TaskGoes DEF Finish
<1>20. ASSUME NEW t \in Task, Cancel(t) \/ Expire(t) PROVE PlacesFit'
  BY <1>20 DEF PlacesFit, Cancel, Expire, gate
<1> QED BY <1>1, <1>2, <1>3, <1>4, <1>5, <1>6, <1>7, <1>8, <1>9, <1>10, <1>11, <1>12, <1>13, <1>14,
           <1>15, <1>16, <1>17, <1>18, <1>19, <1>20, Steps

(* No day has cost more than it owes and what no answer named.             *)
LEMMA ChargedKept ==
  ASSUME GateTypes, Charged, [GateNext]_gateVars
  PROVE  Charged'
<1>1. CASE UNCHANGED <<real, owed, unnamed>>
  BY <1>1 DEF Charged
<1>2. CASE Midnight
  BY <1>2, MidnightAges, Amounts DEF Charged
<1>3. CASE Lost
  BY <1>3, LostTypes
<1>4. ASSUME NEW t \in Task, NEW n \in Nat, NEW cost \in Costs[t] \union {0}, Bill(t, cost, n)
      PROVE  Charged'
  <2>1. cost \in Nat
    BY Amounts
  <2> QED BY <1>4, <2>1, BillTypes
<1>5. ASSUME NEW t \in Task, Answer(t) PROVE Charged'
  <2>1. PICK cost \in Costs[t], known \in BOOLEAN : Bill(t, cost, IF known THEN cost ELSE Estimate)
    BY <1>5 DEF Answer
  <2>2. (IF known THEN cost ELSE Estimate) \in Nat
    BY Amounts
  <2> QED BY <1>4, <2>1, <2>2
<1>6. ASSUME NEW t \in Task, Failed(t) \/ Broken(t) PROVE Charged'
  <2>1. PICK cost \in Costs[t] \union {0}, n \in {0, Estimate} : Bill(t, cost, n)
    BY <1>6 DEF Failed, Broken
  <2>2. n \in Nat
    BY Amounts
  <2> QED BY <1>4, <2>1, <2>2
<1>7. ASSUME NEW p \in Thread, AdjustWrite(p) PROVE Lost \/ UNCHANGED <<real, owed, unnamed>>
  BY <1>7 DEF AdjustWrite
<1>8. \/ UNCHANGED <<real, owed, unnamed>> \/ Midnight \/ Lost
      \/ \E t \in Task : Answer(t) \/ Failed(t) \/ Broken(t)
  BY <1>7, Steps DEF gateVars, truth, AdjustRead, Scanned, Clear, Wake, AdmitFree, Admit, Admitted,
     AdmittedOpen, RunOne, Dropped, Ask, Proceed, ProceedOpen, Recorded, ReleaseOuter, Finish,
     Cancel, Expire
<1> QED BY <1>1, <1>2, <1>3, <1>5, <1>6, <1>8

------------------------------------------------------------------------------
(* What short queues of adjustments have still to change.                  *)
LEMMA Pending == ASSUME NEW d PROVE Pend(<<>>, d) = 0
  BY DEF Pend, Part

(* What one adjustment leaves to be made of a day.                         *)
LEMMA PendingOne ==
  ASSUME NEW d, NEW e, NEW n \in Int
  PROVE  Pend(One(e, n), d) = IF e = d THEN n ELSE 0
<1>1. /\ 1 \in DOMAIN One(e, n) /\ 2 \notin DOMAIN One(e, n)
      /\ One(e, n)[1].day = e /\ One(e, n)[1].delta = n
  BY DEF One
<1>2. Part(One(e, n), 1, d) = (IF e = d THEN n ELSE 0) /\ Part(One(e, n), 2, d) = 0
  BY <1>1 DEF Part
<1> QED BY <1>2 DEF Pend

\* A release: the two adjustments it is made of.
Two(e, m, f, n) == <<[day |-> e, delta |-> m], [day |-> f, delta |-> n]>>
(* What a release, which is two adjustments, leaves to be made of a day.   *)
LEMMA PendingTwo ==
  ASSUME NEW d, NEW e, NEW f, NEW m \in Int, NEW n \in Int
  PROVE  Pend(Two(e, m, f, n), d) = (IF e = d THEN m ELSE 0) + (IF f = d THEN n ELSE 0)
<1> DEFINE q == Two(e, m, f, n)
<1>1. /\ 1 \in DOMAIN q /\ 2 \in DOMAIN q
      /\ q[1].day = e /\ q[1].delta = m /\ q[2].day = f /\ q[2].delta = n
  BY DEF Two
<1> HIDE DEF q
<1>2. Part(q, 1, d) = (IF e = d THEN m ELSE 0) /\ Part(q, 2, d) = (IF f = d THEN n ELSE 0)
  BY <1>1 DEF Part
<1> QED BY <1>2 DEF Pend, q

(* An adjustment that is made is no longer to be made.                     *)
LEMMA PendingOfTail ==
  ASSUME NEW q \in Seq(Adjustment), q # <<>>, Len(q) <= 2, NEW d
  PROVE  /\ Tail(q) \in Seq(Adjustment)
         /\ Pend(Tail(q), d) = Pend(q, d) - (IF Head(q).day = d THEN Head(q).delta ELSE 0)
         /\ IsSmall(q) => IsSmall(Tail(q))
<1>1. Len(q) \in {1, 2} /\ DOMAIN q = 1 .. Len(q) /\ Head(q) = q[1] /\ Tail(q) \in Seq(Adjustment)
      /\ Len(Tail(q)) = Len(q) - 1 /\ DOMAIN Tail(q) = 1 .. Len(Tail(q))
      /\ \A i \in 1 .. Len(q) - 1 : Tail(q)[i] = q[i + 1]
  <2>1. Len(q) \in Nat /\ Len(q) # 0 /\ DOMAIN q = 1 .. Len(q)
    OBVIOUS
  <2>2. Len(q) \in {1, 2}
    BY <2>1
  <2>3. Head(q) = q[1] /\ Tail(q) \in Seq(Adjustment) /\ Len(Tail(q)) = Len(q) - 1
    OBVIOUS
  <2>4. DOMAIN Tail(q) = 1 .. Len(Tail(q))
    BY <2>3
  <2>5. \A i \in 1 .. Len(q) - 1 : Tail(q)[i] = q[i + 1]
    OBVIOUS
  <2> QED BY <2>1, <2>2, <2>3, <2>4, <2>5
<1>2. Part(q, 1, d) \in Int /\ Part(q, 2, d) \in Int
  BY PartIsInt
<1>3. Part(q, 1, d) = IF Head(q).day = d THEN Head(q).delta ELSE 0
  BY <1>1 DEF Part
<1>4. Part(Tail(q), 1, d) = Part(q, 2, d)
  <2>1. CASE Len(q) = 1
    <3>1. 1 \notin DOMAIN Tail(q) /\ 2 \notin DOMAIN q
      BY <1>1, <2>1
    <3> QED BY <3>1 DEF Part
  <2>2. CASE Len(q) = 2
    <3>1. 1 \in DOMAIN Tail(q) /\ 2 \in DOMAIN q /\ Tail(q)[1] = q[2]
      BY <1>1, <2>2
    <3> QED BY <3>1 DEF Part
  <2> QED BY <1>1, <2>1, <2>2
<1>5. Part(Tail(q), 2, d) = 0
  <2>1. 2 \notin DOMAIN Tail(q)
    BY <1>1
  <2> QED BY <2>1 DEF Part
<1>6. IsSmall(q) => IsSmall(Tail(q))
  BY <1>1 DEF IsSmall
<1> QED BY <1>1, <1>2, <1>3, <1>4, <1>5, <1>6 DEF Pend

(* What takes bookings back is not above zero.                             *)
LEMMA PendingIsSmall ==
  ASSUME NEW q \in Seq(Adjustment), IsSmall(q), NEW d
  PROVE  Pend(q, d) <= 0
<1>1. ASSUME NEW i PROVE Part(q, i, d) \in Int /\ Part(q, i, d) <= 0
  BY PartIsInt DEF Part, IsSmall
<1> QED BY <1>1 DEF Pend

(* A release asks for what it takes back, and for nothing of another day.  *)
LEMMA RollbackClaims ==
  ASSUME GateTypes, NEW t \in Task, NEW b \in Booking \union {Nothing}, Rollback(t, b),
         todo[t] = <<>>,
         astray' \subseteq {"expired"}
  PROVE  /\ astray' = astray /\ IsSmall(todo'[t])
         /\ \A d \in Day : Pend(todo'[t], d) = IF Of(b, d) THEN -b.n ELSE 0
<1>1. CASE b = Nothing
  <2>1. todo' = todo /\ astray' = astray
    BY <1>1 DEF Rollback, Happens
  <2>2. \A d \in Day : ~Of(b, d)
    BY <1>1 DEF Of
  <2> QED BY <2>1, <2>2, Pending DEF IsSmall
<1>2. CASE b # Nothing
  <2>1. b \in Booking /\ b.n \in Nat /\ -b.n \in Int /\ -b.n <= 0 /\ t \in Thread
    BY <1>2, Amounts DEF Booking
  <2>2. Happens(IF b.day # Today THEN {"midnight"} ELSE {})
    BY <1>2 DEF Rollback
  <2>3. b.day = Today /\ astray' = astray
    BY <2>2 DEF Happens
  <2> DEFINE q == <<[day |-> b.day, delta |-> 0], [day |-> Today, delta |-> -b.n]>>
  <2>4. todo'[t] = q
    BY <1>2, <2>1 DEF Rollback, GateTypes
  <2>5. IsSmall(q)
    BY <2>1 DEF IsSmall
  <2>6. ASSUME NEW d \in Day PROVE Pend(q, d) = IF Of(b, d) THEN -b.n ELSE 0
    <3>1. Of(b, d) <=> b.day = d
      BY <1>2 DEF Of
    <3>2. PICK n \in Int : n = -b.n
      BY <2>1
    <3>3. Pend(Two(b.day, 0, Today, n),
               d) = (IF b.day = d THEN 0 ELSE 0) + (IF Today = d THEN n ELSE 0)
      BY <3>2, PendingTwo
    <3> QED BY <2>3, <3>1, <3>2, <3>3 DEF Two
  <2> HIDE DEF q
  <2> QED BY <2>3, <2>4, <2>5, <2>6
<1> QED BY <1>1, <1>2

(* And so does a call's answer, for the part of the estimate it leaves, or *)
(* for what the call cost above it.                                        *)
LEMMA TrueUpClaims ==
  ASSUME GateTypes, NEW t \in Task, NEW e \in Day, NEW cost \in Nat \union {Nothing},
         TrueUp(t, [day |-> e, n |-> Estimate], cost), todo[t] = <<>>, astray' \subseteq {"expired"}
  PROVE  /\ astray' = astray /\ (IsSmall(todo'[t]) \/ IsRise(todo'[t]))
         /\ \A d \in Day : Rise("settling", todo'[t], d)
                             <= IF d = e /\ cost # Nothing THEN cost ELSE 0
         /\ \A d \in Day : Pend(todo'[t], d)
                             = IF d = e /\ cost # Nothing THEN cost - Estimate ELSE 0
<1> DEFINE b == [day |-> e, n |-> Estimate]
<1>1. b \in Booking /\ b # Nothing /\ b.n = Estimate /\ b.day = e
  BY Amounts DEF Booking
<1>2. t \in Thread /\ (cost # Nothing => cost \in Nat)
  BY Amounts
<1>3. CASE cost = Nothing \/ cost = Estimate
  <2>1. todo' = todo /\ astray' = astray
    BY <1>1, <1>3 DEF TrueUp, Happens
  <2>2. \A d \in Day : Rise("settling", todo'[t], d) = 0
    BY <2>1 DEF Rise
  <2> QED BY <1>2, <1>3, <2>1, <2>2, Pending, Amounts DEF IsSmall
<1>4. CASE ~(cost = Nothing \/ cost = Estimate)
  <2>1. Happens(IF e # Today THEN {"midnight"} ELSE {})
    BY <1>1, <1>4 DEF TrueUp
  <2>2. e = Today /\ astray' = astray
    BY <2>1 DEF Happens
  <2>3. todo'[t] = One(Today, cost - Estimate)
    BY <1>1, <1>2, <1>4 DEF TrueUp, GateTypes, One
  <2>4. cost - Estimate \in Int /\ cost \in Nat /\ cost - Estimate <= cost
    BY <1>2, <1>4, Amounts
  <2>5. IsSmall(One(Today, cost - Estimate)) \/ IsRise(One(Today, cost - Estimate))
    <3>1. PICK n \in Int : n = cost - Estimate
      BY <2>4
    <3>2. IsSmall(One(Today, n)) \/ IsRise(One(Today, n))
      BY DEF IsSmall, IsRise, One
    <3> QED BY <3>1, <3>2
  <2>7. ASSUME NEW d \in Day
        PROVE  Rise("settling", One(Today, cost - Estimate), d)
                 <= IF d = e /\ cost # Nothing THEN cost ELSE 0
    <3>1. PICK n \in Int : n = cost - Estimate /\ n <= cost
      BY <2>4
    <3>2. Rise("settling", One(Today, n), d) = IF Today = d /\ n > 0 THEN n ELSE 0
      BY DEF Rise, One
    <3> QED BY <1>4, <2>2, <2>4, <3>1, <3>2
  <2>6. \A d \in Day : Pend(One(Today, cost - Estimate), d) = IF d = e
          /\ cost # Nothing THEN cost - Estimate ELSE 0
    <3>1. PICK n \in Int : n = cost - Estimate
      BY <2>4
    <3>2. \A d : Pend(One(Today, n), d) = IF Today = d THEN n ELSE 0
      BY <3>1, PendingOne
    <3> QED BY <1>4, <2>2, <3>1, <3>2
  <2> QED BY <2>2, <2>3, <2>5, <2>6, <2>7
<1> QED BY <1>3, <1>4

------------------------------------------------------------------------------
(* Only what is still to be made up to the expiry may have gone wrong.     *)
LEMMA Regime ==
  ASSUME Accounted, NEW what, Happens(what), astray' \subseteq {"expired"}
  PROVE  /\ astray \subseteq {"expired"} /\ "lost" \notin astray /\ "lost" \notin what
         /\ astray' = astray \union what
         /\ BookingsFit /\ \A d \in Day : Balanced(d) /\ Covered(d)
  BY DEF Happens, Accounted

\* A task's claim, written out.
TaskHolds(a, o, b, d) ==
  (IF a \in {"submitted", "working", "booking", "calling", "settling"}
   /\ Of(b, d) THEN Ceiling ELSE 0)
  + (IF a \in {"booking", "calling"} /\ o = d THEN Estimate ELSE 0)
TaskClaim(a, o, b, x, d) == TaskHolds(a, o, b, d) - x

(* A task's claim, now and after a step.                                   *)
LEMMA ClaimOfTask ==
  ASSUME NEW t \in Task, NEW d
  PROVE  /\ ThreadClaim(t, d) = TaskClaim(at[t], on[t], outer[t], Pend(todo[t], d), d)
         /\ ThreadClaim(t, d)' = TaskClaim(at'[t], on'[t], outer'[t], Pend(todo'[t], d), d)
<1>1. t # Loop
  BY Amounts
<1>2. ASSUME NEW a, NEW o, NEW b, NEW q
      PROVE  ClaimBy(t, a, o, b, q, d) = TaskClaim(a, o, b, Pend(q, d), d)
  <2>1. HeldBy(t, a, o, b, d) = TaskHolds(a, o, b, d)
    BY <1>1, Zenon DEF HeldBy, TaskHolds
  <2> QED BY <2>1 DEF ClaimBy, TaskClaim
<1>3. ThreadClaim(t, d) = ClaimBy(t, at[t], on[t], outer[t], todo[t], d)
  BY <1>1 DEF ThreadClaim, OuterOf
<1>4. ThreadClaim(t, d)' = ClaimBy(t, at'[t], on'[t], outer'[t], todo'[t], d)
  BY <1>1 DEF ThreadClaim, OuterOf
<1> QED BY <1>2, <1>3, <1>4

(* A task's step keeps the account when it moves the record and its own claim alike. *)
LEMMA TaskMoves ==
  ASSUME GateTypes, GateTypes', Accounted, astray \subseteq {"expired"}, astray' = astray,
         NEW t \in Task,
         \A q \in Thread \ {t} : Left(q), \A u \in Task \ {t} : inner'[u] = inner[u],
         TaskFits(t)',
         \A d \in Day :
           /\ used'[d] - owed'[d] = (used[d] - owed[d]) + (ThreadClaim(t, d)' - ThreadClaim(t, d))
           /\ owed'[d] - owed[d] >= ThreadRise(t, d)' - ThreadRise(t, d)
  PROVE  Accounted'
<1>1. BookingsFit /\ \A d \in Day : Balanced(d) /\ Covered(d)
  BY DEF Accounted
<1>2. LoopFits'
  <2>1. Loop \in Thread \ {t}
    BY Amounts
  <2>2. Left(Loop) /\ LoopFits
    BY <1>1, <2>1 DEF BookingsFit
  <2> QED BY <2>2 DEF Left, LoopFits
<1>3. ASSUME NEW u \in Task PROVE TaskFits(u)'
  <2>1. CASE u # t
    <3>1. Left(u) /\ inner'[u] = inner[u] /\ TaskFits(u)
      BY <1>1, <2>1, Amounts DEF BookingsFit
    <3> QED BY <3>1 DEF Left, TaskFits
  <2> QED BY <2>1
<1>4. ASSUME NEW d \in Day PROVE Balanced(d)'
  <2>1. used'[d] - owed'[d] = (used[d] - owed[d]) + (ThreadClaim(t, d)' - ThreadClaim(t, d))
          /\ Balanced(d) /\ t \in Thread
    BY <1>1, Amounts
  <2> QED BY <2>1, MovesClaim
<1>5. ASSUME NEW d \in Day PROVE Covered(d)'
  <2>1. owed'[d] - owed[d] >= ThreadRise(t, d)' - ThreadRise(t, d) /\ Covered(d) /\ t \in Thread
    BY <1>1, Amounts
  <2>2. \A q \in Thread \ {t} : ThreadRise(q, d)' = ThreadRise(q, d)
    BY LeftRises
  <2> QED BY <2>1, <2>2, CoverMoves
<1> QED BY <1>2, <1>3, <1>4, <1>5 DEF Accounted, BookingsFit

\* A task's step that leaves it with nothing more to add.
Calm(t) == \/ at'[t] # "settling" \/ IsSmall(todo'[t])
           \/ at'[t] = at[t] /\ todo'[t] = todo[t]

(* A task's step that touches neither the record nor the task's claim.     *)
LEMMA TaskStays ==
  ASSUME GateTypes, GateTypes', Accounted, astray \subseteq {"expired"}, astray' = astray,
         NEW t \in Task,
         \A q \in Thread \ {t} : Left(q), \A u \in Task \ {t} : inner'[u] = inner[u],
         TaskFits(t)', Calm(t), used' = used, owed' = owed,
         \A d \in Day : ThreadClaim(t, d)' = ThreadClaim(t, d)
  PROVE  Accounted'
<1>2. ASSUME NEW d \in Day
      PROVE  owed'[d] - owed[d] >= ThreadRise(t, d)' - ThreadRise(t, d)
  <2>1. t \in Thread /\ t # Loop /\ todo[t] \in Seq(Adjustment) /\ todo'[t] \in Seq(Adjustment)
    BY Amounts DEF GateTypes
  <2>2. /\ ThreadRise(t, d) = Rise(at[t], todo[t], d)
        /\ ThreadRise(t, d)' = Rise(at'[t], todo'[t], d)
    BY <2>1 DEF ThreadRise
  <2>3. ThreadRise(t, d)' = 0 \/ ThreadRise(t, d)' = ThreadRise(t, d)
    BY <2>1, <2>2, RiseIs DEF Calm
  <2>4. ThreadRise(t, d) \in Nat /\ owed[d] \in Int
    BY <2>1, <2>2, RiseIs DEF GateTypes
  <2> QED BY <2>3, <2>4
<1>1. ASSUME NEW d \in Day
      PROVE  used'[d] - owed'[d] = (used[d] - owed[d]) + (ThreadClaim(t, d)' - ThreadClaim(t, d))
  <2>1. ThreadClaim(t, d) \in Int
    <3>1. t \in Thread /\ Claims(d) \in [Thread -> Int] /\ Claims(d)[t] = ThreadClaim(t, d)
      BY ClaimsAre, Amounts
    <3> QED BY <3>1
  <2>2. used[d] - owed[d] \in Int
    BY DEF GateTypes
  <2> QED BY <2>1, <2>2
<1> QED BY <1>1, <1>2, TaskMoves

\* A task that starts keeps its booking; one the caller cancelled gives it back.
LEMMA RunOneKeeps ==
  ASSUME GateInv, GateTypes', NEW t \in Task, RunOne(t), astray' \subseteq {"expired"}
  PROVE  Accounted'
<1>1. GateTypes /\ Accounted /\ t \in Thread /\ outer[t] \in Booking \union {Nothing}
  BY Amounts DEF GateInv, GateTypes
<1>2. CASE fut[t] = "cancelled"
  <2>1. /\ Goto(t, "submitted", "dropping") /\ Rollback(t, outer[t])
        /\ UNCHANGED <<used, seen, on, outer, inner, gate, truth>>
    BY <1>2 DEF RunOne
  <2>2. PICK what : Happens(what)
    BY <2>1 DEF Rollback
  <2>3. astray \subseteq {"expired"} /\ TaskFits(t)
    BY <1>1, <2>2, Regime DEF BookingsFit
  <2>4. /\ at[t] = "submitted" /\ at'[t] = "dropping" /\ \A q \in Thread \ {t} : at'[q] = at[q]
    BY <1>1, <2>1, GoesTo, Places
  <2>5. todo[t] = <<>>
    BY <2>3, <2>4 DEF TaskFits
  <2>6. /\ astray' = astray /\ IsSmall(todo'[t])
        /\ \A d \in Day : Pend(todo'[t], d) = IF Of(outer[t], d) THEN -outer[t].n ELSE 0
        /\ \A q \in Thread \ {t} : todo'[q] = todo[q]
    BY <1>1, <2>1, <2>5, RollbackClaims, RollbackTypes
  <2>7. TaskFits(t)'
    BY <2>1, <2>3, <2>4, <2>6 DEF TaskFits
  <2>8. ASSUME NEW d \in Day PROVE ThreadClaim(t, d)' = ThreadClaim(t, d)
    <3>1. Pend(todo[t], d) = 0 /\ (Of(outer[t], d) => outer[t].n = Ceiling)
      BY <2>3, <2>5, Pending DEF TaskFits, Of
    <3>2. ThreadClaim(t, d) = IF Of(outer[t], d) THEN Ceiling ELSE 0
      BY <2>4, <3>1, ClaimOfTask, Amounts DEF TaskClaim, TaskHolds
    <3>3. ThreadClaim(t, d)' = IF Of(outer[t], d) THEN Ceiling ELSE 0
      BY <2>1, <2>4, <2>6, <3>1, ClaimOfTask, Amounts DEF TaskClaim, TaskHolds
    <3> QED BY <3>2, <3>3
  <2> QED BY <1>1, <2>1, <2>3, <2>4, <2>6, <2>7, <2>8, TaskStays DEF Left, Calm, truth
<1>3. CASE fut[t] # "cancelled"
  <2>1. /\ Goto(t, "submitted", "working") /\ UNCHANGED <<todo, astray>>
        /\ UNCHANGED <<used, seen, on, outer, inner, gate, truth>>
    BY <1>3 DEF RunOne
  <2>2. astray \subseteq {"expired"} /\ TaskFits(t)
    BY <1>1, <2>1 DEF Accounted, BookingsFit
  <2>3. /\ at[t] = "submitted" /\ at'[t] = "working" /\ \A q \in Thread \ {t} : at'[q] = at[q]
    BY <1>1, <2>1, GoesTo, Places
  <2>4. TaskFits(t)'
    BY <2>1, <2>2, <2>3 DEF TaskFits
  <2>5. \A d \in Day : ThreadClaim(t, d)' = ThreadClaim(t, d)
    BY <2>1, <2>3, ClaimOfTask DEF TaskClaim, TaskHolds
  <2> QED BY <1>1, <2>1, <2>2, <2>3, <2>4, <2>5, TaskStays DEF Left, Calm, truth
<1> QED BY <1>2, <1>3

(* A cancelled task's release is written by the time its reservation goes. *)
LEMMA DroppedKeeps ==
  ASSUME GateInv, GateTypes', NEW t \in Task, Dropped(t), astray' \subseteq {"expired"}
  PROVE  Accounted'
<1>1. GateTypes /\ Accounted /\ t \in Thread
  BY Amounts DEF GateInv
<1>2. /\ Goto(t, "dropping", "over") /\ todo[t] = <<>> /\ outer' = [outer EXCEPT ![t] = Nothing]
      /\ UNCHANGED <<used, todo, seen, on, inner, truth, astray>>
  BY DEF Dropped, Settled, books
<1>3. /\ at[t] = "dropping" /\ at'[t] = "over" /\ \A q \in Thread \ {t} : at'[q] = at[q]
      /\ outer'[t] = Nothing /\ \A u \in Task \ {t} : outer'[u] = outer[u]
  BY <1>1, <1>2, GoesTo, Places DEF GateTypes
<1>4. TaskFits(t)'
  BY <1>2, <1>3 DEF TaskFits
<1>5. \A d \in Day : ThreadClaim(t, d)' = ThreadClaim(t, d)
  BY <1>2, <1>3, ClaimOfTask DEF TaskClaim, TaskHolds
<1> QED BY <1>1, <1>2, <1>3, <1>4, <1>5, TaskStays DEF Left, Calm, truth

(* So is a finished task's.                                                *)
LEMMA FinishKeeps ==
  ASSUME GateInv, GateTypes', NEW t \in Task, Finish(t), astray' \subseteq {"expired"}
  PROVE  Accounted'
<1>1. GateTypes /\ Accounted /\ t \in Thread
  BY Amounts DEF GateInv
<1>2. /\ Goto(t, "ending", "over") /\ todo[t] = <<>> /\ outer' = [outer EXCEPT ![t] = Nothing]
      /\ UNCHANGED <<used, todo, seen, on, inner, truth, astray>>
  BY DEF Finish, Settled, books
<1>3. /\ at[t] = "ending" /\ at'[t] = "over" /\ \A q \in Thread \ {t} : at'[q] = at[q]
      /\ outer'[t] = Nothing /\ \A u \in Task \ {t} : outer'[u] = outer[u]
  BY <1>1, <1>2, GoesTo, Places DEF GateTypes
<1>4. TaskFits(t)'
  BY <1>2, <1>3 DEF TaskFits
<1>5. \A d \in Day : ThreadClaim(t, d)' = ThreadClaim(t, d)
  BY <1>2, <1>3, ClaimOfTask DEF TaskClaim, TaskHolds
<1> QED BY <1>1, <1>2, <1>3, <1>4, <1>5, TaskStays DEF Left, Calm, truth

(* A model call begins to book what it may cost.                           *)
LEMMA AskKeeps ==
  ASSUME GateInv, GateTypes', NEW t \in Task, Ask(t), astray' \subseteq {"expired"}
  PROVE  Accounted'
<1>1. GateTypes /\ Accounted /\ t \in Thread /\ Estimate \in Int
  BY Amounts DEF GateInv
<1>2. /\ UNCHANGED <<used, on, outer, inner, owed, astray>> /\ at[t] = "working"
      /\ \A q \in Thread \ {t} : at'[q] = at[q]
  BY <1>1, GoesTo, Places DEF Ask, Goto
<1>3. astray \subseteq {"expired"} /\ TaskFits(t)
  BY <1>1, <1>2 DEF Accounted, BookingsFit
<1>4. todo[t] = <<>>
  BY <1>2, <1>3 DEF TaskFits
<1>5. CASE HasRoom(Estimate)
  <2>1. Goto(t, "working", "booking") /\ todo' = [todo EXCEPT ![t] = One(on[t], Estimate)]
    BY <1>5 DEF Ask, Book, One
  <2>2. /\ at'[t] = "booking" /\ todo'[t] = One(on[t], Estimate)
        /\ \A q \in Thread \ {t} : todo'[q] = todo[q]
    BY <1>1, <2>1, GoesTo, Places DEF GateTypes
  <2>3. TaskFits(t)'
    BY <1>2, <1>3, <2>2 DEF TaskFits
  <2>4. ASSUME NEW d \in Day PROVE ThreadClaim(t, d)' = ThreadClaim(t, d)
    <3>1. Pend(todo[t], d) = 0 /\ Pend(todo'[t], d) = IF on[t] = d THEN Estimate ELSE 0
      BY <1>1, <1>4, <2>2, Pending, PendingOne
    <3>2. ThreadClaim(t, d) = IF Of(outer[t], d) THEN Ceiling ELSE 0
      BY <1>2, <3>1, ClaimOfTask, Amounts DEF TaskClaim, TaskHolds
    <3>3. ThreadClaim(t, d)' = IF Of(outer[t], d) THEN Ceiling ELSE 0
      BY <1>2, <2>2, <3>1, ClaimOfTask, Amounts DEF TaskClaim, TaskHolds
    <3> QED BY <3>2, <3>3
  <2> QED BY <1>1, <1>2, <1>3, <2>2, <2>3, <2>4, TaskStays DEF Left, Calm
<1>6. CASE ~HasRoom(Estimate)
  <2>1. UNCHANGED <<at, todo>>
    BY <1>6 DEF Ask
  <2>2. TaskFits(t)' /\ \A d \in Day : ThreadClaim(t, d)' = ThreadClaim(t, d)
    BY <1>2, <1>3, <2>1, ClaimOfTask DEF TaskFits
  <2> QED BY <1>1, <1>2, <1>3, <2>1, <2>2, TaskStays DEF Left, Calm
<1> QED BY <1>5, <1>6

(* A model call goes ahead once its booking is written.                    *)
LEMMA ProceedKeeps ==
  ASSUME GateInv, GateTypes', NEW t \in Task, Proceed(t), astray' \subseteq {"expired"}
  PROVE  Accounted'
<1>1. GateTypes /\ Accounted /\ t \in Thread
  BY Amounts DEF GateInv
<1>2. /\ Goto(t, "booking", "calling") /\ todo[t] = <<>>
      /\ inner' = [inner EXCEPT ![t] = [day |-> on[t], n |-> Estimate]]
      /\ UNCHANGED <<used, todo, seen, on, outer, truth, astray>>
  BY DEF Proceed, Settled, books
<1>3. /\ at[t] = "booking" /\ at'[t] = "calling" /\ \A q \in Thread \ {t} : at'[q] = at[q]
      /\ inner'[t] = [day |-> on[t], n |-> Estimate] /\ \A u \in Task \ {t} : inner'[u] = inner[u]
  BY <1>1, <1>2, GoesTo, Places DEF GateTypes
<1>4. astray \subseteq {"expired"} /\ TaskFits(t)
  BY <1>1, <1>2 DEF Accounted, BookingsFit
<1>5. TaskFits(t)'
  BY <1>2, <1>3, <1>4 DEF TaskFits
<1>6. \A d \in Day : ThreadClaim(t, d)' = ThreadClaim(t, d)
  BY <1>2, <1>3, ClaimOfTask DEF TaskClaim, TaskHolds
<1> QED BY <1>1, <1>2, <1>3, <1>4, <1>5, <1>6, TaskStays DEF Left, Calm, truth

(* An answer is owed what the record is trued up to.                       *)
LEMMA ReplyKeeps ==
  ASSUME GateInv, GateTypes', NEW t \in Task, Answer(t), astray' \subseteq {"expired"}
  PROVE  Accounted'
<1>1. GateTypes /\ Accounted /\ t \in Thread /\ on[t] \in Day
  BY Amounts DEF GateInv, GateTypes
<1>2. PICK cost \in Costs[t], known \in BOOLEAN :
        /\ Bill(t, cost, IF known THEN cost ELSE Estimate)
        /\ TrueUp(t, inner[t], IF known THEN cost ELSE Nothing)
  BY DEF Answer
<1>3. PICK owes \in Nat : owes = IF known THEN cost ELSE Estimate
  BY Amounts
<1>4. PICK named \in Nat \union {Nothing} : named = IF known THEN cost ELSE Nothing
  BY Amounts
<1>5. /\ Goto(t, "calling", "settling") /\ Forget(t)
      /\ UNCHANGED <<used, seen, outer, inner>>
  BY DEF Answer
<1>6. PICK what : Happens(what)
  BY <1>2 DEF TrueUp
<1>7. astray \subseteq {"expired"} /\ "lost" \notin astray /\ TaskFits(t)
  BY <1>1, <1>6, Regime DEF BookingsFit
<1>8. /\ at[t] = "calling" /\ at'[t] = "settling" /\ \A q \in Thread \ {t} : at'[q] = at[q]
           /\ on'[q] = on[q]
  BY <1>1, <1>5, GoesTo, Places DEF Forget, GateTypes
<1>9. todo[t] = <<>> /\ inner[t] = [day |-> on[t], n |-> Estimate]
  BY <1>7, <1>8 DEF TaskFits
<1>10. /\ astray' = astray /\ (IsSmall(todo'[t]) \/ IsRise(todo'[t]))
       /\ \A d \in Day : Rise("settling", todo'[t], d) <= IF d = on[t]
            /\ named # Nothing THEN named ELSE 0
       /\ \A d \in Day : Pend(todo'[t], d) = IF d = on[t]
            /\ named # Nothing THEN named - Estimate ELSE 0
  BY <1>1, <1>2, <1>4, <1>9, TrueUpClaims
<1>11. \A q \in Thread \ {t} : todo'[q] = todo[q]
  <2>1. inner[t] \in Booking \union {Nothing}
    BY <1>1 DEF GateTypes
  <2> QED BY <1>1, <1>2, <1>4, <2>1, TrueUpTypes
<1>12. owed'[on[t]] = owed[on[t]] + owes /\ \A d \in Day \ {on[t]} : owed'[d] = owed[d]
  <2>1. cost \in Nat
    BY Amounts
  <2> QED BY <1>1, <1>2, <1>3, <1>7, <2>1, BillTypes
<1>13. TaskFits(t)'
  BY <1>5, <1>7, <1>8, <1>10 DEF TaskFits
<1>14. /\ known => named = cost /\ named # Nothing /\ owes = cost
       /\ ~known => named = Nothing /\ owes = Estimate
  <2>1. cost # Nothing
    BY Amounts
  <2> QED BY <1>3, <1>4, <2>1
<1>15. ASSUME NEW d \in Day
      PROVE  used'[d] - owed'[d] = (used[d] - owed[d]) + (ThreadClaim(t, d)' - ThreadClaim(t, d))
  <2>1. PICK o \in Nat : o = IF Of(outer[t], d) THEN Ceiling ELSE 0
    BY Amounts
  <2>2. Pend(todo[t], d) = 0
    BY <1>9, Pending
  <2>3. ThreadClaim(t, d) = o + (IF on[t] = d THEN Estimate ELSE 0)
    BY <1>8, <2>1, <2>2, ClaimOfTask, Amounts DEF TaskClaim, TaskHolds
  <2>4. ThreadClaim(t, d)' = o - Pend(todo'[t], d)
    BY <1>5, <1>8, <2>1, ClaimOfTask, Amounts DEF TaskClaim, TaskHolds
  <2>5. used'[d] = used[d] /\ used[d] \in Int /\ owed[d] \in Int /\ owed'[d] \in Int
    BY <1>1, <1>5 DEF GateTypes
  <2>6. CASE d = on[t]
    <3>1. Pend(todo'[t], d) = IF known THEN cost - Estimate ELSE 0
      BY <1>10, <1>14, <2>6
    <3>2. owed'[d] = owed[d] + owes /\ ThreadClaim(t, d) = o + Estimate
      BY <1>12, <2>3, <2>6
    <3>3. cost \in Int /\ Estimate \in Int /\ owes = IF known THEN cost ELSE Estimate
      BY <1>3, Amounts
    <3> QED BY <2>4, <2>5, <3>1, <3>2, <3>3
  <2>7. CASE d # on[t]
    <3>1. Pend(todo'[t], d) = 0 /\ owed'[d] = owed[d] /\ ThreadClaim(t, d) = o
      BY <1>10, <1>12, <2>3, <2>7
    <3> QED BY <2>4, <2>5, <3>1
  <2> QED BY <2>6, <2>7
<1>16. \A q \in Thread \ {t} : Left(q)
  BY <1>5, <1>8, <1>11 DEF Left
<1>17. ASSUME NEW d \in Day PROVE owed'[d] - owed[d] >= ThreadRise(t, d)' - ThreadRise(t, d)
  <2>1. ThreadRise(t, d) = 0 /\ ThreadRise(t, d)' = Rise("settling", todo'[t], d)
    BY <1>8, <1>9, Amounts DEF ThreadRise, Rise
  <2>2. /\ owed[d] \in Int /\ owed'[d] \in Int
        /\ Rise("settling", todo'[t], d) \in Nat
    <3>1. todo'[t] \in Seq(Adjustment) /\ owed[d] \in Int /\ owed'[d] \in Int
      BY <1>1 DEF GateTypes
    <3>2. Rise("settling", todo'[t], d) \in Nat
      BY <3>1, RiseIs, Zenon
    <3> QED BY <3>1, <3>2
  <2>3. owed'[d] = owed[d] + (IF d = on[t] THEN owes ELSE 0)
    BY <1>12, <2>2
  <2>4. Rise("settling", todo'[t], d) <= IF d = on[t] THEN owes ELSE 0
    BY <1>3, <1>10, <1>14, <2>2
  <2> QED BY <2>1, <2>2, <2>3, <2>4
<1> QED BY <1>1, <1>5, <1>7, <1>10, <1>13, <1>15, <1>16, <1>17, TaskMoves

(* A failed call owes nothing, and its booking is taken back.              *)
LEMMA FailedKeeps ==
  ASSUME GateInv, GateTypes', NEW t \in Task, Failed(t), astray' \subseteq {"expired"}
  PROVE  Accounted'
<1>1. GateTypes /\ Accounted /\ t \in Thread /\ inner[t] \in Booking \union {Nothing}
  BY Amounts DEF GateInv, GateTypes
<1>2. /\ Goto(t, "calling", "settling") /\ Forget(t) /\ Rollback(t, inner[t])
      /\ UNCHANGED <<used, seen, outer, inner>>
  BY DEF Failed
<1>3. PICK what : Happens(what)
  BY <1>2 DEF Rollback
<1>4. astray \subseteq {"expired"} /\ TaskFits(t)
  BY <1>1, <1>3, Regime DEF BookingsFit
<1>5. /\ at[t] = "calling" /\ at'[t] = "settling" /\ \A q \in Thread \ {t} : at'[q] = at[q]
           /\ on'[q] = on[q]
  BY <1>1, <1>2, GoesTo, Places DEF Forget, GateTypes
<1>6. todo[t] = <<>> /\ inner[t] = [day |-> on[t], n |-> Estimate] /\ inner[t] # Nothing
  BY <1>1, <1>4, <1>5, Amounts DEF TaskFits, GateTypes, Booking
<1>7. /\ astray' = astray /\ IsSmall(todo'[t])
      /\ \A d \in Day : Pend(todo'[t], d) = IF Of(inner[t], d) THEN -inner[t].n ELSE 0
      /\ \A q \in Thread \ {t} : todo'[q] = todo[q]
  BY <1>1, <1>2, <1>6, RollbackClaims, RollbackTypes
<1>8. TaskFits(t)'
  BY <1>2, <1>4, <1>5, <1>7 DEF TaskFits
<1>9. ASSUME NEW d \in Day PROVE ThreadClaim(t, d)' = ThreadClaim(t, d)
  <2>1. PICK o \in Nat : o = IF Of(outer[t], d) THEN Ceiling ELSE 0
    BY Amounts
  <2>2. Pend(todo[t], d) = 0 /\ Pend(todo'[t], d) = IF on[t] = d THEN -Estimate ELSE 0
    BY <1>6, <1>7, Pending DEF Of
  <2>3. ThreadClaim(t, d) = o + (IF on[t] = d THEN Estimate ELSE 0)
    BY <1>5, <2>1, <2>2, ClaimOfTask, Amounts DEF TaskClaim, TaskHolds
  <2>4. ThreadClaim(t, d)' = o - Pend(todo'[t], d)
    BY <1>2, <1>5, <2>1, ClaimOfTask, Amounts DEF TaskClaim, TaskHolds
  <2> QED BY <2>2, <2>3, <2>4, Amounts
<1>10. \A q \in Thread \ {t} : Left(q)
  BY <1>2, <1>5, <1>7 DEF Left
<1>11. owed' = owed
  <2>1. PICK cost \in Costs[t] \union {0} : Bill(t, cost, 0)
    BY DEF Failed
  <2>2. cost \in Nat /\ "lost" \notin astray /\ owed[on[t]] + 0 = owed[on[t]]
    <3>1. on[t] \in Day /\ "lost" \notin astray
      BY <1>1, <1>4, Amounts DEF GateTypes
    <3>2. owed[on[t]] \in Int
      BY <1>1, <3>1 DEF GateTypes
    <3>3. cost \in Nat
      BY Amounts
    <3> QED BY <3>1, <3>2, <3>3
  <2>3. \A d \in Day : owed'[d] = owed[d]
    BY <1>1, <2>1, <2>2, BillTypes
  <2> QED BY <1>1, <2>3 DEF GateTypes
<1> QED BY <1>1, <1>2, <1>4, <1>7, <1>8, <1>9, <1>10, <1>11, TaskStays DEF Calm

(* A broken call owes its estimate, which the record keeps.                *)
LEMMA BrokenKeeps ==
  ASSUME GateInv, GateTypes', NEW t \in Task, Broken(t), astray' \subseteq {"expired"}
  PROVE  Accounted'
<1>1. GateTypes /\ Accounted /\ t \in Thread /\ on[t] \in Day
  BY Amounts DEF GateInv, GateTypes
<1>2. /\ Goto(t, "calling", "settling") /\ Forget(t)
      /\ \E cost \in Costs[t] \union {0} : Bill(t, cost, Estimate)
      /\ UNCHANGED <<used, todo, seen, outer, inner, astray>>
  BY DEF Broken, books
<1>3. astray \subseteq {"expired"} /\ "lost" \notin astray /\ TaskFits(t)
  BY <1>1, <1>2 DEF Accounted, BookingsFit
<1>4. /\ at[t] = "calling" /\ at'[t] = "settling" /\ \A q \in Thread \ {t} : at'[q] = at[q]
           /\ on'[q] = on[q]
  BY <1>1, <1>2, GoesTo, Places DEF Forget, GateTypes
<1>5. todo[t] = <<>> /\ todo'[t] = <<>>
  BY <1>2, <1>3, <1>4 DEF TaskFits
<1>6. owed'[on[t]] = owed[on[t]] + Estimate /\ \A d \in Day \ {on[t]} : owed'[d] = owed[d]
  <2>1. PICK cost \in Costs[t] \union {0} : Bill(t, cost, Estimate)
    BY <1>2
  <2>2. cost \in Nat /\ Estimate \in Nat
    BY Amounts
  <2> QED BY <1>1, <1>3, <2>1, <2>2, BillTypes
<1>7. TaskFits(t)'
  <2>1. IsSmall(<<>>)
    BY DEF IsSmall
  <2> QED BY <1>2, <1>3, <1>4, <1>5, <2>1 DEF TaskFits
<1>8. ASSUME NEW d \in Day
      PROVE  used'[d] - owed'[d] = (used[d] - owed[d]) + (ThreadClaim(t, d)' - ThreadClaim(t, d))
  <2>1. PICK o \in Nat : o = IF Of(outer[t], d) THEN Ceiling ELSE 0
    BY Amounts
  <2>2. Pend(todo[t], d) = 0 /\ Pend(todo'[t], d) = 0
    BY <1>5, Pending
  <2>3. ThreadClaim(t, d) = o + (IF on[t] = d THEN Estimate ELSE 0)
    BY <1>4, <2>1, <2>2, ClaimOfTask, Amounts DEF TaskClaim, TaskHolds
  <2>4. ThreadClaim(t, d)' = o
    BY <1>2, <1>4, <2>1, <2>2, ClaimOfTask, Amounts DEF TaskClaim, TaskHolds
  <2>5. used'[d] = used[d] /\ used[d] \in Int /\ owed[d] \in Int /\ owed'[d] \in Int
    BY <1>1, <1>2 DEF GateTypes
  <2>6. owed'[d] = owed[d] + (IF on[t] = d THEN Estimate ELSE 0)
    BY <1>6, <2>5
  <2> QED BY <2>3, <2>4, <2>5, <2>6, Amounts
<1>9. \A q \in Thread \ {t} : Left(q)
  BY <1>2, <1>4 DEF Left
<1>10. ASSUME NEW d \in Day PROVE owed'[d] - owed[d] >= ThreadRise(t, d)' - ThreadRise(t, d)
  <2>1. ThreadRise(t, d) = 0 /\ ThreadRise(t, d)' = 0
    BY <1>5, Amounts DEF ThreadRise, Rise
  <2>2. owed[d] \in Nat /\ Estimate \in Nat
    <3>1. owed \in [Day -> Nat]
      BY <1>1 DEF GateTypes
    <3> QED BY <3>1, Amounts
  <2>3. owed'[d] = owed[d] + (IF on[t] = d THEN Estimate ELSE 0)
    BY <1>6, <2>2
  <2>4. PICK x \in Nat : x = IF on[t] = d THEN Estimate ELSE 0
    BY Amounts
  <2>5. owed'[d] = owed[d] + x
    BY <2>3, <2>4
  <2> QED BY <2>1, <2>2, <2>4, <2>5
<1> QED BY <1>1, <1>2, <1>3, <1>7, <1>8, <1>9, <1>10, TaskMoves

(* A call's reservation goes when its settlement is written.               *)
LEMMA RecordedKeeps ==
  ASSUME GateInv, GateTypes', NEW t \in Task, Recorded(t), astray' \subseteq {"expired"}
  PROVE  Accounted'
<1>1. GateTypes /\ Accounted /\ t \in Thread
  BY Amounts DEF GateInv
<1>2. /\ Goto(t, "settling", "working") /\ todo[t] = <<>> /\ inner' = [inner EXCEPT ![t] = Nothing]
      /\ UNCHANGED <<used, todo, seen, on, outer, truth, astray>>
  BY DEF Recorded, Settled, books
<1>3. /\ at[t] = "settling" /\ at'[t] = "working" /\ \A q \in Thread \ {t} : at'[q] = at[q]
      /\ \A u \in Task \ {t} : inner'[u] = inner[u]
  BY <1>1, <1>2, GoesTo, Places DEF GateTypes
<1>4. astray \subseteq {"expired"} /\ TaskFits(t)
  BY <1>1, <1>2 DEF Accounted, BookingsFit
<1>5. TaskFits(t)'
  BY <1>2, <1>3, <1>4 DEF TaskFits
<1>6. \A d \in Day : ThreadClaim(t, d)' = ThreadClaim(t, d)
  BY <1>2, <1>3, ClaimOfTask DEF TaskClaim, TaskHolds
<1> QED BY <1>1, <1>2, <1>3, <1>4, <1>5, <1>6, TaskStays DEF Left, Calm, truth

(* The task's own booking is to be taken back.                             *)
LEMMA ReleaseKeeps ==
  ASSUME GateInv, GateTypes', NEW t \in Task, ReleaseOuter(t), astray' \subseteq {"expired"}
  PROVE  Accounted'
<1>1. GateTypes /\ Accounted /\ t \in Thread /\ outer[t] \in Booking \union {Nothing}
  BY Amounts DEF GateInv, GateTypes
<1>2. /\ Goto(t, "working", "ending") /\ Rollback(t, outer[t])
      /\ UNCHANGED <<used, seen, on, outer, inner, truth>>
  BY DEF ReleaseOuter
<1>3. PICK what : Happens(what)
  BY <1>2 DEF Rollback
<1>4. astray \subseteq {"expired"} /\ TaskFits(t)
  BY <1>1, <1>3, Regime DEF BookingsFit
<1>5. at[t] = "working" /\ at'[t] = "ending" /\ \A q \in Thread \ {t} : at'[q] = at[q]
  BY <1>1, <1>2, GoesTo, Places
<1>6. todo[t] = <<>>
  BY <1>4, <1>5 DEF TaskFits
<1>7. /\ astray' = astray /\ IsSmall(todo'[t])
      /\ \A d \in Day : Pend(todo'[t], d) = IF Of(outer[t], d) THEN -outer[t].n ELSE 0
      /\ \A q \in Thread \ {t} : todo'[q] = todo[q]
  BY <1>1, <1>2, <1>6, RollbackClaims, RollbackTypes
<1>8. TaskFits(t)'
  BY <1>2, <1>4, <1>5, <1>7 DEF TaskFits
<1>9. ASSUME NEW d \in Day PROVE ThreadClaim(t, d)' = ThreadClaim(t, d)
  <2>1. Pend(todo[t], d) = 0 /\ (Of(outer[t], d) => outer[t].n = Ceiling)
    BY <1>4, <1>6, Pending DEF TaskFits, Of
  <2>2. ThreadClaim(t, d) = IF Of(outer[t], d) THEN Ceiling ELSE 0
    BY <1>5, <2>1, ClaimOfTask, Amounts DEF TaskClaim, TaskHolds
  <2>3. ThreadClaim(t, d)' = IF Of(outer[t], d) THEN Ceiling ELSE 0
    BY <1>2, <1>5, <1>7, <2>1, ClaimOfTask, Amounts DEF TaskClaim, TaskHolds
  <2> QED BY <2>2, <2>3
<1>10. \A q \in Thread \ {t} : Left(q)
  BY <1>2, <1>5, <1>7 DEF Left
<1> QED BY <1>1, <1>2, <1>4, <1>7, <1>8, <1>9, <1>10, TaskStays DEF Calm, truth

(* A future given up moves no booking.                                     *)
LEMMA CancelKeeps ==
  ASSUME GateInv, GateTypes', NEW t \in Task, Cancel(t), astray' \subseteq {"expired"}
  PROVE  Accounted'
<1>1. GateTypes /\ Accounted /\ t \in Thread
  BY Amounts DEF GateInv
<1>2. UNCHANGED <<used, todo, seen, at, on, outer, inner, truth, astray>>
  BY DEF Cancel, books
<1>3. astray \subseteq {"expired"} /\ TaskFits(t)
  BY <1>1, <1>2 DEF Accounted, BookingsFit
<1>4. TaskFits(t)' /\ \A d \in Day : ThreadClaim(t, d)' = ThreadClaim(t, d)
  BY <1>2, <1>3, ClaimOfTask DEF TaskFits
<1> QED BY <1>1, <1>2, <1>3, <1>4, TaskStays DEF Left, Calm, truth

(* The tasks' expiry takes a claim away, and leaves the record as it is.   *)
LEMMA ExpireKeeps ==
  ASSUME GateInv, GateTypes', NEW t \in Task, Expire(t), astray' \subseteq {"expired"}
  PROVE  Accounted'
<1>1. GateTypes /\ Accounted /\ t \in Thread
  BY Amounts DEF GateInv
<1>2. /\ astray = {} /\ astray' = {"expired"} /\ at[t] = "working" /\ outer[t] # Nothing
      /\ outer' = [outer EXCEPT ![t] = Nothing]
      /\ UNCHANGED <<used, todo, seen, at, on, inner, truth>>
  BY DEF Expire, Happens, books
<1>3. BookingsFit /\ \A d \in Day : Balanced(d) /\ Covered(d)
  BY <1>1, <1>2 DEF Accounted
<1>4. outer'[t] = Nothing /\ \A u \in Task \ {t} : outer'[u] = outer[u]
  BY <1>1, <1>2 DEF GateTypes
<1>5. BookingsFit'
  <2>1. LoopFits'
    BY <1>2, <1>3 DEF BookingsFit, LoopFits
  <2>2. ASSUME NEW u \in Task PROVE TaskFits(u)'
    BY <1>2, <1>3, <1>4 DEF BookingsFit, TaskFits
  <2> QED BY <2>1, <2>2 DEF BookingsFit
<1>6. ASSUME NEW d \in Day PROVE Balanced(d)'
  <2> DEFINE f == Claims(d)
             h == Claims(d)'
  <2>1. f \in [Thread -> Int] /\ h \in [Thread -> Int] /\ f[t] = ThreadClaim(t, d)
          /\ h[t] = ThreadClaim(t, d)'
    BY <1>1, ClaimsAre, ClaimsWillBe
  <2>2. \A q \in Thread \ {t} : Left(q)
    BY <1>2, <1>4 DEF Left
  <2>3. \A q \in Thread : q # t => h[q] = f[q]
    BY <1>1, <2>2, LeftClaims, ClaimsAre, ClaimsWillBe
  <2>4. h[t] <= f[t]
    <3>1. PICK x \in Int : x = Pend(todo[t], d)
      <4>1. todo[t] \in Seq(Adjustment)
        BY <1>1 DEF GateTypes
      <4> QED BY <4>1, ClaimByIsInt
    <3>2. ThreadClaim(t, d) = (IF Of(outer[t], d) THEN Ceiling ELSE 0) - x
      BY <1>2, <3>1, ClaimOfTask, Amounts DEF TaskClaim, TaskHolds
    <3>3. ThreadClaim(t, d)' = 0 - x
      BY <1>2, <1>4, <3>1, ClaimOfTask, Amounts DEF TaskClaim, TaskHolds, Of
    <3> QED BY <2>1, <3>2, <3>3, Amounts
  <2>5. used[d] \in Int /\ owed[d] \in Int /\ used'[d] = used[d] /\ owed'[d] = owed[d]
    BY <1>1, <1>2 DEF GateTypes, truth
  <2>6. Balance(used[d], owed[d], f, astray = {})
    BY <1>3 DEF Balanced
  <2> HIDE DEF f, h
  <2>7. PICK u \in Int, w \in Int : u = used[d] /\ w = owed[d]
    BY <2>5
  <2>8. u - w >= (u - w) + (h[t] - f[t])
    <3>1. PICK x \in Int, y \in Int : x = h[t] /\ y = f[t] /\ x <= y
      BY <1>1, <2>1, <2>4
    <3>2. u - w >= (u - w) + (x - y)
      BY <3>1
    <3> QED BY <3>1, <3>2
  <2>9. Balance(u, w, f, astray = {})
    BY <2>6, <2>7
  <2> DEFINE e == astray = {}
             e2 == FALSE
  <2>10. Balance(u, w, f, e) /\ (e2 => e /\ u - w = (u - w) + (h[t] - f[t]))
    BY <2>9
  <2> HIDE DEF e, e2
  <2>11. Balance(u, w, h, e2)
    BY <1>1, <2>1, <2>3, <2>8, <2>10, BalanceMoves
  <2>12. Balance(used[d], owed[d], h, FALSE)
    BY <2>7, <2>11 DEF e2
  <2> QED BY <1>2, <2>5, <2>12 DEF Balanced, Balance, h
<1>7. \A d \in Day : Covered(d)'
  BY <1>2, <1>3, CoverStays DEF ThreadRise, truth
<1> QED BY <1>5, <1>6, <1>7 DEF Accounted

------------------------------------------------------------------------------
(* The loop's steps.                                                       *)

\* The loop's claim, written out.
LEMMA ClaimOfLoop ==
  ASSUME NEW d
  PROVE  /\ ThreadClaim(Loop, d) = (IF at[Loop] \in Gated
                                    /\ on[Loop] = d THEN Ceiling ELSE 0) - Pend(todo[Loop], d)
         /\ ThreadClaim(Loop, d)' = (IF at'[Loop] \in Gated /\ on'[Loop] = d THEN Ceiling ELSE 0)
                                - Pend(todo'[Loop], d)
<1>1. ASSUME NEW a, NEW o, NEW b, NEW q
      PROVE  ClaimBy(Loop, a, o, b, q, d) = (IF a \in Gated
                                             /\ o = d THEN Ceiling ELSE 0) - Pend(q, d)
  <2>1. HeldBy(Loop, a, o, b, d) = IF a \in Gated /\ o = d THEN Ceiling ELSE 0
    BY DEF HeldBy
  <2> QED BY <2>1 DEF ClaimBy
<1>2. ThreadClaim(Loop, d) = ClaimBy(Loop, at[Loop], on[Loop], Nothing, todo[Loop], d)
  BY DEF ThreadClaim, OuterOf
<1>3. ThreadClaim(Loop, d)' = ClaimBy(Loop, at'[Loop], on'[Loop], Nothing, todo'[Loop], d)
  BY DEF ThreadClaim, OuterOf
<1> QED BY <1>1, <1>2, <1>3

(* A step of the loop that leaves the record, the tasks and the loop's claim as they are. *)
LEMMA LoopStays ==
  ASSUME GateTypes, GateTypes', Accounted, astray \subseteq {"expired"}, astray' = astray,
         \A q \in Task : Left(q), inner' = inner, LoopFits', used' = used, owed' = owed,
         \A d \in Day : ThreadClaim(Loop, d)' = ThreadClaim(Loop, d)
  PROVE  Accounted'
<1>1. BookingsFit /\ \A d \in Day : Balanced(d) /\ Covered(d)
  BY DEF Accounted
<1>2. ASSUME NEW u \in Task PROVE TaskFits(u)'
  <2>1. TaskFits(u) /\ Left(u)
    BY <1>1 DEF BookingsFit
  <2> QED BY <2>1 DEF Left, TaskFits
<1>3. ASSUME NEW d \in Day PROVE Balanced(d)'
  <2>1. ASSUME NEW q \in Thread PROVE ThreadClaim(q, d)' = ThreadClaim(q, d)
    <3>1. q = Loop \/ q \in Task
      BY Amounts
    <3> QED BY <3>1, LeftClaims
  <2> QED BY <1>1, <2>1, Stays
<1>4. ASSUME NEW d \in Day PROVE Covered(d)'
  <2>1. ASSUME NEW q \in Thread PROVE ThreadRise(q, d)' = ThreadRise(q, d)
    <3>1. CASE q = Loop
      BY <3>1 DEF ThreadRise
    <3>2. CASE q \in Task
      BY <3>2, LeftRises
    <3> QED BY <3>1, <3>2, Amounts
  <2> QED BY <1>1, <2>1, CoverStays
<1> QED BY <1>2, <1>3, <1>4 DEF Accounted, BookingsFit

\* A place of the loop's own is no task.
LEMMA Words == ASSUME NEW w \in {"scan", "full", "sleep", "over"} PROVE w \notin Gated
  BY Amounts

\* The loop turns from one place of its own to another with the record untouched.
LEMMA LoopTurns ==
  ASSUME GateInv, GateTypes', NEW from \in {"scan", "full", "sleep", "over"},
         NEW to \in {"scan", "full", "sleep", "over"}, Goto(Loop, from, to),
         UNCHANGED <<used, todo, on, outer, inner, owed, astray>>, astray' \subseteq {"expired"}
  PROVE  Accounted'
<1>1. GateTypes /\ Accounted /\ Loop \in Thread /\ Loop \notin Task /\ to \in Place
  BY Amounts, Places DEF GateInv
<1>2. astray \subseteq {"expired"} /\ LoopFits
  BY <1>1 DEF Accounted, BookingsFit
<1>3. at[Loop] = from /\ at'[Loop] = to /\ \A q \in Thread \ {Loop} : at'[q] = at[q]
  BY <1>1, GoesTo
<1>4. at[Loop] \notin Gated /\ at'[Loop] \notin Gated
  BY <1>3, Words
<1>5. LoopFits'
  BY <1>2, <1>4 DEF LoopFits
<1>6. \A d \in Day : ThreadClaim(Loop, d)' = ThreadClaim(Loop, d)
  BY <1>4, ClaimOfLoop
<1>7. \A q \in Task : Left(q)
  BY <1>1, <1>3, Amounts DEF Left
<1> QED BY <1>1, <1>2, <1>5, <1>6, <1>7, LoopStays

(* The loop begins to book a task's ceiling, or passes the task by.        *)
LEMMA AdmitKeeps ==
  ASSUME GateInv, GateTypes', NEW t \in Task, Admit(t), astray' \subseteq {"expired"}
  PROVE  Accounted'
<1>1. GateTypes /\ Accounted /\ Loop \in Thread /\ Loop \notin Task /\ Ceiling \in Int
  BY Amounts DEF GateInv
<1>2. /\ UNCHANGED <<used, on, outer, inner, owed, astray>> /\ at[Loop] = "scan" /\ t \in Gated
      /\ \A q \in Thread \ {Loop} : at'[q] = at[q]
  BY <1>1, GoesTo, Places DEF Admit, Goto, truth
<1>3. astray \subseteq {"expired"} /\ LoopFits
  BY <1>1, <1>2 DEF Accounted, BookingsFit
<1>4. todo[Loop] = <<>> /\ at[Loop] \notin Gated
  BY <1>2, <1>3, Words DEF LoopFits
<1>5. CASE HasRoom(Ceiling)
  <2>1. Goto(Loop, "scan", t) /\ todo' = [todo EXCEPT ![Loop] = One(on[Loop], Ceiling)]
    BY <1>5 DEF Admit, Book, One
  <2>2. /\ at'[Loop] = t /\ todo'[Loop] = One(on[Loop], Ceiling)
        /\ \A q \in Thread \ {Loop} : todo'[q] = todo[q]
    BY <1>1, <1>2, <2>1, GoesTo, Places DEF GateTypes
  <2>3. LoopFits'
    BY <1>2, <2>2 DEF LoopFits
  <2>4. ASSUME NEW d \in Day PROVE ThreadClaim(Loop, d)' = ThreadClaim(Loop, d)
    <3>1. Pend(todo[Loop], d) = 0 /\ Pend(todo'[Loop], d) = IF on[Loop] = d THEN Ceiling ELSE 0
      BY <1>1, <1>4, <2>2, Pending, PendingOne
    <3>2. ThreadClaim(Loop, d) = 0 /\ ThreadClaim(Loop, d)' = 0
      BY <1>2, <1>4, <2>2, <3>1, ClaimOfLoop, Amounts
    <3> QED BY <3>2
  <2>5. \A q \in Task : Left(q)
    BY <1>2, <2>2, Amounts DEF Left
  <2> QED BY <1>1, <1>2, <1>3, <2>3, <2>4, <2>5, LoopStays
<1>6. CASE ~HasRoom(Ceiling)
  <2>1. UNCHANGED <<at, todo>>
    BY <1>6 DEF Admit
  <2>2. LoopFits' /\ (\A d \in Day : ThreadClaim(Loop, d)' = ThreadClaim(Loop, d))
          /\ \A q \in Task : Left(q)
    BY <1>2, <1>3, <2>1, ClaimOfLoop DEF LoopFits, Left
  <2> QED BY <1>1, <1>2, <1>3, <2>2, LoopStays
<1> QED BY <1>5, <1>6

(* What a task's start changes.                                            *)
LEMMA Started ==
  ASSUME GateTypes, PlacesFit, BookingsFit, NEW t \in left, NEW b \in Booking \union {Nothing},
         Submit(t, b)
  PROVE  /\ t \in Task /\ t \in Thread /\ t # Loop /\ at[t] = "waiting" /\ todo[t] = <<>>
         /\ at'[Loop] = "scan" /\ at'[t] = "submitted"
              /\ \A q \in Thread \ {Loop, t} : at'[q] = at[q]
         /\ outer'[t] = b /\ \A u \in Task \ {t} : outer'[u] = outer[u]
         /\ \A q \in Thread \ {Loop} : on'[q] = on[q]
<1>1. t \in Task /\ t \in pending /\ t \in Thread /\ t # Loop /\ Loop \in Thread
  BY Amounts DEF GateTypes
<1>2. at[t] = "waiting" /\ TaskFits(t)
  BY <1>1 DEF PlacesFit, BookingsFit
<1>3. todo[t] = <<>>
  BY <1>2 DEF TaskFits
<1>4. at'[Loop] = "scan" /\ at'[t] = "submitted" /\ \A q \in Thread \ {Loop, t} : at'[q] = at[q]
  BY <1>1 DEF Submit, GateTypes
<1>5. outer'[t] = b /\ \A u \in Task \ {t} : outer'[u] = outer[u]
  BY <1>1 DEF Submit, GateTypes
<1>6. \A q \in Thread \ {Loop} : on'[q] = on[q]
  BY <1>1 DEF Submit, Forget, GateTypes
<1> QED BY <1>1, <1>2, <1>3, <1>4, <1>5, <1>6

(* The bookings fit when a task starts, with what the loop booked for it.  *)
LEMMA StartFits ==
  ASSUME GateTypes, PlacesFit, BookingsFit, NEW t \in left, NEW b \in Booking \union {Nothing},
         Submit(t, b),
         b = Nothing \/ b.n = Ceiling, todo[Loop] = <<>>, UNCHANGED <<todo, inner>>
  PROVE  BookingsFit'
<1>1. LoopFits'
  BY DEF LoopFits
<1>2. ASSUME NEW u \in Task PROVE TaskFits(u)'
  <2>1. TaskFits(u) /\ u \in Thread /\ u # Loop
    BY Amounts DEF BookingsFit
  <2>2. CASE u = t
    <3>1. at'[u] = "submitted" /\ todo'[u] = <<>> /\ outer'[u] = b
      BY <2>2, Started
    <3> QED BY <3>1 DEF TaskFits
  <2>3. CASE u # t
    <3>1. at'[u] = at[u] /\ on'[u] = on[u] /\ outer'[u] = outer[u] /\ todo'[u] = todo[u]
            /\ inner'[u] = inner[u]
      BY <2>1, <2>3, Started
    <3> QED BY <2>1, <3>1 DEF TaskFits
  <2> QED BY <2>2, <2>3
<1> QED BY <1>1, <1>2 DEF BookingsFit

\* A task that starts adds nothing to the record.
LEMMA StartAddsNothing ==
  ASSUME NEW t \in Task, at[t] = "waiting", at'[t] = "submitted", UNCHANGED <<todo, owed>>,
         \A q \in Thread \ {Loop, t} : at'[q] = at[q], NEW d \in Day, Covered(d)
  PROVE  Covered(d)'
<1>1. ASSUME NEW q \in Thread PROVE ThreadRise(q, d)' = ThreadRise(q, d)
  BY DEF ThreadRise, Rise
<1> QED BY <1>1, CoverStays

(* A task without a step is admitted with no booking.                      *)
LEMMA AdmitFreeKeeps ==
  ASSUME GateInv, GateTypes', NEW t \in Task, AdmitFree(t), astray' \subseteq {"expired"}
  PROVE  Accounted'
<1>1. GateTypes /\ PlacesFit /\ Accounted /\ t \in left /\ Nothing \in Booking \union {Nothing}
  BY DEF GateInv, AdmitFree
<1>2. /\ Submit(t, Nothing) /\ at[Loop] = "scan"
      /\ UNCHANGED <<used, todo, inner, owed, astray>>
  BY DEF AdmitFree, books, truth
<1>3. astray \subseteq {"expired"} /\ BookingsFit /\ \A d \in Day : Balanced(d) /\ Covered(d)
  BY <1>1, <1>2 DEF Accounted
<1>4. at[Loop] \notin Gated /\ "scan" \notin Gated
  BY <1>2, Words
<1>5. todo[Loop] = <<>>
  BY <1>3, <1>4 DEF BookingsFit, LoopFits
<1>6. BookingsFit'
  BY <1>1, <1>2, <1>3, <1>5, StartFits
<1>7. /\ t \in Task /\ t \in Thread /\ t # Loop /\ at[t] = "waiting" /\ todo[t] = <<>>
      /\ at'[Loop] = "scan" /\ at'[t] = "submitted" /\ \A q \in Thread \ {Loop, t} : at'[q] = at[q]
      /\ outer'[t] = Nothing /\ \A u \in Task \ {t} : outer'[u] = outer[u]
      /\ \A q \in Thread \ {Loop} : on'[q] = on[q]
  BY <1>1, <1>2, <1>3, Started
<1>8. ASSUME NEW d \in Day, NEW q \in Thread PROVE ThreadClaim(q, d)' = ThreadClaim(q, d)
  <2>1. CASE q = Loop
    BY <1>2, <1>4, <1>7, <2>1, ClaimOfLoop
  <2>2. CASE q = t
    <3>1. ThreadClaim(t, d) = 0
      BY <1>7, ClaimOfTask, Pending DEF TaskClaim, TaskHolds
    <3>2. ThreadClaim(t, d)' = 0
      BY <1>2, <1>7, ClaimOfTask, Pending DEF TaskClaim, TaskHolds, Of
    <3> QED BY <2>2, <3>1, <3>2
  <2>3. CASE q # Loop /\ q # t
    <3>1. Left(q)
      BY <1>2, <1>7, <2>3 DEF Left
    <3> QED BY <3>1, LeftClaims
  <2> QED BY <2>1, <2>2, <2>3
<1>9. \A d \in Day : Balanced(d)'
  BY <1>1, <1>2, <1>3, <1>8, Stays
<1>10. \A d \in Day : Covered(d)'
  BY <1>2, <1>3, <1>7, StartAddsNothing
<1> QED BY <1>6, <1>9, <1>10 DEF Accounted

(* What the loop booked for a task is the task's from its start on.        *)
LEMMA AdmittedKeeps ==
  ASSUME GateInv, GateTypes', NEW t \in Task, Admitted(t), astray' \subseteq {"expired"}
  PROVE  Accounted'
<1> DEFINE b == [day |-> on[Loop], n |-> Ceiling]
<1>1. /\ GateTypes /\ PlacesFit /\ Accounted /\ b \in Booking /\ b # Nothing /\ Loop \in Thread
      /\ t \notin {"scan", "full", "sleep", "over"}
  <2>1. on[Loop] \in Day /\ Nothing \notin Booking
    BY Amounts DEF GateInv, GateTypes
  <2> QED BY <2>1, Amounts DEF GateInv, Booking
<1>2. /\ Submit(t, b) /\ at[Loop] = t /\ todo[Loop] = <<>>
      /\ UNCHANGED <<used, todo, inner, owed, astray>>
  BY DEF Admitted, Settled, books, truth
<1>3. t \in left /\ t \in Gated
  BY <1>1, <1>2 DEF PlacesFit
<1>4. astray \subseteq {"expired"} /\ BookingsFit /\ \A d \in Day : Balanced(d) /\ Covered(d)
  BY <1>1, <1>2 DEF Accounted
<1>5. BookingsFit'
  BY <1>1, <1>2, <1>3, <1>4, StartFits
<1>6. /\ t \in Task /\ t \in Thread /\ t # Loop /\ at[t] = "waiting" /\ todo[t] = <<>>
      /\ at'[Loop] = "scan" /\ at'[t] = "submitted" /\ \A q \in Thread \ {Loop, t} : at'[q] = at[q]
      /\ outer'[t] = b /\ \A u \in Task \ {t} : outer'[u] = outer[u]
      /\ \A q \in Thread \ {Loop} : on'[q] = on[q]
  BY <1>1, <1>2, <1>3, <1>4, Started
<1>7. ASSUME NEW d \in Day PROVE Balanced(d)'
  <2> DEFINE f == Claims(d)
             h == Claims(d)'
             c == IF on[Loop] = d THEN Ceiling ELSE 0
             m == [f EXCEPT ![Loop] = h[Loop]]
             e == astray = {}
  <2>2. f \in [Thread -> Int] /\ h \in [Thread -> Int]
          /\ \A q \in Thread : f[q] = ThreadClaim(q, d) /\ h[q] = ThreadClaim(q, d)'
    BY <1>1, ClaimsAre, ClaimsWillBe
  <2>3. f[Loop] = c /\ h[Loop] = 0
    <3>1. "scan" \notin Gated
      BY Words
    <3>2. ThreadClaim(Loop, d) = c
      BY <1>2, <1>3, ClaimOfLoop, Pending, Amounts
    <3>3. ThreadClaim(Loop, d)' = 0
      BY <1>2, <1>6, <3>1, ClaimOfLoop, Pending, Amounts
    <3> QED BY <1>1, <2>2, <3>2, <3>3
  <2>4. f[t] = 0 /\ h[t] = c
    <3>1. ThreadClaim(t, d) = 0
      BY <1>6, ClaimOfTask, Pending DEF TaskClaim, TaskHolds
    <3>2. Of(b, d) <=> on[Loop] = d
      BY <1>1 DEF Of
    <3>3. ThreadClaim(t, d)' = c
      <4>1. ThreadClaim(t, d)' = TaskClaim("submitted", on'[t], b, Pend(<<>>, d), d)
        BY <1>2, <1>6, ClaimOfTask
      <4>2. TaskHolds("submitted", on'[t], b, d) = c + 0
        BY <3>2 DEF TaskHolds
      <4> QED BY <4>1, <4>2, Pending, Amounts DEF TaskClaim
    <3> QED BY <1>6, <2>2, <3>1, <3>3
  <2>5. \A q \in Thread \ {Loop, t} : h[q] = f[q]
    <3>1. \A q \in Thread \ {Loop, t} : Left(q)
      BY <1>2, <1>6 DEF Left
    <3> QED BY <2>2, <3>1, LeftClaims
  <2>6. PICK u \in Int, w \in Int : u = used[d] /\ w = owed[d] /\ u = used'[d] /\ w = owed'[d]
    BY <1>1, <1>2 DEF GateTypes
  <2>7. Balance(u, w, f, e)
    BY <1>4, <2>6 DEF Balanced
  <2>8. c \in Int
    BY Amounts
  <2> HIDE DEF f, h, c, e
  <2>9. m \in [Thread -> Int] /\ m[Loop] = 0 /\ \A q \in Thread : q # Loop => m[q] = f[q]
    BY <1>1, <2>2, <2>3
  <2> HIDE DEF m
  <2>1. PICK z \in Int : z = u - c
    BY <2>8
  <2>10. z - w = (u - w) + (m[Loop] - f[Loop])
    BY <2>1, <2>3, <2>8, <2>9
  <2>11. z - w >= (u - w) + (m[Loop] - f[Loop])
    BY <2>10
  <2>12. Balance(z, w, m, e)
    BY <1>1, <2>2, <2>7, <2>9, <2>10, <2>11, BalanceMoves
  <2>13. m[t] = 0 /\ \A q \in Thread : q # t => h[q] = m[q]
    BY <1>6, <2>3, <2>4, <2>5, <2>9
  <2>14. u - w = (z - w) + (h[t] - m[t])
    BY <2>1, <2>4, <2>8, <2>13
  <2>15. u - w >= (z - w) + (h[t] - m[t])
    BY <2>14
  <2>16. Balance(u, w, h, e)
    BY <1>6, <2>2, <2>9, <2>10, <2>12, <2>13, <2>14, <2>15, BalanceMoves
  <2> QED BY <1>2, <2>6, <2>16 DEF Balanced, e, h
<1>8. \A d \in Day : Covered(d)'
  BY <1>2, <1>4, <1>6, StartAddsNothing
<1> QED BY <1>5, <1>7, <1>8 DEF Accounted

------------------------------------------------------------------------------
(* The ledger's adjustments.                                               *)

(* Nobody claims less than nothing of a day, but for what is to be added.  *)
LEMMA LoopClaimIsNat ==
  ASSUME NEW a, NEW o, NEW q, NEW d, q # <<>> => a \in Gated /\ q = One(o, Ceiling)
  PROVE  ClaimBy(Loop, a, o, Nothing, q, d) >= 0
<1>1. HeldBy(Loop, a, o, Nothing, d) = IF a \in Gated /\ o = d THEN Ceiling ELSE 0
  BY DEF HeldBy
<1>2. Ceiling \in Int /\ Ceiling >= 0
  BY Amounts
<1>3. CASE q = <<>>
  BY <1>1, <1>2, <1>3, Pending DEF ClaimBy
<1>4. CASE q # <<>>
  BY <1>1, <1>2, <1>4, PendingOne DEF ClaimBy
<1> QED BY <1>3, <1>4

(* A task does not claim less than what it has to add.                     *)
LEMMA TaskClaimIsNat ==
  ASSUME NEW a, NEW o, NEW b, NEW q \in Seq(Adjustment), NEW d,
         \/ q = <<>> \/ IsSmall(q) \/ (a = "booking" /\ q = One(o, Estimate))
         \/ a = "settling" /\ IsRise(q)
  PROVE  TaskClaim(a, o, b, Pend(q, d), d) + Rise(a, q, d) >= 0
<1>1. PICK c \in Nat : c = IF a \in {"submitted", "working", "booking", "calling", "settling"}
             /\ Of(b, d)
                            THEN Ceiling ELSE 0
  BY Amounts
<1>2. PICK e \in Nat : e = IF a \in {"booking", "calling"} /\ o = d THEN Estimate ELSE 0
  BY Amounts
<1>3. TaskHolds(a, o, b, d) = c + e
  BY <1>1, <1>2 DEF TaskHolds
<1>4. PICK x \in Int, y \in Nat : x = Pend(q, d) /\ y = Rise(a, q, d)
  BY ClaimByIsInt, RiseIs
<1>5. x <= e + y
  <2>1. CASE q = <<>>
    BY <1>2, <1>4, <2>1, Pending
  <2>2. CASE IsSmall(q)
    BY <1>2, <1>4, <2>2, PendingIsSmall
  <2>3. CASE a = "booking" /\ q = One(o, Estimate)
    <3>1. Pend(q, d) = IF o = d THEN Estimate ELSE 0
      BY <2>3, PendingOne, Amounts
    <3> QED BY <1>2, <1>4, <2>3, <3>1
  <2>4. CASE a = "settling" /\ IsRise(q)
    <3>1. y = IF q[1].day = d THEN q[1].delta ELSE 0
      BY <1>4, <2>4, RiseIs
    <3>2. Part(q, 1, d) = y /\ Part(q, 2, d) = 0
      <4>1. 1 \in DOMAIN q /\ 2 \notin DOMAIN q
        BY <2>4 DEF IsRise
      <4> QED BY <3>1, <4>1 DEF Part
    <3> QED BY <1>4, <3>2 DEF Pend
  <2> QED BY <2>1, <2>2, <2>3, <2>4
<1> QED BY <1>3, <1>4, <1>5 DEF TaskClaim

(* No thread claims less than it has to add.                               *)
LEMMA ClaimsAreNat ==
  ASSUME GateTypes, BookingsFit, NEW d, NEW p \in Thread
  PROVE  ThreadClaim(p, d) + ThreadRise(p, d) >= 0
<1>1. CASE p = Loop
  <2>1. ThreadClaim(Loop, d) = ClaimBy(Loop, at[Loop], on[Loop], Nothing, todo[Loop], d)
    BY DEF ThreadClaim, OuterOf
  <2>2. ThreadClaim(Loop, d) >= 0 /\ ThreadRise(Loop, d) = 0
    BY <2>1, LoopClaimIsNat DEF BookingsFit, LoopFits, ThreadRise
  <2>3. ThreadClaim(Loop, d) \in Int
    BY <1>1, ClaimsAre
  <2> QED BY <1>1, <2>2, <2>3
<1>2. CASE p # Loop
  <2>1. p \in Task /\ TaskFits(p) /\ todo[p] \in Seq(Adjustment)
    BY <1>2, Amounts DEF GateTypes, BookingsFit
  <2>2. \/ todo[p] = <<>> \/ IsSmall(todo[p]) \/ (at[p] = "booking" /\ todo[p] = One(on[p], Estimate))
        \/ at[p] = "settling" /\ IsRise(todo[p])
    BY <2>1 DEF TaskFits
  <2>3. ThreadRise(p, d) = Rise(at[p], todo[p], d)
    BY <1>2 DEF ThreadRise
  <2> QED BY <2>1, <2>2, <2>3, ClaimOfTask, TaskClaimIsNat
<1> QED BY <1>1, <1>2

(* The same of the next state.                                             *)
LEMMA ClaimsWillBeNat ==
  ASSUME GateTypes', BookingsFit', NEW d, NEW p \in Thread
  PROVE  ThreadClaim(p, d)' + ThreadRise(p, d)' >= 0
<1>1. CASE p = Loop
  <2>1. ThreadClaim(Loop, d)' = ClaimBy(Loop, at'[Loop], on'[Loop], Nothing, todo'[Loop], d)
    BY DEF ThreadClaim, OuterOf
  <2>2. ThreadClaim(Loop, d)' >= 0 /\ ThreadRise(Loop, d)' = 0
    BY <2>1, LoopClaimIsNat DEF BookingsFit, LoopFits, ThreadRise
  <2>3. ThreadClaim(Loop, d)' \in Int
    BY <1>1, ClaimsWillBe
  <2> QED BY <1>1, <2>2, <2>3
<1>2. CASE p # Loop
  <2>1. p \in Task /\ TaskFits(p)' /\ todo'[p] \in Seq(Adjustment)
    BY <1>2, Amounts DEF GateTypes, BookingsFit
  <2>2. \/ todo'[p] = <<>> \/ IsSmall(todo'[p])
        \/ at'[p] = "booking" /\ todo'[p] = One(on'[p], Estimate)
        \/ at'[p] = "settling" /\ IsRise(todo'[p])
    BY <2>1 DEF TaskFits
  <2>3. ThreadRise(p, d)' = Rise(at'[p], todo'[p], d)
    BY <1>2 DEF ThreadRise
  <2> QED BY <2>1, <2>2, <2>3, ClaimOfTask, TaskClaimIsNat
<1> QED BY <1>1, <1>2

(* A read of the record changes none of it.                                *)
LEMMA AdjustReadKeeps ==
  ASSUME GateInv, GateTypes', NEW p \in Thread, AdjustRead(p), astray' \subseteq {"expired"}
  PROVE  Accounted'
<1>1. GateTypes /\ Accounted
  BY DEF GateInv
<1>2. UNCHANGED <<used, todo, at, on, outer, inner, owed, astray>>
  BY DEF AdjustRead, truth
<1>3. BookingsFit /\ \A d \in Day : Balanced(d) /\ Covered(d)
  BY <1>1, <1>2 DEF Accounted
<1>4. BookingsFit'
  BY <1>2, <1>3 DEF BookingsFit, LoopFits, TaskFits
<1>5. ASSUME NEW d \in Day PROVE Balanced(d)'
  <2>1. \A q \in Thread : ThreadClaim(q, d)' = ThreadClaim(q, d)
    BY <1>2, LeftClaims DEF Left
  <2> QED BY <1>1, <1>2, <1>3, <2>1, Stays
<1>6. \A d \in Day : Covered(d)'
  BY <1>2, <1>3, CoverStays DEF ThreadRise
<1> QED BY <1>4, <1>5, <1>6 DEF Accounted

\* A write over the record that was read moves it by its adjustment, and is made.
LEMMA AdjustWriteKeeps ==
  ASSUME GateInv, GateTypes', NEW p \in Thread, AdjustWrite(p), astray' \subseteq {"expired"}
  PROVE  Accounted'
<1>1. GateTypes /\ Accounted
  BY DEF GateInv
<1>2. PICK a \in Adjustment : a = Head(todo[p])
  BY <1>1, WritesTypes
<1>3. /\ used' = [used EXCEPT ![a.day] = Max({0, seen[p] + a.delta})]
      /\ todo' = [todo EXCEPT ![p] = Tail(todo[p])] /\ todo[p] # <<>>
      /\ UNCHANGED <<at, on, outer, inner>>
  BY <1>2 DEF AdjustWrite, Settled
<1>4. /\ astray \subseteq {"expired"} /\ astray' = astray /\ owed' = owed /\ seen[p] = used[a.day]
      /\ BookingsFit /\ \A d \in Day : Balanced(d) /\ Covered(d)
  <2>1. ~Lost
    BY LostTypes
  <2>2. seen[p] = used[a.day] /\ UNCHANGED <<owed, astray>>
    BY <1>2, <2>1 DEF AdjustWrite
  <2> QED BY <1>1, <2>2 DEF Accounted
<1>5. a.day \in Day /\ a.delta \in Int /\ used[a.day] \in Int /\ owed[a.day] \in Nat
  BY <1>1, <1>2 DEF Adjustment, GateTypes
<1>6. /\ todo[p] \in Seq(Adjustment) /\ todo'[p] = Tail(todo[p])
      /\ \A q \in Thread \ {p} : todo'[q] = todo[q]
  BY <1>1, <1>3 DEF GateTypes
<1>7. /\ Len(todo[p]) <= 2
      /\ IsSmall(todo[p]) => IsSmall(todo'[p])
      /\ p = Loop => todo[p] = One(on[p], Ceiling)
      /\ p # Loop => \/ at[p] = "booking" /\ todo[p] = One(on[p], Estimate)
                     \/ at[p] \in {"settling", "dropping", "ending"} /\ IsSmall(todo[p])
                     \/ at[p] = "settling" /\ IsRise(todo[p]) /\ todo'[p] = <<>>
  <2>1. p = Loop => todo[p] = One(on[p], Ceiling)
    BY <1>3, <1>4 DEF BookingsFit, LoopFits
  <2>2. p # Loop => \/ at[p] = "booking" /\ todo[p] = One(on[p], Estimate)
                    \/ at[p] \in {"settling", "dropping", "ending"} /\ IsSmall(todo[p])
                    \/ at[p] = "settling" /\ IsRise(todo[p])
    BY <1>3, <1>4, Amounts DEF BookingsFit, TaskFits
  <2>3. Len(todo[p]) <= 2
    <3>1. ASSUME NEW o, NEW n, todo[p] = One(o, n) PROVE Len(todo[p]) <= 2
      <4>1. Len(One(o, n)) = 1
        BY DEF One
      <4> QED BY <3>1, <4>1
    <3>2. CASE IsSmall(todo[p])
      BY <3>2 DEF IsSmall
    <3>3. CASE IsRise(todo[p])
      BY <3>3 DEF IsRise
    <3> QED BY <2>1, <2>2, <3>1, <3>2, <3>3
  <2>4. ASSUME IsRise(todo[p]) PROVE todo'[p] = <<>>
    <3>1. Len(todo[p]) = 1 /\ todo[p] # <<>>
      BY <1>3, <2>4 DEF IsRise
    <3>2. PICK s \in Seq(Adjustment) : s = todo[p]
      BY <1>6
    <3>3. Len(s) = 1 /\ s # <<>>
      BY <3>1, <3>2
    <3>4. PICK only : s = <<only>>
      BY <3>3
    <3>5. Tail(<<only>>) = <<>>
      OBVIOUS
    <3> QED BY <1>6, <3>2, <3>4, <3>5
  <2> QED BY <1>3, <1>6, <2>1, <2>2, <2>3, <2>4, PendingOfTail
<1>8. (\E n \in Int : todo[p] = One(on[p], n)) => todo'[p] = <<>>
  BY <1>6 DEF One
<1>9. BookingsFit'
  <2>1. LoopFits'
    <3>1. CASE p = Loop
      BY <1>7, <1>8, <3>1, Amounts DEF LoopFits
    <3>2. CASE p # Loop
      BY <1>3, <1>4, <1>6, <3>2, Amounts DEF BookingsFit, LoopFits
    <3> QED BY <3>1, <3>2
  <2>2. ASSUME NEW u \in Task PROVE TaskFits(u)'
    <3>1. TaskFits(u) /\ u \in Thread /\ u # Loop
      BY <1>4, Amounts DEF BookingsFit
    <3>2. CASE u # p
      <4>1. todo'[u] = todo[u]
        BY <1>6, <3>1, <3>2
      <4> QED BY <1>3, <3>1, <4>1 DEF TaskFits
    <3>3. CASE u = p /\ at[p] = "booking"
      <4>1. todo'[p] = <<>>
        BY <1>7, <1>8, <3>1, <3>3, Amounts
      <4> QED BY <1>3, <3>1, <3>3, <4>1 DEF TaskFits
    <3>4. CASE u = p /\ at[p] # "booking"
      <4>1. IsSmall(todo'[p]) /\ at[p] \in {"settling", "dropping", "ending"}
        <5>1. IsSmall(<<>>)
          BY DEF IsSmall
        <5> QED BY <1>7, <3>1, <3>4, <5>1
      <4> QED BY <1>3, <3>1, <3>4, <4>1 DEF TaskFits
    <3> QED BY <3>2, <3>3, <3>4
  <2> QED BY <2>1, <2>2 DEF BookingsFit
<1>10. ASSUME NEW d \in Day
       PROVE  ThreadClaim(p, d)' = ThreadClaim(p, d) + (IF a.day = d THEN a.delta ELSE 0)
  <2>1. Pend(todo'[p], d) = Pend(todo[p], d) - (IF a.day = d THEN a.delta ELSE 0)
    BY <1>2, <1>3, <1>6, <1>7, PendingOfTail
  <2>2. PICK x \in Int : x = Pend(todo[p], d)
    BY <1>6, ClaimByIsInt
  <2>3. PICK c \in Int : c = IF a.day = d THEN a.delta ELSE 0
    BY <1>5
  <2>4. CASE p = Loop
    <3>1. PICK k \in Int : k = IF at[Loop] \in Gated /\ on[Loop] = d THEN Ceiling ELSE 0
      BY Amounts
    <3>2. ThreadClaim(Loop, d) = k - x /\ ThreadClaim(Loop, d)' = k - (x - c)
      BY <1>3, <2>1, <2>2, <2>3, <2>4, <3>1, ClaimOfLoop
    <3> QED BY <2>2, <2>3, <2>4, <3>1, <3>2
  <2>5. CASE p # Loop
    <3>1. p \in Task
      BY <2>5, Amounts
    <3>2. PICK k \in Int : k = TaskHolds(at[p], on[p], outer[p], d)
      BY Amounts DEF TaskHolds
    <3>3. ThreadClaim(p, d) = k - x /\ ThreadClaim(p, d)' = k - (x - c)
      BY <1>3, <2>1, <2>2, <2>3, <3>1, <3>2, ClaimOfTask DEF TaskClaim
    <3> QED BY <2>2, <2>3, <3>2, <3>3
  <2> QED BY <2>4, <2>5
<1>11. ASSUME NEW q \in Thread, q # p, NEW d PROVE ThreadClaim(q, d)' = ThreadClaim(q, d)
  <2>1. Left(q)
    BY <1>3, <1>6, <1>11 DEF Left
  <2> QED BY <2>1, LeftClaims
<1>13. ASSUME NEW d \in Day PROVE Covered(d)'
  <2>1. ThreadRise(p, d)' = 0 /\ ThreadRise(p, d) \in Nat
    <3>1. CASE p = Loop
      BY <3>1 DEF ThreadRise
    <3>2. CASE p # Loop
      <4>1. at'[p] # "settling" \/ IsSmall(todo'[p])
        <5>1. IsSmall(<<>>)
          BY DEF IsSmall
        <5> QED BY <1>3, <1>7, <3>2, <5>1
      <4>2. ThreadRise(p, d)' = Rise(at'[p], todo'[p], d) /\ todo'[p] \in Seq(Adjustment)
        BY <3>2 DEF ThreadRise, GateTypes
      <4> QED BY <1>1, <4>1, <4>2, RiseIs, RisesAre
    <3> QED BY <3>1, <3>2
  <2>2. owed'[d] - owed[d] >= ThreadRise(p, d)' - ThreadRise(p, d)
    <3>1. owed'[d] = owed[d] /\ owed[d] \in Int
      BY <1>1, <1>4 DEF GateTypes
    <3> QED BY <2>1, <3>1
  <2>3. \A q \in Thread \ {p} : ThreadRise(q, d)' = ThreadRise(q, d)
    BY <1>3, <1>6 DEF ThreadRise
  <2> QED BY <1>1, <1>4, <2>2, <2>3, CoverMoves
<1>12. ASSUME NEW d \in Day PROVE Balanced(d)'
  <2> DEFINE f == Claims(d)
             h == Claims(d)'
             r == Rises(d)'
             m == [q \in Thread |-> h[q] + r[q]]
             c == IF a.day = d THEN a.delta ELSE 0
             e == astray = {}
  <2>1. /\ f \in [Thread -> Int] /\ h \in [Thread -> Int]
        /\ \A q \in Thread : f[q] = ThreadClaim(q, d) /\ h[q] = ThreadClaim(q, d)'
    BY <1>1, ClaimsAre, ClaimsWillBe
  <2>2. h[p] - f[p] = c /\ c \in Int
    BY <1>5, <1>10, <2>1
  <2>3. \A q \in Thread : q # p => h[q] = f[q]
    BY <1>11, <2>1
  <2>4. \A q \in Thread : h[q] + ThreadRise(q, d)' >= 0
    BY <1>9, <2>1, ClaimsWillBeNat
  <2>5. PICK u \in Int, w \in Nat : u = used[d] /\ w = owed[d]
    BY <1>1 DEF GateTypes
  <2>6. Balance(u, w, f, e)
    BY <1>4, <2>5 DEF Balanced
  <2>7. used'[d] = IF a.day = d THEN Max({0, u + c}) ELSE u
    BY <1>1, <1>3, <1>4, <1>5, <2>5 DEF GateTypes
  <2>8. a.day # d => c = 0
    OBVIOUS
  <2>15. r \in [Thread -> Int] /\ \A q \in Thread : r[q] = ThreadRise(q, d)'
    BY RisesWillBe
  <2>16. PICK y \in Int : IsSum(r, y) /\ y <= w
    BY <1>4, <1>13, <2>5 DEF Covered
  <2> HIDE DEF f, h, c, e, r
  <2>17. m \in [Thread -> Int] /\ \A q \in Thread : m[q] = h[q] + r[q] /\ m[q] >= 0
    BY <2>1, <2>4, <2>15
  <2> HIDE DEF m
  <2>9. PICK x \in Int : x = u + c
    BY <2>2
  <2>10. x - w = (u - w) + (h[p] - f[p])
    BY <2>2, <2>9
  <2>11. x - w >= (u - w) + (h[p] - f[p])
    BY <2>10
  <2>12. Balance(x, w, h, e)
    BY <2>1, <2>3, <2>6, <2>10, <2>11, BalanceMoves
  <2>13. x >= 0
    <3>1. PICK v \in Int : IsSum(h, v) /\ x >= w + v
      BY <2>12 DEF Balance
    <3>2. IsSum(m, v + y)
      BY <2>1, <2>15, <2>16, <2>17, <3>1, SumAdds
    <3>3. v + y >= 0
      BY <2>17, <3>2, SumIsNat
    <3> QED BY <2>16, <3>1, <3>3
  <2>14. used'[d] = x
    BY <2>2, <2>7, <2>8, <2>9, <2>13, MaxIs
  <2> QED BY <1>3, <1>4, <2>5, <2>12, <2>14 DEF Balanced, e, h
<1> QED BY <1>9, <1>12, <1>13 DEF Accounted

------------------------------------------------------------------------------
(* Midnight.                                                               *)

\* What is of today is of yesterday then, and nothing is of the new day.
LEMMA AgedQueues ==
  ASSUME NEW q \in Seq(Adjustment), NEW r \in Seq(Adjustment), Len(r) = Len(q),
         \A i \in 1 .. Len(q) : /\ r[i] = [day |-> Yesterday, delta |-> q[i].delta]
                                /\ q[i].day = Today
  PROVE  /\ Pend(r, Yesterday) = Pend(q, Today) /\ Pend(r, Today) = 0
         /\ q = <<>> => r = <<>>
         /\ IsSmall(q) => IsSmall(r)
         /\ IsRise(q) => IsRise(r)
         /\ \A a : Rise(a, r, Yesterday) = Rise(a, q, Today) /\ Rise(a, r, Today) = 0
         /\ \A n : q = One(Today, n) => r = One(Yesterday, n)
<1>1. DOMAIN q = 1 .. Len(q) /\ DOMAIN r = 1 .. Len(q) /\ Len(q) \in Nat /\ Today # Yesterday
  BY Amounts
<1>2. \A i : Part(r, i, Yesterday) = Part(q, i, Today) /\ Part(r, i, Today) = 0
  BY <1>1 DEF Part
<1>3. Pend(r, Yesterday) = Pend(q, Today) /\ Pend(r, Today) = 0
  BY <1>2 DEF Pend
<1>4. q = <<>> => r = <<>>
  OBVIOUS
<1>5. IsSmall(q) => IsSmall(r)
  BY <1>1 DEF IsSmall
<1>7. IsRise(q) => IsRise(r)
  BY <1>1 DEF IsRise
<1>8. ASSUME NEW a PROVE Rise(a, r, Yesterday) = Rise(a, q, Today) /\ Rise(a, r, Today) = 0
  <2>1. CASE q = <<>>
    BY <1>4, <2>1 DEF Rise
  <2>2. CASE q # <<>>
    <3>1. r # <<>> /\ Head(r) = r[1] /\ Head(q) = q[1] /\ 1 \in 1 .. Len(q)
      BY <1>1, <2>2
    <3>2. r[1] = [day |-> Yesterday, delta |-> q[1].delta] /\ q[1].day = Today
      BY <3>1
    <3>3. Head(r).day = Yesterday /\ Head(r).delta = Head(q).delta /\ Head(q).day = Today
      BY <3>1, <3>2
    <3> QED BY <1>1, <2>2, <3>1, <3>3 DEF Rise
  <2> QED BY <2>1, <2>2
<1>6. ASSUME NEW n, q = One(Today, n) PROVE r = One(Yesterday, n)
  <2>1. Len(q) = 1 /\ q[1].delta = n
    BY <1>6 DEF One
  <2>2. Len(r) = 1 /\ r[1] = [day |-> Yesterday, delta |-> n]
    BY <2>1
  <2>3. r = <<r[1]>>
    BY <2>2
  <2> QED BY <2>2, <2>3 DEF One
<1> QED BY <1>3, <1>4, <1>5, <1>6, <1>7, <1>8

\* At midnight today's balance becomes yesterday's, and the new day begins with none.
LEMMA MidnightKeeps ==
  ASSUME GateInv, GateTypes', Midnight, astray' \subseteq {"expired"}
  PROVE  Accounted'
<1>1. GateTypes /\ Accounted /\ Today # Yesterday /\ Day = {Today, Yesterday}
  BY Amounts DEF GateInv
<1>2. /\ used' = [d \in Day |-> IF d = Today THEN 0 ELSE used[Today]]
      /\ owed' = [d \in Day |-> IF d = Today THEN 0 ELSE owed[Today]]
      /\ at' = at /\ astray' = astray
  BY <1>1, MidnightAges
<1>3. astray \subseteq {"expired"} /\ BookingsFit /\ Balanced(Today) /\ Covered(Today)
  BY <1>1, <1>2 DEF Accounted
<1>4. ASSUME NEW p \in Thread
      PROVE  /\ on[p] = Today /\ on'[p] = IF Reserving(p) THEN Yesterday ELSE Today
             /\ Pend(todo'[p], Yesterday) = Pend(todo[p], Today) /\ Pend(todo'[p], Today) = 0
             /\ todo[p] = <<>> => todo'[p] = <<>>
             /\ IsSmall(todo[p]) => IsSmall(todo'[p])
             /\ IsRise(todo[p]) => IsRise(todo'[p])
             /\ \A a : /\ Rise(a, todo'[p], Yesterday) = Rise(a, todo[p], Today)
                      /\ Rise(a, todo'[p], Today) = 0
             /\ \A n : todo[p] = One(Today, n) => todo'[p] = One(Yesterday, n)
  <2>1. todo[p] \in Seq(Adjustment) /\ todo'[p] \in Seq(Adjustment)
    BY <1>1 DEF GateTypes
  <2>2. /\ on[p] = Today /\ on'[p] = IF Reserving(p) THEN Yesterday ELSE Today
        /\ Len(todo'[p]) = Len(todo[p])
        /\ \A i \in 1 .. Len(todo[p]) : /\ todo'[p][i] = [day |-> Yesterday,
                                                          delta |-> todo[p][i].delta]
                                        /\ todo[p][i].day = Today
    BY <1>1, MidnightAges
  <2> QED BY <2>1, <2>2, AgedQueues
<1>5. ASSUME NEW t \in Task
      PROVE  /\ outer'[t] = IF outer[t] = Nothing THEN Nothing ELSE [day |-> Yesterday,
                                                                     n |-> outer[t].n]
             /\ inner'[t] = IF inner[t] = Nothing THEN Nothing ELSE [day |-> Yesterday,
                                                                     n |-> inner[t].n]
             /\ ~Of(outer[t], Yesterday) /\ ~Of(inner[t], Yesterday)
             /\ Of(outer'[t], Yesterday) = Of(outer[t], Today) /\ ~Of(outer'[t], Today)
  <2>1. /\ outer'[t] = IF outer[t] = Nothing THEN Nothing ELSE [day |-> Yesterday, n |-> outer[t].n]
        /\ inner'[t] = IF inner[t] = Nothing THEN Nothing ELSE [day |-> Yesterday, n |-> inner[t].n]
        /\ ~Of(outer[t], Yesterday) /\ ~Of(inner[t], Yesterday)
    BY <1>1, MidnightAges
  <2>2. CASE outer[t] = Nothing
    BY <2>1, <2>2 DEF Of
  <2>3. CASE outer[t] # Nothing
    <3>1. outer[t] \in Booking /\ outer[t].day \in {Today, Yesterday}
            /\ outer[t].n \in {Ceiling, Estimate}
      BY <1>1, <2>3 DEF GateTypes, Booking
    <3>2. outer[t].day = Today
      BY <2>1, <2>3, <3>1 DEF Of
    <3>3. outer'[t] \in Booking /\ outer'[t].day = Yesterday
      BY <1>1, <2>1, <2>3, <3>1 DEF Booking
    <3>4. outer'[t] # Nothing
      BY <3>3, Amounts
    <3> QED BY <1>1, <2>1, <2>3, <3>2, <3>3, <3>4 DEF Of
  <2> QED BY <2>1, <2>2, <2>3
<1>6. LoopFits'
  <2>1. Loop \in Thread /\ LoopFits /\ (Reserving(Loop) <=> at[Loop] \in Gated)
    BY <1>3, Amounts DEF BookingsFit, Reserving
  <2>2. CASE todo[Loop] = <<>>
    BY <1>4, <2>1, <2>2 DEF LoopFits
  <2>3. CASE todo[Loop] # <<>>
    BY <1>2, <1>4, <2>1, <2>3 DEF LoopFits
  <2> QED BY <2>2, <2>3
<1>7. ASSUME NEW t \in Task PROVE TaskFits(t)'
  <2>1. t \in Thread /\ TaskFits(t) /\ (Reserving(t) <=> at[t] \in {"booking", "calling"})
    BY <1>3, Amounts DEF BookingsFit, Reserving
  <2>2. at'[t] = "booking" => todo'[t] = <<>> \/ todo'[t] = One(on'[t], Estimate)
    BY <1>2, <1>4, <2>1 DEF TaskFits
  <2>3. /\ at'[t] \in {"dropping", "ending"} => IsSmall(todo'[t])
        /\ at'[t] = "settling" => IsSmall(todo'[t]) \/ IsRise(todo'[t])
    BY <1>2, <1>4, <2>1 DEF TaskFits
  <2>4. at'[t] \notin {"booking", "settling", "dropping", "ending"} => todo'[t] = <<>>
    BY <1>2, <1>4, <2>1 DEF TaskFits
  <2>5. outer'[t] = Nothing \/ outer'[t].n = Ceiling
    <3>1. outer'[t] = IF outer[t] = Nothing THEN Nothing ELSE [day |-> Yesterday, n |-> outer[t].n]
      BY <1>5
    <3>2. outer[t] = Nothing \/ outer[t].n = Ceiling
      BY <2>1 DEF TaskFits
    <3> QED BY <3>1, <3>2
  <2>6. at'[t] = "calling" => inner'[t] = [day |-> on'[t], n |-> Estimate]
    <3>1. SUFFICES ASSUME at[t] = "calling" PROVE inner'[t] = [day |-> Yesterday, n |-> Estimate]
      BY <1>2, <1>4, <2>1
    <3>2. inner[t] = [day |-> on[t], n |-> Estimate] /\ inner[t].n = Estimate
      BY <2>1, <3>1 DEF TaskFits
    <3>3. on[t] \in Day
      BY <1>1, <2>1 DEF GateTypes
    <3>4. inner[t] \in Booking
      BY <3>2, <3>3 DEF Booking
    <3>5. inner[t] # Nothing
      BY <3>4, Amounts
    <3> QED BY <1>5, <3>2, <3>5
  <2> QED BY <2>2, <2>3, <2>4, <2>5, <2>6 DEF TaskFits
<1>8. ASSUME NEW p \in Thread PROVE ThreadClaim(p, Yesterday)' = ThreadClaim(p, Today)
             /\ ThreadClaim(p, Today)' = 0
  <2>1. CASE p = Loop
    <3>1. Reserving(Loop) <=> at[Loop] \in Gated
      BY DEF Reserving
    <3>2. Loop \in Thread
      BY Amounts
    <3>3. ThreadClaim(Loop, Yesterday)' = ThreadClaim(Loop, Today)
      BY <1>1, <1>2, <1>4, <3>1, <3>2, ClaimOfLoop
    <3>4. ThreadClaim(Loop, Today)' = 0
      BY <1>1, <1>2, <1>4, <3>1, <3>2, ClaimOfLoop
    <3> QED BY <2>1, <3>3, <3>4
  <2>2. CASE p \in Task
    <3>1. Reserving(p) <=> at[p] \in {"booking", "calling"}
      BY <2>2, Amounts DEF Reserving
    <3>2. /\ at'[p] = at[p] /\ on[p] = Today /\ Of(outer'[p], Yesterday) = Of(outer[p], Today)
          /\ ~Of(outer'[p], Today)
          /\ at[p] \in {"booking", "calling"} => on'[p] = Yesterday
          /\ Pend(todo'[p], Yesterday) = Pend(todo[p], Today) /\ Pend(todo'[p], Today) = 0
      BY <1>2, <1>4, <1>5, <2>2, <3>1
    <3>3. TaskHolds(at'[p], on'[p], outer'[p], Yesterday) = TaskHolds(at[p], on[p], outer[p], Today)
      BY <3>2 DEF TaskHolds
    <3>4. TaskHolds(at'[p], on'[p], outer'[p], Today) = 0
      BY <1>1, <3>2 DEF TaskHolds
    <3> QED BY <2>2, <3>2, <3>3, <3>4, ClaimOfTask DEF TaskClaim
  <2> QED BY <2>1, <2>2, Amounts
<1>9. Balanced(Yesterday)'
  <2>1. Claims(Yesterday)' = Claims(Today)
    BY <1>8 DEF Claims
  <2>2. used'[Yesterday] = used[Today] /\ owed'[Yesterday] = owed[Today]
    BY <1>1, <1>2
  <2> QED BY <1>2, <1>3, <2>1, <2>2 DEF Balanced
<1>10. Balanced(Today)'
  <2>1. Claims(Today)' \in [Thread -> Int] /\ \A p \in Thread : Claims(Today)'[p] = 0
    BY <1>1, <1>8, ClaimsWillBe
  <2>2. IsSum(Claims(Today)', 0)
    BY <2>1, SumOfNone
  <2>3. used'[Today] = 0 /\ owed'[Today] = 0
    BY <1>1, <1>2
  <2> QED BY <2>2, <2>3 DEF Balanced, Balance
<1>11. ASSUME NEW p \in Thread
       PROVE  ThreadRise(p, Yesterday)' = ThreadRise(p, Today) /\ ThreadRise(p, Today)' = 0
  BY <1>2, <1>4 DEF ThreadRise
<1>12. Covered(Yesterday)'
  <2>1. Rises(Yesterday)' = Rises(Today)
    BY <1>11 DEF Rises
  <2>2. owed'[Yesterday] = owed[Today]
    BY <1>1, <1>2
  <2> QED BY <1>3, <2>1, <2>2 DEF Covered
<1>13. Covered(Today)'
  <2>1. Rises(Today)' \in [Thread -> Int] /\ \A p \in Thread : Rises(Today)'[p] = 0
    BY <1>11, RisesWillBe
  <2>2. IsSum(Rises(Today)', 0)
    BY <2>1, SumOfNone
  <2>3. owed'[Today] = 0
    BY <1>1, <1>2
  <2> QED BY <2>2, <2>3 DEF Covered
<1> QED BY <1>1, <1>6, <1>7, <1>9, <1>10, <1>12, <1>13 DEF Accounted, BookingsFit

------------------------------------------------------------------------------
(* The invariant.                                                          *)

(* With nothing booked and every task waiting, the record is exact.        *)
LEMMA InitGateInv == GateInit => GateInv
<1> SUFFICES ASSUME GateInit PROVE GateInv
  OBVIOUS
<1>1. GateTypes
  <2>1. /\ used \in [Day -> Int] /\ real \in [Day -> Int] /\ owed \in [Day -> Nat]
        /\ unnamed \in [Day -> Nat]
    BY DEF GateInit, Clean
  <2>2. at \in [Thread -> Place] /\ on \in [Thread -> Day]
    BY Amounts DEF GateInit, Place
  <2>3. todo \in [Thread -> Seq(Adjustment)] /\ seen \in [Thread -> Int \union {Nothing}]
    BY Queues DEF GateInit
  <2> QED BY <2>1, <2>2, <2>3 DEF GateInit, GateTypes
<1>2. PlacesFit
  BY Amounts DEF GateInit, PlacesFit
<1>3. Charged
  BY DEF GateInit, Clean, Charged
<1>4. BookingsFit
  <2>1. LoopFits
    BY Amounts DEF GateInit, LoopFits
  <2>2. ASSUME NEW t \in Task PROVE TaskFits(t)
    <3>1. at[t] = "waiting" /\ todo[t] = <<>> /\ outer[t] = Nothing
      BY Amounts DEF GateInit
    <3> QED BY <3>1 DEF TaskFits
  <2> QED BY <2>1, <2>2 DEF BookingsFit
<1>5. ASSUME NEW d \in Day PROVE Balanced(d)
  <2>1. ASSUME NEW p \in Thread PROVE ThreadClaim(p, d) = 0
    <3>1. todo[p] = <<>>
      BY DEF GateInit
    <3>2. CASE p = Loop
      <4>1. at[Loop] = "scan" /\ "scan" \notin Gated
        BY Words, Amounts DEF GateInit
      <4> QED BY <3>1, <3>2, <4>1, ClaimOfLoop, Pending
    <3>3. CASE p \in Task
      <4>1. at[p] = "waiting" /\ outer[p] = Nothing
        BY <3>3, Amounts DEF GateInit
      <4> QED BY <3>1, <3>3, <4>1, ClaimOfTask, Pending DEF TaskClaim, TaskHolds
    <3> QED BY <3>2, <3>3, Amounts
  <2>2. Claims(d) \in [Thread -> Int] /\ \A p \in Thread : Claims(d)[p] = 0
    BY <1>1, <2>1, ClaimsAre
  <2>3. IsSum(Claims(d), 0)
    BY <2>2, SumOfNone
  <2>4. used[d] = 0 /\ owed[d] = 0
    BY DEF GateInit, Clean
  <2> QED BY <2>3, <2>4 DEF Balanced, Balance
<1>6. ASSUME NEW d \in Day PROVE Covered(d)
  <2>1. \A p \in Thread : ThreadRise(p, d) = 0
    BY DEF GateInit, ThreadRise, Rise
  <2>2. Rises(d) \in [Thread -> Int] /\ \A p \in Thread : Rises(d)[p] = 0
    BY <1>1, <2>1, RisesAre
  <2>3. IsSum(Rises(d), 0) /\ owed[d] = 0
    BY <2>2, SumOfNone DEF GateInit, Clean
  <2> QED BY <2>3 DEF Covered
<1> QED BY <1>1, <1>2, <1>3, <1>4, <1>5, <1>6 DEF GateInv, Accounted

\* Every step keeps the account: what the record holds, is owed and is claimed.
LEMMA AccountedKept ==
  ASSUME GateInv, GateTypes', [GateNext]_gateVars
  PROVE  Accounted'
<1> SUFFICES ASSUME astray' \subseteq {"expired"} PROVE Accounted'
  BY DEF Accounted
<1>1. CASE UNCHANGED gateVars
  <2>1. UNCHANGED <<used, at, on, todo, outer, inner, owed, astray>>
    BY <1>1 DEF gateVars, books, truth
  <2>2. astray \subseteq {"expired"} /\ BookingsFit /\ \A d \in Day : Balanced(d) /\ Covered(d)
    BY <2>1 DEF GateInv, Accounted
  <2>3. BookingsFit'
    BY <2>1, <2>2 DEF BookingsFit, LoopFits, TaskFits
  <2>4. ASSUME NEW d \in Day PROVE Balanced(d)'
    <3>1. \A q \in Thread : ThreadClaim(q, d)' = ThreadClaim(q, d)
      BY <2>1, LeftClaims DEF Left
    <3> QED BY <2>1, <2>2, <3>1, Stays DEF GateInv
  <2>5. \A d \in Day : Covered(d)'
    BY <2>1, <2>2, CoverStays DEF ThreadRise
  <2> QED BY <2>3, <2>4, <2>5 DEF Accounted
<1>2. ASSUME NEW p \in Thread, AdjustRead(p) PROVE Accounted'
  BY <1>2, AdjustReadKeeps
<1>3. ASSUME NEW p \in Thread, AdjustWrite(p) PROVE Accounted'
  BY <1>3, AdjustWriteKeeps
<1>4. CASE Scanned
  <2>1. PICK to \in {"over", "scan", "full"} : Goto(Loop, "scan", to)
    BY <1>4 DEF Scanned
  <2> QED BY <1>4, <2>1, LoopTurns DEF Scanned, books, truth
<1>5. CASE Clear
  BY <1>5, LoopTurns DEF Clear, books, truth
<1>6. CASE Wake
  BY <1>6, LoopTurns DEF Wake, books, truth
<1>7. CASE Midnight
  BY <1>7, MidnightKeeps
<1>8. ASSUME NEW t \in Task, AdmittedOpen(t) \/ ProceedOpen(t) PROVE Accounted'
  BY <1>8, LostTypes DEF AdmittedOpen, ProceedOpen
<1>9. ASSUME NEW t \in Task,
             \/ AdmitFree(t) \/ Admit(t) \/ Admitted(t) \/ RunOne(t) \/ Dropped(t) \/ Ask(t)
             \/ Proceed(t) \/ Answer(t) \/ Failed(t) \/ Broken(t) \/ Recorded(t) \/ ReleaseOuter(t)
             \/ Finish(t) \/ Cancel(t) \/ Expire(t)
      PROVE  Accounted'
  BY <1>9, AdmitFreeKeeps, AdmitKeeps, AdmittedKeeps, RunOneKeeps, DroppedKeeps, AskKeeps,
     ProceedKeeps,
     ReplyKeeps, FailedKeeps, BrokenKeeps, RecordedKeeps, ReleaseKeeps, FinishKeeps, CancelKeeps,
       ExpireKeeps
<1> QED BY <1>1, <1>2, <1>3, <1>4, <1>5, <1>6, <1>7, <1>8, <1>9, Steps

(* The invariant is inductive.                                             *)
LEMMA StepGateInv == GateInv /\ [GateNext]_gateVars => GateInv'
<1> SUFFICES ASSUME GateInv, [GateNext]_gateVars PROVE GateInv'
  OBVIOUS
<1>1. GateTypes'
  BY TypesKept DEF GateInv
<1>2. PlacesFit'
  BY PlacesKept DEF GateInv
<1>3. Charged'
  BY ChargedKept DEF GateInv
<1>4. Accounted'
  BY <1>1, AccountedKept
<1> QED BY <1>1, <1>2, <1>3, <1>4 DEF GateInv

(* At every moment of run_gated the threads stand where the loop has left  *)
(* them, what a day is owed and what was named by no answer cover its      *)
(* cost, and, while nothing is lost and no booking outlives its day, a     *)
(* day's record holds what it is owed and what the threads have booked and *)
(* not given back; what they have still to add is owed.                    *)
THEOREM GateSafety == GateSpec => []GateInv
  BY InitGateInv, StepGateInv, PTL DEF GateSpec

(* RecordIsExact: concurrency_gate.run_gated books a ceiling for a task,   *)
(* _ledger_gate books the same budget again for each call, and every       *)
(* booking is taken back or trued up once.  So with any number of tasks,   *)
(* any order of their bookings and releases and any limit, the record of a *)
(* day is what its calls are owed, when no task is at work and nothing     *)
(* went wrong.                                                             *)
THEOREM SettlesExactly == GateSpec => []RecordIsExact
<1>1. GateInv => RecordIsExact
  <2> SUFFICES ASSUME GateInv, astray = {}, \A p \in Thread : Idle(p), NEW d \in Day
              PROVE  used[d] = owed[d]
    BY DEF RecordIsExact
  <2>1. GateTypes /\ BookingsFit /\ Balanced(d)
    BY DEF GateInv, Accounted
  <2>2. ASSUME NEW p \in Thread PROVE ThreadClaim(p, d) = 0
    <3>1. todo[p] = <<>> /\ at[p] \in {"waiting", "over", "scan", "full", "sleep"}
      BY DEF Idle, Settled
    <3>2. CASE p = Loop
      <4>1. at[Loop] \notin Gated
        <5>1. at[Loop] \in {"scan", "full", "sleep", "over"} \union (Gated \cap left)
          BY DEF GateInv, PlacesFit
        <5> SUFFICES ASSUME at[Loop] \in Gated PROVE FALSE
          OBVIOUS
        <5>2. at[Loop] \in Task /\ at[Loop] \notin {"waiting", "scan", "full", "sleep", "over"}
          BY Amounts
        <5> QED BY <3>1, <3>2, <5>2
      <4> QED BY <3>1, <3>2, <4>1, ClaimOfLoop, Pending
    <3>3. CASE p \in Task
      BY <3>1, <3>3, ClaimOfTask, Pending DEF TaskClaim, TaskHolds
    <3> QED BY <3>2, <3>3, Amounts
  <2>3. Claims(d) \in [Thread -> Int] /\ \A p \in Thread : Claims(d)[p] = 0
    BY <2>1, <2>2, ClaimsAre
  <2>4. PICK v \in Int : IsSum(Claims(d), v) /\ used[d] = owed[d] + v
    BY <2>1 DEF Balanced, Balance
  <2>5. v = 0
    BY <2>3, <2>4, SumIsNat
  <2> QED BY <2>1, <2>4, <2>5 DEF GateTypes
<1> QED BY <1>1, GateSafety, PTL

(* NeverUndercounts: what release_reservation promises ("tracked usage >=  *)
(* real usage, never <"), at every moment and not only between tasks, for  *)
(* bookings that expire but are neither lost nor released after midnight,  *)
(* once the corrections of calls dearer than their booking are written,    *)
(* and but for the costs no answer named: those of calls that ended in an  *)
(* error, and what a call without usage cost above its estimate.           *)
THEOREM CountsWhatCost == GateSpec => []NeverUndercounts
<1>1. GateInv => NeverUndercounts
  <2> SUFFICES ASSUME GateInv, astray \subseteq {"expired"}, ~Correcting, NEW d \in Day
              PROVE  used[d] + unnamed[d] >= real[d]
    BY DEF NeverUndercounts
  <2>1. GateTypes /\ BookingsFit /\ Balanced(d) /\ real[d] <= owed[d] + unnamed[d]
    BY DEF GateInv, Accounted, Charged
  <2>2. Claims(d) \in [Thread -> Int] /\ \A p \in Thread : Claims(d)[p] >= 0
    <3>1. ASSUME NEW p \in Thread PROVE ThreadRise(p, d) = 0
      <4>1. CASE p = Loop
        BY <4>1 DEF ThreadRise
      <4>2. CASE p \in Task
        BY <4>2 DEF ThreadRise, Rise, Correcting, Settled
      <4> QED BY <4>1, <4>2, Amounts
    <3>2. ASSUME NEW p \in Thread PROVE Claims(d)[p] >= 0
      <4>1. Claims(d)[p] + 0 >= 0 /\ Claims(d)[p] \in Int
        BY <2>1, <3>1, ClaimsAre, ClaimsAreNat
      <4> QED BY <4>1
    <3> QED BY <2>1, <3>2, ClaimsAre
  <2>3. PICK v \in Int : IsSum(Claims(d), v) /\ used[d] >= owed[d] + v
    BY <2>1 DEF Balanced, Balance
  <2>4. v >= 0
    BY <2>2, <2>3, SumIsNat
  <2>5. used[d] \in Int /\ owed[d] \in Int /\ real[d] \in Int /\ unnamed[d] \in Int
    BY <2>1 DEF GateTypes
  <2> QED BY <2>1, <2>3, <2>4, <2>5
<1> QED BY <1>1, GateSafety, PTL

------------------------------------------------------------------------------
(* A run's spending.                                                       *)

(* Types of the records.                                                   *)
StateRecord == [spent : Nat, hydrated : BOOLEAN, base : {0, Base}, raised : Nat,
                warned : BOOLEAN, loaded : BOOLEAN]
TurnRecord == [on : Server \union {None},
               at : {"idle", "before", "judge", "call", "commit", "park", "release"},
               charge : Charge \union {0}, warn : BOOLEAN]
GrantRecord == [at : {"idle", "claim", "set", "bind", "undo"}, on : Server \union {None},
                previous : Nat, to : Nat, was : BOOLEAN, stale : BOOLEAN, quiet : BOOLEAN]

LateRecord == [on : Server \union {None}, charge : Charge \union {0}]

TurnTypes == turn \in TurnRecord /\ late \in LateRecord
MemTypes == mem \in [Server -> StateRecord] /\ place \in Server
StoreTypes ==
  /\ row \in {"running", "paused"} /\ bound \in BOOLEAN
  /\ ledger \in Nat /\ credits \in Nat /\ raised \in Nat /\ warned \in BOOLEAN
  /\ total \in Nat /\ highest \in Nat /\ sent \in Nat /\ fresh \in BOOLEAN
GrantTypes == grant \in [Grant -> GrantRecord]
Types == TurnTypes /\ MemTypes /\ StoreTypes /\ GrantTypes

(* A turn is one of the server the device is connected to, its charge is   *)
(* on the way to the ledger, and its record asked Redis for the flags.     *)
TurnFits ==
  /\ turn.on \in {None, place} /\ (turn.on = None <=> turn.at = "idle")
  /\ turn.at # "commit" => turn.charge = 0
  /\ turn.at \in {"judge", "call", "commit"} => mem[place].loaded
  /\ turn.at = "idle" => ~turn.warn
  /\ late.on = None => late.charge = 0

(* No record, store or counter knows of more than was charged, and none of *)
(* a ceiling there never was.                                              *)
RecordsFit == \A s \in Server : mem[s].spent <= total /\ mem[s].raised <= highest
MoneyFits == ledger + late.charge + turn.charge <= total /\ credits + turn.charge <= total
CeilingsFit ==
  Base <= highest /\ raised <= highest /\ \A g \in Grant : grant[g].previous <= highest
Bounded == RecordsFit /\ MoneyFits /\ CeilingsFit

(* Where all that was charged is: in the ledger and on the way to it, and  *)
(* in the record of the server the device is on.                           *)
Booked == ledger + late.charge + turn.charge = total \/ Met({"uncommitted", "crash"})
Kept == mem[place].spent = total \/ Renewed \/ Met({"returned"})
Known ==
  mem[place].hydrated =>
    \/ mem[place].spent = total
    \/ Met({"late", "returned", "crash"})
    \/ Met({"uncommitted"}) /\ Renewed

(* One warning is sent or about to be, and then Redis knows of it, and the *)
(* record that asked.                                                      *)
Warnings == IF turn.warn THEN sent + 1 ELSE sent
WarnedWell == /\ Warnings <= 1 /\ (Warnings = 1 => warned)
              /\ warned /\ mem[place].loaded => mem[place].warned
WarningsFit == Met({"redis", "lapsed", "returned"}) \/ WarnedWell

(* While a run is paused, and until a turn starts after a claim, none is   *)
(* at work; a grant whose numbers are of this pause raises the ceiling     *)
(* above all that was charged.                                             *)
Excused == Met({"stale", "undone", "redis", "lapsed", "late", "crash", "uncommitted"})
Resting == turn.at \in {"idle", "release"}
GrantBuys(g) ==
  /\ grant[g].at = "claim" /\ ~grant[g].stale => row = "paused" /\ total < grant[g].to
  /\ grant[g].at = "set" /\ grant[g].quiet => Resting /\ (grant[g].stale \/ total < grant[g].to)
GrantsWell ==
  /\ row = "paused" => Resting
  /\ fresh => turn.at \notin {"call", "commit"} /\ total < raised
  /\ \A g \in Grant : GrantBuys(g)
GrantsFit == Excused \/ GrantsWell

IInv == /\ Types /\ TurnFits /\ Bounded /\ Booked /\ Kept /\ Known /\ NoCallOverCeiling
        /\ WarningsFit /\ GrantsFit

------------------------------------------------------------------------------
(* What went wrong stays known.                                            *)
LEMMA MishapFacts == ASSUME NEW ms, Mishap(ms) PROVE mishaps' = mishaps \union ms
BY DEF Mishap

LEMMA MetStays == ASSUME NEW ms, mishaps \subseteq mishaps', Met(ms) PROVE Met(ms)'
BY DEF Met

LEMMA LargerFacts ==
  ASSUME NEW a \in Nat, NEW b \in Nat
  PROVE  /\ Larger(a, b) \in {a, b} /\ Larger(a, b) \in Nat
         /\ Larger(a, b) >= a /\ Larger(a, b) >= b
BY DEF Larger

(* What a step does to the record of one server.                           *)
OnlyMem(s) == mem' \in [Server -> StateRecord] /\ \A o \in Server \ {s} : mem'[o] = mem[o]

(* _load_warned and _hydrate.                                              *)
RememberFacts ==
  LET old == mem[turn.on]
      new == mem'[turn.on]
  IN  /\ OnlyMem(turn.on) /\ new.base = old.base /\ new.raised = old.raised
      /\ new.loaded = TRUE /\ mishaps \subseteq mishaps'
      /\ \/ new.hydrated = old.hydrated /\ new.spent = old.spent
         \/ /\ new.spent = Larger(old.spent, ledger) /\ old.hydrated = FALSE
            /\ late = NoLate \/ "late" \in mishaps'
      /\ old.loaded => new.warned = old.warned
      /\ ~old.loaded => "redis" \in mishaps' \/ (warned => new.warned = TRUE)

LEMMA RememberIs ==
  ASSUME Types, Remember, turn.on \in Server
  PROVE  RememberFacts
<1>1. PICK flags \in BOOLEAN, sum \in BOOLEAN :
        /\ (Memory.loaded => flags) /\ (Memory.hydrated => sum)
        /\ LET m == IF Memory.loaded THEN Memory
                    ELSE IF flags THEN Load(Memory) ELSE [Memory EXCEPT !.loaded = TRUE]
           IN mem' = [mem EXCEPT ![turn.on] = IF m.hydrated \/ ~sum THEN m ELSE Hydrated(m)]
        /\ Mishap(Unless(flags, "redis") \union Unless(sum, "unread")
                  \union (IF ~Memory.hydrated /\ sum THEN Behind ELSE {}))
  BY DEF Remember
<1> DEFINE m == IF Memory.loaded THEN Memory
                ELSE IF flags THEN Load(Memory) ELSE [Memory EXCEPT !.loaded = TRUE]
           n == IF m.hydrated \/ ~sum THEN m ELSE Hydrated(m)
<1>2. Memory \in StateRecord /\ Memory = mem[turn.on] /\ ledger \in Nat /\ warned \in BOOLEAN
  BY DEF Types, TurnTypes, MemTypes, StoreTypes, GrantTypes, Memory
<1>3. /\ m \in StateRecord /\ m.loaded = TRUE /\ m.base = Memory.base
      /\ m.raised = Memory.raised
      /\ m.hydrated = Memory.hydrated /\ m.spent = Memory.spent
      /\ Memory.loaded => m.warned = Memory.warned
      /\ ~Memory.loaded => ~flags \/ (warned => m.warned = TRUE)
  BY <1>2 DEF StateRecord, Load
<1>4. /\ n \in StateRecord /\ n.loaded = TRUE /\ n.base = Memory.base
      /\ n.raised = Memory.raised /\ n.warned = m.warned
      /\ \/ n.hydrated = Memory.hydrated /\ n.spent = Memory.spent
         \/ n.spent = Larger(Memory.spent, ledger) /\ ~m.hydrated /\ sum
  BY <1>2, <1>3, LargerFacts, ZenonT(40) DEF StateRecord, Hydrated
<1>5. mem' = [mem EXCEPT ![turn.on] = n]
  BY <1>1
<1>6. /\ mishaps \subseteq mishaps' /\ (flags \/ "redis" \in mishaps')
      /\ (~Memory.hydrated /\ sum => late = NoLate \/ "late" \in mishaps')
  BY <1>1, MishapFacts DEF Unless, Behind
<1> HIDE DEF m, n
<1> QED BY <1>2, <1>3, <1>4, <1>5, <1>6 DEF RememberFacts, OnlyMem, Types, MemTypes, StateRecord

(* _ceiling_now on the record.                                             *)
JudgedFacts(m, pool, redis) ==
  /\ m \in StateRecord /\ m.spent = Memory.spent /\ m.hydrated = Memory.hydrated
  /\ m.warned = Memory.warned /\ m.loaded = Memory.loaded
  /\ m.raised \in {Memory.raised, Larger(Memory.raised, raised)}
  /\ m.base = (IF pool THEN Base ELSE Memory.base)
  /\ redis /\ Reached(m) => m.raised >= raised

LEMMA JudgedIs ==
  ASSUME Types, turn.on \in Server, NEW pool \in BOOLEAN, NEW redis \in BOOLEAN
  PROVE  JudgedFacts(Judged(pool, redis), pool, redis)
<1> DEFINE m == IF pool THEN [Memory EXCEPT !.base = Base] ELSE Memory
<1>1. Memory \in StateRecord /\ raised \in Nat
  BY DEF Types, TurnTypes, MemTypes, StoreTypes, GrantTypes, Memory
<1>2. /\ m \in StateRecord /\ m.spent = Memory.spent /\ m.hydrated = Memory.hydrated
      /\ m.warned = Memory.warned /\ m.loaded = Memory.loaded /\ m.raised = Memory.raised
      /\ m.base = (IF pool THEN Base ELSE Memory.base)
  BY <1>1 DEF StateRecord
<1>3. Judged(pool, redis) = IF redis /\ (Effective(m) = 0 \/ Reached(m)) THEN Highest(m) ELSE m
  BY DEF Judged
<1>4. /\ Highest(m) \in StateRecord /\ Highest(m).spent = m.spent
      /\ Highest(m).hydrated = m.hydrated /\ Highest(m).warned = m.warned
      /\ Highest(m).loaded = m.loaded /\ Highest(m).base = m.base
      /\ Highest(m).raised = Larger(m.raised, raised)
      /\ Highest(m).raised >= raised
  BY <1>1, <1>2, LargerFacts DEF Highest, StateRecord
<1> HIDE DEF m
<1>5. CASE redis /\ (Effective(m) = 0 \/ Reached(m))
  BY <1>2, <1>3, <1>4, <1>5 DEF JudgedFacts
<1>6. CASE ~(redis /\ (Effective(m) = 0 \/ Reached(m)))
  BY <1>2, <1>3, <1>6 DEF JudgedFacts
<1> QED BY <1>5, <1>6

(* _warn_run.                                                              *)
WarnFacts(m, spot) ==
  LET new == mem'[turn.on]
  IN  /\ OnlyMem(turn.on) /\ new.spent = m.spent /\ new.hydrated = m.hydrated
      /\ new.base = m.base /\ new.raised = m.raised /\ new.loaded = m.loaded
      /\ turn' \in TurnRecord /\ turn'.on = turn.on /\ turn'.at = spot /\ turn'.charge = 0
      /\ warned' \in BOOLEAN
      /\ \/ /\ turn'.warn = TRUE /\ m.warned = FALSE /\ new.warned = TRUE
            /\ warned' = TRUE \/ "redis" \in mishaps'
         \/ turn'.warn = turn.warn /\ new.warned = m.warned /\ warned' = warned

LEMMA WarnIs ==
  ASSUME Types, turn.on \in Server, NEW m \in StateRecord, NEW failed,
         NEW spot \in {"before", "call", "park"}, WarnRun(m, spot, failed)
  PROVE  WarnFacts(m, spot) /\ mishaps \subseteq mishaps' /\ failed \subseteq mishaps'
<1>0. turn \in TurnRecord /\ mem \in [Server -> StateRecord] /\ warned \in BOOLEAN
  BY DEF Types, TurnTypes, MemTypes, StoreTypes, GrantTypes
<1>1. CASE Nearly(m) /\ ~m.warned
  <2>1. PICK written \in BOOLEAN :
          /\ turn' = [turn EXCEPT !.at = spot, !.warn = TRUE, !.charge = 0]
          /\ mem' = [mem EXCEPT ![turn.on] = [m EXCEPT !.warned = TRUE]]
          /\ warned' = (warned \/ written) /\ Mishap(failed \union Unless(written, "redis"))
    BY <1>1 DEF WarnRun, Record
  <2>2. /\ turn' \in TurnRecord /\ turn'.on = turn.on /\ turn'.at = spot /\ turn'.charge = 0
        /\ turn'.warn = TRUE
    BY <1>0, <2>1 DEF TurnRecord
  <2>3. mishaps' = mishaps \union failed \union Unless(written, "redis")
    BY <2>1, MishapFacts
  <2>4. warned' \in BOOLEAN /\ (warned' = TRUE \/ "redis" \in mishaps')
    BY <1>0, <2>1, <2>3 DEF Unless
  <2>5. [m EXCEPT !.warned = TRUE] \in StateRecord
    BY DEF StateRecord
  <2>6. mem'[turn.on] = [m EXCEPT !.warned = TRUE] /\ OnlyMem(turn.on)
    BY <1>0, <2>1, <2>5 DEF OnlyMem
  <2>7. m.warned = FALSE
    BY <1>1 DEF StateRecord
  <2> QED BY <2>2, <2>3, <2>4, <2>6, <2>7 DEF WarnFacts, StateRecord
<1>2. CASE ~(Nearly(m) /\ ~m.warned)
  <2>1. /\ turn' = [turn EXCEPT !.at = spot, !.charge = 0]
        /\ mem' = [mem EXCEPT ![turn.on] = m] /\ warned' = warned /\ Mishap(failed)
    BY <1>2 DEF WarnRun
  <2>2. /\ turn' \in TurnRecord /\ turn'.on = turn.on /\ turn'.at = spot /\ turn'.charge = 0
        /\ turn'.warn = turn.warn
    BY <1>0, <2>1 DEF TurnRecord
  <2>3. mem'[turn.on] = m /\ OnlyMem(turn.on)
    BY <1>0, <2>1 DEF OnlyMem
  <2> QED BY <1>0, <2>1, <2>2, <2>3, MishapFacts DEF WarnFacts
<1> QED BY <1>1, <1>2

(* The record of the server the turn is on, and the turn, after a step of  *)
(* before_call or after_call that may warn.                                *)
WorkFacts(spot) ==
  LET old == mem[turn.on]
      new == mem'[turn.on]
  IN  /\ OnlyMem(turn.on) /\ new.spent = old.spent /\ new.hydrated = old.hydrated
      /\ new.loaded = old.loaded /\ new.raised \in {old.raised, Larger(old.raised, raised)}
      /\ turn' \in TurnRecord /\ turn'.on = turn.on /\ turn'.at = spot /\ turn'.charge = 0
      /\ warned' \in BOOLEAN /\ mishaps \subseteq mishaps'
      /\ \/ /\ turn'.warn = TRUE /\ old.warned = FALSE /\ new.warned = TRUE
            /\ warned' = TRUE \/ "redis" \in mishaps'
         \/ turn'.warn = FALSE /\ new.warned = old.warned /\ warned' = warned

LEMMA WorkIs ==
  ASSUME Types, turn.on \in Server, ~turn.warn, NEW pool \in BOOLEAN, NEW redis \in BOOLEAN,
         NEW m, JudgedFacts(m, pool, redis), NEW spot, NEW failed, WarnFacts(m, spot),
         mishaps \subseteq mishaps'
  PROVE  /\ WorkFacts(spot) /\ mem'[turn.on].raised = m.raised
         /\ (Reached(m) <=> Reached(mem'[turn.on]))
<1>1. turn.warn = FALSE
  BY DEF Types, TurnTypes, MemTypes, StoreTypes, GrantTypes, TurnRecord
<1> QED BY <1>1 DEF JudgedFacts, WarnFacts, WorkFacts, Memory, Reached, Effective

LEMMA StopsIs ==
  ASSUME Types, Stops, turn.on \in Server
  PROVE  /\ WorkFacts("park") /\ Reached(mem'[turn.on])
         /\ mem'[turn.on].raised >= raised \/ "redis" \in mishaps'
<1>1. PICK pool \in BOOLEAN, redis \in BOOLEAN :
        /\ Reached(Judged(pool, redis))
        /\ WarnRun(Judged(pool, redis), "park",
                   Unless(pool, "unjudged") \union Unless(redis, "redis"))
  BY DEF Stops
<1>2. PICK m \in StateRecord : m = Judged(pool, redis) /\ JudgedFacts(m, pool, redis)
  BY JudgedIs DEF JudgedFacts
<1>3. PICK failed : failed = Unless(pool, "unjudged") \union Unless(redis, "redis")
  OBVIOUS
<1>4. WarnFacts(m, "park") /\ mishaps \subseteq mishaps' /\ failed \subseteq mishaps'
  BY <1>1, <1>2, <1>3, WarnIs
<1>5. WorkFacts("park") /\ Reached(mem'[turn.on]) /\ mem'[turn.on].raised = m.raised
  BY <1>1, <1>2, <1>4, WorkIs DEF Stops, Turn
<1>6. redis \/ "redis" \in mishaps'
  BY <1>3, <1>4 DEF Unless
<1> QED BY <1>1, <1>2, <1>5, <1>6 DEF JudgedFacts

LEMMA CallIs ==
  ASSUME Types, Call, turn.on \in Server
  PROVE  WorkFacts("call") /\ ~Reached(mem'[turn.on])
<1>1. PICK pool \in BOOLEAN, redis \in BOOLEAN :
        /\ ~Reached(Judged(pool, redis))
        /\ WarnRun(Judged(pool, redis), "call",
                   Unless(pool, "unjudged") \union Unless(redis, "redis"))
  BY DEF Call
<1>2. PICK m \in StateRecord : m = Judged(pool, redis) /\ JudgedFacts(m, pool, redis)
  BY JudgedIs DEF JudgedFacts
<1>3. WarnFacts(m, "call") /\ mishaps \subseteq mishaps'
  BY <1>1, <1>2, WarnIs
<1> QED BY <1>1, <1>2, <1>3, WorkIs DEF Call, Turn

LEMMA CommitIs ==
  ASSUME Types, Commit, turn.on \in Server
  PROVE  /\ WorkFacts("before") /\ mem'[turn.on].base = mem[turn.on].base
         /\ \/ ledger' = ledger + turn.charge
            \/ ledger' = ledger /\ "uncommitted" \in mishaps'
         /\ credits' \in {credits, credits + turn.charge}
<1>1. PICK failed \in SUBSET {"uncommitted", "uncounted"} :
        /\ ledger' = ledger + (IF "uncommitted" \in failed THEN 0 ELSE turn.charge)
        /\ credits' = credits + (IF "uncounted" \in failed THEN 0 ELSE turn.charge)
        /\ WarnRun(Memory, "before", failed)
  BY DEF Commit
<1>2. Memory \in StateRecord /\ ledger \in Nat /\ credits \in Nat /\ turn.warn = FALSE
  BY DEF Types, TurnTypes, MemTypes, StoreTypes, GrantTypes, Memory, Commit, Turn, TurnRecord
<1>3. WarnFacts(Memory, "before") /\ mishaps \subseteq mishaps' /\ failed \subseteq mishaps'
  BY <1>1, <1>2, WarnIs
<1>4. WorkFacts("before") /\ mem'[turn.on].base = mem[turn.on].base
  BY <1>2, <1>3 DEF WarnFacts, WorkFacts, Memory
<1> QED BY <1>1, <1>2, <1>3, <1>4

LEMMA ReplyIs ==
  ASSUME Types, Reply, turn.on \in Server
  PROVE  \E c \in Charge :
           /\ c \in Nat /\ total' = total + c
           /\ OnlyMem(turn.on) /\ mem'[turn.on] = [mem[turn.on] EXCEPT !.spent = @ + c]
           /\ turn' \in TurnRecord /\ turn'.on = turn.on /\ turn'.warn = turn.warn
           /\ turn'.charge = c /\ turn'.at = (IF c = 0 THEN "before" ELSE "commit")
<1>1. PICK c \in Charge :
        /\ total' = total + c /\ mem' = [mem EXCEPT ![turn.on] = Counted(@, c)]
        /\ turn' = [turn EXCEPT !.at = IF c = 0 THEN "before" ELSE "commit", !.charge = c]
  BY DEF Reply
<1>2. c \in Nat
  BY SpendingAssumption
<1>3. mem[turn.on] \in StateRecord /\ turn \in TurnRecord /\ mem \in [Server -> StateRecord]
  BY DEF Types, TurnTypes, MemTypes, StoreTypes, GrantTypes
<1>4. Counted(mem[turn.on], c) \in StateRecord
  BY <1>2, <1>3 DEF Counted, StateRecord
<1>5. mem'[turn.on] = Counted(mem[turn.on], c) /\ OnlyMem(turn.on)
  BY <1>1, <1>3, <1>4 DEF OnlyMem
<1>6. turn' \in TurnRecord /\ turn'.on = turn.on /\ turn'.warn = turn.warn
      /\ turn'.charge = c /\ turn'.at = (IF c = 0 THEN "before" ELSE "commit")
  BY <1>1, <1>3 DEF TurnRecord
<1> QED BY <1>1, <1>2, <1>5, <1>6 DEF Counted

LEMMA ExhaustedIs ==
  ASSUME Types, Exhausted, turn.on \in Server
  PROVE  /\ OnlyMem(turn.on) /\ mem'[turn.on] = [mem[turn.on] EXCEPT !.base = Base]
         /\ turn' \in TurnRecord /\ turn'.on = turn.on /\ turn'.warn = FALSE
         /\ turn'.charge = turn.charge /\ turn'.at = "park"
<1>1. mem[turn.on] \in StateRecord /\ turn \in TurnRecord /\ mem \in [Server -> StateRecord]
  BY DEF Types, TurnTypes, MemTypes, StoreTypes, GrantTypes
<1>2. [mem[turn.on] EXCEPT !.base = Base] \in StateRecord
  BY <1>1 DEF StateRecord
<1> QED BY <1>1, <1>2 DEF Exhausted, Goes, Turn, OnlyMem, TurnRecord

(* What a step does to the grant requests.                                 *)
OnlyGrant(g) == grant' \in [Grant -> GrantRecord] /\ \A h \in Grant \ {g} : grant'[h] = grant[h]
SameNumbers(g) == grant'[g].to = grant[g].to /\ grant'[g].previous = grant[g].previous

LEMMA NumbersFacts ==
  ASSUME Types, NEW g \in Grant
  PROVE  /\ Numbers(g).previous = raised /\ Numbers(g).to \in Nat
         /\ \A n \in {Base, raised, credits, ledger} : n < Numbers(g).to
<1> DEFINE S == {Base, raised, credits, ledger}
<1>1. \A n \in S : n \in Nat
  BY SpendingAssumption DEF Types, TurnTypes, MemTypes, StoreTypes, GrantTypes
<1>2. \E x \in S : \A y \in S : x >= y
  <2>1. PICK a \in {Base, raised} : a >= Base /\ a >= raised
    BY <1>1
  <2>2. PICK b \in {credits, ledger} : b >= credits /\ b >= ledger
    BY <1>1
  <2>3. a >= b \/ b >= a
    BY <1>1
  <2> QED BY <1>1, <2>1, <2>2, <2>3
<1>3. Max(S) \in S /\ \A y \in S : Max(S) >= y
  BY <1>2 DEF Max
<1>4. Numbers(g).to = Max(S) + Chunk /\ Numbers(g).previous = raised
  BY DEF Numbers
<1> HIDE DEF S
<1>5. Numbers(g).to \in Nat /\ \A n \in S : n < Numbers(g).to
  BY <1>1, <1>3, <1>4, SpendingAssumption
<1> QED BY <1>4, <1>5 DEF S

LEMMA StartTurnIs ==
  ASSUME Types, StartTurn
  PROVE  /\ grant' \in [Grant -> GrantRecord]
         /\ \A g \in Grant : /\ SameNumbers(g) /\ grant'[g].at = grant[g].at
                             /\ grant'[g].stale = grant[g].stale /\ grant'[g].quiet = FALSE
BY DEF Types, TurnTypes, MemTypes, StoreTypes, GrantTypes, StartTurn, GrantRecord, SameNumbers

LEMMA LookIs ==
  ASSUME Types, NEW g \in Grant, Look(g)
  PROVE  /\ OnlyGrant(g) /\ grant'[g].at = "claim" /\ grant'[g].previous = raised
         /\ grant'[g].to = Numbers(g).to
BY NumbersFacts DEF Types, MemTypes, StoreTypes, GrantTypes, Look, OnlyGrant, GrantRecord

LEMMA ClaimIs ==
  ASSUME Types, NEW g \in Grant, Claim(g)
  PROVE  /\ grant' \in [Grant -> GrantRecord] /\ SameNumbers(g)
         /\ grant'[g].at = "set" /\ grant'[g].stale = grant[g].stale
         /\ \A h \in Grant \ {g} : /\ SameNumbers(h) /\ grant'[h].at = grant[h].at
                                   /\ grant'[h].quiet = grant[h].quiet
                                   /\ grant'[h].stale = (grant[h].at # "idle")
<1>1. ASSUME NEW h \in Grant
      PROVE  /\ [grant[g] EXCEPT !.at = "set", !.quiet = TRUE] \in GrantRecord
             /\ [grant[h] EXCEPT !.stale = ~At(h, "idle")] \in GrantRecord
  BY DEF Types, TurnTypes, MemTypes, StoreTypes, GrantTypes, GrantRecord
<1>2. grant' = [h \in Grant |-> IF h = g THEN [grant[g] EXCEPT !.at = "set", !.quiet = TRUE]
                                ELSE [grant[h] EXCEPT !.stale = ~At(h, "idle")]]
  BY DEF Claim
<1>3. grant'[g] = [grant[g] EXCEPT !.at = "set", !.quiet = TRUE]
  BY <1>2
<1>4. ASSUME NEW h \in Grant \ {g} PROVE grant'[h] = [grant[h] EXCEPT !.stale = ~At(h, "idle")]
  BY <1>2
<1>5. grant' \in [Grant -> GrantRecord]
  BY <1>1, <1>2
<1>6. grant[g] \in GrantRecord
  BY DEF Types, TurnTypes, MemTypes, StoreTypes, GrantTypes
<1>7. ASSUME NEW h \in Grant \ {g}
      PROVE /\ SameNumbers(h) /\ grant'[h].at = grant[h].at /\ grant'[h].quiet = grant[h].quiet
            /\ grant'[h].stale = (grant[h].at # "idle")
  <2>1. grant[h] \in GrantRecord
    BY DEF Types, TurnTypes, MemTypes, StoreTypes, GrantTypes
  <2> QED BY <1>4, <2>1 DEF GrantRecord, SameNumbers, At
<1>8. SameNumbers(g) /\ grant'[g].at = "set" /\ grant'[g].stale = grant[g].stale
  BY <1>3, <1>6 DEF GrantRecord, SameNumbers
<1> QED BY <1>5, <1>7, <1>8

LEMMA GoneIs ==
  ASSUME Types, NEW g \in Grant, Gone(g)
  PROVE  OnlyGrant(g) /\ grant'[g] = NoGrant
BY DEF Types, TurnTypes, MemTypes, StoreTypes, GrantTypes, Gone, OnlyGrant, GrantRecord, NoGrant

LEMMA SetCeilingIs ==
  ASSUME Types, NEW g \in Grant, SetCeiling(g)
  PROVE  /\ OnlyGrant(g) /\ SameNumbers(g) /\ grant'[g].at \in {"bind", "undo"}
         /\ mishaps \subseteq mishaps' /\ raised' \in Nat /\ highest' \in Nat
         /\ fresh' \in BOOLEAN
         /\ \/ /\ raised' = grant[g].to /\ highest' = Larger(highest, raised')
               /\ fresh' = grant[g].quiet /\ (grant[g].stale = FALSE \/ "stale" \in mishaps')
            \/ raised' = raised /\ highest' = highest /\ fresh' = fresh
<1>0. grant[g] \in GrantRecord /\ grant \in [Grant -> GrantRecord] /\ bound \in BOOLEAN
      /\ highest \in Nat /\ raised \in Nat /\ fresh \in BOOLEAN
  BY DEF Types, TurnTypes, MemTypes, StoreTypes, GrantTypes
<1>1. ASSUME NEW spot \in {"bind", "undo"}, grant' = [grant EXCEPT ![g].at = spot, ![g].was = bound]
      PROVE  OnlyGrant(g) /\ SameNumbers(g) /\ grant'[g].at = spot
  BY <1>0, <1>1 DEF OnlyGrant, GrantRecord, SameNumbers
<1>2. CASE /\ grant' = [grant EXCEPT ![g].at = "bind", ![g].was = bound]
           /\ raised' = grant[g].to /\ highest' = Larger(highest, raised')
           /\ fresh' = grant[g].quiet
           /\ Mishap(IF grant[g].stale THEN {"stale"} ELSE {})
  <2>1. mishaps \subseteq mishaps' /\ (grant[g].stale = FALSE \/ "stale" \in mishaps')
    BY <1>0, <1>2, MishapFacts DEF GrantRecord
  <2>2. raised' \in Nat /\ fresh' \in BOOLEAN
    BY <1>0, <1>2 DEF GrantRecord
  <2> QED BY <1>0, <1>1, <1>2, <2>1, <2>2, LargerFacts
<1>3. CASE /\ grant' = [grant EXCEPT ![g].at = "undo", ![g].was = bound]
           /\ UNCHANGED <<raised, highest, fresh, mishaps>>
  BY <1>0, <1>1, <1>3
<1> QED BY <1>2, <1>3 DEF SetCeiling

LEMMA AnnounceIs ==
  ASSUME Types, NEW g \in Grant, Announce(g)
  PROVE  OnlyGrant(g) /\ (grant'[g] = NoGrant \/ (SameNumbers(g) /\ grant'[g].at = "undo"))
<1>1. CASE Moves(g, "undo")
  BY <1>1 DEF Types, GrantTypes, Moves, OnlyGrant, GrantRecord, SameNumbers
<1> QED BY <1>1, GoneIs DEF Announce

LEMMA RestartIs ==
  ASSUME Types, NEW s \in Server, Restart(s)
  PROVE  /\ grant' \in [Grant -> GrantRecord]
         /\ \A g \in Grant : grant'[g] \in {grant[g], NoGrant}
         /\ mishaps \subseteq mishaps'
         /\ IF s = late.on \/ (s = turn.on /\ turn.at = "commit") THEN "crash" \in mishaps'
                                                                 ELSE "restart" \in mishaps'
BY MishapFacts DEF Types, GrantTypes, Restart, GrantRecord, NoGrant

(* The turn and the late charge.                                           *)
LEMMA NoneIs ==
  /\ NoTurn \in TurnRecord /\ NoTurn.on = None /\ NoTurn.at = "idle" /\ NoTurn.charge = 0
  /\ NoTurn.warn = FALSE
  /\ NoLate \in LateRecord /\ NoLate.on = None /\ NoLate.charge = 0
  /\ Blank \in StateRecord /\ Blank.spent = 0 /\ Blank.raised = 0 /\ Blank.hydrated = FALSE
  /\ Blank.loaded = FALSE /\ Blank.base = 0
  /\ NoGrant \in GrantRecord /\ NoGrant.at = "idle" /\ NoGrant.previous = 0
BY DEF NoTurn, TurnRecord, NoLate, LateRecord, Blank, StateRecord, NoGrant, GrantRecord

LEMMA StartIs ==
  ASSUME StartTurn, place \in Server
  PROVE  /\ turn' \in TurnRecord /\ turn'.on = place /\ turn'.at = "before" /\ turn'.charge = 0
         /\ turn'.warn = FALSE
BY DEF StartTurn, NoTurn, TurnRecord

LEMMA GoesIs ==
  ASSUME turn \in TurnRecord, NEW spot \in {"judge", "park", "release"}, Goes(spot)
  PROVE  /\ turn' \in TurnRecord /\ turn'.on = turn.on /\ turn'.at = spot
         /\ turn'.charge = turn.charge /\ turn'.warn = turn.warn
BY DEF Goes, TurnRecord

LEMMA SentIs ==
  ASSUME turn \in TurnRecord, SendWarning
  PROVE  /\ turn' \in TurnRecord /\ turn'.on = turn.on /\ turn'.at = turn.at
         /\ turn'.charge = turn.charge /\ turn'.warn = FALSE
BY DEF SendWarning, TurnRecord

LEMMA StoppedIs ==
  ASSUME turn \in TurnRecord, late \in LateRecord, Stopped
  PROVE  /\ turn' = NoTurn /\ late' \in LateRecord
         /\ IF turn.at = "commit"
              THEN late = NoLate /\ late'.on = turn.on /\ late'.charge = turn.charge
              ELSE late' = late
BY DEF Stopped, TurnRecord, LateRecord

------------------------------------------------------------------------------
(* The types, and who a turn belongs to.                                   *)
LEMMA OnServer ==
  ASSUME Types, TurnFits, turn.at # "idle"
  PROVE  turn.on \in Server /\ turn.on = place
BY DEF Types, MemTypes, TurnFits

LEMMA TurnTypesStep == ASSUME Types, TurnFits, Next PROVE TurnTypes'
<1>0. TurnTypes /\ place \in Server /\ (turn.at # "idle" => turn.on \in Server)
  BY OnServer DEF Types, MemTypes
<1>1. ASSUME StartTurn PROVE TurnTypes'
  BY <1>1, <1>0, StartIs DEF StartTurn, TurnTypes
<1>2. ASSUME Remember PROVE TurnTypes'
  BY <1>2, <1>0, GoesIs DEF Remember, TurnTypes
<1>3. ASSUME Exhausted PROVE TurnTypes'
  BY <1>3, <1>0, GoesIs DEF Exhausted, TurnTypes
<1>4. ASSUME Stops PROVE TurnTypes'
  BY <1>4, <1>0, StopsIs DEF Stops, Turn, WorkFacts, TurnTypes
<1>5. ASSUME Call PROVE TurnTypes'
  BY <1>5, <1>0, CallIs DEF Call, Turn, WorkFacts, TurnTypes
<1>6. ASSUME Reply PROVE TurnTypes'
  BY <1>6, <1>0, ReplyIs DEF Reply, Turn, TurnTypes
<1>7. ASSUME Commit PROVE TurnTypes'
  BY <1>7, <1>0, CommitIs DEF Commit, Turn, WorkFacts, TurnTypes
<1>8. ASSUME EndTurn PROVE TurnTypes'
  BY <1>8, <1>0, NoneIs DEF EndTurn, TurnTypes
<1>9. ASSUME SendWarning PROVE TurnTypes'
  BY <1>9, <1>0, SentIs DEF SendWarning, TurnTypes
<1>10. ASSUME Park PROVE TurnTypes'
  BY <1>10, <1>0, NoneIs, GoesIs DEF Park, TurnTypes
<1>11. ASSUME Release PROVE TurnTypes'
  BY <1>11, <1>0, NoneIs DEF Release, TurnTypes
<1>12. ASSUME NEW g \in Grant, Look(g) PROVE TurnTypes'
  BY <1>12, <1>0 DEF Look, TurnTypes
<1>13. ASSUME NEW g \in Grant, Claim(g) PROVE TurnTypes'
  BY <1>13, <1>0 DEF Claim, TurnTypes
<1>14. ASSUME NEW g \in Grant, Refuse(g) PROVE TurnTypes'
  BY <1>14, <1>0 DEF Refuse, TurnTypes
<1>15. ASSUME NEW g \in Grant, SetCeiling(g) PROVE TurnTypes'
  BY <1>15, <1>0 DEF SetCeiling, TurnTypes
<1>16. ASSUME NEW g \in Grant, Announce(g) PROVE TurnTypes'
  BY <1>16, <1>0 DEF Announce, TurnTypes
<1>17. ASSUME NEW g \in Grant, Undo(g) PROVE TurnTypes'
  BY <1>17, <1>0 DEF Undo, TurnTypes
<1>18. ASSUME LateCommit PROVE TurnTypes'
  BY <1>18, <1>0, NoneIs DEF LateCommit, TurnTypes
<1>19. ASSUME Reconnect PROVE TurnTypes'
  BY <1>19, <1>0, NoneIs, StoppedIs DEF Reconnect, TurnTypes
<1>20. ASSUME Lapse PROVE TurnTypes'
  BY <1>20, <1>0 DEF Lapse, TurnTypes
<1>21. ASSUME NEW s \in Server, Restart(s) PROVE TurnTypes'
  BY <1>21, <1>0, NoneIs DEF Restart, TurnTypes
<1>22. ASSUME NEW s \in Server, Evict(s) PROVE TurnTypes'
  BY <1>22, <1>0 DEF Evict, TurnTypes
<1> QED BY <1>1, <1>2, <1>3, <1>4, <1>5, <1>6, <1>7, <1>8, <1>9, <1>10, <1>11, <1>12, <1>13, <1>14,
      <1>15, <1>16, <1>17, <1>18, <1>19, <1>20, <1>21, <1>22 DEF Next

LEMMA MemTypesStep == ASSUME Types, TurnFits, Next PROVE MemTypes'
<1>0. MemTypes /\ (turn.at # "idle" => turn.on \in Server)
  BY OnServer DEF Types
<1>1. ASSUME StartTurn PROVE MemTypes'
  BY <1>1, <1>0 DEF StartTurn, MemTypes
<1>2. ASSUME Remember PROVE MemTypes'
  BY <1>2, <1>0, RememberIs DEF Remember, Turn, RememberFacts, OnlyMem, MemTypes
<1>3. ASSUME Exhausted PROVE MemTypes'
  BY <1>3, <1>0, ExhaustedIs DEF Exhausted, Turn, OnlyMem, MemTypes
<1>4. ASSUME Stops PROVE MemTypes'
  BY <1>4, <1>0, StopsIs DEF Stops, Turn, WorkFacts, OnlyMem, MemTypes
<1>5. ASSUME Call PROVE MemTypes'
  BY <1>5, <1>0, CallIs DEF Call, Turn, WorkFacts, OnlyMem, MemTypes
<1>6. ASSUME Reply PROVE MemTypes'
  BY <1>6, <1>0, ReplyIs DEF Reply, Turn, OnlyMem, MemTypes
<1>7. ASSUME Commit PROVE MemTypes'
  BY <1>7, <1>0, CommitIs DEF Commit, Turn, WorkFacts, OnlyMem, MemTypes
<1>8. ASSUME EndTurn PROVE MemTypes'
  BY <1>8, <1>0 DEF EndTurn, MemTypes
<1>9. ASSUME SendWarning PROVE MemTypes'
  BY <1>9, <1>0 DEF SendWarning, MemTypes
<1>10. ASSUME Park PROVE MemTypes'
  BY <1>10, <1>0 DEF Park, MemTypes
<1>11. ASSUME Release PROVE MemTypes'
  BY <1>11, <1>0 DEF Release, MemTypes
<1>12. ASSUME NEW g \in Grant, Look(g) PROVE MemTypes'
  BY <1>12, <1>0 DEF Look, MemTypes
<1>13. ASSUME NEW g \in Grant, Claim(g) PROVE MemTypes'
  BY <1>13, <1>0 DEF Claim, MemTypes
<1>14. ASSUME NEW g \in Grant, Refuse(g) PROVE MemTypes'
  BY <1>14, <1>0 DEF Refuse, MemTypes
<1>15. ASSUME NEW g \in Grant, SetCeiling(g) PROVE MemTypes'
  BY <1>15, <1>0 DEF SetCeiling, MemTypes
<1>16. ASSUME NEW g \in Grant, Announce(g) PROVE MemTypes'
  BY <1>16, <1>0 DEF Announce, MemTypes
<1>17. ASSUME NEW g \in Grant, Undo(g) PROVE MemTypes'
  BY <1>17, <1>0 DEF Undo, MemTypes
<1>18. ASSUME LateCommit PROVE MemTypes'
  BY <1>18, <1>0 DEF LateCommit, MemTypes
<1>19. ASSUME Reconnect PROVE MemTypes'
  BY <1>19, <1>0 DEF Reconnect, MemTypes, Stopped
<1>20. ASSUME Lapse PROVE MemTypes'
  BY <1>20, <1>0 DEF Lapse, MemTypes
<1>21. ASSUME NEW s \in Server, Restart(s) PROVE MemTypes'
  BY <1>21, <1>0, NoneIs DEF Restart, MemTypes
<1>22. ASSUME NEW s \in Server, Evict(s) PROVE MemTypes'
  BY <1>22, <1>0, NoneIs DEF Evict, MemTypes
<1> QED BY <1>1, <1>2, <1>3, <1>4, <1>5, <1>6, <1>7, <1>8, <1>9, <1>10, <1>11, <1>12, <1>13, <1>14,
      <1>15, <1>16, <1>17, <1>18, <1>19, <1>20, <1>21, <1>22 DEF Next

LEMMA ChargesAre == ASSUME Types PROVE turn.charge \in Nat /\ late.charge \in Nat
<1>0. turn \in TurnRecord /\ late \in LateRecord
  BY DEF Types, TurnTypes
<1>1. turn.charge \in Charge \union {0}
  BY <1>0 DEF TurnRecord
<1>2. late.charge \in Charge \union {0}
  BY <1>0 DEF LateRecord
<1>3. ASSUME NEW c \in Charge \union {0} PROVE c \in Nat
  BY SpendingAssumption
<1> QED BY <1>1, <1>2, <1>3

LEMMA StoreTypesStep == ASSUME Types, TurnFits, Next PROVE StoreTypes'
<1>0. StoreTypes /\ (turn.at # "idle" => turn.on \in Server)
  BY OnServer DEF Types
<1>a. turn.charge \in Nat /\ late.charge \in Nat
  BY ChargesAre
<1>b. \A g \in Grant : grant[g].previous \in Nat /\ grant[g].was \in BOOLEAN
  BY DEF Types, GrantTypes, GrantRecord
<1>1. ASSUME StartTurn PROVE StoreTypes'
  BY <1>1, <1>0 DEF StartTurn, StoreTypes, stores, history
<1>2. ASSUME Remember PROVE StoreTypes'
  BY <1>2, <1>0 DEF Remember, StoreTypes, stores, history
<1>3. ASSUME Exhausted PROVE StoreTypes'
  BY <1>3, <1>0 DEF Exhausted, StoreTypes, stores, history
<1>4. ASSUME Stops PROVE StoreTypes'
  BY <1>4, <1>0, StopsIs DEF Stops, Turn, WorkFacts, StoreTypes, stores, history
<1>5. ASSUME Call PROVE StoreTypes'
  BY <1>5, <1>0, CallIs DEF Call, Turn, WorkFacts, StoreTypes, stores, history
<1>6. ASSUME Reply PROVE StoreTypes'
  BY <1>6, <1>0, SpendingAssumption DEF Reply, StoreTypes, stores
<1>7. ASSUME Commit PROVE StoreTypes'
  <2>1. /\ WorkFacts("before") /\ ledger' \in {ledger, ledger + turn.charge}
        /\ credits' \in {credits, credits + turn.charge}
    BY <1>7, <1>0, CommitIs DEF Commit, Turn
  <2> QED BY <1>7, <1>0, <1>a, <2>1 DEF Commit, WorkFacts, StoreTypes, history
<1>8. ASSUME EndTurn PROVE StoreTypes'
  BY <1>8, <1>0 DEF EndTurn, StoreTypes, stores, history
<1>9. ASSUME SendWarning PROVE StoreTypes'
  BY <1>9, <1>0 DEF SendWarning, StoreTypes, stores, history
<1>10. ASSUME Park PROVE StoreTypes'
  BY <1>10, <1>0 DEF Park, StoreTypes, stores, history
<1>11. ASSUME Release PROVE StoreTypes'
  BY <1>11, <1>0 DEF Release, StoreTypes, stores, history
<1>12. ASSUME NEW g \in Grant, Look(g) PROVE StoreTypes'
  BY <1>12, <1>0 DEF Look, StoreTypes, stores, history
<1>13. ASSUME NEW g \in Grant, Claim(g) PROVE StoreTypes'
  BY <1>13, <1>0 DEF Claim, StoreTypes, stores, history
<1>14. ASSUME NEW g \in Grant, Refuse(g) PROVE StoreTypes'
  BY <1>14, <1>0 DEF Refuse, StoreTypes, stores, history
<1>15. ASSUME NEW g \in Grant, SetCeiling(g) PROVE StoreTypes'
  BY <1>15, <1>0, SetCeilingIs DEF SetCeiling, StoreTypes
<1>16. ASSUME NEW g \in Grant, Announce(g) PROVE StoreTypes'
  BY <1>16, <1>0 DEF Announce, StoreTypes, stores, history
<1>17. ASSUME NEW g \in Grant, Undo(g) PROVE StoreTypes'
  BY <1>17, <1>0, <1>b DEF Undo, StoreTypes, history
<1>18. ASSUME LateCommit PROVE StoreTypes'
  BY <1>18, <1>0, <1>a DEF LateCommit, StoreTypes, history
<1>19. ASSUME Reconnect PROVE StoreTypes'
  BY <1>19, <1>0 DEF Reconnect, StoreTypes, stores, history, Stopped
<1>20. ASSUME Lapse PROVE StoreTypes'
  BY <1>20, <1>0 DEF Lapse, StoreTypes, stores, history
<1>21. ASSUME NEW s \in Server, Restart(s) PROVE StoreTypes'
  BY <1>21, <1>0 DEF Restart, StoreTypes, stores, history
<1>22. ASSUME NEW s \in Server, Evict(s) PROVE StoreTypes'
  BY <1>22, <1>0 DEF Evict, StoreTypes, stores, history
<1> QED BY <1>1, <1>2, <1>3, <1>4, <1>5, <1>6, <1>7, <1>8, <1>9, <1>10, <1>11, <1>12, <1>13, <1>14,
      <1>15, <1>16, <1>17, <1>18, <1>19, <1>20, <1>21, <1>22 DEF Next

LEMMA GrantTypesStep == ASSUME Types, TurnFits, Next PROVE GrantTypes'
<1>0. GrantTypes
  BY DEF Types
<1>1. ASSUME StartTurn PROVE GrantTypes'
  BY <1>1, StartTurnIs DEF GrantTypes
<1>2. ASSUME Remember PROVE GrantTypes'
  BY <1>2, <1>0 DEF Remember, GrantTypes
<1>3. ASSUME Exhausted PROVE GrantTypes'
  BY <1>3, <1>0 DEF Exhausted, GrantTypes
<1>4. ASSUME Stops PROVE GrantTypes'
  BY <1>4, <1>0 DEF Stops, GrantTypes
<1>5. ASSUME Call PROVE GrantTypes'
  BY <1>5, <1>0 DEF Call, GrantTypes
<1>6. ASSUME Reply PROVE GrantTypes'
  BY <1>6, <1>0 DEF Reply, GrantTypes
<1>7. ASSUME Commit PROVE GrantTypes'
  BY <1>7, <1>0 DEF Commit, GrantTypes
<1>8. ASSUME EndTurn PROVE GrantTypes'
  BY <1>8, <1>0 DEF EndTurn, GrantTypes
<1>9. ASSUME SendWarning PROVE GrantTypes'
  BY <1>9, <1>0 DEF SendWarning, GrantTypes
<1>10. ASSUME Park PROVE GrantTypes'
  BY <1>10, <1>0 DEF Park, GrantTypes
<1>11. ASSUME Release PROVE GrantTypes'
  BY <1>11, <1>0 DEF Release, GrantTypes
<1>12. ASSUME NEW g \in Grant, Look(g) PROVE GrantTypes'
  BY <1>12, LookIs DEF OnlyGrant, GrantTypes
<1>13. ASSUME NEW g \in Grant, Claim(g) PROVE GrantTypes'
  BY <1>13, ClaimIs DEF GrantTypes
<1>14. ASSUME NEW g \in Grant, Refuse(g) PROVE GrantTypes'
  BY <1>14, GoneIs DEF Refuse, OnlyGrant, GrantTypes
<1>15. ASSUME NEW g \in Grant, SetCeiling(g) PROVE GrantTypes'
  BY <1>15, SetCeilingIs DEF OnlyGrant, GrantTypes
<1>16. ASSUME NEW g \in Grant, Announce(g) PROVE GrantTypes'
  BY <1>16, AnnounceIs DEF OnlyGrant, GrantTypes
<1>17. ASSUME NEW g \in Grant, Undo(g) PROVE GrantTypes'
  BY <1>17, GoneIs DEF Undo, OnlyGrant, GrantTypes
<1>18. ASSUME LateCommit PROVE GrantTypes'
  BY <1>18, <1>0 DEF LateCommit, GrantTypes
<1>19. ASSUME Reconnect PROVE GrantTypes'
  BY <1>19, <1>0 DEF Reconnect, GrantTypes, Stopped
<1>20. ASSUME Lapse PROVE GrantTypes'
  BY <1>20, <1>0 DEF Lapse, GrantTypes
<1>21. ASSUME NEW s \in Server, Restart(s) PROVE GrantTypes'
  BY <1>21, RestartIs DEF GrantTypes
<1>22. ASSUME NEW s \in Server, Evict(s) PROVE GrantTypes'
  BY <1>22, <1>0 DEF Evict, GrantTypes
<1> QED BY <1>1, <1>2, <1>3, <1>4, <1>5, <1>6, <1>7, <1>8, <1>9, <1>10, <1>11, <1>12, <1>13, <1>14,
      <1>15, <1>16, <1>17, <1>18, <1>19, <1>20, <1>21, <1>22 DEF Next

LEMMA TurnStep == ASSUME Types, TurnFits, Next PROVE TurnFits'
<1>0. /\ Types /\ (turn.at # "idle" => turn.on \in Server /\ turn.on = place)
      /\ None \notin Server /\ place \in Server /\ turn \in TurnRecord /\ late \in LateRecord
  BY SpendingAssumption, OnServer DEF Types, MemTypes, TurnTypes
<1>1. ASSUME StartTurn PROVE TurnFits'
  BY <1>1, <1>0, StartIs DEF StartTurn, TurnFits
<1>2. ASSUME Remember PROVE TurnFits'
  BY <1>2, <1>0, GoesIs, RememberIs DEF Remember, Turn, RememberFacts, TurnFits
<1>3. ASSUME Exhausted PROVE TurnFits'
  BY <1>3, <1>0, ExhaustedIs DEF Exhausted, Turn, TurnFits
<1>4. ASSUME Stops PROVE TurnFits'
  BY <1>4, <1>0, StopsIs DEF Stops, Turn, WorkFacts, TurnFits
<1>5. ASSUME Call PROVE TurnFits'
  BY <1>5, <1>0, CallIs DEF Call, Turn, WorkFacts, TurnFits
<1>6. ASSUME Reply PROVE TurnFits'
  <2>1. PICK c \in Charge : /\ turn'.on = turn.on /\ turn'.warn = turn.warn /\ turn'.charge = c
                            /\ turn'.at = (IF c = 0 THEN "before" ELSE "commit")
                            /\ mem'[turn.on] = [mem[turn.on] EXCEPT !.spent = @ + c]
    BY <1>6, <1>0, ReplyIs DEF Reply, Turn
  <2>2. mem'[turn.on].loaded = mem[turn.on].loaded /\ turn.at = "call"
    BY <1>6, <1>0, <2>1 DEF Reply, Turn, Types, MemTypes, StateRecord
  <2>3. UNCHANGED <<place, late>>
    BY <1>6 DEF Reply
  <2> QED BY <1>0, <2>1, <2>2, <2>3 DEF TurnFits
<1>7. ASSUME Commit PROVE TurnFits'
  BY <1>7, <1>0, CommitIs DEF Commit, Turn, WorkFacts, TurnFits
<1>8. ASSUME EndTurn PROVE TurnFits'
  BY <1>8, <1>0, NoneIs DEF EndTurn, TurnFits
<1>9. ASSUME SendWarning PROVE TurnFits'
  BY <1>9, <1>0, SentIs DEF SendWarning, TurnFits
<1>10. ASSUME Park PROVE TurnFits'
  BY <1>10, <1>0, NoneIs, GoesIs DEF Park, Turn, TurnFits
<1>11. ASSUME Release PROVE TurnFits'
  BY <1>11, <1>0, NoneIs DEF Release, TurnFits
<1>12. ASSUME NEW g \in Grant, Look(g) PROVE TurnFits'
  BY <1>12, <1>0 DEF Look, TurnFits
<1>13. ASSUME NEW g \in Grant, Claim(g) PROVE TurnFits'
  BY <1>13, <1>0 DEF Claim, TurnFits
<1>14. ASSUME NEW g \in Grant, Refuse(g) PROVE TurnFits'
  BY <1>14, <1>0 DEF Refuse, TurnFits
<1>15. ASSUME NEW g \in Grant, SetCeiling(g) PROVE TurnFits'
  BY <1>15, <1>0 DEF SetCeiling, TurnFits
<1>16. ASSUME NEW g \in Grant, Announce(g) PROVE TurnFits'
  BY <1>16, <1>0 DEF Announce, TurnFits
<1>17. ASSUME NEW g \in Grant, Undo(g) PROVE TurnFits'
  BY <1>17, <1>0 DEF Undo, TurnFits
<1>18. ASSUME LateCommit PROVE TurnFits'
  BY <1>18, <1>0, NoneIs DEF LateCommit, TurnFits
<1>19. ASSUME Reconnect PROVE TurnFits'
  BY <1>19, <1>0, NoneIs, StoppedIs DEF Reconnect, TurnFits
<1>20. ASSUME Lapse PROVE TurnFits'
  BY <1>20, <1>0 DEF Lapse, TurnFits
<1>21. ASSUME NEW s \in Server, Restart(s) PROVE TurnFits'
  BY <1>21, <1>0, NoneIs DEF Restart, TurnFits, Types, MemTypes
<1>22. ASSUME NEW s \in Server, Evict(s) PROVE TurnFits'
  BY <1>22, <1>0 DEF Evict, TurnFits, Types, MemTypes
<1> QED BY <1>1, <1>2, <1>3, <1>4, <1>5, <1>6, <1>7, <1>8, <1>9, <1>10, <1>11, <1>12, <1>13, <1>14,
      <1>15, <1>16, <1>17, <1>18, <1>19, <1>20, <1>21, <1>22 DEF Next
LEMMA TypesStep == ASSUME Types, TurnFits, Next PROVE Types'
BY TurnTypesStep, MemTypesStep, StoreTypesStep, GrantTypesStep DEF Types

------------------------------------------------------------------------------
(* What only grows.                                                        *)
Growing == total <= total' /\ highest <= highest' /\ mishaps \subseteq mishaps'

LEMMA GrowingStep == ASSUME Types, TurnFits, Next PROVE Growing
<1>0. Types /\ total \in Nat /\ highest \in Nat /\ (turn.at # "idle" => turn.on \in Server)
  BY OnServer DEF Types, StoreTypes
<1>1. ASSUME StartTurn PROVE Growing
  BY <1>1, <1>0 DEF StartTurn, history, Growing
<1>2. ASSUME Remember PROVE Growing
  <2>1. mishaps \subseteq mishaps'
    BY <1>2, <1>0, RememberIs DEF Remember, Turn, RememberFacts
  <2> QED BY <1>2, <1>0, <2>1 DEF Remember, history, Growing
<1>3. ASSUME Exhausted PROVE Growing
  BY <1>3, <1>0 DEF Exhausted, history, Growing
<1>4. ASSUME Stops PROVE Growing
  <2>1. mishaps \subseteq mishaps'
    BY <1>4, <1>0, StopsIs DEF Stops, Turn, WorkFacts
  <2> QED BY <1>4, <1>0, <2>1 DEF Stops, history, Growing
<1>5. ASSUME Call PROVE Growing
  <2>1. mishaps \subseteq mishaps'
    BY <1>5, <1>0, CallIs DEF Call, Turn, WorkFacts
  <2> QED BY <1>5, <1>0, <2>1 DEF Call, history, Growing
<1>6. ASSUME Reply PROVE Growing
  <2>1. PICK c \in Charge : c \in Nat /\ total' = total + c
    BY <1>6, <1>0, ReplyIs DEF Reply, Turn
  <2>2. mishaps' = mishaps /\ highest' = highest
    BY <1>6 DEF Reply
  <2> QED BY <1>0, <2>1, <2>2 DEF Growing
<1>7. ASSUME Commit PROVE Growing
  <2>1. mishaps \subseteq mishaps'
    BY <1>7, <1>0, CommitIs DEF Commit, Turn, WorkFacts
  <2> QED BY <1>7, <1>0, <2>1 DEF Commit, history, Growing
<1>8. ASSUME EndTurn PROVE Growing
  BY <1>8, <1>0 DEF EndTurn, history, Growing
<1>9. ASSUME SendWarning PROVE Growing
  BY <1>9, <1>0 DEF SendWarning, history, Growing
<1>10. ASSUME Park PROVE Growing
  BY <1>10, <1>0 DEF Park, history, Growing
<1>11. ASSUME Release PROVE Growing
  BY <1>11, <1>0 DEF Release, history, Growing
<1>12. ASSUME NEW g \in Grant, Look(g) PROVE Growing
  BY <1>12, <1>0, MishapFacts DEF Look, history, Growing
<1>13. ASSUME NEW g \in Grant, Claim(g) PROVE Growing
  BY <1>13, <1>0 DEF Claim, history, Growing
<1>14. ASSUME NEW g \in Grant, Refuse(g) PROVE Growing
  BY <1>14, <1>0 DEF Refuse, history, Growing
<1>15. ASSUME NEW g \in Grant, SetCeiling(g) PROVE Growing
  <2>1. highest <= highest' /\ mishaps \subseteq mishaps'
    BY <1>15, <1>0, SetCeilingIs, LargerFacts
  <2> QED BY <1>15, <1>0, <2>1 DEF SetCeiling, Growing
<1>16. ASSUME NEW g \in Grant, Announce(g) PROVE Growing
  BY <1>16, <1>0 DEF Announce, history, Growing
<1>17. ASSUME NEW g \in Grant, Undo(g) PROVE Growing
  BY <1>17, <1>0, MishapFacts DEF Undo, history, Growing
<1>18. ASSUME LateCommit PROVE Growing
  BY <1>18, <1>0 DEF LateCommit, history, Growing
<1>19. ASSUME Reconnect PROVE Growing
  BY <1>19, <1>0, MishapFacts DEF Reconnect, history, Growing
<1>20. ASSUME Lapse PROVE Growing
  BY <1>20, <1>0, MishapFacts DEF Lapse, history, Growing
<1>21. ASSUME NEW s \in Server, Restart(s) PROVE Growing
  <2>1. mishaps \subseteq mishaps'
    BY <1>21, <1>0, RestartIs
  <2> QED BY <1>21, <1>0, <2>1 DEF Restart, history, Growing
<1>22. ASSUME NEW s \in Server, Evict(s) PROVE Growing
  BY <1>22, <1>0, MishapFacts DEF Evict, history, Growing
<1> QED BY <1>1, <1>2, <1>3, <1>4, <1>5, <1>6, <1>7, <1>8, <1>9, <1>10, <1>11, <1>12, <1>13, <1>14,
      <1>15, <1>16, <1>17, <1>18, <1>19, <1>20, <1>21, <1>22 DEF Next

LEMMA Grows ==
  ASSUME Types, TurnFits, Next
  PROVE  total <= total' /\ highest <= highest' /\ mishaps \subseteq mishaps'
BY GrowingStep DEF Growing

------------------------------------------------------------------------------
(* The money: where what was charged is.                                   *)
MoneyNumbers == /\ ledger \in Nat /\ credits \in Nat /\ total \in Nat
                /\ turn.charge \in Nat /\ late.charge \in Nat

LEMMA MoneyStays ==
  ASSUME MoneyNumbers, MoneyFits, Booked, mishaps \subseteq mishaps',
         UNCHANGED <<ledger, credits, total>>,
         turn'.charge \in {0, turn.charge}, late'.charge \in {0, late.charge},
         UNCHANGED <<turn.charge, late.charge>> \/ Met({"uncommitted", "crash"})'
  PROVE  MoneyFits' /\ Booked'
<1>1. MoneyFits'
  BY DEF MoneyNumbers, MoneyFits
<1>2. CASE Met({"uncommitted", "crash"})
  BY <1>1, <1>2 DEF Booked, Met
<1>3. CASE ledger + late.charge + turn.charge = total
  BY <1>1, <1>3 DEF Booked, Met
<1> QED BY <1>1, <1>2, <1>3 DEF Booked

LEMMA MoneyStep ==
  ASSUME Types, TurnFits, Next, MoneyFits, Booked
  PROVE  MoneyFits' /\ Booked'
<1>0. /\ Types /\ MoneyNumbers /\ MoneyFits /\ Booked /\ mishaps \subseteq mishaps'
      /\ (turn.at # "idle" => turn.on \in Server) /\ (turn.at # "commit" => turn.charge = 0)
      /\ (late.on = None => late.charge = 0) /\ turn \in TurnRecord /\ late \in LateRecord
      /\ place \in Server /\ None \notin Server
  BY OnServer, ChargesAre, Grows, SpendingAssumption
     DEF Types, StoreTypes, TurnTypes, MemTypes, TurnFits, MoneyNumbers
<1>k. ASSUME UNCHANGED <<ledger, credits, total>>,
             turn'.charge = turn.charge, late'.charge = late.charge
      PROVE  MoneyFits' /\ Booked'
  BY <1>0, <1>k, MoneyStays
<1>1. ASSUME StartTurn PROVE MoneyFits' /\ Booked'
  <2>1. turn'.charge = turn.charge /\ late' = late
    BY <1>1, <1>0, StartIs, NoneIs DEF StartTurn
  <2> QED BY <1>1, <1>0, <1>k, <2>1 DEF StartTurn, stores, history
<1>2. ASSUME Remember PROVE MoneyFits' /\ Booked'
  <2>1. turn'.charge = turn.charge /\ late' = late
    BY <1>2, <1>0, GoesIs DEF Remember
  <2> QED BY <1>2, <1>0, <1>k, <2>1 DEF Remember, stores, history
<1>3. ASSUME Exhausted PROVE MoneyFits' /\ Booked'
  <2>1. turn'.charge = turn.charge /\ late' = late
    BY <1>3, <1>0, ExhaustedIs DEF Exhausted, Turn
  <2> QED BY <1>3, <1>0, <1>k, <2>1 DEF Exhausted, stores, history
<1>4. ASSUME Stops PROVE MoneyFits' /\ Booked'
  <2>1. turn'.charge = turn.charge /\ late' = late
    BY <1>4, <1>0, StopsIs DEF Stops, Turn, WorkFacts
  <2> QED BY <1>4, <1>0, <1>k, <2>1 DEF Stops, history
<1>5. ASSUME Call PROVE MoneyFits' /\ Booked'
  <2>1. turn'.charge = turn.charge /\ late' = late
    BY <1>5, <1>0, CallIs DEF Call, Turn, WorkFacts
  <2> QED BY <1>5, <1>0, <1>k, <2>1 DEF Call
<1>6. ASSUME Reply PROVE MoneyFits' /\ Booked'
  <2>1. PICK c \in Charge : c \in Nat /\ total' = total + c /\ turn'.charge = c
    BY <1>6, <1>0, ReplyIs DEF Reply, Turn
  <2>2. /\ turn.charge = 0 /\ late' = late /\ ledger' = ledger /\ credits' = credits
        /\ mishaps' = mishaps
    BY <1>6, <1>0 DEF Reply, Turn, stores
  <2>3. MoneyFits'
    BY <1>0, <2>1, <2>2 DEF MoneyFits, MoneyNumbers
  <2>4. Booked'
    BY <1>0, <2>1, <2>2 DEF Booked, Met, MoneyNumbers
  <2> QED BY <2>3, <2>4
<1>7. ASSUME Commit PROVE MoneyFits' /\ Booked'
  <2>1. /\ WorkFacts("before")
        /\ \/ ledger' = ledger + turn.charge
           \/ ledger' = ledger /\ "uncommitted" \in mishaps'
        /\ credits' \in {credits, credits + turn.charge}
    BY <1>7, <1>0, CommitIs DEF Commit, Turn
  <2>2. turn'.charge = 0 /\ late' = late /\ total' = total
    BY <1>7, <2>1 DEF Commit, WorkFacts, history
  <2>3. MoneyFits'
    BY <1>0, <2>1, <2>2 DEF MoneyFits, MoneyNumbers
  <2>4. CASE "uncommitted" \in mishaps'
    BY <2>3, <2>4 DEF Booked, Met
  <2>5. CASE Met({"uncommitted", "crash"})
    BY <1>0, <2>3, <2>5, MetStays DEF Booked, Met
  <2>6. CASE ledger' = ledger + turn.charge /\ ledger + late.charge + turn.charge = total
    BY <1>0, <2>2, <2>3, <2>6 DEF Booked, Met, MoneyNumbers
  <2> QED BY <1>0, <2>1, <2>3, <2>4, <2>5, <2>6 DEF Booked
<1>8. ASSUME EndTurn PROVE MoneyFits' /\ Booked'
  <2>1. turn'.charge = turn.charge /\ late' = late
    BY <1>8, <1>0, NoneIs DEF EndTurn, Turn
  <2> QED BY <1>8, <1>0, <1>k, <2>1 DEF EndTurn, stores, history
<1>9. ASSUME SendWarning PROVE MoneyFits' /\ Booked'
  <2>1. turn'.charge = turn.charge /\ late' = late
    BY <1>9, <1>0, SentIs DEF SendWarning
  <2> QED BY <1>9, <1>0, <1>k, <2>1 DEF SendWarning, stores
<1>10. ASSUME Park PROVE MoneyFits' /\ Booked'
  <2>1. turn'.charge = turn.charge /\ late' = late
    BY <1>10, <1>0, NoneIs, GoesIs DEF Park, Turn
  <2> QED BY <1>10, <1>0, <1>k, <2>1 DEF Park, stores, history
<1>11. ASSUME Release PROVE MoneyFits' /\ Booked'
  <2>1. turn'.charge = turn.charge /\ late' = late
    BY <1>11, <1>0, NoneIs DEF Release, Turn
  <2> QED BY <1>11, <1>0, <1>k, <2>1 DEF Release, stores, history
<1>12. ASSUME NEW g \in Grant, Look(g) PROVE MoneyFits' /\ Booked'
  BY <1>12, <1>0, <1>k DEF Look, stores, history
<1>13. ASSUME NEW g \in Grant, Claim(g) PROVE MoneyFits' /\ Booked'
  BY <1>13, <1>0, <1>k DEF Claim, stores, history
<1>14. ASSUME NEW g \in Grant, Refuse(g) PROVE MoneyFits' /\ Booked'
  BY <1>14, <1>0, <1>k DEF Refuse, stores, history
<1>15. ASSUME NEW g \in Grant, SetCeiling(g) PROVE MoneyFits' /\ Booked'
  BY <1>15, <1>0, <1>k DEF SetCeiling, stores, history
<1>16. ASSUME NEW g \in Grant, Announce(g) PROVE MoneyFits' /\ Booked'
  BY <1>16, <1>0, <1>k DEF Announce, stores, history
<1>17. ASSUME NEW g \in Grant, Undo(g) PROVE MoneyFits' /\ Booked'
  BY <1>17, <1>0, <1>k DEF Undo, stores, history
<1>18. ASSUME LateCommit PROVE MoneyFits' /\ Booked'
  <2>1. /\ ledger' = ledger + late.charge /\ late'.charge = 0 /\ turn' = turn
        /\ credits' = credits /\ total' = total
    BY <1>18, NoneIs DEF LateCommit, history
  <2>2. MoneyFits'
    BY <1>0, <2>1 DEF MoneyFits, MoneyNumbers
  <2>3. CASE Met({"uncommitted", "crash"})
    BY <1>0, <2>2, <2>3, MetStays DEF Booked, Met
  <2>4. CASE ledger + late.charge + turn.charge = total
    BY <1>0, <2>1, <2>2, <2>4 DEF Booked, Met, MoneyNumbers
  <2> QED BY <1>0, <2>2, <2>3, <2>4 DEF Booked
<1>19. ASSUME Reconnect PROVE MoneyFits' /\ Booked'
  <2>1. turn'.charge = 0 /\ UNCHANGED <<ledger, credits, total>>
    BY <1>19, <1>0, StoppedIs, NoneIs DEF Reconnect, stores, history
  <2>2. CASE turn.at = "commit"
    <3>1. late.charge = 0 /\ late'.charge = turn.charge
      BY <1>19, <1>0, <2>2, StoppedIs, NoneIs DEF Reconnect
    <3>2. MoneyFits'
      BY <1>0, <2>1, <3>1 DEF MoneyFits, MoneyNumbers
    <3>3. CASE Met({"uncommitted", "crash"})
      BY <1>0, <3>2, <3>3, MetStays DEF Booked, Met
    <3>4. CASE ledger + late.charge + turn.charge = total
      BY <1>0, <2>1, <3>1, <3>2, <3>4 DEF Booked, Met, MoneyNumbers
    <3> QED BY <1>0, <3>2, <3>3, <3>4 DEF Booked
  <2>3. CASE turn.at # "commit"
    <3>1. late' = late
      BY <1>19, <1>0, <2>3, StoppedIs DEF Reconnect
    <3> QED BY <1>0, <1>k, <2>1, <2>3, <3>1
  <2> QED BY <2>2, <2>3
<1>20. ASSUME Lapse PROVE MoneyFits' /\ Booked'
  BY <1>20, <1>0, <1>k DEF Lapse, stores, history
<1>21. ASSUME NEW s \in Server, Restart(s) PROVE MoneyFits' /\ Booked'
  <2>1. UNCHANGED <<ledger, credits, total>>
    BY <1>21 DEF Restart, stores, history
  <2>2. turn'.charge \in {0, turn.charge} /\ late'.charge \in {0, late.charge}
    BY <1>21, NoneIs DEF Restart
  <2>3. CASE s = late.on \/ (s = turn.on /\ turn.at = "commit")
    <3>1. Met({"uncommitted", "crash"})'
      BY <1>21, <1>0, <2>3, RestartIs DEF Met
    <3> QED BY <1>0, <2>1, <2>2, <3>1, MoneyStays
  <2>4. CASE ~(s = late.on \/ (s = turn.on /\ turn.at = "commit"))
    <3>1. late' = late /\ turn'.charge = turn.charge
      BY <1>21, <1>0, <2>4, NoneIs DEF Restart
    <3> QED BY <1>k, <2>1, <3>1
  <2> QED BY <2>3, <2>4
<1>22. ASSUME NEW s \in Server, Evict(s) PROVE MoneyFits' /\ Booked'
  BY <1>22, <1>0, <1>k DEF Evict, stores, history
<1> QED BY <1>1, <1>2, <1>3, <1>4, <1>5, <1>6, <1>7, <1>8, <1>9, <1>10, <1>11, <1>12, <1>13, <1>14,
      <1>15, <1>16, <1>17, <1>18, <1>19, <1>20, <1>21, <1>22 DEF Next

(* The records of the servers.                                             *)
LEMMA LargerIs ==
  ASSUME NEW a \in Nat, NEW b \in Nat, NEW c \in Nat, a <= c, b <= c
  PROVE  Larger(a, b) <= c
BY DEF Larger

LEMMA RecordsStep ==
  ASSUME Types, TurnFits, Next, Bounded
  PROVE  RecordsFit'
<1>0. /\ Types /\ mem \in [Server -> StateRecord] /\ RecordsFit
      /\ total <= total' /\ highest <= highest'
      /\ (turn.at # "idle" => turn.on \in Server) /\ ledger <= total /\ raised <= highest
      /\ MoneyNumbers /\ raised \in Nat /\ highest \in Nat /\ total' \in Nat /\ highest' \in Nat
  <2>1. MoneyNumbers /\ raised \in Nat /\ highest \in Nat /\ mem \in [Server -> StateRecord]
    BY ChargesAre DEF Types, StoreTypes, MemTypes, MoneyNumbers
  <2>2. ledger <= total
    BY <2>1 DEF Bounded, MoneyFits, MoneyNumbers
  <2>3. StoreTypes'
    BY StoreTypesStep
  <2> QED BY <2>1, <2>2, <2>3, OnServer, Grows DEF Bounded, CeilingsFit, StoreTypes
<1>t. \A s \in Server : mem[s].spent \in Nat /\ mem[s].raised \in Nat
  BY <1>0 DEF StateRecord
<1>k. ASSUME mem' = mem PROVE RecordsFit'
  BY <1>0, <1>t, <1>k DEF RecordsFit, MoneyNumbers
<1>l. ASSUME NEW o \in Server PROVE mem[o].spent <= total' /\ mem[o].raised <= highest'
  BY <1>0, <1>t DEF RecordsFit, MoneyNumbers
<1>m. ASSUME turn.on \in Server, OnlyMem(turn.on),
             mem'[turn.on].spent <= total', mem'[turn.on].raised <= highest'
      PROVE  RecordsFit'
  BY <1>l, <1>m DEF OnlyMem, RecordsFit
<1>r. ASSUME NEW r \in {mem[turn.on].raised, Larger(mem[turn.on].raised, raised)},
             turn.on \in Server
      PROVE  r <= highest'
  BY <1>0, <1>t, <1>l, <1>r, LargerIs
<1>1. ASSUME StartTurn PROVE RecordsFit'
  BY <1>1, <1>k DEF StartTurn
<1>2. ASSUME Remember PROVE RecordsFit'
  <2>1. /\ turn.on \in Server /\ OnlyMem(turn.on)
        /\ mem'[turn.on].spent \in {mem[turn.on].spent, Larger(mem[turn.on].spent, ledger)}
        /\ mem'[turn.on].raised = mem[turn.on].raised
    BY <1>2, <1>0, RememberIs DEF Remember, Turn, RememberFacts
  <2>2. Larger(mem[turn.on].spent, ledger) <= total'
    BY <1>0, <1>t, <1>l, <2>1, LargerIs DEF MoneyNumbers
  <2> QED BY <1>l, <1>m, <2>1, <2>2
<1>3. ASSUME Exhausted PROVE RecordsFit'
  <2>1. turn.on \in Server /\ OnlyMem(turn.on)
    BY <1>3, <1>0, ExhaustedIs DEF Exhausted, Turn
  <2>2. mem'[turn.on].spent = mem[turn.on].spent /\ mem'[turn.on].raised = mem[turn.on].raised
    BY <1>3, <1>0, <2>1, ExhaustedIs DEF StateRecord
  <2> QED BY <1>l, <1>m, <2>1, <2>2
<1>4. ASSUME Stops PROVE RecordsFit'
  <2>1. /\ turn.on \in Server /\ OnlyMem(turn.on) /\ mem'[turn.on].spent = mem[turn.on].spent
        /\ mem'[turn.on].raised \in {mem[turn.on].raised, Larger(mem[turn.on].raised, raised)}
    BY <1>4, <1>0, StopsIs DEF Stops, Turn, WorkFacts
  <2> QED BY <1>l, <1>m, <1>r, <2>1
<1>5. ASSUME Call PROVE RecordsFit'
  <2>1. /\ turn.on \in Server /\ OnlyMem(turn.on) /\ mem'[turn.on].spent = mem[turn.on].spent
        /\ mem'[turn.on].raised \in {mem[turn.on].raised, Larger(mem[turn.on].raised, raised)}
    BY <1>5, <1>0, CallIs DEF Call, Turn, WorkFacts
  <2> QED BY <1>l, <1>m, <1>r, <2>1
<1>6. ASSUME Reply PROVE RecordsFit'
  <2>1. PICK c \in Charge :
          /\ c \in Nat /\ total' = total + c /\ turn.on \in Server /\ OnlyMem(turn.on)
          /\ mem'[turn.on] = [mem[turn.on] EXCEPT !.spent = @ + c]
    BY <1>6, <1>0, ReplyIs DEF Reply, Turn
  <2>2. /\ mem'[turn.on].spent = mem[turn.on].spent + c
        /\ mem'[turn.on].raised = mem[turn.on].raised
    BY <1>0, <2>1 DEF StateRecord
  <2>3. mem'[turn.on].spent <= total'
    BY <1>0, <1>t, <2>1, <2>2 DEF RecordsFit, MoneyNumbers
  <2> QED BY <1>l, <1>m, <2>1, <2>2, <2>3
<1>7. ASSUME Commit PROVE RecordsFit'
  <2>1. /\ turn.on \in Server /\ OnlyMem(turn.on) /\ mem'[turn.on].spent = mem[turn.on].spent
        /\ mem'[turn.on].raised \in {mem[turn.on].raised, Larger(mem[turn.on].raised, raised)}
    BY <1>7, <1>0, CommitIs DEF Commit, Turn, WorkFacts
  <2> QED BY <1>l, <1>m, <1>r, <2>1
<1>8. ASSUME EndTurn PROVE RecordsFit'
  BY <1>8, <1>k DEF EndTurn
<1>9. ASSUME SendWarning PROVE RecordsFit'
  BY <1>9, <1>k DEF SendWarning
<1>10. ASSUME Park PROVE RecordsFit'
  BY <1>10, <1>k DEF Park
<1>11. ASSUME Release PROVE RecordsFit'
  BY <1>11, <1>k DEF Release
<1>12. ASSUME NEW g \in Grant, Look(g) PROVE RecordsFit'
  BY <1>12, <1>k DEF Look
<1>13. ASSUME NEW g \in Grant, Claim(g) PROVE RecordsFit'
  BY <1>13, <1>k DEF Claim
<1>14. ASSUME NEW g \in Grant, Refuse(g) PROVE RecordsFit'
  BY <1>14, <1>k DEF Refuse
<1>15. ASSUME NEW g \in Grant, SetCeiling(g) PROVE RecordsFit'
  BY <1>15, <1>k DEF SetCeiling
<1>16. ASSUME NEW g \in Grant, Announce(g) PROVE RecordsFit'
  BY <1>16, <1>k DEF Announce
<1>17. ASSUME NEW g \in Grant, Undo(g) PROVE RecordsFit'
  BY <1>17, <1>k DEF Undo
<1>18. ASSUME LateCommit PROVE RecordsFit'
  BY <1>18, <1>k DEF LateCommit
<1>19. ASSUME Reconnect PROVE RecordsFit'
  BY <1>19, <1>k DEF Reconnect
<1>20. ASSUME Lapse PROVE RecordsFit'
  BY <1>20, <1>k DEF Lapse
<1>21. ASSUME NEW s \in Server, Restart(s) PROVE RecordsFit'
  <2>1. \A o \in Server : mem'[o] \in {mem[o], Blank}
    BY <1>21, <1>0 DEF Restart
  <2> QED BY <1>0, <1>l, <2>1, NoneIs DEF RecordsFit
<1>22. ASSUME NEW s \in Server, Evict(s) PROVE RecordsFit'
  <2>1. \A o \in Server : mem'[o] \in {mem[o], Blank}
    BY <1>22, <1>0 DEF Evict
  <2> QED BY <1>0, <1>l, <2>1, NoneIs DEF RecordsFit
<1> QED BY <1>1, <1>2, <1>3, <1>4, <1>5, <1>6, <1>7, <1>8, <1>9, <1>10, <1>11, <1>12, <1>13, <1>14,
      <1>15, <1>16, <1>17, <1>18, <1>19, <1>20, <1>21, <1>22 DEF Next

LEMMA CeilingsStep ==
  ASSUME Types, TurnFits, Next, CeilingsFit
  PROVE  CeilingsFit'
<1>0. /\ CeilingsFit /\ highest <= highest' /\ Types /\ Types' /\ Base \in Nat /\ Base # 0
  BY Grows, TypesStep, SpendingAssumption
<1>t. /\ raised \in Nat /\ highest \in Nat /\ highest' \in Nat /\ raised' \in Nat
      /\ \A g \in Grant : grant[g].previous \in Nat
  BY <1>0 DEF Types, StoreTypes, GrantTypes, GrantRecord
<1>b. Base <= highest' /\ raised <= highest' /\ \A g \in Grant : grant[g].previous <= highest'
  BY <1>0, <1>t DEF CeilingsFit
<1>k. ASSUME raised' \in {0, raised},
             \A g \in Grant : grant'[g].previous \in {0, grant[g].previous, raised}
      PROVE  CeilingsFit'
  BY <1>t, <1>b, <1>k DEF CeilingsFit
<1>1. ASSUME StartTurn PROVE CeilingsFit'
  BY <1>1, <1>0, <1>k, StartTurnIs DEF StartTurn, stores, SameNumbers
<1>2. ASSUME Remember PROVE CeilingsFit'
  BY <1>2, <1>k DEF Remember, stores
<1>3. ASSUME Exhausted PROVE CeilingsFit'
  BY <1>3, <1>k DEF Exhausted, stores
<1>4. ASSUME Stops PROVE CeilingsFit'
  BY <1>4, <1>k DEF Stops, stores
<1>5. ASSUME Call PROVE CeilingsFit'
  BY <1>5, <1>k DEF Call, stores
<1>6. ASSUME Reply PROVE CeilingsFit'
  BY <1>6, <1>k DEF Reply, stores
<1>7. ASSUME Commit PROVE CeilingsFit'
  BY <1>7, <1>k DEF Commit, stores
<1>8. ASSUME EndTurn PROVE CeilingsFit'
  BY <1>8, <1>k DEF EndTurn, stores
<1>9. ASSUME SendWarning PROVE CeilingsFit'
  BY <1>9, <1>k DEF SendWarning, stores
<1>10. ASSUME Park PROVE CeilingsFit'
  BY <1>10, <1>k DEF Park, stores
<1>11. ASSUME Release PROVE CeilingsFit'
  BY <1>11, <1>k DEF Release, stores
<1>12. ASSUME NEW g \in Grant, Look(g) PROVE CeilingsFit'
  <2>1. raised' = raised /\ OnlyGrant(g) /\ grant'[g].previous = raised
    BY <1>12, <1>0, LookIs DEF Look, stores
  <2> QED BY <1>k, <2>1 DEF OnlyGrant
<1>13. ASSUME NEW g \in Grant, Claim(g) PROVE CeilingsFit'
  BY <1>13, <1>0, <1>k, ClaimIs DEF Claim, stores, SameNumbers
<1>14. ASSUME NEW g \in Grant, Refuse(g) PROVE CeilingsFit'
  <2>1. raised' = raised /\ OnlyGrant(g) /\ grant'[g].previous = 0
    BY <1>14, <1>0, GoneIs, NoneIs DEF Refuse, stores
  <2> QED BY <1>k, <2>1 DEF OnlyGrant
<1>15. ASSUME NEW g \in Grant, SetCeiling(g) PROVE CeilingsFit'
  <2>1. OnlyGrant(g) /\ grant'[g].previous = grant[g].previous
    BY <1>15, <1>0, SetCeilingIs DEF SameNumbers
  <2>2. raised' <= highest'
    BY <1>15, <1>0, <1>t, <1>b, SetCeilingIs, LargerFacts, ZenonT(40)
  <2> QED BY <1>b, <2>1, <2>2 DEF OnlyGrant, CeilingsFit
<1>16. ASSUME NEW g \in Grant, Announce(g) PROVE CeilingsFit'
  <2>1. raised' = raised /\ OnlyGrant(g) /\ grant'[g].previous \in {0, grant[g].previous}
    BY <1>16, <1>0, AnnounceIs, NoneIs DEF Announce, stores, SameNumbers
  <2> QED BY <1>k, <2>1 DEF OnlyGrant
<1>17. ASSUME NEW g \in Grant, Undo(g) PROVE CeilingsFit'
  <2>1. raised' \in {raised, grant[g].previous} /\ OnlyGrant(g) /\ grant'[g].previous = 0
    BY <1>17, <1>0, GoneIs, NoneIs DEF Undo
  <2> QED BY <1>t, <1>b, <2>1 DEF OnlyGrant, CeilingsFit
<1>18. ASSUME LateCommit PROVE CeilingsFit'
  BY <1>18, <1>k DEF LateCommit, stores
<1>19. ASSUME Reconnect PROVE CeilingsFit'
  BY <1>19, <1>k DEF Reconnect, stores
<1>20. ASSUME Lapse PROVE CeilingsFit'
  BY <1>20, <1>k DEF Lapse, stores
<1>21. ASSUME NEW s \in Server, Restart(s) PROVE CeilingsFit'
  <2>1. raised' = raised /\ \A g \in Grant : grant'[g].previous \in {0, grant[g].previous}
    BY <1>21, <1>0, RestartIs, NoneIs DEF Restart, stores
  <2> QED BY <1>k, <2>1
<1>22. ASSUME NEW s \in Server, Evict(s) PROVE CeilingsFit'
  BY <1>22, <1>k DEF Evict, stores
<1> QED BY <1>1, <1>2, <1>3, <1>4, <1>5, <1>6, <1>7, <1>8, <1>9, <1>10, <1>11, <1>12, <1>13, <1>14,
      <1>15, <1>16, <1>17, <1>18, <1>19, <1>20, <1>21, <1>22 DEF Next

LEMMA BoundedStep ==
  ASSUME Types, TurnFits, Next, Bounded, Booked
  PROVE  Bounded' /\ Booked'
BY MoneyStep, RecordsStep, CeilingsStep DEF Bounded

------------------------------------------------------------------------------
(* What the record of the device's server knows.                           *)
Knowledge == /\ Types /\ mem \in [Server -> StateRecord] /\ place \in Server
             /\ (turn.at # "idle" => turn.on = place) /\ mishaps \subseteq mishaps'
             /\ total \in Nat /\ mem[place] \in StateRecord /\ mem[place].spent \in Nat

LEMMA KnowledgeIs == ASSUME Types, TurnFits, Next PROVE Knowledge
<1>1. mem \in [Server -> StateRecord] /\ place \in Server /\ total \in Nat
  BY DEF Types, MemTypes, StoreTypes
<1>2. mem[place] \in StateRecord /\ mem[place].spent \in Nat
  BY <1>1 DEF StateRecord
<1> QED BY <1>1, <1>2, OnServer, Grows DEF Knowledge

LEMMA KeptStep ==
  ASSUME Types, TurnFits, Next, Kept, Bounded
  PROVE  Kept'
<1>0. Knowledge /\ Kept
  BY KnowledgeIs
<1>k. ASSUME place' = place, total' = total, mem'[place].spent = mem[place].spent
      PROVE  Kept'
  BY <1>0, <1>k DEF Knowledge, Kept, Renewed, Met
<1>w. ASSUME WorkFacts("before") \/ WorkFacts("call") \/ WorkFacts("park"), turn.on = place
      PROVE  mem'[place].spent = mem[place].spent
  BY <1>w DEF WorkFacts
<1>1. ASSUME StartTurn PROVE Kept'
  BY <1>1, <1>k DEF StartTurn, history
<1>2. ASSUME Remember PROVE Kept'
  <2>1. /\ place' = place /\ total' = total
        /\ mem'[place].spent \in {mem[place].spent, Larger(mem[place].spent, ledger)}
    BY <1>2, <1>0, RememberIs DEF Remember, Turn, RememberFacts, Knowledge, history
  <2>2. mem[place].spent = total => Larger(mem[place].spent, ledger) = total
    <3>1. ledger <= total /\ MoneyNumbers
      BY ChargesAre DEF Bounded, MoneyFits, MoneyNumbers, Types, StoreTypes
    <3> QED BY <3>1 DEF Larger, MoneyNumbers
  <2> QED BY <1>0, <2>1, <2>2 DEF Knowledge, Kept, Renewed, Met
<1>3. ASSUME Exhausted PROVE Kept'
  <2>1. mem'[place].spent = mem[place].spent
    BY <1>3, <1>0, ExhaustedIs DEF Exhausted, Turn, Knowledge, StateRecord
  <2> QED BY <1>3, <1>k, <2>1 DEF Exhausted, history
<1>4. ASSUME Stops PROVE Kept'
  BY <1>4, <1>0, <1>k, <1>w, StopsIs DEF Stops, Turn, Knowledge, history
<1>5. ASSUME Call PROVE Kept'
  BY <1>5, <1>0, <1>k, <1>w, CallIs DEF Call, Turn, Knowledge, history
<1>6. ASSUME Reply PROVE Kept'
  <2>1. PICK c \in Charge :
          c \in Nat /\ total' = total + c /\ mem'[place] = [mem[place] EXCEPT !.spent = @ + c]
    BY <1>6, <1>0, ReplyIs DEF Reply, Turn, Knowledge
  <2>2. mem'[place].spent = mem[place].spent + c /\ place' = place
    BY <1>6, <1>0, <2>1 DEF Reply, Knowledge, StateRecord
  <2> QED BY <1>0, <2>1, <2>2 DEF Knowledge, Kept, Renewed, Met
<1>7. ASSUME Commit PROVE Kept'
  BY <1>7, <1>0, <1>k, <1>w, CommitIs DEF Commit, Turn, Knowledge, history
<1>8. ASSUME EndTurn PROVE Kept'
  BY <1>8, <1>k DEF EndTurn, history
<1>9. ASSUME SendWarning PROVE Kept'
  BY <1>9, <1>k DEF SendWarning, history
<1>10. ASSUME Park PROVE Kept'
  BY <1>10, <1>k DEF Park, history
<1>11. ASSUME Release PROVE Kept'
  BY <1>11, <1>k DEF Release, history
<1>12. ASSUME NEW g \in Grant, Look(g) PROVE Kept'
  BY <1>12, <1>k DEF Look, history
<1>13. ASSUME NEW g \in Grant, Claim(g) PROVE Kept'
  BY <1>13, <1>k DEF Claim, history
<1>14. ASSUME NEW g \in Grant, Refuse(g) PROVE Kept'
  BY <1>14, <1>k DEF Refuse, history
<1>15. ASSUME NEW g \in Grant, SetCeiling(g) PROVE Kept'
  BY <1>15, <1>k DEF SetCeiling, history
<1>16. ASSUME NEW g \in Grant, Announce(g) PROVE Kept'
  BY <1>16, <1>k DEF Announce, history
<1>17. ASSUME NEW g \in Grant, Undo(g) PROVE Kept'
  BY <1>17, <1>k DEF Undo, history
<1>18. ASSUME LateCommit PROVE Kept'
  BY <1>18, <1>k DEF LateCommit, history
<1>19. ASSUME Reconnect PROVE Kept'
  <2>1. CASE place' = place
    BY <1>19, <1>k, <2>1 DEF Reconnect, history
  <2>2. CASE place' # place
    BY <1>19, <2>2, MishapFacts DEF Reconnect, Kept, Renewed, Met
  <2> QED BY <2>1, <2>2
<1>20. ASSUME Lapse PROVE Kept'
  BY <1>20, <1>k DEF Lapse, history
<1>21. ASSUME NEW s \in Server, Restart(s) PROVE Kept'
  BY <1>21, <1>0, RestartIs DEF Knowledge, Kept, Renewed, Met
<1>22. ASSUME NEW s \in Server, Evict(s) PROVE Kept'
  BY <1>22, MishapFacts DEF Evict, Kept, Renewed, Met
<1> QED BY <1>1, <1>2, <1>3, <1>4, <1>5, <1>6, <1>7, <1>8, <1>9, <1>10, <1>11, <1>12, <1>13, <1>14,
      <1>15, <1>16, <1>17, <1>18, <1>19, <1>20, <1>21, <1>22 DEF Next

LEMMA KnownStep ==
  ASSUME Types, TurnFits, Next, Known, Kept, Booked, Bounded
  PROVE  Known'
<1>0. Knowledge /\ Known
  BY KnowledgeIs
<1>k. ASSUME place' = place, total' = total, mem'[place].spent = mem[place].spent,
             mem'[place].hydrated = mem[place].hydrated
      PROVE  Known'
  BY <1>0, <1>k DEF Knowledge, Known, Renewed, Met
<1>w. ASSUME WorkFacts("before") \/ WorkFacts("call") \/ WorkFacts("park"), turn.on = place
      PROVE  mem'[place].spent = mem[place].spent /\ mem'[place].hydrated = mem[place].hydrated
  BY <1>w DEF WorkFacts
<1>1. ASSUME StartTurn PROVE Known'
  BY <1>1, <1>k DEF StartTurn, history
<1>2. ASSUME Remember PROVE Known'
  <2>1. place' = place /\ total' = total /\ RememberFacts /\ turn.on = place /\ turn.at = "before"
    BY <1>2, <1>0, RememberIs DEF Remember, Turn, Knowledge, history
  <2>2. CASE mem'[place].hydrated = mem[place].hydrated /\ mem'[place].spent = mem[place].spent
    BY <1>k, <2>1, <2>2
  <2>3. CASE /\ mem'[place].spent = Larger(mem[place].spent, ledger)
             /\ late = NoLate \/ "late" \in mishaps'
    <3>1. MoneyNumbers /\ turn.charge = 0 /\ mem[place].spent <= total /\ mem[place].spent \in Nat
      BY <1>0, <2>1, ChargesAre DEF TurnFits, MoneyNumbers, Types, StoreTypes, Knowledge, Bounded,
         RecordsFit
    <3>2. ledger <= total
      BY <3>1 DEF Bounded, MoneyFits, MoneyNumbers
    <3>3. CASE ledger = total \/ mem[place].spent = total
      <4>1. mem'[place].spent = total
        <5>1. Larger(mem[place].spent, ledger) = total
          BY <3>1, <3>2, <3>3 DEF Larger, MoneyNumbers
        <5> QED BY <2>3, <5>1
      <4> QED BY <2>1, <4>1 DEF Known
    <3>4. CASE "late" \in mishaps' \/ Met({"crash"})
      BY <1>0, <3>4 DEF Known, Knowledge, Met
    <3>5. CASE late = NoLate /\ Met({"uncommitted"}) /\ Kept
      BY <1>0, <3>3, <3>5 DEF Known, Knowledge, Kept, Renewed, Met
    <3>6. CASE late = NoLate /\ ledger + late.charge + turn.charge = total
      BY <3>1, <3>3, <3>6, NoneIs DEF MoneyNumbers
    <3> QED BY <2>3, <3>4, <3>5, <3>6 DEF Booked, Met
  <2> QED BY <2>1, <2>2, <2>3 DEF RememberFacts
<1>3. ASSUME Exhausted PROVE Known'
  <2>1. mem'[place].spent = mem[place].spent /\ mem'[place].hydrated = mem[place].hydrated
    BY <1>3, <1>0, ExhaustedIs DEF Exhausted, Turn, Knowledge, StateRecord
  <2> QED BY <1>3, <1>k, <2>1 DEF Exhausted, history
<1>4. ASSUME Stops PROVE Known'
  BY <1>4, <1>0, <1>k, <1>w, StopsIs DEF Stops, Turn, Knowledge, history
<1>5. ASSUME Call PROVE Known'
  BY <1>5, <1>0, <1>k, <1>w, CallIs DEF Call, Turn, Knowledge, history
<1>6. ASSUME Reply PROVE Known'
  <2>1. PICK c \in Charge :
          c \in Nat /\ total' = total + c /\ mem'[place] = [mem[place] EXCEPT !.spent = @ + c]
    BY <1>6, <1>0, ReplyIs DEF Reply, Turn, Knowledge
  <2>2. /\ mem'[place].spent = mem[place].spent + c /\ place' = place
        /\ mem'[place].hydrated = mem[place].hydrated
    BY <1>6, <1>0, <2>1 DEF Reply, Knowledge, StateRecord
  <2> QED BY <1>0, <2>1, <2>2 DEF Knowledge, Known, Renewed, Met
<1>7. ASSUME Commit PROVE Known'
  BY <1>7, <1>0, <1>k, <1>w, CommitIs DEF Commit, Turn, Knowledge, history
<1>8. ASSUME EndTurn PROVE Known'
  BY <1>8, <1>k DEF EndTurn, history
<1>9. ASSUME SendWarning PROVE Known'
  BY <1>9, <1>k DEF SendWarning, history
<1>10. ASSUME Park PROVE Known'
  BY <1>10, <1>k DEF Park, history
<1>11. ASSUME Release PROVE Known'
  BY <1>11, <1>k DEF Release, history
<1>12. ASSUME NEW g \in Grant, Look(g) PROVE Known'
  BY <1>12, <1>k DEF Look, history
<1>13. ASSUME NEW g \in Grant, Claim(g) PROVE Known'
  BY <1>13, <1>k DEF Claim, history
<1>14. ASSUME NEW g \in Grant, Refuse(g) PROVE Known'
  BY <1>14, <1>k DEF Refuse, history
<1>15. ASSUME NEW g \in Grant, SetCeiling(g) PROVE Known'
  BY <1>15, <1>k DEF SetCeiling, history
<1>16. ASSUME NEW g \in Grant, Announce(g) PROVE Known'
  BY <1>16, <1>k DEF Announce, history
<1>17. ASSUME NEW g \in Grant, Undo(g) PROVE Known'
  BY <1>17, <1>k DEF Undo, history
<1>18. ASSUME LateCommit PROVE Known'
  BY <1>18, <1>k DEF LateCommit, history
<1>19. ASSUME Reconnect PROVE Known'
  <2>1. CASE place' = place
    BY <1>19, <1>k, <2>1 DEF Reconnect, history
  <2>2. CASE place' # place
    <3>1. mem' = mem /\ (mem[place'] = Blank \/ "returned" \in mishaps')
      BY <1>19, <2>2, MishapFacts DEF Reconnect
    <3> QED BY <3>1, NoneIs DEF Known, Met
  <2> QED BY <2>1, <2>2
<1>20. ASSUME Lapse PROVE Known'
  BY <1>20, <1>k DEF Lapse, history
<1>21. ASSUME NEW s \in Server, Restart(s) PROVE Known'
  <2>1. place' = place /\ total' = total /\ mem'[place] \in {mem[place], Blank}
    BY <1>21, <1>0 DEF Restart, Knowledge, history
  <2>2. CASE mem'[place] = Blank
    BY <2>1, <2>2, NoneIs DEF Known
  <2> QED BY <1>k, <2>1, <2>2
<1>22. ASSUME NEW s \in Server, Evict(s) PROVE Known'
  <2>1. place' = place /\ total' = total /\ mem'[place] \in {mem[place], Blank}
    BY <1>22, <1>0 DEF Evict, Knowledge, history
  <2>2. CASE mem'[place] = Blank
    BY <2>1, <2>2, NoneIs DEF Known
  <2> QED BY <1>k, <2>1, <2>2
<1> QED BY <1>1, <1>2, <1>3, <1>4, <1>5, <1>6, <1>7, <1>8, <1>9, <1>10, <1>11, <1>12, <1>13, <1>14,
      <1>15, <1>16, <1>17, <1>18, <1>19, <1>20, <1>21, <1>22 DEF Next

------------------------------------------------------------------------------
(* A call begins below the ceiling.                                        *)
LEMMA CallStep ==
  ASSUME Types, TurnFits, Next, Bounded', Known', NoCallOverCeiling
  PROVE  NoCallOverCeiling'
<1>0. /\ Types /\ Knowledge /\ NoCallOverCeiling /\ Types' /\ highest <= highest' /\ highest \in Nat
      /\ highest' \in Nat /\ total' \in Nat /\ turn \in TurnRecord
  <2>1. Types'
    BY TypesStep
  <2> QED BY <2>1, KnowledgeIs, Grows DEF Types, StoreTypes, TurnTypes
<1>i. ASSUME turn'.at # "call" PROVE NoCallOverCeiling'
  BY <1>i DEF NoCallOverCeiling
<1>k. ASSUME turn.at = "call" => turn'.on = turn.on /\ mem'[turn.on] = mem[turn.on],
             turn'.at = turn.at, total' = total
      PROVE  NoCallOverCeiling'
  <2>1. CASE turn.at = "call"
    BY <1>0, <1>k, <2>1 DEF NoCallOverCeiling, Memory, Knowledge, Renewed, Met
  <2> QED BY <1>i, <1>k, <2>1
<1>1. ASSUME StartTurn PROVE NoCallOverCeiling'
  BY <1>1, <1>0, <1>i, StartIs DEF Knowledge
<1>2. ASSUME Remember PROVE NoCallOverCeiling'
  BY <1>2, <1>0, <1>i, GoesIs DEF Remember
<1>3. ASSUME Exhausted PROVE NoCallOverCeiling'
  BY <1>3, <1>0, <1>i, GoesIs DEF Exhausted
<1>4. ASSUME Stops PROVE NoCallOverCeiling'
  BY <1>4, <1>0, <1>i, StopsIs, OnServer DEF Stops, Turn, WorkFacts
<1>5. ASSUME Call PROVE NoCallOverCeiling'
  <2>1. /\ ~Reached(mem'[turn.on]) /\ turn'.on = turn.on /\ turn.on = place /\ place' = place
        /\ turn.on \in Server
    BY <1>5, <1>0, CallIs, OnServer DEF Call, Turn, WorkFacts
  <2>2. /\ mem'[place] \in StateRecord /\ mem'[place].spent <= total'
        /\ mem'[place].raised <= highest' /\ Base <= highest' /\ Base \in Nat
    BY <1>0, <2>1, SpendingAssumption DEF Bounded, RecordsFit, CeilingsFit, Types, MemTypes
  <2>3. ASSUME mem'[place].base # 0, mem'[place].spent = total' PROVE total' < highest'
    BY <1>0, <2>1, <2>2, <2>3 DEF StateRecord, Reached, Effective, Larger
  <2>4. CASE mem'[place].spent = total'
    BY <2>1, <2>3, <2>4 DEF NoCallOverCeiling, Memory
  <2> QED BY <2>1, <2>4 DEF Known, NoCallOverCeiling, Memory
<1>6. ASSUME Reply PROVE NoCallOverCeiling'
  BY <1>6, <1>0, <1>i, ReplyIs, OnServer DEF Reply, Turn
<1>7. ASSUME Commit PROVE NoCallOverCeiling'
  BY <1>7, <1>0, <1>i, CommitIs, OnServer DEF Commit, Turn, WorkFacts
<1>8. ASSUME EndTurn PROVE NoCallOverCeiling'
  BY <1>8, <1>i, NoneIs DEF EndTurn
<1>9. ASSUME SendWarning PROVE NoCallOverCeiling'
  BY <1>9, <1>0, <1>k, SentIs DEF SendWarning
<1>10. ASSUME Park PROVE NoCallOverCeiling'
  BY <1>10, <1>0, <1>i, GoesIs, NoneIs DEF Park
<1>11. ASSUME Release PROVE NoCallOverCeiling'
  BY <1>11, <1>i, NoneIs DEF Release
<1>12. ASSUME NEW g \in Grant, Look(g) PROVE NoCallOverCeiling'
  BY <1>12, <1>k DEF Look, history
<1>13. ASSUME NEW g \in Grant, Claim(g) PROVE NoCallOverCeiling'
  BY <1>13, <1>k DEF Claim, history
<1>14. ASSUME NEW g \in Grant, Refuse(g) PROVE NoCallOverCeiling'
  BY <1>14, <1>k DEF Refuse, history
<1>15. ASSUME NEW g \in Grant, SetCeiling(g) PROVE NoCallOverCeiling'
  BY <1>15, <1>k DEF SetCeiling
<1>16. ASSUME NEW g \in Grant, Announce(g) PROVE NoCallOverCeiling'
  BY <1>16, <1>k DEF Announce, history
<1>17. ASSUME NEW g \in Grant, Undo(g) PROVE NoCallOverCeiling'
  BY <1>17, <1>k DEF Undo, history
<1>18. ASSUME LateCommit PROVE NoCallOverCeiling'
  BY <1>18, <1>k DEF LateCommit, history
<1>19. ASSUME Reconnect PROVE NoCallOverCeiling'
  BY <1>19, <1>i, NoneIs DEF Reconnect, Stopped
<1>20. ASSUME Lapse PROVE NoCallOverCeiling'
  BY <1>20, <1>k DEF Lapse, history
<1>21. ASSUME NEW s \in Server, Restart(s) PROVE NoCallOverCeiling'
  <2>1. CASE turn.on = s
    BY <1>21, <1>i, <2>1, NoneIs DEF Restart
  <2>2. CASE turn.on # s
    BY <1>21, <1>0, <1>k, <2>2, OnServer DEF Restart, Knowledge, history
  <2> QED BY <2>1, <2>2
<1>22. ASSUME NEW s \in Server, Evict(s) PROVE NoCallOverCeiling'
  BY <1>22, <1>0, <1>k, OnServer DEF Evict, Knowledge, history
<1> QED BY <1>1, <1>2, <1>3, <1>4, <1>5, <1>6, <1>7, <1>8, <1>9, <1>10, <1>11, <1>12, <1>13, <1>14,
      <1>15, <1>16, <1>17, <1>18, <1>19, <1>20, <1>21, <1>22 DEF Next

(* The warning.                                                            *)
LEMMA WarnedWellStep ==
  ASSUME Types, TurnFits, Next, WarnedWell, ~Met({"redis", "lapsed", "returned"})'
  PROVE  WarnedWell'
<1>0. /\ Knowledge /\ Types /\ turn \in TurnRecord /\ sent \in Nat /\ warned \in BOOLEAN
      /\ warned' \in BOOLEAN /\ sent' \in Nat /\ turn' \in TurnRecord
  <2>1. Types'
    BY TypesStep
  <2> QED BY <2>1, KnowledgeIs DEF Types, StoreTypes, TurnTypes
<1>w. /\ Warnings \in {0, 1} /\ (turn.warn = FALSE => Warnings = sent)
      /\ (turn.warn = TRUE => Warnings = sent + 1)
  BY <1>0 DEF Warnings, WarnedWell, TurnRecord
<1>v. /\ (turn'.warn = FALSE => Warnings' = sent')
      /\ (turn'.warn = TRUE => Warnings' = sent' + 1)
  BY <1>0 DEF Warnings, TurnRecord
<1>s. ASSUME turn'.warn \in {turn.warn, FALSE}, sent' = sent, warned' = warned,
             \/ mem'[place'].loaded = FALSE
             \/ /\ mem'[place'].loaded = mem[place].loaded
                /\ mem'[place'].warned = mem[place].warned
      PROVE  WarnedWell'
  <2>1. Warnings' \in {0, Warnings}
    <3>1. turn'.warn = FALSE \/ (turn'.warn = TRUE /\ turn.warn = TRUE)
      BY <1>0, <1>s DEF TurnRecord
    <3>2. turn.warn = FALSE \/ turn.warn = TRUE
      BY <1>0 DEF TurnRecord
    <3> QED BY <1>0, <1>w, <1>v, <1>s, <3>1, <3>2
  <2> QED BY <1>w, <1>s, <2>1 DEF WarnedWell
<1>m. ASSUME turn.at # "idle", WorkFacts("before") \/ WorkFacts("call") \/ WorkFacts("park"),
             mem[place].loaded, ~turn.warn, sent' = sent, place' = place
      PROVE  WarnedWell'
  <2>1. turn.on = place /\ turn.warn = FALSE
    BY <1>0, <1>m DEF Knowledge, TurnRecord
  <2>2. CASE turn'.warn = FALSE /\ mem'[place].warned = mem[place].warned /\ warned' = warned
    BY <1>s, <1>m, <2>1, <2>2 DEF WorkFacts
  <2>3. CASE /\ turn'.warn = TRUE /\ mem[place].warned = FALSE /\ mem'[place].warned = TRUE
             /\ warned' = TRUE \/ "redis" \in mishaps'
    <3>1. Warnings = 0 /\ sent = 0
      BY <1>0, <1>w, <1>m, <2>1, <2>3 DEF WarnedWell
    <3>2. warned' = TRUE
      BY <2>3 DEF Met
    <3> QED BY <1>v, <1>m, <2>3, <3>1, <3>2 DEF WarnedWell
  <2> QED BY <1>m, <2>1, <2>2, <2>3 DEF WorkFacts
<1>1. ASSUME StartTurn PROVE WarnedWell'
  BY <1>1, <1>0, <1>s, StartIs DEF StartTurn, Knowledge, stores, history
<1>2. ASSUME Remember PROVE WarnedWell'
  <2>1. /\ RememberFacts /\ turn.on = place /\ place' = place /\ warned' = warned /\ sent' = sent
        /\ turn'.warn = turn.warn
    BY <1>2, <1>0, RememberIs, GoesIs DEF Remember, Turn, Knowledge, stores, history
  <2>2. Warnings' = Warnings
    BY <2>1 DEF Warnings
  <2>3. warned => mem'[place].warned
    BY <1>0, <2>1 DEF RememberFacts, WarnedWell, Met
  <2> QED BY <2>1, <2>2, <2>3 DEF WarnedWell
<1>3. ASSUME Exhausted PROVE WarnedWell'
  <2>1. /\ mem'[place].loaded = mem[place].loaded /\ mem'[place].warned = mem[place].warned
        /\ turn'.warn = FALSE
    BY <1>3, <1>0, ExhaustedIs DEF Exhausted, Turn, Knowledge, StateRecord
  <2> QED BY <1>3, <1>s, <2>1 DEF Exhausted, stores, history
<1>4. ASSUME Stops PROVE WarnedWell'
  BY <1>4, <1>0, <1>m, StopsIs, OnServer DEF Stops, Turn, TurnFits, Knowledge, history
<1>5. ASSUME Call PROVE WarnedWell'
  BY <1>5, <1>0, <1>m, CallIs, OnServer DEF Call, Turn, TurnFits, Knowledge, history
<1>6. ASSUME Reply PROVE WarnedWell'
  <2>1. /\ mem'[place].loaded = mem[place].loaded /\ mem'[place].warned = mem[place].warned
        /\ turn'.warn = turn.warn
    <3>1. PICK c \in Charge :
            mem'[place] = [mem[place] EXCEPT !.spent = @ + c] /\ turn'.warn = turn.warn
      BY <1>6, <1>0, ReplyIs DEF Reply, Turn, Knowledge
    <3> QED BY <1>0, <3>1 DEF Knowledge, StateRecord
  <2> QED BY <1>6, <1>s, <2>1 DEF Reply, stores
<1>7. ASSUME Commit PROVE WarnedWell'
  BY <1>7, <1>0, <1>m, CommitIs, OnServer DEF Commit, Turn, TurnFits, Knowledge, history
<1>8. ASSUME EndTurn PROVE WarnedWell'
  BY <1>8, <1>s, NoneIs DEF EndTurn, stores, history
<1>9. ASSUME SendWarning PROVE WarnedWell'
  <2>1. Warnings' = Warnings
    BY <1>9, <1>0, <1>w, <1>v, SentIs DEF SendWarning, TurnRecord
  <2> QED BY <1>9, <2>1 DEF SendWarning, stores, WarnedWell
<1>10. ASSUME Park PROVE WarnedWell'
  BY <1>10, <1>0, <1>s, NoneIs, GoesIs DEF Park, stores, history
<1>11. ASSUME Release PROVE WarnedWell'
  BY <1>11, <1>s, NoneIs DEF Release, stores, history
<1>12. ASSUME NEW g \in Grant, Look(g) PROVE WarnedWell'
  BY <1>12, <1>s DEF Look, stores, history
<1>13. ASSUME NEW g \in Grant, Claim(g) PROVE WarnedWell'
  BY <1>13, <1>s DEF Claim, stores, history
<1>14. ASSUME NEW g \in Grant, Refuse(g) PROVE WarnedWell'
  BY <1>14, <1>s DEF Refuse, stores, history
<1>15. ASSUME NEW g \in Grant, SetCeiling(g) PROVE WarnedWell'
  BY <1>15, <1>s DEF SetCeiling, stores, history
<1>16. ASSUME NEW g \in Grant, Announce(g) PROVE WarnedWell'
  BY <1>16, <1>s DEF Announce, stores, history
<1>17. ASSUME NEW g \in Grant, Undo(g) PROVE WarnedWell'
  BY <1>17, <1>s DEF Undo, stores, history
<1>18. ASSUME LateCommit PROVE WarnedWell'
  BY <1>18, <1>s DEF LateCommit, stores, history
<1>19. ASSUME Reconnect PROVE WarnedWell'
  <2>1. /\ turn'.warn = FALSE /\ sent' = sent /\ warned' = warned /\ mem' = mem
        /\ place' = place \/ mem[place'] = Blank \/ "returned" \in mishaps'
    BY <1>19, NoneIs, MishapFacts DEF Reconnect, Stopped, stores, history
  <2> QED BY <1>s, <2>1, NoneIs DEF Met
<1>20. ASSUME Lapse PROVE WarnedWell'
  BY <1>20, MishapFacts DEF Lapse, Met
<1>21. ASSUME NEW s \in Server, Restart(s) PROVE WarnedWell'
  <2>1. /\ turn'.warn \in {turn.warn, FALSE} /\ sent' = sent /\ warned' = warned
        /\ place' = place /\ mem'[place] \in {mem[place], Blank}
    BY <1>21, <1>0, NoneIs DEF Restart, Knowledge, stores, history
  <2> QED BY <1>s, <2>1, NoneIs
<1>22. ASSUME NEW s \in Server, Evict(s) PROVE WarnedWell'
  <2>1. /\ turn'.warn \in {turn.warn, FALSE} /\ sent' = sent /\ warned' = warned
        /\ place' = place /\ mem'[place] \in {mem[place], Blank}
    BY <1>22, <1>0, NoneIs DEF Evict, Knowledge, stores, history
  <2> QED BY <1>s, <2>1, NoneIs
<1> QED BY <1>1, <1>2, <1>3, <1>4, <1>5, <1>6, <1>7, <1>8, <1>9, <1>10, <1>11, <1>12, <1>13, <1>14,
      <1>15, <1>16, <1>17, <1>18, <1>19, <1>20, <1>21, <1>22 DEF Next

LEMMA WarningsStep ==
  ASSUME Types, TurnFits, Next, WarningsFit
  PROVE  WarningsFit'
<1>1. mishaps \subseteq mishaps'
  BY Grows
<1>2. CASE Met({"redis", "lapsed", "returned"}) \/ Met({"redis", "lapsed", "returned"})'
  BY <1>1, <1>2 DEF WarningsFit, Met
<1>3. CASE WarnedWell /\ ~Met({"redis", "lapsed", "returned"})'
  BY <1>3, WarnedWellStep DEF WarningsFit
<1> QED BY <1>2, <1>3 DEF WarningsFit

(* The grants.                                                             *)
LEMMA GrantsWellStep ==
  ASSUME Types, TurnFits, Next, Bounded, Booked, GrantsWell, ~Excused'
  PROVE  GrantsWell'
<1>0. /\ Types /\ Knowledge /\ turn \in TurnRecord /\ late \in LateRecord
      /\ grant \in [Grant -> GrantRecord] /\ (turn.at # "idle" => turn.on \in Server)
           /\ fresh \in BOOLEAN
  BY KnowledgeIs, OnServer DEF Types, TurnTypes, GrantTypes, StoreTypes
<1>s. ASSUME row' = row, raised' = raised, total' = total, grant' = grant, Resting => Resting',
             \/ fresh' = FALSE
             \/ fresh' = fresh /\ (turn'.at \in {"call", "commit"} => turn'.at = turn.at)
      PROVE  GrantsWell'
  BY <1>s DEF GrantsWell, GrantBuys
<1>g. ASSUME row' = row, raised' = raised, total' = total, turn' = turn, fresh' = fresh,
             NEW g \in Grant, OnlyGrant(g), GrantBuys(g)'
      PROVE  GrantsWell'
  <2>1. ASSUME NEW h \in Grant \ {g} PROVE GrantBuys(h)'
    BY <1>g, <2>1 DEF GrantsWell, GrantBuys, OnlyGrant, Resting
  <2>2. \A h \in Grant : GrantBuys(h)'
    BY <1>g, <2>1
  <2> QED BY <1>g, <2>2 DEF GrantsWell, Resting
<1>1. ASSUME StartTurn PROVE GrantsWell'
  <2>1. /\ row' = row /\ row = "running" /\ raised' = raised /\ fresh' = fresh /\ total' = total
        /\ turn'.at = "before"
    BY <1>1, <1>0, StartIs DEF StartTurn, Knowledge, stores, history
  <2>2. ASSUME NEW g \in Grant PROVE GrantBuys(g)'
    BY <1>1, <1>0, <2>1, <2>2, StartTurnIs DEF GrantsWell, GrantBuys
  <2> QED BY <2>1, <2>2 DEF GrantsWell
<1>2. ASSUME Remember PROVE GrantsWell'
  <2>1. /\ row' = row /\ raised' = raised /\ fresh' = fresh /\ total' = total /\ grant' = grant
        /\ turn.at = "before" /\ turn'.at = "judge"
    BY <1>2, <1>0, GoesIs DEF Remember, Turn, stores, history
  <2> QED BY <1>s, <2>1 DEF Resting
<1>3. ASSUME Exhausted PROVE GrantsWell'
  <2>1. /\ row' = row /\ raised' = raised /\ fresh' = fresh /\ total' = total /\ grant' = grant
        /\ turn.at = "judge" /\ turn'.at = "park"
    BY <1>3, <1>0, GoesIs DEF Exhausted, Turn, stores, history
  <2> QED BY <1>s, <2>1 DEF Resting
<1>4. ASSUME Stops PROVE GrantsWell'
  <2>1. /\ row' = row /\ raised' = raised /\ fresh' = fresh /\ total' = total /\ grant' = grant
        /\ turn.at = "judge" /\ turn'.at = "park"
    BY <1>4, <1>0, StopsIs DEF Stops, Turn, WorkFacts, stores, history
  <2> QED BY <1>s, <2>1 DEF Resting
<1>5. ASSUME Call PROVE GrantsWell'
  <2>1. /\ row' = row /\ raised' = raised /\ fresh' = FALSE /\ total' = total /\ grant' = grant
        /\ turn.at = "judge" /\ turn'.at = "call"
    BY <1>5, <1>0, CallIs DEF Call, Turn, WorkFacts, stores, history
  <2> QED BY <1>s, <2>1 DEF Resting
<1>6. ASSUME Reply PROVE GrantsWell'
  <2>1. /\ row' = row /\ raised' = raised /\ fresh' = fresh /\ grant' = grant /\ turn.at = "call"
    BY <1>6 DEF Reply, Turn, stores
  <2>2. row # "paused" /\ ~Resting /\ fresh = FALSE
    BY <1>0, <2>1 DEF GrantsWell, Resting
  <2>3. ASSUME NEW g \in Grant PROVE GrantBuys(g)'
    BY <2>1, <2>2 DEF GrantsWell, GrantBuys
  <2> QED BY <2>1, <2>2, <2>3 DEF GrantsWell
<1>7. ASSUME Commit PROVE GrantsWell'
  <2>1. /\ row' = row /\ raised' = raised /\ fresh' = fresh /\ total' = total /\ grant' = grant
        /\ turn.at = "commit" /\ turn'.at = "before"
    BY <1>7, <1>0, CommitIs DEF Commit, Turn, WorkFacts, stores, history
  <2> QED BY <1>s, <2>1 DEF Resting
<1>8. ASSUME EndTurn PROVE GrantsWell'
  <2>1. /\ row' = row /\ raised' = raised /\ fresh' = fresh /\ total' = total /\ grant' = grant
        /\ turn.at = "before" /\ turn'.at = "idle"
    BY <1>8, <1>0, NoneIs DEF EndTurn, Turn, stores, history
  <2> QED BY <1>s, <2>1 DEF Resting
<1>9. ASSUME SendWarning PROVE GrantsWell'
  <2>1. /\ row' = row /\ raised' = raised /\ fresh' = fresh /\ total' = total /\ grant' = grant
        /\ turn'.at = turn.at
    BY <1>9, <1>0, SentIs DEF SendWarning, stores
  <2> QED BY <1>s, <2>1 DEF Resting
<1>10. ASSUME Park PROVE GrantsWell'
  <2>1. /\ row' = "paused" /\ raised' = raised /\ fresh' = fresh /\ total' = total /\ grant' = grant
        /\ turn.at = "park" /\ turn'.at \in {"idle", "release"}
    BY <1>10, <1>0, NoneIs, GoesIs DEF Park, Turn, stores, history
  <2>2. ASSUME NEW g \in Grant PROVE GrantBuys(g)'
    BY <2>1 DEF GrantsWell, GrantBuys, Resting
  <2> QED BY <2>1, <2>2 DEF GrantsWell, Resting
<1>11. ASSUME Release PROVE GrantsWell'
  <2>1. /\ row' = row /\ raised' = raised /\ fresh' = fresh /\ total' = total /\ grant' = grant
        /\ turn.at = "release" /\ turn'.at = "idle"
    BY <1>11, <1>0, NoneIs DEF Release, Turn, stores, history
  <2> QED BY <1>s, <2>1 DEF Resting
<1>12. ASSUME NEW g \in Grant, Look(g) PROVE GrantsWell'
  <2>1. /\ row' = row /\ row = "paused" /\ raised' = raised /\ total' = total /\ turn' = turn
        /\ fresh' = fresh /\ Mishap(Behind)
    BY <1>12 DEF Look, stores, history
  <2>2. OnlyGrant(g) /\ grant'[g].at = "claim" /\ grant'[g].to \in Nat /\ ledger < grant'[g].to
    BY <1>12, <1>0, LookIs, NumbersFacts
  <2>3. turn.charge = 0 /\ late.charge = 0
    <3>1. Resting
      BY <2>1 DEF GrantsWell
    <3>2. late = NoLate
      BY <2>1, MishapFacts DEF Behind, Unless, Excused, Met
    <3> QED BY <3>1, <3>2, NoneIs DEF TurnFits, Resting
  <2>4. ledger + late.charge + turn.charge = total
    BY <1>0 DEF Booked, Excused, Met, Knowledge
  <2>5. ledger = total
    <3>1. MoneyNumbers
      BY ChargesAre DEF MoneyNumbers, Types, StoreTypes
    <3> QED BY <2>3, <2>4, <3>1 DEF MoneyNumbers
  <2>6. GrantBuys(g)'
    BY <2>1, <2>2, <2>5 DEF GrantBuys
  <2> QED BY <1>g, <2>1, <2>2, <2>6
<1>13. ASSUME NEW g \in Grant, Claim(g) PROVE GrantsWell'
  <2>1. /\ row = "paused" /\ row' = "running" /\ raised' = raised /\ total' = total /\ turn' = turn
        /\ fresh' = fresh /\ grant[g].at = "claim"
    BY <1>13 DEF Claim, At, stores, history
  <2>2. Resting /\ Resting'
    BY <2>1 DEF GrantsWell, Resting
  <2>3. GrantBuys(g)'
    BY <1>13, <1>0, <2>1, <2>2, ClaimIs DEF GrantsWell, GrantBuys, SameNumbers
  <2>4. ASSUME NEW h \in Grant \ {g} PROVE GrantBuys(h)'
    BY <1>13, <1>0, <2>1, <2>2, <2>4, ClaimIs DEF GrantsWell, GrantBuys, SameNumbers
  <2>5. \A h \in Grant : GrantBuys(h)'
    BY <2>3, <2>4
  <2> QED BY <2>1, <2>2, <2>5 DEF GrantsWell
<1>14. ASSUME NEW g \in Grant, Refuse(g) PROVE GrantsWell'
  <2>1. GrantBuys(g)' /\ OnlyGrant(g)
    BY <1>14, <1>0, GoneIs, NoneIs DEF Refuse, GrantBuys
  <2> QED BY <1>14, <1>g, <2>1 DEF Refuse, stores, history
<1>15. ASSUME NEW g \in Grant, SetCeiling(g) PROVE GrantsWell'
  <2>1. /\ row' = row /\ total' = total /\ turn' = turn /\ grant[g].at = "set"
    BY <1>15 DEF SetCeiling, At
  <2>2. GrantBuys(g)' /\ OnlyGrant(g)
    BY <1>15, <1>0, SetCeilingIs DEF GrantBuys
  <2>3. CASE raised' = raised /\ fresh' = fresh
    BY <1>g, <2>1, <2>2, <2>3
  <2>4. CASE raised' = grant[g].to /\ fresh' = grant[g].quiet /\ grant[g].stale = FALSE
    <3>1. \A h \in Grant : GrantBuys(h)'
      BY <2>1, <2>2 DEF OnlyGrant, GrantsWell, GrantBuys, Resting
    <3>2. fresh' => Resting /\ total < grant[g].to
      BY <2>1, <2>4 DEF GrantsWell, GrantBuys
    <3> QED BY <2>1, <2>4, <3>1, <3>2 DEF GrantsWell, Resting
  <2>5. CASE "stale" \in mishaps'
    BY <2>5 DEF Excused, Met
  <2> QED BY <1>15, <1>0, <2>3, <2>4, <2>5, SetCeilingIs
<1>16. ASSUME NEW g \in Grant, Announce(g) PROVE GrantsWell'
  <2>1. GrantBuys(g)' /\ OnlyGrant(g)
    BY <1>16, <1>0, AnnounceIs, NoneIs DEF GrantBuys
  <2> QED BY <1>16, <1>g, <2>1 DEF Announce, stores, history
<1>17. ASSUME NEW g \in Grant, Undo(g) PROVE GrantsWell'
  BY <1>17, MishapFacts DEF Undo, Excused, Met
<1>18. ASSUME LateCommit PROVE GrantsWell'
  BY <1>18, <1>s DEF LateCommit, Resting, stores, history
<1>19. ASSUME Reconnect PROVE GrantsWell'
  <2>1. turn'.at = "idle"
    BY <1>19, NoneIs DEF Reconnect, Stopped
  <2> QED BY <1>19, <1>s, <2>1 DEF Reconnect, Resting, stores, history
<1>20. ASSUME Lapse PROVE GrantsWell'
  BY <1>20, MishapFacts DEF Lapse, Excused, Met
<1>21. ASSUME NEW s \in Server, Restart(s) PROVE GrantsWell'
  <2>1. /\ row' = row /\ raised' = raised /\ fresh' = fresh /\ total' = total
        /\ turn'.at \in {"idle", turn.at} /\ (Resting => Resting')
    BY <1>21, NoneIs DEF Restart, Resting, stores, history
  <2>2. ASSUME NEW g \in Grant PROVE GrantBuys(g)'
    <3>1. grant'[g] \in {grant[g], NoGrant}
      BY <1>21, <1>0, RestartIs
    <3> QED BY <2>1, <3>1, NoneIs DEF GrantsWell, GrantBuys
  <2> QED BY <2>1, <2>2 DEF GrantsWell, Resting
<1>22. ASSUME NEW s \in Server, Evict(s) PROVE GrantsWell'
  BY <1>22, <1>s DEF Evict, Resting, stores, history
<1> QED BY <1>1, <1>2, <1>3, <1>4, <1>5, <1>6, <1>7, <1>8, <1>9, <1>10, <1>11, <1>12, <1>13, <1>14,
      <1>15, <1>16, <1>17, <1>18, <1>19, <1>20, <1>21, <1>22 DEF Next

LEMMA GrantsStep ==
  ASSUME Types, TurnFits, Next, Bounded, Booked, GrantsFit
  PROVE  GrantsFit'
<1>1. mishaps \subseteq mishaps'
  BY Grows
<1>2. CASE Excused \/ Excused'
  BY <1>1, <1>2 DEF GrantsFit, Excused, Met
<1>3. CASE GrantsWell /\ ~Excused'
  BY <1>3, GrantsWellStep DEF GrantsFit
<1> QED BY <1>2, <1>3 DEF GrantsFit

------------------------------------------------------------------------------
(* All of it together.                                                     *)
LEMMA InitIInv == Init => IInv
<1> SUFFICES ASSUME Init PROVE IInv
  OBVIOUS
<1>1. Types
  <2>1. TurnTypes /\ MemTypes
    BY NoneIs DEF Init, TurnTypes, MemTypes
  <2>2. StoreTypes /\ GrantTypes
    BY NoneIs, SpendingAssumption DEF Init, StoreTypes, GrantTypes
  <2> QED BY <2>1, <2>2 DEF Types
<1>2. TurnFits /\ Booked /\ Kept /\ Known
  BY NoneIs DEF Init, TurnFits, Booked, Kept, Known
<1>3. Bounded
  <2>1. RecordsFit /\ CeilingsFit
    BY NoneIs, SpendingAssumption DEF Init, RecordsFit, CeilingsFit
  <2>2. MoneyFits
    BY NoneIs DEF Init, MoneyFits
  <2> QED BY <2>1, <2>2 DEF Bounded
<1>4. NoCallOverCeiling
  BY NoneIs DEF Init, NoCallOverCeiling
<1>5. WarningsFit
  BY NoneIs DEF Init, WarningsFit, WarnedWell, Warnings
<1>6. GrantsFit
  BY NoneIs DEF Init, GrantsFit, GrantsWell, GrantBuys, Resting
<1> QED BY <1>1, <1>2, <1>3, <1>4, <1>5, <1>6 DEF IInv

LEMMA StutterIInv == ASSUME IInv, UNCHANGED vars PROVE IInv'
<1>0. /\ UNCHANGED <<row, bound, place, mem, turn, late, ledger, credits, raised, warned>>
      /\ UNCHANGED <<grant, total, highest, sent, fresh, mishaps>>
  BY DEF vars, stores, history
<1>1. Types'
  BY <1>0 DEF IInv, Types, TurnTypes, MemTypes, StoreTypes, GrantTypes
<1>2. TurnFits' /\ Bounded'
  BY <1>0 DEF IInv, TurnFits, Bounded, RecordsFit, MoneyFits, CeilingsFit
<1>3. Booked' /\ Kept' /\ Known' /\ NoCallOverCeiling'
  BY <1>0 DEF IInv, Booked, Kept, Known, NoCallOverCeiling, Memory, Renewed, Met
<1>4. WarningsFit'
  BY <1>0 DEF IInv, WarningsFit, WarnedWell, Warnings, Met
<1>5. GrantsFit'
  BY <1>0 DEF IInv, GrantsFit, GrantsWell, GrantBuys, Resting, Excused, Met
<1> QED BY <1>1, <1>2, <1>3, <1>4, <1>5 DEF IInv

LEMMA StepIInv == IInv /\ [Next]_vars => IInv'
<1>1. ASSUME IInv, Next PROVE IInv'
  <2>1. /\ Types /\ TurnFits /\ Bounded /\ Booked /\ Kept /\ Known
        /\ NoCallOverCeiling /\ WarningsFit /\ GrantsFit
    BY <1>1 DEF IInv
  <2>2. Types' /\ TurnFits' /\ Bounded' /\ Booked' /\ Kept' /\ Known'
    BY <1>1, <2>1, TypesStep, TurnStep, BoundedStep, KeptStep, KnownStep
  <2>3. NoCallOverCeiling' /\ WarningsFit' /\ GrantsFit'
    BY <1>1, <2>1, <2>2, CallStep, WarningsStep, GrantsStep
  <2> QED BY <2>2, <2>3 DEF IInv
<1> QED BY <1>1, StutterIInv

(* The invariant of a run's spending: what is charged is in the ledger or  *)
(* on the way to it, a record that read the ledger knows of it all, one    *)
(* warning is sent, and a grant's numbers are above what was spent, each   *)
(* unless what the code gives way to went wrong (metering.py, code_runs.py *)
(* from :225).                                                             *)
THEOREM Safety == Spec => []IInv
<1> QED BY InitIInv, StepIInv, PTL DEF Spec

(* Types; no record, store or counter of the run knows of more than it was *)
(* charged, none of a ceiling there never was (metering.py, the _RunState).*)
THEOREM TypesHold == Spec => []TypeOK
<1>1. ASSUME IInv PROVE TypeOK
  <2>1. Types /\ Bounded
    BY <1>1 DEF IInv
  <2>2. MoneyNumbers
    BY <2>1, ChargesAre DEF MoneyNumbers, Types, StoreTypes
  <2>3. ledger + late.charge <= total /\ credits <= total
    BY <2>1, <2>2 DEF Bounded, MoneyFits, MoneyNumbers
  <2>4. /\ turn.on \in Server \union {None} /\ turn.charge \in Charge \union {0}
        /\ turn.warn \in BOOLEAN
        /\ turn.at \in {"idle", "before", "judge", "call", "commit", "park", "release"}
    BY <2>1 DEF Types, TurnTypes, TurnRecord
  <2>5. \A g \in Grant : grant[g].at \in {"idle", "claim", "set", "bind", "undo"}
    BY <2>1 DEF Types, GrantTypes, GrantRecord
  <2>6. \A s \in Server : /\ mem[s].spent <= total /\ mem[s].raised <= highest
                          /\ mem[s].base \in {0, Base}
    BY <2>1 DEF Types, MemTypes, StateRecord, Bounded, RecordsFit
  <2> QED BY <2>1, <2>3, <2>4, <2>5, <2>6 DEF TypeOK, Types, StoreTypes, MemTypes
<1> QED BY <1>1, Safety, PTL

(* However many servers, turns and grants there are, a call begins only    *)
(* below the highest ceiling the run ever had (metering.py, before_call    *)
(* and _ceiling_now), if its record could read ledger and pool.  Exempt:   *)
(* a thread that wrote a charge late, the return to a server that knew the *)
(* run, a crash over a charge, a refused charge and then a renewed record. *)
THEOREM CeilingHolds == Spec => []NoCallOverCeiling
<1>1. IInv => NoCallOverCeiling
  BY DEF IInv
<1> QED BY <1>1, Safety, PTL

(* A run's device is warned once, across its turns, its servers and their  *)
(* restarts (metering.py:553), unless Redis failed or forgot, or the       *)
(* device returned to a server that knew the run.                          *)
THEOREM WarnsOnce == Spec => []WarnedOnce
<1>1. ASSUME IInv PROVE WarnedOnce
  <2>1. WarningsFit /\ sent \in Nat
    BY <1>1 DEF IInv, Types, StoreTypes
  <2> QED BY <2>1 DEF WarningsFit, WarnedWell, Warnings, WarnedOnce
<1> QED BY <1>1, Safety, PTL

(* A run that was granted more makes a call before it stops at its ceiling *)
(* again (code_runs.py:225): a grant's numbers are above all that was      *)
(* spent, and the record asks Redis for the ceiling before it stops.       *)
(* Exempt: numbers of an earlier pause, a grant that was undone, Redis     *)
(* that failed or forgot, a charge that is late, refused or lost.          *)
THEOREM GrantsBuy == Spec => GrantBuysACall
<1>1. ASSUME IInv, Stops, fresh, ~Excused' PROVE FALSE
  <2>1. Types /\ TurnFits /\ Next
    BY <1>1 DEF IInv, Next
  <2>2. turn.on \in Server
    BY <1>1, <2>1, OnServer DEF Stops, Turn
  <2>3. ~Excused
    BY <1>1, <2>1, Grows DEF Excused, Met
  <2>4. total < raised
    BY <1>1, <2>3 DEF IInv, GrantsFit, GrantsWell
  <2>5. WorkFacts("park") /\ Reached(mem'[turn.on]) /\ mem'[turn.on].raised >= raised
    BY <1>1, <2>1, <2>2, StopsIs DEF Excused, Met
  <2>6. mem[turn.on].spent <= total /\ mem'[turn.on].spent = mem[turn.on].spent
    BY <1>1, <2>2, <2>5 DEF IInv, Bounded, RecordsFit, WorkFacts
  <2>7. /\ total \in Nat /\ raised \in Nat
        /\ mem'[turn.on] \in StateRecord
    BY <2>1, <2>2, <2>5 DEF Types, StoreTypes, WorkFacts, OnlyMem
  <2>8. PICK n \in StateRecord : n = mem'[turn.on]
    BY <2>7
  <2>9. n.spent >= n.raised
    BY <2>5, <2>8, SpendingAssumption DEF Reached, Effective, Larger, StateRecord
  <2> QED BY <2>4, <2>5, <2>6, <2>7, <2>8, <2>9 DEF StateRecord
<1>2. IInv => [Stops => ~fresh \/ Excused']_vars
  BY <1>1
<1> QED BY <1>2, Safety, PTL DEF GrantBuysACall, Excused
==============================================================================
