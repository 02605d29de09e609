--------------------------- MODULE ACScheduleProofs ---------------------------
(***************************************************************************)
(* The schedule adds up, no order of events leaves it short or passes the  *)
(* total by more than a bounded amount, the close type is true, and a stop *)
(* is not followed by a slice: for every total, every number of intervals, *)
(* every minimum, every trajectory and every number of failed orders.      *)
(*                                                                         *)
(* The sums and the merging of small slices are folds over sequences of    *)
(* any length.  A fold of the community modules is a function that CHOOSE  *)
(* picks among those that satisfy its equation: FoldExists shows by        *)
(* induction that there is one, FoldRuns that it goes through the sequence *)
(* element by element, and what holds of it is shown along that run.       *)
(***************************************************************************)
EXTENDS ACSchedule, SequenceTheorems, WellFoundedInduction, TLAPS

-----------------------------------------------------------------------------
(* Folds over sequences.                                                   *)

Less == {p \in Nat \X Nat : p[1] < p[2]}

\* A set of naturals with a member has a least one.
LEMMA LeastMember ==
    ASSUME NEW S \in SUBSET Nat, S # {}
    PROVE  \E n \in S : \A m \in S : n <= m
<1>1. Less = OpToRel(<, Nat)
  BY DEF Less, OpToRel
<1>2. PICK x \in S : \A y \in S : ~ (<<y, x>> \in Less)
  BY <1>1, NatLessThanWellFounded, WFMin
<1>3. \A y \in S : ~(y < x)
  BY <1>2 DEF Less
<1> QED
  BY <1>3

\* Induction: a set of naturals that has 0, and with n also n + 1, has all.
LEMMA Induction ==
    ASSUME NEW S \in SUBSET Nat, 0 \in S, \A n \in S : n + 1 \in S
    PROVE  S = Nat
<1> SUFFICES ASSUME Nat \ S # {} PROVE FALSE
    OBVIOUS
<1>1. PICK n \in Nat \ S : \A m \in Nat \ S : n <= m
  BY LeastMember
<1>2. n # 0 /\ n - 1 \in Nat
  BY <1>1
<1>3. n - 1 \in S
  BY <1>1, <1>2
<1>4. (n - 1) + 1 = n
  BY <1>2
<1> QED
  BY <1>1, <1>3, <1>4

\* The folds of the community modules are functions on sets of indices that
\* take the largest index last; `step` says what they do with one.
FoldStep(fold, step, base, s) ==
    IF s = {} THEN base ELSE step[<<Max(s), fold[s \ {Max(s)}]>>]

IsFold(fold, X, step, base, N) ==
    /\ fold \in [SUBSET (1 .. N) -> X]
    /\ \A s \in SUBSET (1 .. N) : fold[s] = FoldStep(fold, step, base, s)

\* The largest index.
LEMMA MaxIs ==
    ASSUME NEW n \in Nat, NEW s \in SUBSET (1 .. n), n \in s
    PROVE  Max(s) = n
<1>1. \A y \in s : y \in Nat /\ n >= y
  OBVIOUS
<1>2. Max(s) \in s /\ \A y \in s : Max(s) >= y
  BY <1>1 DEF Max
<1>3. Max(s) \in Nat /\ n >= Max(s) /\ Max(s) >= n
  BY <1>1, <1>2
<1> QED
  BY <1>3

\* A set of indices has a largest one.
LEMMA MaxMember ==
    ASSUME NEW N \in Nat, NEW s \in SUBSET (1 .. N), s # {}
    PROVE  Max(s) \in s
<1> DEFINE bounds == {u \in Nat : \A y \in s : y <= u}
<1>1. N \in bounds
  OBVIOUS
<1>2. PICK u \in bounds : \A v \in bounds : u <= v
  <2> HIDE DEF bounds
  <2>1. bounds \in SUBSET Nat /\ bounds # {}
    BY <1>1 DEF bounds
  <2> QED
    BY <2>1, LeastMember
<1>3. u \in s
  <2> SUFFICES ASSUME u \notin s PROVE FALSE
    OBVIOUS
  <2>1. PICK y \in s : TRUE
    OBVIOUS
  <2>2. u - 1 \in Nat /\ \A z \in s : z <= u - 1
    BY <1>2
  <2> QED
    BY <1>2, <2>2
<1>4. u \in s /\ \A y \in s : u >= y
  BY <1>2, <1>3
<1> QED
  BY <1>4 DEF Max

\* There is such a function, whatever the step.
LEMMA FoldExists ==
    ASSUME NEW X, NEW base \in X, NEW step \in [Nat \X X -> X], NEW N \in Nat
    PROVE  \E fold : IsFold(fold, X, step, base, N)
<1> DEFINE Has(n) == \E fold \in [SUBSET (1 .. n) -> X] :
                        \A s \in SUBSET (1 .. n) : fold[s] = FoldStep(fold, step, base, s)
           S == {n \in Nat : Has(n)}
<1>1. Has(0)
  <2>1. 1 .. 0 = {}
    OBVIOUS
  <2> DEFINE f == [s \in SUBSET (1 .. 0) |-> base]
  <2>2. f \in [SUBSET (1 .. 0) -> X]
    OBVIOUS
  <2>3. \A s \in SUBSET (1 .. 0) : s = {} /\ f[s] = base
    BY <2>1
  <2>4. \A s \in SUBSET (1 .. 0) : f[s] = FoldStep(f, step, base, s)
    BY <2>3 DEF FoldStep
  <2> HIDE DEF f
  <2> QED
    BY <2>2, <2>4
<1>2. ASSUME NEW n \in Nat, Has(n) PROVE Has(n + 1)
  <2>1. PICK f \in [SUBSET (1 .. n) -> X] :
            \A s \in SUBSET (1 .. n) : f[s] = FoldStep(f, step, base, s)
    BY <1>2
  <2> DEFINE g == [s \in SUBSET (1 .. n + 1) |->
                     IF n + 1 \in s THEN step[<<n + 1, f[s \ {n + 1}]>>] ELSE f[s]]
  <2>2. ASSUME NEW s \in SUBSET (1 .. n + 1)
        PROVE  s \ {n + 1} \in SUBSET (1 .. n)
    OBVIOUS
  <2>3. g \in [SUBSET (1 .. n + 1) -> X]
    <3> SUFFICES ASSUME NEW s \in SUBSET (1 .. n + 1)
                 PROVE  (IF n + 1 \in s THEN step[<<n + 1, f[s \ {n + 1}]>>] ELSE f[s]) \in X
        OBVIOUS
    <3>1. CASE n + 1 \in s
      <4>1. f[s \ {n + 1}] \in X
        BY <2>2
      <4> QED
        BY <3>1, <4>1
    <3>2. CASE n + 1 \notin s
      <4>1. s \in SUBSET (1 .. n)
        BY <2>2, <3>2
      <4> QED
        BY <3>2, <4>1
    <3> QED
      BY <3>1, <3>2
  <2>4. ASSUME NEW s \in SUBSET (1 .. n) PROVE g[s] = f[s]
    <3>1. s \in SUBSET (1 .. n + 1) /\ n + 1 \notin s
      OBVIOUS
    <3> QED
      BY <3>1
  <2>5. ASSUME NEW s \in SUBSET (1 .. n + 1), n + 1 \in s
        PROVE  g[s] = step[<<n + 1, f[s \ {n + 1}]>>]
    BY <2>5
  <2> HIDE DEF g
  <2>6. ASSUME NEW s \in SUBSET (1 .. n + 1)
        PROVE  g[s] = FoldStep(g, step, base, s)
    <3>1. CASE n + 1 \in s
      <4>1. Max(s) = n + 1 /\ s # {}
        BY <3>1, MaxIs
      <4>2. g[s \ {n + 1}] = f[s \ {n + 1}]
        BY <2>2, <2>4
      <4> QED
        BY <2>5, <3>1, <4>1, <4>2 DEF FoldStep
    <3>2. CASE n + 1 \notin s
      <4>1. s \in SUBSET (1 .. n)
        BY <2>2, <3>2
      <4>2. s \ {Max(s)} \in SUBSET (1 .. n)
        BY <4>1
      <4> QED
        BY <2>1, <2>4, <4>1, <4>2 DEF FoldStep
    <3> QED
      BY <3>1, <3>2
  <2> QED
    BY <2>3, <2>6
<1> HIDE DEF Has
<1>3. 0 \in S /\ \A n \in S : n + 1 \in S
  BY <1>1, <1>2
<1>4. S = Nat
  <2> HIDE DEF S
  <2>1. S \in SUBSET Nat
    BY DEF S
  <2> QED
    BY <1>3, <2>1, Induction
<1>5. Has(N)
  BY <1>4
<1> QED
  BY <1>5 DEF Has, IsFold

\* The indices below the last one.
LEMMA BelowLast ==
    ASSUME NEW k \in Nat, k # 0 PROVE (1 .. k) \ {k} = 1 .. k - 1 /\ 1 .. k # {}
<1>1. 1 \in 1 .. k
  OBVIOUS
<1>2. \A x \in Int : (x \in 1 .. k /\ x # k) <=> x \in 1 .. k - 1
  OBVIOUS
<1> QED
  BY <1>1, <1>2

\* What it has after each index from 1 on.
IsRun(run, X, step, base, N) ==
    /\ run \in [0 .. N -> X]
    /\ run[0] = base
    /\ \A k \in 1 .. N : run[k] = step[<<k, run[k - 1]>>]

\* A fold as far as it stays in `X`.
Folds(fold, X, step, base, N) ==
    /\ fold[{}] = base
    /\ \A s \in SUBSET (1 .. N) : s # {} /\ fold[s \ {Max(s)}] \in X =>
          fold[s] = step[<<Max(s), fold[s \ {Max(s)}]>>]

\* It takes one element after the other, and stays in `X` on its way.
LEMMA FoldRuns ==
    ASSUME NEW X, NEW base \in X, NEW step \in [Nat \X X -> X], NEW N \in Nat,
           NEW fold, Folds(fold, X, step, base, N),
           NEW run, run = [k \in 0 .. N |-> fold[1 .. k]]
    PROVE  IsRun(run, X, step, base, N)
<1>1. fold[1 .. 0] = base
  <2>1. 1 .. 0 = {}
    OBVIOUS
  <2> QED
    BY <2>1 DEF Folds
<1>2. ASSUME NEW k \in 1 .. N, fold[1 .. k - 1] \in X
      PROVE  fold[1 .. k] = step[<<k, fold[1 .. k - 1]>>]
  <2>1. 1 .. k \in SUBSET (1 .. N) /\ k \in 1 .. k /\ k \in Nat
    OBVIOUS
  <2>2. Max(1 .. k) = k
    BY <2>1, MaxIs
  <2>3. (1 .. k) \ {k} = 1 .. k - 1 /\ 1 .. k # {}
    <3>1. k \in Nat /\ k # 0
      OBVIOUS
    <3> QED
      BY ONLY <3>1, BelowLast
  <2> QED
    BY <1>2, <2>1, <2>2, <2>3 DEF Folds
<1>3. \A k \in Nat : k <= N => fold[1 .. k] \in X
  <2> DEFINE S == {k \in Nat : k <= N => fold[1 .. k] \in X}
  <2>1. 0 \in S
    BY <1>1
  <2>2. ASSUME NEW k \in S PROVE k + 1 \in S
    <3>1. CASE k + 1 <= N
      <4>1. k + 1 \in 1 .. N /\ (k + 1) - 1 = k /\ fold[1 .. k] \in X
        BY <2>2, <3>1
      <4>2. fold[1 .. k + 1] = step[<<k + 1, fold[1 .. k]>>]
        BY <1>2, <4>1
      <4> QED
        BY <4>1, <4>2
    <3> QED
      BY <3>1
  <2>3. S = Nat
    <3> HIDE DEF S
    <3>1. S \in SUBSET Nat
      BY DEF S
    <3> QED
      BY <2>1, <2>2, <3>1, Induction
  <2> QED
    BY <2>3
<1>4. run \in [0 .. N -> X]
  BY <1>3
<1>5. run[0] = base
  BY <1>1
<1>6. \A k \in 1 .. N : run[k] = step[<<k, run[k - 1]>>]
  BY <1>2, <1>3
<1> QED
  BY <1>4, <1>5, <1>6 DEF IsRun

\* There is only one run of these steps.
LEMMA RunUnique ==
    ASSUME NEW X, NEW step, NEW base, NEW N \in Nat, NEW f, NEW g,
           IsRun(f, X, step, base, N), IsRun(g, X, step, base, N)
    PROVE  f = g
<1> DEFINE S == {k \in Nat : k <= N => f[k] = g[k]}
<1>1. 0 \in S
  BY DEF IsRun
<1>2. ASSUME NEW n \in S PROVE n + 1 \in S
  <2>1. n \in Nat /\ (n <= N => f[n] = g[n])
    OBVIOUS
  <2>2. ASSUME n + 1 <= N PROVE f[n + 1] = g[n + 1]
    <3>1. n + 1 \in 1 .. N /\ (n + 1) - 1 = n /\ f[n] = g[n]
      BY <2>1, <2>2
    <3> QED
      BY <3>1 DEF IsRun
  <2> QED
    BY <2>1, <2>2
<1>3. S = Nat
  <2> HIDE DEF S
  <2>1. S \in SUBSET Nat
    BY DEF S
  <2> QED
    BY <1>1, <1>2, <2>1, Induction
<1>4. \A k \in 0 .. N : f[k] = g[k]
  BY <1>3
<1> QED
  BY <1>4 DEF IsRun

-----------------------------------------------------------------------------
(* Sums.                                                                   *)

\* What a sum has added up after each element.
RunningSum(acc, seq) ==
    /\ acc \in [0 .. Len(seq) -> Int]
    /\ acc[0] = 0
    /\ \A k \in 1 .. Len(seq) : acc[k] = acc[k - 1] + seq[k]

AddStep(seq) == [p \in Nat \X Int |->
                   IF p[1] \in 1 .. Len(seq) THEN p[2] + seq[p[1]] ELSE 0]

LEMMA AddStepType ==
    ASSUME NEW seq \in Seq(Int)
    PROVE  /\ AddStep(seq) \in [Nat \X Int -> Int]
           /\ \A k \in 1 .. Len(seq), v \in Int : AddStep(seq)[<<k, v>>] = v + seq[k]
<1>1. \A k \in 1 .. Len(seq) : seq[k] \in Int /\ k \in Nat
  OBVIOUS
<1> QED
  BY <1>1 DEF AddStep

\* Adding up is a run of such steps.
LEMMA RunningSumRuns ==
    ASSUME NEW seq \in Seq(Int), NEW acc
    PROVE  RunningSum(acc, seq) <=> IsRun(acc, Int, AddStep(seq), 0, Len(seq))
<1>1. ASSUME acc \in [0 .. Len(seq) -> Int], NEW k \in 1 .. Len(seq)
      PROVE  AddStep(seq)[<<k, acc[k - 1]>>] = acc[k - 1] + seq[k]
  <2>1. acc[k - 1] \in Int
    BY <1>1
  <2> QED
    BY <2>1, AddStepType
<1> QED
  BY <1>1 DEF RunningSum, IsRun

\* FoldLeft adds in the order of the sequence.
LEMMA SumRuns ==
    ASSUME NEW seq \in Seq(Int)
    PROVE  \E acc : RunningSum(acc, seq) /\ Sum(seq) = acc[Len(seq)]
<1> DEFINE Add(fold) == [s \in SUBSET DOMAIN seq |->
                           IF s = {} THEN 0 ELSE fold[s \ {Max(s)}] + seq[Max(s)]]
           chosen == CHOOSE fold : fold = Add(fold)
           N == Len(seq)
           step == AddStep(seq)
           acc == [k \in 0 .. N |-> chosen[1 .. k]]
<1>1. DOMAIN seq = 1 .. N /\ N \in Nat
  OBVIOUS
<1>2. Sum(seq) = chosen[DOMAIN seq]
  BY DEF Sum, FoldLeft, MapThenFoldSet
<1>3. step \in [Nat \X Int -> Int] /\ \A k \in 1 .. N, v \in Int : step[<<k, v>>] = v + seq[k]
  BY AddStepType
<1>4. \A k \in 1 .. N : seq[k] \in Int
  OBVIOUS
<1> HIDE DEF N, step
<1>5. ASSUME NEW s \in SUBSET (1 .. N), NEW fold, s # {}, fold[s \ {Max(s)}] \in Int
      PROVE  step[<<Max(s), fold[s \ {Max(s)}]>>] = fold[s \ {Max(s)}] + seq[Max(s)]
  BY <1>1, <1>3, <1>5, MaxMember
<1>6. PICK f : IsFold(f, Int, step, 0, N)
  <2>1. 0 \in Int /\ N \in Nat /\ step \in [Nat \X Int -> Int]
    BY <1>1, <1>3
  <2> HIDE DEF chosen, acc
  <2> QED
    BY <2>1, FoldExists
<1>7. f = Add(f)
  <2>1. ASSUME NEW s \in SUBSET (1 .. N)
        PROVE  f[s] = IF s = {} THEN 0 ELSE f[s \ {Max(s)}] + seq[Max(s)]
    BY <1>5, <1>6 DEF IsFold, FoldStep
  <2> QED
    BY <1>1, <1>6, <2>1 DEF IsFold
<1> HIDE DEF Add
<1>8. chosen = Add(chosen)
  BY <1>7
<1>9. \A s \in SUBSET (1 .. N) :
        chosen[s] = IF s = {} THEN 0 ELSE chosen[s \ {Max(s)}] + seq[Max(s)]
  <2> HIDE DEF chosen
  <2> QED
    BY <1>1, <1>8 DEF Add
<1> HIDE DEF chosen
<1>10. IsRun(acc, Int, step, 0, N)
  <2>1. {} \in SUBSET (1 .. N)
    OBVIOUS
  <2>2. chosen[{}] = 0
    BY <1>9, <2>1
  <2>3. Folds(chosen, Int, step, 0, N)
    BY <1>5, <1>9, <2>2 DEF Folds
  <2>4. acc = [k \in 0 .. N |-> chosen[1 .. k]]
    OBVIOUS
  <2> HIDE DEF acc
  <2>5. 0 \in Int /\ N \in Nat /\ step \in [Nat \X Int -> Int]
    BY <1>1, <1>3
  <2> QED
    BY <2>3, <2>4, <2>5, FoldRuns
<1>11. Sum(seq) = acc[N]
  BY <1>1, <1>2
<1> HIDE DEF acc
<1> QED
  BY <1>10, <1>11, RunningSumRuns DEF N, step

\* Whatever has added up the elements has the sum at the end.
LEMMA SumIs ==
    ASSUME NEW seq \in Seq(Int), NEW acc, RunningSum(acc, seq)
    PROVE  Sum(seq) = acc[Len(seq)] /\ Sum(seq) \in Int
<1>1. PICK run : RunningSum(run, seq) /\ Sum(seq) = run[Len(seq)]
  BY SumRuns
<1>2. run = acc
  BY <1>1, RunningSumRuns, RunUnique
<1> QED
  BY <1>1, <1>2 DEF RunningSum

\* The same of any function on the first indices.
AddsUp(acc, f, n) ==
    /\ acc \in [0 .. n -> Int]
    /\ acc[0] = 0
    /\ \A k \in 1 .. n : f[k] \in Int /\ acc[k] = acc[k - 1] + f[k]

LEMMA HasSum ==
    ASSUME NEW seq \in Seq(Int)
    PROVE  \E acc : AddsUp(acc, seq, Len(seq)) /\ Sum(seq) = acc[Len(seq)]
<1>1. \A k \in 1 .. Len(seq) : seq[k] \in Int
  OBVIOUS
<1> QED
  BY <1>1, SumRuns DEF RunningSum, AddsUp

LEMMA IsSum ==
    ASSUME NEW seq \in Seq(Int), NEW acc, AddsUp(acc, seq, Len(seq))
    PROVE  Sum(seq) = acc[Len(seq)]
BY SumIs DEF RunningSum, AddsUp

\* One number more.
LEMMA AddsOneMore ==
    ASSUME NEW n \in Nat, NEW f, NEW acc, AddsUp(acc, f, n),
           NEW g, \A k \in 1 .. n : g[k] = f[k], g[n + 1] \in Int
    PROVE  \E sums : AddsUp(sums, g, n + 1) /\ sums[n + 1] = acc[n] + g[n + 1]
<1> DEFINE sums == [k \in 0 .. n + 1 |-> IF k <= n THEN acc[k] ELSE acc[n] + g[n + 1]]
<1>1. ASSUME NEW k \in 0 .. n PROVE acc[k] \in Int
  BY DEF AddsUp
<1>2. ASSUME NEW k \in 0 .. n PROVE sums[k] = acc[k] /\ k \in 0 .. n + 1
  OBVIOUS
<1>3. sums[n + 1] = acc[n] + g[n + 1] /\ n \in 0 .. n /\ 0 \in 0 .. n
  OBVIOUS
<1>4. \A k \in 0 .. n + 1 : k \in 0 .. n \/ k = n + 1
  OBVIOUS
<1>5. sums = [k \in 0 .. n + 1 |-> sums[k]]
  OBVIOUS
<1> HIDE DEF sums
<1>6. \A k \in 0 .. n + 1 : sums[k] \in Int
  BY <1>1, <1>2, <1>3, <1>4
<1>7. sums \in [0 .. n + 1 -> Int]
  BY <1>5, <1>6
<1>8. sums[0] = 0
  BY <1>2, <1>3 DEF AddsUp
<1>9. ASSUME NEW k \in 1 .. n + 1 PROVE g[k] \in Int /\ sums[k] = sums[k - 1] + g[k]
  <2>1. CASE k \in 1 .. n
    <3>1. k \in 0 .. n /\ k - 1 \in 0 .. n
      BY <2>1
    <3> QED
      BY <1>2, <2>1, <3>1 DEF AddsUp
  <2>2. CASE k = n + 1
    <3>1. k - 1 = n
      BY <2>2
    <3> QED
      BY <1>2, <1>3, <2>2, <3>1
  <2> QED
    BY <2>1, <2>2
<1>10. AddsUp(sums, g, n + 1)
  BY <1>7, <1>8, <1>9 DEF AddsUp
<1> QED
  BY <1>3, <1>10

LEMMA SumAppend ==
    ASSUME NEW seq \in Seq(Int), NEW x \in Int
    PROVE  Sum(Append(seq, x)) = Sum(seq) + x
<1> DEFINE n == Len(seq)
           g == Append(seq, x)
<1>1. PICK acc : AddsUp(acc, seq, n) /\ Sum(seq) = acc[n]
  BY HasSum
<1>2. /\ n \in Nat /\ g \in Seq(Int) /\ Len(g) = n + 1
      /\ \A k \in 1 .. n : g[k] = seq[k]
      /\ g[n + 1] = x
  OBVIOUS
<1> HIDE DEF n, g
<1>3. PICK sums : AddsUp(sums, g, n + 1) /\ sums[n + 1] = acc[n] + g[n + 1]
  BY <1>1, <1>2, AddsOneMore
<1> QED
  BY <1>1, <1>2, <1>3, IsSum DEF g

LEMMA SumEmpty == Sum(<<>>) = 0
<1> DEFINE acc == [k \in 0 .. 0 |-> 0]
<1>1. AddsUp(acc, <<>>, 0)
  BY DEF AddsUp
<1>2. <<>> \in Seq(Int) /\ Len(<<>>) = 0 /\ acc[0] = 0
  OBVIOUS
<1> HIDE DEF acc
<1> QED
  BY <1>1, <1>2, IsSum

\* One number changed.
Changed(g, f, o, n) == g[o] \in Int /\ \A k \in 1 .. n : k # o => g[k] = f[k]

LEMMA AddsOneChanged ==
    ASSUME NEW n \in Nat, NEW f, NEW acc, AddsUp(acc, f, n), NEW o \in 1 .. n,
           NEW g, Changed(g, f, o, n)
    PROVE  \E sums : AddsUp(sums, g, n) /\ sums[n] = acc[n] + g[o] - f[o]
<1> DEFINE sums == [k \in 0 .. n |-> IF k < o THEN acc[k] ELSE acc[k] + g[o] - f[o]]
<1>1. /\ f[o] \in Int /\ acc[0] = 0 /\ \A k \in 0 .. n : acc[k] \in Int
      /\ \A k \in 1 .. n : f[k] \in Int /\ acc[k] = acc[k - 1] + f[k]
  BY DEF AddsUp
<1>0. g[o] \in Int /\ \A k \in 1 .. n : k # o => g[k] = f[k]
  BY DEF Changed
<1>2. ASSUME NEW k \in 0 .. n
      PROVE  sums[k] = IF k < o THEN acc[k] ELSE acc[k] + g[o] - f[o]
  OBVIOUS
<1>3. sums = [k \in 0 .. n |-> sums[k]]
  OBVIOUS
<1> HIDE DEF sums
<1>4. sums \in [0 .. n -> Int]
  <2>1. \A k \in 0 .. n : sums[k] \in Int
    BY <1>0, <1>1, <1>2
  <2> QED
    BY <1>3, <2>1
<1>5. sums[0] = 0
  BY <1>1, <1>2
<1>6. ASSUME NEW k \in 1 .. n PROVE g[k] \in Int /\ sums[k] = sums[k - 1] + g[k]
  <2>1. /\ k \in 0 .. n /\ k - 1 \in 0 .. n /\ acc[k - 1] \in Int
        /\ f[k] \in Int /\ acc[k] = acc[k - 1] + f[k]
    BY <1>1
  <2>2. CASE k < o
    BY <1>0, <1>2, <2>1, <2>2
  <2>3. CASE k = o
    BY <1>0, <1>2, <2>1, <2>3
  <2>4. CASE k > o
    <3>1. g[k] = f[k] /\ ~(k < o) /\ ~(k - 1 < o)
      BY <1>0, <2>4
    <3> QED
      BY <1>0, <1>1, <1>2, <2>1, <3>1
  <2> QED
    BY <2>2, <2>3, <2>4
<1>7. AddsUp(sums, g, n)
  BY <1>4, <1>5, <1>6 DEF AddsUp
<1>8. sums[n] = acc[n] + g[o] - f[o]
  BY <1>2
<1> QED
  BY <1>7, <1>8

LEMMA SumChanged ==
    ASSUME NEW seq \in Seq(Int), NEW other \in Seq(Int), Len(other) = Len(seq),
           NEW o \in 1 .. Len(seq), \A k \in 1 .. Len(seq) : k # o => other[k] = seq[k]
    PROVE  Sum(other) = Sum(seq) + other[o] - seq[o]
<1> DEFINE n == Len(seq)
<1>1. PICK acc : AddsUp(acc, seq, n) /\ Sum(seq) = acc[n]
  BY HasSum
<1>2. n \in Nat /\ o \in 1 .. n /\ Changed(other, seq, o, n)
  BY DEF Changed
<1> HIDE DEF n
<1>3. PICK sums : AddsUp(sums, other, n) /\ sums[n] = acc[n] + other[o] - seq[o]
  <2>1. AddsUp(acc, seq, n)
    BY <1>1
  <2> QED
    BY ONLY <1>2, <2>1, AddsOneChanged
<1> QED
  BY <1>1, <1>3, IsSum DEF n

\* One number taken out.
Without(g, f, o, n) == \A k \in 1 .. n - 1 : g[k] = IF k < o THEN f[k] ELSE f[k + 1]

LEMMA AddsOneLess ==
    ASSUME NEW n \in Nat, NEW f, NEW acc, AddsUp(acc, f, n), NEW o \in 1 .. n,
           NEW g, Without(g, f, o, n)
    PROVE  \E sums : AddsUp(sums, g, n - 1) /\ sums[n - 1] = acc[n] - f[o]
<1> DEFINE sums == [k \in 0 .. n - 1 |-> IF k < o THEN acc[k] ELSE acc[k + 1] - f[o]]
<1>1. /\ f[o] \in Int /\ acc[0] = 0 /\ \A k \in 0 .. n : acc[k] \in Int
      /\ \A k \in 1 .. n : f[k] \in Int /\ acc[k] = acc[k - 1] + f[k]
  BY DEF AddsUp
<1>2. ASSUME NEW k \in 0 .. n - 1
      PROVE  sums[k] = IF k < o THEN acc[k] ELSE acc[k + 1] - f[o]
  OBVIOUS
<1>3. sums = [k \in 0 .. n - 1 |-> sums[k]]
  OBVIOUS
<1> HIDE DEF sums
<1>4. sums \in [0 .. n - 1 -> Int]
  <2>1. ASSUME NEW k \in 0 .. n - 1 PROVE sums[k] \in Int
    <3>1. acc[k] \in Int /\ acc[k + 1] \in Int
      BY <1>1
    <3> QED
      BY <1>1, <1>2, <3>1
  <2> QED
    BY <1>3, <2>1
<1>5. sums[0] = 0
  BY <1>1, <1>2
<1>6. ASSUME NEW k \in 1 .. n - 1 PROVE g[k] \in Int /\ sums[k] = sums[k - 1] + g[k]
  <2>1. /\ k \in 0 .. n - 1 /\ k - 1 \in 0 .. n - 1 /\ k \in Int /\ (k - 1) + 1 = k
        /\ acc[k - 1] \in Int /\ acc[k] \in Int
        /\ f[k] \in Int /\ acc[k] = acc[k - 1] + f[k]
    BY <1>1
  <2>2. f[k + 1] \in Int /\ acc[k + 1] = acc[k] + f[k + 1]
    <3>1. k + 1 \in 1 .. n /\ (k + 1) - 1 = k
      OBVIOUS
    <3> QED
      BY <1>1, <3>1
  <2>3. g[k] = IF k < o THEN f[k] ELSE f[k + 1]
    BY DEF Without
  <2>4. CASE k < o
    BY <1>2, <2>1, <2>3, <2>4
  <2>5. CASE k = o
    BY <1>1, <1>2, <2>1, <2>2, <2>3, <2>5
  <2>6. CASE k > o
    <3>1. ~(k < o) /\ ~(k - 1 < o)
      BY <2>6
    <3> QED
      BY <1>1, <1>2, <2>1, <2>2, <2>3, <3>1
  <2> QED
    BY <2>1, <2>4, <2>5, <2>6
<1>7. AddsUp(sums, g, n - 1)
  BY <1>4, <1>5, <1>6 DEF AddsUp
<1>8. sums[n - 1] = acc[n] - f[o]
  <2>1. n - 1 \in 0 .. n - 1 /\ (n - 1) + 1 = n
    OBVIOUS
  <2>2. acc[n] = acc[n - 1] + f[n] /\ acc[n - 1] \in Int /\ f[n] \in Int
    BY <1>1, <2>1
  <2> QED
    BY <1>1, <1>2, <2>1, <2>2
<1> QED
  BY <1>7, <1>8

LEMMA SumRemoved ==
    ASSUME NEW seq \in Seq(Int), NEW other \in Seq(Int), NEW o \in 1 .. Len(seq),
           Len(other) = Len(seq) - 1, Without(other, seq, o, Len(seq))
    PROVE  Sum(other) = Sum(seq) - seq[o]
<1> DEFINE n == Len(seq)
<1>1. PICK acc : AddsUp(acc, seq, n) /\ Sum(seq) = acc[n]
  BY HasSum
<1>2. n \in Nat /\ o \in 1 .. n /\ Without(other, seq, o, n) /\ Len(other) = n - 1
  OBVIOUS
<1> HIDE DEF n
<1>3. PICK sums : AddsUp(sums, other, n - 1) /\ sums[n - 1] = acc[n] - seq[o]
  <2>1. AddsUp(acc, seq, n)
    BY <1>1
  <2> QED
    BY ONLY <1>2, <2>1, AddsOneLess
<1> QED
  BY <1>1, <1>2, <1>3, IsSum DEF n

\* Two parts of every number add up to no more than the numbers.
LEMMA AddsParts ==
    ASSUME NEW n \in Nat, NEW f, NEW g, NEW h,
           NEW accF, NEW accG, NEW accH,
           AddsUp(accF, f, n), AddsUp(accG, g, n), AddsUp(accH, h, n),
           \A k \in 1 .. n : f[k] + g[k] <= h[k]
    PROVE  accF[n] + accG[n] <= accH[n]
<1> DEFINE S == {k \in Nat : k <= n => accF[k] + accG[k] <= accH[k]}
<1>1. 0 \in S
  BY DEF AddsUp
<1>2. ASSUME NEW k \in S PROVE k + 1 \in S
  <2>1. CASE k + 1 <= n
    <3>1. /\ k + 1 \in 1 .. n /\ (k + 1) - 1 = k /\ k \in 0 .. n
          /\ accF[k] + accG[k] <= accH[k]
      BY <2>1
    <3>2. /\ accF[k] \in Int /\ f[k + 1] \in Int /\ accF[k + 1] = accF[k] + f[k + 1]
          /\ accG[k] \in Int /\ g[k + 1] \in Int /\ accG[k + 1] = accG[k] + g[k + 1]
          /\ accH[k] \in Int /\ h[k + 1] \in Int /\ accH[k + 1] = accH[k] + h[k + 1]
      BY <3>1 DEF AddsUp
    <3> QED
      BY <3>1, <3>2
  <2> QED
    BY <2>1
<1>3. S = Nat
  <2> HIDE DEF S
  <2>1. S \in SUBSET Nat
    BY DEF S
  <2> QED
    BY <1>1, <1>2, <2>1, Induction
<1> QED
  BY <1>3

LEMMA SumParts ==
    ASSUME NEW f \in Seq(Int), NEW g \in Seq(Int), NEW h \in Seq(Int),
           Len(g) = Len(f), Len(h) = Len(f),
           \A k \in 1 .. Len(f) : f[k] + g[k] <= h[k]
    PROVE  Sum(f) + Sum(g) <= Sum(h)
<1> DEFINE n == Len(f)
<1>1. PICK accF : AddsUp(accF, f, n) /\ Sum(f) = accF[n]
  BY HasSum
<1>2. PICK accG : AddsUp(accG, g, n) /\ Sum(g) = accG[n]
  BY HasSum
<1>3. PICK accH : AddsUp(accH, h, n) /\ Sum(h) = accH[n]
  BY HasSum
<1>4. n \in Nat /\ \A k \in 1 .. n : f[k] + g[k] <= h[k]
  OBVIOUS
<1> HIDE DEF n
<1> QED
  BY <1>1, <1>2, <1>3, <1>4, AddsParts

\* Numbers that two others cover add up to no more than those.
LEMMA AddsShares ==
    ASSUME NEW n \in Nat, NEW f, NEW g, NEW h,
           NEW accF, NEW accG, NEW accH,
           AddsUp(accF, f, n), AddsUp(accG, g, n), AddsUp(accH, h, n),
           \A k \in 1 .. n : h[k] <= f[k] + g[k]
    PROVE  accH[n] <= accF[n] + accG[n]
<1> DEFINE S == {k \in Nat : k <= n => accH[k] <= accF[k] + accG[k]}
<1>1. 0 \in S
  BY DEF AddsUp
<1>2. ASSUME NEW k \in S PROVE k + 1 \in S
  <2>1. CASE k + 1 <= n
    <3>1. /\ k + 1 \in 1 .. n /\ (k + 1) - 1 = k /\ k \in 0 .. n
          /\ accH[k] <= accF[k] + accG[k]
      BY <2>1
    <3>2. /\ accF[k] \in Int /\ f[k + 1] \in Int /\ accF[k + 1] = accF[k] + f[k + 1]
          /\ accG[k] \in Int /\ g[k + 1] \in Int /\ accG[k + 1] = accG[k] + g[k + 1]
          /\ accH[k] \in Int /\ h[k + 1] \in Int /\ accH[k + 1] = accH[k] + h[k + 1]
      BY <3>1 DEF AddsUp
    <3> QED
      BY <3>1, <3>2
  <2> QED
    BY <2>1
<1>3. S = Nat
  <2> HIDE DEF S
  <2>1. S \in SUBSET Nat
    BY DEF S
  <2> QED
    BY <1>1, <1>2, <2>1, Induction
<1> QED
  BY <1>3

LEMMA SumShares ==
    ASSUME NEW f \in Seq(Int), NEW g \in Seq(Int), NEW h \in Seq(Int),
           Len(g) = Len(f), Len(h) = Len(f),
           \A k \in 1 .. Len(f) : h[k] <= f[k] + g[k]
    PROVE  Sum(h) <= Sum(f) + Sum(g)
<1> DEFINE n == Len(f)
<1>1. PICK accF : AddsUp(accF, f, n) /\ Sum(f) = accF[n]
  BY HasSum
<1>2. PICK accG : AddsUp(accG, g, n) /\ Sum(g) = accG[n]
  BY HasSum
<1>3. PICK accH : AddsUp(accH, h, n) /\ Sum(h) = accH[n]
  BY HasSum
<1>4. n \in Nat /\ \A k \in 1 .. n : h[k] <= f[k] + g[k]
  OBVIOUS
<1> HIDE DEF n
<1> QED
  BY <1>1, <1>2, <1>3, <1>4, AddsShares

\* A sum is a number, and not negative when its elements are not.
LEMMA SumType == ASSUME NEW seq \in Seq(Int) PROVE Sum(seq) \in Int
BY SumRuns, SumIs

LEMMA AddsNaturals ==
    ASSUME NEW n \in Nat, NEW f, NEW acc, AddsUp(acc, f, n), \A k \in 1 .. n : f[k] >= 0
    PROVE  \A k \in 0 .. n : acc[k] >= 0
<1> DEFINE S == {k \in Nat : k <= n => acc[k] >= 0}
<1>1. 0 \in S
  BY DEF AddsUp
<1>2. ASSUME NEW k \in S PROVE k + 1 \in S
  <2>1. CASE k + 1 <= n
    <3>1. k + 1 \in 1 .. n /\ (k + 1) - 1 = k /\ k \in 0 .. n /\ acc[k] >= 0
      BY <2>1
    <3>2. acc[k] \in Int /\ f[k + 1] \in Int /\ acc[k + 1] = acc[k] + f[k + 1]
      BY <3>1 DEF AddsUp
    <3> QED
      BY <3>1, <3>2
  <2> QED
    BY <2>1
<1>3. S = Nat
  <2> HIDE DEF S
  <2>1. S \in SUBSET Nat
    BY DEF S
  <2> QED
    BY <1>1, <1>2, <2>1, Induction
<1> QED
  BY <1>3

LEMMA SumNaturals ==
    ASSUME NEW seq \in Seq(Int), \A k \in 1 .. Len(seq) : seq[k] >= 0
    PROVE  Sum(seq) >= 0
<1>1. PICK acc : AddsUp(acc, seq, Len(seq)) /\ Sum(seq) = acc[Len(seq)]
  BY HasSum
<1>2. Len(seq) \in Nat /\ Len(seq) \in 0 .. Len(seq)
  OBVIOUS
<1> QED
  BY <1>1, <1>2, AddsNaturals

\* The sum of the first elements.
LEMMA SumPrefix ==
    ASSUME NEW seq \in Seq(Int), NEW acc, AddsUp(acc, seq, Len(seq)), NEW n \in 0 .. Len(seq)
    PROVE  SubSeq(seq, 1, n) \in Seq(Int) /\ Sum(SubSeq(seq, 1, n)) = acc[n]
<1> DEFINE s == SubSeq(seq, 1, n)
           sums == [k \in 0 .. n |-> acc[k]]
<1>1. Len(seq) \in Nat /\ n \in Nat /\ n <= Len(seq)
  OBVIOUS
<1>2. \A i \in 1 .. n : seq[i] \in Int
  OBVIOUS
<1>3. s \in Seq(Int) /\ Len(s) = n /\ \A i \in 1 .. n : s[i] = seq[i]
  <2>1. \A i \in 1 .. n - 1 + 1 : s[i] = seq[1 + i - 1]
    BY <1>1, <1>2, SubSeqProperties
  <2>2. s \in Seq(Int) /\ Len(s) = IF 1 <= n THEN n - 1 + 1 ELSE 0
    BY <1>1, <1>2, SubSeqProperties
  <2> HIDE DEF s
  <2> QED
    BY <1>1, <2>1, <2>2
<1> HIDE DEF s
<1>4. AddsUp(sums, s, n)
  <2>1. /\ acc \in [0 .. Len(seq) -> Int] /\ acc[0] = 0
        /\ \A k \in 1 .. Len(seq) : seq[k] \in Int /\ acc[k] = acc[k - 1] + seq[k]
    BY DEF AddsUp
  <2>2. ASSUME NEW k \in 0 .. n PROVE sums[k] = acc[k] /\ acc[k] \in Int
    <3>1. k \in 0 .. Len(seq)
      BY <1>1
    <3> QED
      BY <2>1, <3>1
  <2>3. sums \in [0 .. n -> Int]
    BY <2>2
  <2>4. sums[0] = 0
    BY <1>1, <2>1
  <2>5. ASSUME NEW k \in 1 .. n PROVE s[k] \in Int /\ sums[k] = sums[k - 1] + s[k]
    <3>1. k \in 1 .. Len(seq) /\ k \in 0 .. n /\ k - 1 \in 0 .. n
      BY <1>1
    <3>2. sums[k] = acc[k] /\ sums[k - 1] = acc[k - 1]
      BY <3>1
    <3> HIDE DEF sums
    <3> QED
      BY <1>3, <2>1, <3>1, <3>2
  <2> HIDE DEF sums
  <2> QED
    BY <2>3, <2>4, <2>5 DEF AddsUp
<1>5. Sum(s) = sums[n]
  BY <1>3, <1>4, IsSum
<1> QED
  BY <1>1, <1>3, <1>5 DEF s

-----------------------------------------------------------------------------
(* The orders' numbers.                                                    *)

\* One value per order makes a sequence.
LEMMA Listed ==
    ASSUME NEW n \in Nat, NEW S, NEW f \in [1 .. n -> S]
    PROVE  f \in Seq(S) /\ Len(f) = n
<1>1. f \in Seq(S)
  BY SeqDef
<1>2. DOMAIN f = 1 .. n /\ DOMAIN f = 1 .. Len(f) /\ Len(f) \in Nat
  BY <1>1, LenProperties
<1> QED
  BY <1>1, <1>2

\* RemoveAt leaves the others in their order.
LEMMA Removal ==
    ASSUME NEW S, NEW seq \in Seq(S), NEW o \in 1 .. Len(seq)
    PROVE  /\ RemoveAt(seq, o) \in Seq(S)
           /\ Len(RemoveAt(seq, o)) = Len(seq) - 1
           /\ Without(RemoveAt(seq, o), seq, o, Len(seq))
<1> DEFINE n == Len(seq)
           before == SubSeq(seq, 1, o - 1)
           after == SubSeq(seq, o + 1, n)
<1>1. n \in Nat /\ o \in 1 .. n /\ \A i \in 1 .. n : seq[i] \in S
  OBVIOUS
<1>2. /\ before \in Seq(S) /\ Len(before) = o - 1
      /\ \A i \in 1 .. o - 1 : before[i] = seq[i]
  <2> HIDE DEF n
  <2>1. \A i \in 1 .. o - 1 : seq[i] \in S
    BY <1>1
  <2>2. \A i \in 1 .. (o - 1) - 1 + 1 : before[i] = seq[1 + i - 1]
    BY <1>1, <2>1, SubSeqProperties
  <2>3. before \in Seq(S) /\ Len(before) = IF 1 <= o - 1 THEN (o - 1) - 1 + 1 ELSE 0
    BY <1>1, <2>1, SubSeqProperties
  <2> HIDE DEF before
  <2> QED
    BY <1>1, <2>2, <2>3
<1>3. /\ after \in Seq(S) /\ Len(after) = n - o
      /\ \A i \in 1 .. n - o : after[i] = seq[o + i]
  <2> HIDE DEF n
  <2>1. \A i \in o + 1 .. n : seq[i] \in S
    BY <1>1
  <2>2. \A i \in 1 .. n - (o + 1) + 1 : after[i] = seq[(o + 1) + i - 1]
    BY <1>1, <2>1, SubSeqProperties
  <2>3. after \in Seq(S) /\ Len(after) = IF o + 1 <= n THEN n - (o + 1) + 1 ELSE 0
    BY <1>1, <2>1, SubSeqProperties
  <2> HIDE DEF after
  <2> QED
    BY <1>1, <2>2, <2>3
<1>4. RemoveAt(seq, o) = before \o after
  BY DEF RemoveAt
<1> HIDE DEF n, before, after
<1>5. /\ before \o after \in Seq(S) /\ Len(before \o after) = (o - 1) + (n - o)
      /\ \A i \in 1 .. (o - 1) + (n - o) :
            (before \o after)[i] = IF i <= o - 1 THEN before[i] ELSE after[i - (o - 1)]
  <2>1. /\ before \o after \in Seq(S)
        /\ Len(before \o after) = Len(before) + Len(after)
        /\ \A i \in 1 .. Len(before) + Len(after) : (before \o after)[i] =
              IF i <= Len(before) THEN before[i] ELSE after[i - Len(before)]
    <3>1. before \in Seq(S) /\ after \in Seq(S)
      BY <1>2, <1>3
    <3> QED
      BY ONLY <3>1, ConcatProperties
  <2>2. Len(before) = o - 1 /\ Len(after) = n - o
    BY <1>2, <1>3
  <2> QED
    BY ONLY <2>1, <2>2
<1>6. ASSUME NEW k \in 1 .. n - 1
      PROVE  (before \o after)[k] = IF k < o THEN seq[k] ELSE seq[k + 1]
  <2>1. CASE k < o
    BY <1>1, <1>2, <1>5, <2>1
  <2>2. CASE ~(k < o)
    <3>1. k - (o - 1) \in 1 .. n - o /\ o + (k - (o - 1)) = k + 1
      BY <1>1, <2>2
    <3> QED
      BY <1>1, <1>3, <1>5, <2>2, <3>1
  <2> QED
    BY <2>1, <2>2
<1> QED
  BY <1>1, <1>4, <1>5, <1>6 DEF Without, n

\* A beginning of a longer sequence, and the whole of one.
LEMMA SamePrefix ==
    ASSUME NEW seq \in Seq(Int), NEW longer \in Seq(Int), NEW n \in 0 .. Len(seq),
           Len(seq) <= Len(longer), \A i \in 1 .. n : longer[i] = seq[i]
    PROVE  SubSeq(longer, 1, n) = SubSeq(seq, 1, n)
<1>1. n \in Nat /\ n \in 0 .. Len(longer)
  OBVIOUS
<1>2. ASSUME NEW s \in Seq(Int), n \in 0 .. Len(s)
      PROVE  /\ SubSeq(s, 1, n) \in Seq(Int) /\ Len(SubSeq(s, 1, n)) = n
             /\ \A i \in 1 .. n : SubSeq(s, 1, n)[i] = s[i]
  <2> DEFINE t == SubSeq(s, 1, n)
  <2>1. \A i \in 1 .. n : s[i] \in Int
    BY <1>2
  <2>2. \A i \in 1 .. n - 1 + 1 : t[i] = s[1 + i - 1]
    BY <1>1, <2>1, SubSeqProperties
  <2>3. t \in Seq(Int) /\ Len(t) = IF 1 <= n THEN n - 1 + 1 ELSE 0
    BY <1>1, <2>1, SubSeqProperties
  <2> HIDE DEF t
  <2>4. t \in Seq(Int) /\ Len(t) = n /\ \A i \in 1 .. n : t[i] = s[i]
    BY <1>1, <2>2, <2>3
  <2> QED
    BY <2>4 DEF t
<1> DEFINE a == SubSeq(seq, 1, n)
           b == SubSeq(longer, 1, n)
<1>3. a \in Seq(Int) /\ Len(a) = n /\ \A i \in 1 .. n : a[i] = seq[i]
  BY <1>2
<1>4. b \in Seq(Int) /\ Len(b) = n /\ \A i \in 1 .. n : b[i] = longer[i]
  BY <1>1, <1>2
<1> HIDE DEF a, b
<1>5. \A i \in 1 .. Len(b) : b[i] = a[i]
  BY <1>3, <1>4
<1>6. a = b
  BY <1>3, <1>4, <1>5, SeqEqual
<1> QED
  BY <1>6 DEF a, b

LEMMA LongerByOne ==
    ASSUME NEW seq \in Seq(Int), NEW longer \in Seq(Int), NEW x \in Int,
           Len(longer) = Len(seq) + 1, \A i \in 1 .. Len(seq) : longer[i] = seq[i],
           longer[Len(seq) + 1] = x
    PROVE  longer = Append(seq, x)
<1> DEFINE s == Append(seq, x)
<1>1. s \in Seq(Int) /\ Len(s) = Len(longer)
  OBVIOUS
<1>2. \A i \in 1 .. Len(seq) + 1 : s[i] = longer[i]
  OBVIOUS
<1>3. \A i \in 1 .. Len(s) : s[i] = longer[i]
  BY <1>1, <1>2
<1> HIDE DEF s
<1>4. s = longer
  BY <1>1, <1>3, SeqEqual
<1> QED
  BY <1>4 DEF s

LEMMA WholePrefix ==
    ASSUME NEW seq \in Seq(Int) PROVE SubSeq(seq, 1, Len(seq)) = seq
OBVIOUS

-----------------------------------------------------------------------------
(* _merge_min_size().                                                      *)

Cuts == [merged : Seq(Int), acc : Int]

NoCut == [merged |-> <<>>, acc |-> 0]

CutStep(raw) == [p \in Nat \X Cuts |->
                   IF p[1] \in 1 .. Len(raw) THEN CutSlice(p[2], raw[p[1]]) ELSE p[2]]

LEMMA CutSliceType ==
    ASSUME NEW cut \in Cuts, NEW s \in Int
    PROVE  CutSlice(cut, s) \in Cuts
<1>1. cut.merged \in Seq(Int) /\ cut.acc \in Int /\ cut.acc + s \in Int
  BY DEF Cuts
<1>2. Append(cut.merged, cut.acc + s) \in Seq(Int)
  BY <1>1
<1> QED
  BY <1>1, <1>2 DEF CutSlice, Cuts

LEMMA CutStepType ==
    ASSUME NEW raw \in Seq(Int)
    PROVE  /\ CutStep(raw) \in [Nat \X Cuts -> Cuts]
           /\ \A k \in 1 .. Len(raw), cut \in Cuts :
                  CutStep(raw)[<<k, cut>>] = CutSlice(cut, raw[k])
<1>1. \A k \in 1 .. Len(raw) : raw[k] \in Int /\ k \in Nat
  OBVIOUS
<1>2. ASSUME NEW p \in Nat \X Cuts
      PROVE  (IF p[1] \in 1 .. Len(raw) THEN CutSlice(p[2], raw[p[1]]) ELSE p[2]) \in Cuts
  BY <1>1, CutSliceType
<1> QED
  BY <1>1, <1>2 DEF CutStep

\* The fold that cuts the slices is a run of such steps.
LEMMA CutRuns ==
    ASSUME NEW raw \in Seq(Int)
    PROVE  \E run : /\ IsRun(run, Cuts, CutStep(raw), NoCut, Len(raw))
                    /\ FoldLeft(CutSlice, [merged |-> <<>>, acc |-> 0], raw) = run[Len(raw)]
<1> DEFINE Cut(fold) == [s \in SUBSET DOMAIN raw |->
                           IF s = {} THEN NoCut
                           ELSE CutSlice(fold[s \ {Max(s)}], raw[Max(s)])]
           chosen == CHOOSE fold : fold = Cut(fold)
           N == Len(raw)
           step == CutStep(raw)
           run == [k \in 0 .. N |-> chosen[1 .. k]]
<1>1. DOMAIN raw = 1 .. N /\ N \in Nat
  OBVIOUS
<1>2. FoldLeft(CutSlice, [merged |-> <<>>, acc |-> 0], raw) = chosen[DOMAIN raw]
  BY DEF FoldLeft, MapThenFoldSet, NoCut
<1>3. /\ step \in [Nat \X Cuts -> Cuts]
      /\ \A k \in 1 .. N, cut \in Cuts : step[<<k, cut>>] = CutSlice(cut, raw[k])
  BY CutStepType
<1>4. NoCut \in Cuts
  <2>1. <<>> \in Seq(Int) /\ 0 \in Int
    OBVIOUS
  <2> QED
    BY <2>1 DEF NoCut, Cuts
<1> HIDE DEF N, step
<1>5. ASSUME NEW s \in SUBSET (1 .. N), NEW fold, s # {}, fold[s \ {Max(s)}] \in Cuts
      PROVE  step[<<Max(s), fold[s \ {Max(s)}]>>] = CutSlice(fold[s \ {Max(s)}], raw[Max(s)])
  BY <1>1, <1>3, <1>5, MaxMember
<1>6. PICK f : IsFold(f, Cuts, step, NoCut, N)
  <2> HIDE DEF chosen, run
  <2> QED
    BY <1>1, <1>3, <1>4, FoldExists
<1>7. f = Cut(f)
  <2>1. ASSUME NEW s \in SUBSET (1 .. N)
        PROVE  f[s] = IF s = {} THEN NoCut ELSE CutSlice(f[s \ {Max(s)}], raw[Max(s)])
    BY <1>5, <1>6 DEF IsFold, FoldStep
  <2> QED
    BY <1>1, <1>6, <2>1 DEF IsFold
<1> HIDE DEF Cut
<1>8. chosen = Cut(chosen)
  BY <1>7
<1>9. \A s \in SUBSET (1 .. N) :
        chosen[s] = IF s = {} THEN NoCut ELSE CutSlice(chosen[s \ {Max(s)}], raw[Max(s)])
  <2> HIDE DEF chosen
  <2> QED
    BY <1>1, <1>8 DEF Cut
<1> HIDE DEF chosen
<1>10. IsRun(run, Cuts, step, NoCut, N)
  <2>1. {} \in SUBSET (1 .. N)
    OBVIOUS
  <2>2. chosen[{}] = NoCut
    BY <1>9, <2>1
  <2>3. Folds(chosen, Cuts, step, NoCut, N)
    BY <1>5, <1>9, <2>2 DEF Folds
  <2>4. run = [k \in 0 .. N |-> chosen[1 .. k]]
    OBVIOUS
  <2> HIDE DEF run
  <2> QED
    BY <1>1, <1>3, <1>4, <2>3, <2>4, FoldRuns
<1>11. run[N] = chosen[DOMAIN raw]
  BY <1>1
<1> HIDE DEF run
<1> QED
  BY <1>2, <1>10, <1>11 DEF N, step

\* After `k` sizes: nothing is lost, less than the minimum waits, every slice
\* has the minimum, and slices end where sizes end.
CutSoFar(cut, acc, k) ==
    /\ Sum(cut.merged) + cut.acc = acc[k]
    /\ 0 <= cut.acc /\ cut.acc < MinOrder
    /\ Len(cut.merged) <= k
    /\ \A i \in 1 .. Len(cut.merged) : cut.merged[i] >= MinOrder
    /\ \A n \in 0 .. Len(cut.merged) : \E m \in 0 .. k : Sum(SubSeq(cut.merged, 1, n)) = acc[m]

\* One size more.
LEMMA CutsOneMore ==
    ASSUME NEW cut \in Cuts, NEW acc, NEW k \in Nat, CutSoFar(cut, acc, k),
           NEW s \in Int, s >= 0, acc[k + 1] = acc[k] + s, acc[k] \in Int
    PROVE  CutSoFar(CutSlice(cut, s), acc, k + 1)
<1> DEFINE m == cut.merged
           x == cut.acc + s
           longer == Append(m, x)
<1>1. m \in Seq(Int) /\ cut.acc \in Int /\ x \in Int /\ Len(m) \in Nat
  BY DEF Cuts
<1>2. /\ Sum(m) + cut.acc = acc[k]
      /\ 0 <= cut.acc /\ cut.acc < MinOrder
      /\ Len(m) <= k
      /\ \A i \in 1 .. Len(m) : m[i] >= MinOrder
      /\ \A n \in 0 .. Len(m) : \E j \in 0 .. k : Sum(SubSeq(m, 1, n)) = acc[j]
  BY DEF CutSoFar
<1>3. Sum(m) \in Int
  BY <1>1, SumType
<1>4. CASE x >= MinOrder
  <2>1. CutSlice(cut, s) = [merged |-> longer, acc |-> 0]
    BY <1>4 DEF CutSlice
  <2>2. /\ longer \in Seq(Int) /\ Len(longer) = Len(m) + 1
        /\ \A i \in 1 .. Len(m) : longer[i] = m[i]
        /\ longer[Len(m) + 1] = x
    BY <1>1
  <2>0. Len(m) \in Nat /\ Len(longer) = Len(m) + 1
    BY <1>1, <2>2
  <2>3. Sum(longer) = Sum(m) + x
    BY <1>1, SumAppend
  <2> HIDE DEF longer
  <2>4. Sum(longer) = acc[k + 1]
    BY <1>1, <1>2, <1>3, <2>3
  <2>5. ASSUME NEW i \in 1 .. Len(longer) PROVE longer[i] >= MinOrder
    <3>1. CASE i \in 1 .. Len(m)
      BY <1>2, <2>2, <3>1
    <3>2. CASE i = Len(m) + 1
      BY <1>4, <2>2, <3>2
    <3>3. i \in 1 .. Len(m) \/ i = Len(m) + 1
      BY <2>0
    <3> QED
      BY <3>1, <3>2, <3>3
  <2>6. ASSUME NEW n \in 0 .. Len(longer)
        PROVE  \E j \in 0 .. k + 1 : Sum(SubSeq(longer, 1, n)) = acc[j]
    <3>1. CASE n \in 0 .. Len(m)
      <4>1. SubSeq(longer, 1, n) = SubSeq(m, 1, n)
        <5>1. /\ m \in Seq(Int) /\ longer \in Seq(Int) /\ n \in 0 .. Len(m)
              /\ Len(m) <= Len(longer) /\ \A i \in 1 .. n : longer[i] = m[i]
          <6>1. Len(m) <= Len(longer) /\ \A i \in 1 .. n : i \in 1 .. Len(m)
            BY <2>0, <3>1
          <6> QED
            BY <1>1, <2>2, <3>1, <6>1
        <5> HIDE DEF m
        <5> QED
          BY ONLY <5>1, SamePrefix
      <4>2. PICK j \in 0 .. k : Sum(SubSeq(m, 1, n)) = acc[j]
        BY <1>2, <3>1
      <4>3. j \in 0 .. k + 1
        OBVIOUS
      <4> QED
        BY <4>1, <4>2, <4>3
    <3>2. CASE n = Len(longer)
      <4>1. SubSeq(longer, 1, n) = longer
        BY <2>2, <3>2, WholePrefix
      <4>2. k + 1 \in 0 .. k + 1
        OBVIOUS
      <4> QED
        BY <2>4, <4>1, <4>2
    <3>3. n \in 0 .. Len(m) \/ n = Len(longer)
      BY <2>0
    <3> QED
      BY <3>1, <3>2, <3>3
  <2>7. 0 < MinOrder /\ Len(longer) <= k + 1
    BY <1>1, <1>2, <2>2, ACConfigAssumption
  <2>8. Sum(longer) + 0 = acc[k + 1]
    BY <1>1, <1>3, <2>3, <2>4
  <2> QED
    BY <2>1, <2>5, <2>6, <2>7, <2>8 DEF CutSoFar
<1>5. CASE ~(x >= MinOrder)
  <2> DEFINE c == CutSlice(cut, s)
  <2>1. c.merged = m /\ c.acc = x
    BY <1>5 DEF CutSlice, Cuts
  <2> HIDE DEF c
  <2>2. x < MinOrder /\ 0 <= x /\ Sum(m) + x = acc[k + 1] /\ Len(m) <= k + 1
    <3>1. MinOrder \in Int
      BY ACConfigAssumption
    <3>2. Sum(m) + x = acc[k + 1]
      BY <1>1, <1>2, <1>3
    <3>3. x < MinOrder /\ 0 <= x
      BY <1>1, <1>2, <1>5, <3>1
    <3>4. Len(m) <= k + 1
      BY <1>1, <1>2
    <3> QED
      BY <3>2, <3>3, <3>4
  <2>3. ASSUME NEW n \in 0 .. Len(m)
        PROVE  \E j \in 0 .. k + 1 : Sum(SubSeq(m, 1, n)) = acc[j]
    <3>1. PICK j \in 0 .. k : Sum(SubSeq(m, 1, n)) = acc[j]
      BY <1>2
    <3>2. j \in 0 .. k + 1
      OBVIOUS
    <3> QED
      BY <3>1, <3>2
  <2> HIDE DEF m, x
  <2>4. CutSoFar(c, acc, k + 1)
    BY <1>2, <2>1, <2>2, <2>3 DEF CutSoFar
  <2> QED
    BY <2>4 DEF c
<1> QED
  BY <1>4, <1>5

\* All sizes.
LEMMA CutsAll ==
    ASSUME NEW raw \in Seq(Int), \A k \in 1 .. Len(raw) : raw[k] >= 0,
           NEW acc, AddsUp(acc, raw, Len(raw))
    PROVE  \E cut \in Cuts :
              /\ FoldLeft(CutSlice, [merged |-> <<>>, acc |-> 0], raw) = cut
              /\ CutSoFar(cut, acc, Len(raw))
<1> DEFINE N == Len(raw)
<1>1. PICK run : /\ IsRun(run, Cuts, CutStep(raw), NoCut, N)
                 /\ FoldLeft(CutSlice, [merged |-> <<>>, acc |-> 0], raw) = run[N]
  BY CutRuns
<1>2. N \in Nat /\ \A k \in 1 .. N : raw[k] \in Int
  OBVIOUS
<1>3. \A k \in 1 .. N, cut \in Cuts : CutStep(raw)[<<k, cut>>] = CutSlice(cut, raw[k])
  BY CutStepType
<1>4. \A k \in 1 .. N : raw[k] >= 0
  OBVIOUS
<1>5. AddsUp(acc, raw, N)
  OBVIOUS
<1> HIDE DEF N
<1> DEFINE S == {k \in Nat : k <= N => CutSoFar(run[k], acc, k)}
<1>6. 0 \in S
  <2>1. run[0] = NoCut /\ acc[0] = 0
    BY <1>1, <1>5 DEF IsRun, AddsUp
  <2>2. NoCut.merged = <<>> /\ NoCut.acc = 0
    BY DEF NoCut
  <2>3. Len(<<>>) = 0 /\ <<>> \in Seq(Int)
    OBVIOUS
  <2>4. SubSeq(<<>>, 1, 0) = <<>>
    BY <2>3, WholePrefix
  <2>5. ASSUME NEW n \in 0 .. 0 PROVE \E j \in 0 .. 0 : Sum(SubSeq(<<>>, 1, n)) = acc[j]
    <3>1. n = 0 /\ 0 \in 0 .. 0
      OBVIOUS
    <3> QED
      BY <2>1, <2>4, <3>1, SumEmpty
  <2>6. 0 + 0 = 0 /\ 0 <= 0 /\ 0 < MinOrder /\ \A i \in 1 .. 0 : FALSE
    BY ACConfigAssumption
  <2>7. CutSoFar(NoCut, acc, 0)
    BY <2>1, <2>2, <2>3, <2>5, <2>6, SumEmpty DEF CutSoFar
  <2> QED
    BY <2>1, <2>7
<1>7. ASSUME NEW k \in S PROVE k + 1 \in S
  <2>1. k \in Nat /\ (k <= N => CutSoFar(run[k], acc, k))
    OBVIOUS
  <2>2. CASE k + 1 <= N
    <3>1. k + 1 \in 1 .. N /\ (k + 1) - 1 = k /\ k \in 0 .. N /\ k <= N
      BY <1>2, <2>1, <2>2
    <3>2. run[k + 1] = CutSlice(run[k], raw[k + 1]) /\ run[k] \in Cuts
      BY <1>1, <1>3, <3>1 DEF IsRun
    <3>3. acc[k] \in Int /\ raw[k + 1] \in Int /\ raw[k + 1] >= 0
          /\ acc[k + 1] = acc[k] + raw[k + 1]
      BY <1>4, <1>5, <3>1 DEF AddsUp
    <3>4. CutSoFar(run[k + 1], acc, k + 1)
      BY <2>1, <3>1, <3>2, <3>3, CutsOneMore
    <3> QED
      BY <2>1, <3>4
  <2> QED
    BY <2>1, <2>2
<1>8. S = Nat
  <2> HIDE DEF S
  <2>1. S \in SUBSET Nat
    BY DEF S
  <2> QED
    BY <1>6, <1>7, <2>1, Induction
<1>9. CutSoFar(run[N], acc, N)
  BY <1>2, <1>8
<1>10. run[N] \in Cuts
  BY <1>1, <1>2 DEF IsRun
<1> QED
  BY <1>1, <1>9, <1>10 DEF N

\* The sizes of a trajectory are numbers that add up to the total.
LEMMA Sizes ==
    ASSUME NEW n \in Nat, NEW raw \in Trajectories(n)
    PROVE  /\ raw \in Seq(0 .. Total) /\ raw \in Seq(Int) /\ Len(raw) = n
           /\ \A k \in 1 .. Len(raw) : raw[k] >= 0
           /\ Sum(raw) = Total
<1>1. raw \in [1 .. n -> 0 .. Total] /\ Sum(raw) = Total
  BY DEF Trajectories
<1>2. raw \in Seq(0 .. Total) /\ Len(raw) = n
  BY <1>1, Listed
<1>3. Total \in Nat
  BY ACConfigAssumption
<1>4. raw \in [1 .. n -> Int]
  BY <1>1, <1>3
<1>5. raw \in Seq(Int)
  BY <1>4, Listed
<1>6. \A k \in 1 .. n : raw[k] >= 0
  BY <1>1, <1>3
<1> QED
  BY <1>1, <1>2, <1>5, <1>6

\* What the last slice gets on top.
TopsUp(s, m, x) ==
    /\ s \in Seq(Int) /\ Len(s) = Len(m) /\ Len(m) \in Nat \ {0}
    /\ \A i \in 1 .. Len(m) - 1 : s[i] = m[i]
    /\ s[Len(m)] = m[Len(m)] + x
    /\ Sum(s) = Sum(m) + x

LEMMA LastGets ==
    ASSUME NEW m, m \in Seq(Int), m # <<>>, NEW x, x \in Int
    PROVE  TopsUp(Front(m) \o <<Last(m) + x>>, m, x)
<1> DEFINE s == Front(m) \o <<Last(m) + x>>
<1> DEFINE n == Len(m)
           front == SubSeq(m, 1, n - 1)
           last == <<m[n] + x>>
<1>1. n \in Nat \ {0} /\ \A i \in 1 .. n : m[i] \in Int
  OBVIOUS
<1>2. s = front \o last
  BY DEF Front, Last
<1> HIDE DEF s
<1>3. /\ front \in Seq(Int) /\ Len(front) = n - 1
      /\ \A i \in 1 .. n - 1 : front[i] = m[i]
  <2> HIDE DEF n
  <2>1. \A i \in 1 .. n - 1 : m[i] \in Int
    BY <1>1
  <2>2. \A i \in 1 .. (n - 1) - 1 + 1 : front[i] = m[1 + i - 1]
    BY <1>1, <2>1, SubSeqProperties
  <2>3. front \in Seq(Int) /\ Len(front) = IF 1 <= n - 1 THEN (n - 1) - 1 + 1 ELSE 0
    BY <1>1, <2>1, SubSeqProperties
  <2> HIDE DEF front
  <2> QED
    BY <1>1, <2>2, <2>3
<1>4. last \in Seq(Int) /\ Len(last) = 1 /\ last[1] = m[n] + x
  <2>1. m[n] + x \in Int
    BY <1>1
  <2> HIDE DEF n
  <2> QED
    BY <2>1
<1>5. /\ s \in Seq(Int) /\ Len(s) = Len(front) + Len(last)
      /\ \A i \in 1 .. Len(front) + Len(last) :
            s[i] = IF i <= Len(front) THEN front[i] ELSE last[i - Len(front)]
  <2> HIDE DEF n, front, last
  <2>1. front \in Seq(Int) /\ last \in Seq(Int)
    BY <1>3, <1>4
  <2> QED
    BY ONLY <1>2, <2>1, ConcatProperties
<1> HIDE DEF n, front, last
<1>6. s \in Seq(Int) /\ Len(s) = n
  BY <1>1, <1>3, <1>4, <1>5
<1>7. ASSUME NEW i \in 1 .. n - 1 PROVE s[i] = m[i]
  <2>1. i \in 1 .. (n - 1) + 1 /\ i <= n - 1
    BY <1>1
  <2>2. Len(front) = n - 1 /\ Len(last) = 1 /\ front[i] = m[i]
    BY <1>3, <1>4
  <2>3. s[i] = front[i]
    BY <1>5, <2>1, <2>2
  <2> QED
    BY <2>2, <2>3
<1>8. s[n] = m[n] + x
  <2>1. n \in 1 .. n /\ n - (n - 1) = 1 /\ ~(n <= n - 1) /\ n - 1 + 1 = n
    BY <1>1
  <2> QED
    BY <1>3, <1>4, <1>5, <2>1
<1>9. Sum(s) = Sum(m) + x
  <2>1. n \in 1 .. n /\ \A k \in 1 .. n : k # n => s[k] = m[k]
    <3>1. n \in 1 .. n
      BY <1>1
    <3>2. ASSUME NEW k \in 1 .. n, k # n PROVE s[k] = m[k]
      <4>1. k \in 1 .. n - 1
        BY <1>1, <3>2
      <4> QED
        BY <1>7, <4>1
    <3> QED
      BY <3>1, <3>2
  <2>2. Sum(s) = Sum(m) + s[n] - m[n]
    BY <1>6, <2>1, SumChanged DEF n
  <2>3. Sum(m) \in Int /\ m[n] \in Int /\ x \in Int
    <3>1. n \in 1 .. n
      BY <1>1
    <3> QED
      BY <1>1, <3>1, SumType
  <2> QED
    BY ONLY <1>8, <2>2, <2>3
<1>10. TopsUp(s, m, x)
  BY <1>1, <1>6, <1>7, <1>8, <1>9 DEF n, TopsUp
<1> QED
  BY <1>10 DEF s

\* What _merge_min_size() makes of a trajectory.
Merges(s, raw) ==
    /\ s \in Seq(Int)
    /\ Sum(s) = Total
    /\ Len(s) \in 1 .. Len(raw)
    /\ PrefixSums(s) \subseteq PrefixSums(raw)
    /\ \A i \in DOMAIN s : s[i] >= MinOrder \/ s = <<Total>>

LEMMA MergeKeepsTotal ==
    ASSUME NEW n \in Nat \ {0}, NEW raw \in Trajectories(n)
    PROVE  Merges(MergeMinSize(raw), raw)
<1>1. /\ raw \in Seq(Int) /\ Len(raw) = n
      /\ \A k \in 1 .. Len(raw) : raw[k] >= 0
      /\ Sum(raw) = Total
  BY Sizes
<1>2. PICK acc : AddsUp(acc, raw, Len(raw)) /\ Sum(raw) = acc[Len(raw)]
  BY <1>1, HasSum
<1>3. PICK cut \in Cuts :
          /\ FoldLeft(CutSlice, [merged |-> <<>>, acc |-> 0], raw) = cut
          /\ CutSoFar(cut, acc, Len(raw))
  BY <1>1, <1>2, CutsAll
<1>4. MergeMinSize(raw) =
        IF cut.acc = 0 THEN cut.merged
        ELSE IF cut.merged = <<>> THEN <<cut.acc>>
        ELSE Front(cut.merged) \o <<Last(cut.merged) + cut.acc>>
  BY <1>3 DEF MergeMinSize
<1> DEFINE m == cut.merged
           x == cut.acc
           result == MergeMinSize(raw)
<1>5. m \in Seq(Int) /\ x \in Int /\ Sum(m) \in Int /\ Len(m) \in Nat
  <2>1. m \in Seq(Int) /\ x \in Int
    BY DEF Cuts
  <2> HIDE DEF m, x
  <2> QED
    BY <2>1, SumType
<1>6. /\ Sum(m) + x = Total
      /\ 0 <= x /\ x < MinOrder
      /\ Len(m) <= n
      /\ \A i \in 1 .. Len(m) : m[i] >= MinOrder
      /\ \A k \in 0 .. Len(m) : \E j \in 0 .. n : Sum(SubSeq(m, 1, k)) = acc[j]
  BY <1>1, <1>2, <1>3 DEF CutSoFar
<1>7. ASSUME NEW j \in 0 .. n PROVE acc[j] \in PrefixSums(raw)
  <2>1. j \in 0 .. Len(raw)
    BY <1>1
  <2>2. Sum(SubSeq(raw, 1, j)) = acc[j]
    BY <1>1, <1>2, <2>1, SumPrefix
  <2> QED
    BY <2>1, <2>2 DEF PrefixSums
<1>8. Total \in PrefixSums(raw) /\ 0 \in PrefixSums(raw)
  <2>1. 0 \in 0 .. n /\ n \in 0 .. n /\ acc[0] = 0 /\ acc[n] = Total
    BY <1>1, <1>2 DEF AddsUp
  <2> QED
    BY <1>7, <2>1
<1> HIDE DEF m, x, result
<1>9. CASE x = 0
  <2>1. result = m
    BY <1>4, <1>9 DEF m, x, result
  <2>2. m # <<>>
    BY <1>6, <1>9, SumEmpty, ACConfigAssumption
  <2>3. Len(m) \in 1 .. n
    BY <1>5, <1>6, <2>2
  <2>4. PrefixSums(m) \subseteq PrefixSums(raw)
    <3>1. ASSUME NEW k \in 0 .. Len(m) PROVE Sum(SubSeq(m, 1, k)) \in PrefixSums(raw)
      BY <1>6, <1>7
    <3> QED
      BY <3>1 DEF PrefixSums
  <2>5. Sum(m) = Total
    BY <1>5, <1>6, <1>9
  <2>6. DOMAIN m = 1 .. Len(m)
    BY <1>5
  <2>7. Merges(m, raw)
    BY <1>1, <1>5, <1>6, <2>3, <2>4, <2>5, <2>6 DEF Merges
  <2> QED
    BY <2>1, <2>7 DEF result
<1>10. CASE x # 0 /\ m = <<>>
  <2>1. result = <<x>>
    BY <1>4, <1>10 DEF m, x, result
  <2>2. x = Total
    BY <1>5, <1>6, <1>10, SumEmpty
  <2> DEFINE s == <<Total>>
  <2>3. s \in Seq(Int) /\ Len(s) = 1 /\ Total \in Int
    BY <1>5, <2>2
  <2>4. Sum(s) = Total
    <3>1. s = Append(<<>>, Total) /\ <<>> \in Seq(Int)
      OBVIOUS
    <3>2. Sum(s) = 0 + Total
      BY <2>3, <3>1, SumAppend, SumEmpty
    <3> QED
      BY <2>3, <3>2
  <2>5. PrefixSums(s) \subseteq PrefixSums(raw)
    <3> SUFFICES ASSUME NEW k \in 0 .. Len(s)
                 PROVE  Sum(SubSeq(s, 1, k)) \in PrefixSums(raw)
        BY DEF PrefixSums
    <3> HIDE DEF s
    <3>1. CASE k = 0
      <4>1. SubSeq(s, 1, k) = <<>>
        BY <3>1, SubSeqEmpty
      <4> QED
        BY <1>8, <4>1, SumEmpty
    <3>2. CASE k = 1
      <4>1. SubSeq(s, 1, k) = s
        BY <2>3, <3>2, WholePrefix
      <4> QED
        BY <1>8, <2>4, <4>1
    <3> QED
      BY <2>3, <3>1, <3>2
  <2>6. Merges(s, raw)
    <3>1. 1 \in 1 .. n
      OBVIOUS
    <3>2. s = <<Total>>
      OBVIOUS
    <3> HIDE DEF s
    <3> QED
      BY <1>1, <2>3, <2>4, <2>5, <3>1, <3>2 DEF Merges
  <2> QED
    BY <2>1, <2>2, <2>6 DEF result
<1>11. CASE x # 0 /\ m # <<>>
  <2>1. result = Front(m) \o <<Last(m) + x>>
    BY <1>4, <1>11 DEF m, x, result
  <2>2. /\ result \in Seq(Int) /\ Len(result) = Len(m) /\ Len(m) \in Nat \ {0}
        /\ \A i \in 1 .. Len(m) - 1 : result[i] = m[i]
        /\ result[Len(m)] = m[Len(m)] + x
        /\ Sum(result) = Sum(m) + x
    <3>1. TopsUp(result, m, x)
      BY ONLY <1>5, <1>11, <2>1, LastGets
    <3> QED
      BY <3>1 DEF TopsUp
  <2>3. Sum(result) = Total /\ Len(result) \in 1 .. n
    BY <1>6, <2>2
  <2>4. ASSUME NEW i \in 1 .. Len(m) PROVE result[i] >= MinOrder
    <3>1. m[i] \in Int /\ m[i] >= MinOrder /\ MinOrder \in Int
      BY <1>5, <1>6, ACConfigAssumption
    <3>2. CASE i = Len(m)
      BY <1>5, <1>6, <2>2, <3>1, <3>2
    <3>3. CASE i # Len(m)
      <4>1. i \in 1 .. Len(m) - 1
        BY <2>2, <3>3
      <4> QED
        BY <2>2, <3>1, <4>1
    <3> QED
      BY <3>2, <3>3
  <2>5. PrefixSums(result) \subseteq PrefixSums(raw)
    <3> SUFFICES ASSUME NEW k \in 0 .. Len(result)
                 PROVE  Sum(SubSeq(result, 1, k)) \in PrefixSums(raw)
        BY DEF PrefixSums
    <3>1. CASE k = Len(result)
      <4>1. SubSeq(result, 1, k) = result
        BY <2>2, <3>1, WholePrefix
      <4> QED
        BY <1>8, <2>3, <4>1
    <3>2. CASE k # Len(result)
      <4>1. /\ k \in 0 .. Len(m) /\ Len(m) <= Len(result)
            /\ \A i \in 1 .. k : result[i] = m[i]
        BY <2>2, <3>2
      <4>2. SubSeq(result, 1, k) = SubSeq(m, 1, k)
        <5>1. result \in Seq(Int)
          BY <2>2
        <5> QED
          BY ONLY <1>5, <4>1, <5>1, SamePrefix
      <4> QED
        BY <1>6, <1>7, <4>1, <4>2
    <3> QED
      BY <3>1, <3>2
  <2>6. DOMAIN result = 1 .. Len(m)
    BY <2>2
  <2>7. Merges(result, raw)
    BY <1>1, <2>2, <2>3, <2>4, <2>5, <2>6 DEF Merges
  <2> QED
    BY <2>7 DEF result
<1> QED
  BY <1>9, <1>10, <1>11 DEF result

-----------------------------------------------------------------------------
(* The orders.                                                             *)

AmountsOf(orders) == [o \in DOMAIN orders |-> orders[o].amount]
ExecutedOf(orders) == [o \in DOMAIN orders |-> orders[o].executed]
CreditsOf(orders) == [o \in DOMAIN orders |-> orders[o].credited]
CountsOf(orders) == [o \in DOMAIN orders |-> CountedAs(orders[o])]
OvertoldOf(orders) == [o \in DOMAIN orders |-> Overtold(orders[o])]
\* What ExactRemainder counts of the orders that are not done.
OpenOf(orders) == [o \in DOMAIN orders |-> IF IsDone(orders[o])
                                           THEN 0 ELSE ExecutedAmountBase(orders[o])]

\* The venue executes no more than an order asks, and nothing is credited before
\* a completion.
OrderWithin(t) == t.executed <= t.amount /\ (t.credited > 0 => t.completed)

OrdersWithin(orders) ==
    orders \in Seq(OrderRecord) /\ \A o \in DOMAIN orders : OrderWithin(orders[o])

LEMMA OrderFields ==
    ASSUME NEW orders, OrdersWithin(orders), NEW o \in DOMAIN orders
    PROVE  /\ orders[o] \in OrderRecord
           /\ orders[o].amount \in Nat \ {0} /\ orders[o].executed \in Nat
           /\ orders[o].credited \in Nat
           /\ orders[o].canceled \in BOOLEAN /\ orders[o].completed \in BOOLEAN
           /\ orders[o].executed <= orders[o].amount
           /\ orders[o].credited > 0 => orders[o].completed
<1>1. orders[o] \in OrderRecord
  BY DEF OrdersWithin
<1> QED
  BY <1>1 DEF OrdersWithin, OrderWithin, OrderRecord

LEMMA OrderLists ==
    ASSUME NEW orders, OrdersWithin(orders)
    PROVE  /\ Len(orders) \in Nat /\ DOMAIN orders = 1 .. Len(orders)
           /\ AmountsOf(orders) \in Seq(Int) /\ Len(AmountsOf(orders)) = Len(orders)
           /\ ExecutedOf(orders) \in Seq(Int) /\ Len(ExecutedOf(orders)) = Len(orders)
           /\ CreditsOf(orders) \in Seq(Int) /\ Len(CreditsOf(orders)) = Len(orders)
           /\ CountsOf(orders) \in Seq(Int) /\ Len(CountsOf(orders)) = Len(orders)
           /\ OvertoldOf(orders) \in Seq(Int) /\ Len(OvertoldOf(orders)) = Len(orders)
           /\ OpenOf(orders) \in Seq(Int) /\ Len(OpenOf(orders)) = Len(orders)
<1> DEFINE n == Len(orders)
<1>1. n \in Nat /\ DOMAIN orders = 1 .. n
  BY DEF OrdersWithin
<1> HIDE DEF n
<1>2. ASSUME NEW o \in 1 .. n
      PROVE  /\ orders[o].amount \in Int /\ orders[o].executed \in Int
             /\ orders[o].credited \in Int
             /\ CountedAs(orders[o]) \in Int /\ Overtold(orders[o]) \in Int
             /\ (IF IsDone(orders[o]) THEN 0 ELSE ExecutedAmountBase(orders[o])) \in Int
  <2>1. /\ orders[o].amount \in Int /\ orders[o].executed \in Int
        /\ orders[o].credited \in Int
    BY <1>1, OrderFields
  <2>2. ExecutedAmountBase(orders[o]) \in Int
    BY <2>1 DEF ExecutedAmountBase
  <2>3. CountedAs(orders[o]) \in Int /\ Overtold(orders[o]) \in Int
    BY <2>1 DEF CountedAs, Overtold
  <2> QED
    BY <2>1, <2>2, <2>3
<1>3. AmountsOf(orders) \in [1 .. n -> Int]
  BY <1>1, <1>2 DEF AmountsOf
<1>4. ExecutedOf(orders) \in [1 .. n -> Int]
  BY <1>1, <1>2 DEF ExecutedOf
<1>5. CreditsOf(orders) \in [1 .. n -> Int]
  BY <1>1, <1>2 DEF CreditsOf
<1>6. OpenOf(orders) \in [1 .. n -> Int]
  BY <1>1, <1>2 DEF OpenOf
<1>7. CountsOf(orders) \in [1 .. n -> Int]
  BY <1>1, <1>2 DEF CountsOf
<1>8. OvertoldOf(orders) \in [1 .. n -> Int]
  BY <1>1, <1>2 DEF OvertoldOf
<1> QED
  BY <1>1, <1>3, <1>4, <1>5, <1>6, <1>7, <1>8, Listed DEF n

\* What is credited and what is executed of the orders not done is part of
\* what the orders count as; what is credited is executed or overtold.
LEMMA Covers ==
    ASSUME NEW orders, OrdersWithin(orders)
    PROVE  /\ Sum(CreditsOf(orders)) + Sum(OpenOf(orders)) <= Sum(CountsOf(orders))
           /\ Sum(CreditsOf(orders)) <= Sum(ExecutedOf(orders)) + Sum(OvertoldOf(orders))
<1> DEFINE n == Len(orders)
           C == CreditsOf(orders)
           O == OpenOf(orders)
           A == CountsOf(orders)
           E == ExecutedOf(orders)
           V == OvertoldOf(orders)
<1>1. /\ n \in Nat /\ DOMAIN orders = 1 .. n
      /\ A \in Seq(Int) /\ Len(A) = n /\ E \in Seq(Int) /\ Len(E) = n
      /\ C \in Seq(Int) /\ Len(C) = n /\ O \in Seq(Int) /\ Len(O) = n
      /\ V \in Seq(Int) /\ Len(V) = n
  BY OrderLists
<1>2. ASSUME NEW o \in 1 .. n
      PROVE  C[o] + O[o] <= A[o] /\ C[o] <= E[o] + V[o]
  <2> DEFINE t == orders[o]
  <2>1. o \in DOMAIN orders
    BY <1>1
  <2>2. /\ t.amount \in Int /\ t.executed \in Int /\ 0 <= t.executed
        /\ t.executed <= t.amount /\ t.credited \in Nat
        /\ t.credited > 0 => t.completed
    BY <2>1, OrderFields
  <2>3. /\ C[o] = t.credited /\ E[o] = t.executed
        /\ O[o] = IF IsDone(t) THEN 0 ELSE ExecutedAmountBase(t)
        /\ A[o] = IF t.credited > t.amount THEN t.credited ELSE t.amount
        /\ V[o] = IF t.credited > t.executed THEN t.credited - t.executed ELSE 0
    BY <2>1 DEF CreditsOf, OpenOf, CountsOf, CountedAs, ExecutedOf, OvertoldOf, Overtold
  <2> HIDE DEF C, O, A, E, V, t
  <2>4. CASE t.credited > 0
    <3>1. O[o] = 0
      BY <2>2, <2>3, <2>4 DEF IsDone, Ended, ExecutedAmountBase
    <3> QED
      BY <2>2, <2>3, <2>4, <3>1
  <2>5. CASE ~(t.credited > 0)
    <3>1. O[o] \in Int /\ O[o] <= t.executed
      BY <2>2, <2>3 DEF ExecutedAmountBase
    <3> QED
      BY <2>2, <2>3, <2>5, <3>1
  <2> QED
    BY <2>4, <2>5
<1> HIDE DEF C, O, A, E, V, n
<1>3. Sum(C) + Sum(O) <= Sum(A)
  <2>1. /\ Len(O) = Len(C) /\ Len(A) = Len(C)
        /\ \A k \in 1 .. Len(C) : C[k] + O[k] <= A[k]
    BY <1>1, <1>2
  <2> QED
    BY <1>1, <2>1, SumParts
<1>4. Sum(C) <= Sum(E) + Sum(V)
  <2>1. /\ Len(V) = Len(E) /\ Len(C) = Len(E)
        /\ \A k \in 1 .. Len(E) : C[k] <= E[k] + V[k]
    BY <1>1, <1>2
  <2> QED
    BY <1>1, <2>1, SumShares
<1> QED
  BY <1>3, <1>4 DEF C, O, A, E, V

\* One order more, sent and not executed yet.
NewOrder(amount) ==
    [amount |-> amount, executed |-> 0, canceled |-> FALSE, completed |-> FALSE,
     credited |-> 0]

LEMMA OrderSent ==
    ASSUME NEW orders, OrdersWithin(orders), NEW amount \in Nat \ {0},
           NEW longer, longer = Append(orders, NewOrder(amount))
    PROVE  /\ OrdersWithin(longer) /\ Len(longer) = Len(orders) + 1
           /\ Sum(AmountsOf(longer)) = Sum(AmountsOf(orders)) + amount
           /\ Sum(CountsOf(longer)) = Sum(CountsOf(orders)) + amount
           /\ Sum(CreditsOf(longer)) = Sum(CreditsOf(orders))
<1> DEFINE n == Len(orders)
           t == NewOrder(amount)
<1>1. orders \in Seq(OrderRecord) /\ n \in Nat /\ DOMAIN orders = 1 .. n
  BY DEF OrdersWithin
<1>2. /\ t \in OrderRecord /\ OrderWithin(t)
      /\ t.amount = amount /\ t.executed = 0 /\ t.credited = 0
      /\ CountedAs(t) = amount
  BY DEF NewOrder, OrderRecord, OrderWithin, CountedAs
<1> HIDE DEF t
<1>3. /\ longer \in Seq(OrderRecord) /\ Len(longer) = n + 1
      /\ DOMAIN longer = 1 .. n + 1
      /\ \A o \in 1 .. n : longer[o] = orders[o]
      /\ longer[n + 1] = t
  BY <1>1, <1>2 DEF t
<1>4. OrdersWithin(longer)
  <2>1. ASSUME NEW o \in DOMAIN longer PROVE OrderWithin(longer[o])
    <3>1. CASE o \in 1 .. n
      BY <1>1, <1>3, <3>1 DEF OrdersWithin
    <3>2. CASE o = n + 1
      BY <1>2, <1>3, <3>2
    <3> QED
      BY <1>1, <1>3, <3>1, <3>2
  <2> QED
    BY <1>3, <2>1 DEF OrdersWithin
<1>5. /\ AmountsOf(orders) \in Seq(Int) /\ Len(AmountsOf(orders)) = n
      /\ CreditsOf(orders) \in Seq(Int) /\ Len(CreditsOf(orders)) = n
      /\ AmountsOf(longer) \in Seq(Int) /\ Len(AmountsOf(longer)) = n + 1
      /\ CreditsOf(longer) \in Seq(Int) /\ Len(CreditsOf(longer)) = n + 1
      /\ CountsOf(orders) \in Seq(Int) /\ Len(CountsOf(orders)) = n
      /\ CountsOf(longer) \in Seq(Int) /\ Len(CountsOf(longer)) = n + 1
  BY <1>3, <1>4, OrderLists
<1> HIDE DEF n
<1>6. Sum(AmountsOf(longer)) = Sum(AmountsOf(orders)) + amount
  <2>1. \A o \in 1 .. n : AmountsOf(longer)[o] = AmountsOf(orders)[o]
    BY <1>1, <1>3 DEF AmountsOf
  <2>2. AmountsOf(longer)[n + 1] = amount
    BY <1>1, <1>2, <1>3 DEF AmountsOf
  <2>3. AmountsOf(longer) = Append(AmountsOf(orders), amount)
    <3>1. /\ amount \in Int
          /\ AmountsOf(orders) \in Seq(Int) /\ AmountsOf(longer) \in Seq(Int)
          /\ Len(AmountsOf(longer)) = Len(AmountsOf(orders)) + 1
          /\ \A i \in 1 .. Len(AmountsOf(orders)) :
                AmountsOf(longer)[i] = AmountsOf(orders)[i]
          /\ AmountsOf(longer)[Len(AmountsOf(orders)) + 1] = amount
      BY <1>5, <2>1, <2>2
    <3> QED
      BY ONLY <3>1, LongerByOne
  <2> QED
    BY <1>5, <2>3, SumAppend
<1>7. Sum(CreditsOf(longer)) = Sum(CreditsOf(orders))
  <2>1. \A o \in 1 .. n : CreditsOf(longer)[o] = CreditsOf(orders)[o]
    BY <1>1, <1>3 DEF CreditsOf
  <2>2. CreditsOf(longer)[n + 1] = 0
    BY <1>1, <1>2, <1>3 DEF CreditsOf
  <2>3. CreditsOf(longer) = Append(CreditsOf(orders), 0)
    BY <1>1, <1>5, <2>1, <2>2, LongerByOne
  <2>4. Sum(CreditsOf(longer)) = Sum(CreditsOf(orders)) + 0
    BY <1>5, <2>3, SumAppend
  <2>5. Sum(CreditsOf(orders)) \in Int
    BY <1>5, SumType
  <2> QED
    BY <2>4, <2>5
<1>8. Sum(CountsOf(longer)) = Sum(CountsOf(orders)) + amount
  <2>1. \A o \in 1 .. n : CountsOf(longer)[o] = CountsOf(orders)[o]
    BY <1>1, <1>3 DEF CountsOf
  <2>2. CountsOf(longer)[n + 1] = amount
    BY <1>1, <1>2, <1>3 DEF CountsOf
  <2>3. CountsOf(longer) = Append(CountsOf(orders), amount)
    <3>1. /\ amount \in Int
          /\ CountsOf(orders) \in Seq(Int) /\ CountsOf(longer) \in Seq(Int)
          /\ Len(CountsOf(longer)) = Len(CountsOf(orders)) + 1
          /\ \A i \in 1 .. Len(CountsOf(orders)) :
                CountsOf(longer)[i] = CountsOf(orders)[i]
          /\ CountsOf(longer)[Len(CountsOf(orders)) + 1] = amount
      BY <1>5, <2>1, <2>2
    <3> QED
      BY ONLY <3>1, LongerByOne
  <2> QED
    BY <1>5, <2>3, SumAppend
<1> QED
  BY <1>3, <1>4, <1>6, <1>7, <1>8 DEF n

\* One order less, of which nothing is credited.
LEMMA OrderTakenOut ==
    ASSUME NEW orders, OrdersWithin(orders), NEW o \in DOMAIN orders, orders[o].credited = 0,
           NEW shorter, shorter = RemoveAt(orders, o)
    PROVE  /\ OrdersWithin(shorter) /\ Len(shorter) = Len(orders) - 1
           /\ Sum(CreditsOf(shorter)) = Sum(CreditsOf(orders))
<1> DEFINE n == Len(orders)
<1>1. orders \in Seq(OrderRecord) /\ n \in Nat /\ DOMAIN orders = 1 .. n /\ o \in 1 .. n
  BY DEF OrdersWithin
<1>2. /\ shorter \in Seq(OrderRecord) /\ Len(shorter) = n - 1
      /\ Without(shorter, orders, o, n)
  BY <1>1, Removal
<1>3. DOMAIN shorter = 1 .. n - 1
  BY <1>2
<1> HIDE DEF n
<1>4. ASSUME NEW k \in 1 .. n - 1
      PROVE  /\ k \in 1 .. n /\ k + 1 \in 1 .. n
             /\ shorter[k] = IF k < o THEN orders[k] ELSE orders[k + 1]
  BY <1>1, <1>2 DEF Without
<1>5. OrdersWithin(shorter)
  <2>1. ASSUME NEW k \in DOMAIN shorter PROVE OrderWithin(shorter[k])
    <3>1. k \in 1 .. n /\ k + 1 \in 1 .. n
          /\ shorter[k] = IF k < o THEN orders[k] ELSE orders[k + 1]
      BY <1>3, <1>4
    <3>2. OrderWithin(orders[k]) /\ OrderWithin(orders[k + 1])
      BY <1>1, <3>1 DEF OrdersWithin
    <3> QED
      BY <3>1, <3>2
  <2> QED
    BY <1>2, <2>1 DEF OrdersWithin
<1>6. /\ CreditsOf(orders) \in Seq(Int) /\ Len(CreditsOf(orders)) = n
      /\ CreditsOf(shorter) \in Seq(Int) /\ Len(CreditsOf(shorter)) = n - 1
  BY <1>2, <1>5, OrderLists DEF n
<1>7. \A k \in 1 .. n : CreditsOf(orders)[k] = orders[k].credited
  BY <1>1 DEF CreditsOf
<1>8. Without(CreditsOf(shorter), CreditsOf(orders), o, n)
  <2>1. ASSUME NEW k \in 1 .. n - 1
        PROVE  CreditsOf(shorter)[k] = IF k < o THEN CreditsOf(orders)[k]
                                               ELSE CreditsOf(orders)[k + 1]
    <3>1. CreditsOf(shorter)[k] = shorter[k].credited
      BY <1>3 DEF CreditsOf
    <3> QED
      BY <1>4, <1>7, <3>1
  <2> QED
    BY <2>1 DEF Without
<1>9. CreditsOf(orders)[o] = 0
  BY <1>1, <1>7
<1>10. Sum(CreditsOf(shorter)) = Sum(CreditsOf(orders)) - 0
  BY ONLY <1>1, <1>6, <1>8, <1>9, SumRemoved
<1>11. Sum(CreditsOf(orders)) \in Int
  BY <1>6, SumType
<1> QED
  BY <1>2, <1>5, <1>10, <1>11 DEF n

\* One order changed, not in what it asks for, and counted for no less.
ChangesTo(changed, orders, o, t) ==
    /\ o \in DOMAIN orders
    /\ t \in OrderRecord /\ OrderWithin(t) /\ t.amount = orders[o].amount
    /\ CountedAs(orders[o]) <= CountedAs(t)
    /\ changed = [orders EXCEPT ![o] = t]

LEMMA OrderChanged ==
    ASSUME NEW orders, OrdersWithin(orders), NEW o, NEW t, NEW changed,
           ChangesTo(changed, orders, o, t)
    PROVE  /\ OrdersWithin(changed) /\ Len(changed) = Len(orders)
           /\ DOMAIN changed = DOMAIN orders
           /\ changed[o] = t /\ \A k \in DOMAIN orders : k # o => changed[k] = orders[k]
           /\ Sum(AmountsOf(changed)) = Sum(AmountsOf(orders))
           /\ Sum(CountsOf(changed)) >= Sum(CountsOf(orders))
           /\ Sum(CreditsOf(changed)) =
                  Sum(CreditsOf(orders)) + t.credited - orders[o].credited
<1> DEFINE n == Len(orders)
<1>1. /\ orders \in Seq(OrderRecord) /\ n \in Nat /\ DOMAIN orders = 1 .. n /\ o \in 1 .. n
      /\ t \in OrderRecord /\ OrderWithin(t) /\ t.amount = orders[o].amount
      /\ changed = [orders EXCEPT ![o] = t]
  BY DEF OrdersWithin, ChangesTo
<1>2. /\ changed \in Seq(OrderRecord) /\ Len(changed) = n /\ DOMAIN changed = 1 .. n
      /\ changed[o] = t /\ \A k \in 1 .. n : k # o => changed[k] = orders[k]
  BY <1>1
<1> HIDE DEF n
<1>3. OrdersWithin(changed)
  <2>1. ASSUME NEW k \in DOMAIN changed PROVE OrderWithin(changed[k])
    BY <1>1, <1>2 DEF OrdersWithin
  <2> QED
    BY <1>2, <2>1 DEF OrdersWithin
<1>4. /\ CreditsOf(orders) \in Seq(Int) /\ Len(CreditsOf(orders)) = n
      /\ CreditsOf(changed) \in Seq(Int) /\ Len(CreditsOf(changed)) = n
      /\ CountsOf(orders) \in Seq(Int) /\ Len(CountsOf(orders)) = n
      /\ CountsOf(changed) \in Seq(Int) /\ Len(CountsOf(changed)) = n
  BY <1>2, <1>3, OrderLists DEF n
<1>5. AmountsOf(changed) = AmountsOf(orders)
  <2>1. \A k \in 1 .. n : changed[k].amount = orders[k].amount
    BY <1>1, <1>2
  <2> QED
    BY <1>1, <1>2, <2>1 DEF AmountsOf
<1>6. \A k \in 1 .. n : /\ CreditsOf(orders)[k] = orders[k].credited
                        /\ CountsOf(orders)[k] = CountedAs(orders[k])
  BY <1>1 DEF CreditsOf, CountsOf
<1>7. \A k \in 1 .. n : /\ CreditsOf(changed)[k] = changed[k].credited
                        /\ CountsOf(changed)[k] = CountedAs(changed[k])
  BY <1>2 DEF CreditsOf, CountsOf
<1>8. \A k \in 1 .. n : k # o => /\ CreditsOf(changed)[k] = CreditsOf(orders)[k]
                                  /\ CountsOf(changed)[k] = CountsOf(orders)[k]
  BY <1>2, <1>6, <1>7
<1>9. Sum(CreditsOf(changed)) =
        Sum(CreditsOf(orders)) + CreditsOf(changed)[o] - CreditsOf(orders)[o]
  <2>1. /\ CreditsOf(orders) \in Seq(Int) /\ CreditsOf(changed) \in Seq(Int)
        /\ o \in 1 .. Len(CreditsOf(orders))
        /\ Len(CreditsOf(changed)) = Len(CreditsOf(orders))
        /\ \A k \in 1 .. Len(CreditsOf(orders)) :
              k # o => CreditsOf(changed)[k] = CreditsOf(orders)[k]
    BY <1>1, <1>4, <1>8
  <2> QED
    BY ONLY <2>1, SumChanged
<1>10. Sum(CountsOf(changed)) >= Sum(CountsOf(orders))
  <2>1. /\ CountsOf(orders) \in Seq(Int) /\ CountsOf(changed) \in Seq(Int)
        /\ o \in 1 .. Len(CountsOf(orders))
        /\ Len(CountsOf(changed)) = Len(CountsOf(orders))
        /\ \A k \in 1 .. Len(CountsOf(orders)) :
              k # o => CountsOf(changed)[k] = CountsOf(orders)[k]
    BY <1>1, <1>4, <1>8
  <2>2. Sum(CountsOf(changed)) =
          Sum(CountsOf(orders)) + CountsOf(changed)[o] - CountsOf(orders)[o]
    BY ONLY <2>1, SumChanged
  <2>3. /\ CountsOf(changed)[o] \in Int /\ CountsOf(orders)[o] \in Int
        /\ Sum(CountsOf(changed)) \in Int /\ Sum(CountsOf(orders)) \in Int
    BY <1>1, <1>4, SumType
  <2>4. CountsOf(orders)[o] <= CountsOf(changed)[o]
    BY <1>1, <1>2, <1>6, <1>7 DEF ChangesTo
  <2> QED
    BY ONLY <2>2, <2>3, <2>4
<1> QED
  BY <1>1, <1>2, <1>3, <1>5, <1>6, <1>7, <1>9, <1>10 DEF n

-----------------------------------------------------------------------------
(* The inductive invariant.                                                *)

FromTrajectory(raw) == \E n \in 1 .. NumIntervals : raw \in Trajectories(n)

\* What is filled is what completions told of the orders.
CreditsCounted == cumulative_filled = Sum(CreditsOf(submitted))

\* No slice is sent before the forecast is in, and a tick that awaits it finds
\* the executor as it was, but for a stop.
Unresolved ==
    /\ forecast # "RESOLVED" => slice_idx = 0 /\ submitted = <<>> /\ age = -1
    /\ forecast = "AWAITED" => Attached

\* A stop request names the close type; without one, only a schedule that is
\* through shuts down.
Stopping ==
    /\ status \in {"NOT_STARTED", "RUNNING"} => close_type = "NONE"
    /\ status = "SHUTTING_DOWN" =>
          /\ close_type \in {"NONE", "EARLY_STOP", "POSITION_HOLD"}
          /\ close_type = "NONE" => AllDone(Schedule)

\* What is true of a close type, in what the executor itself keeps.
Closed(type) ==
    /\ type # "NONE"
    /\ type = "COMPLETED" => cumulative_filled >= Total /\ retries <= MaxRetries
    /\ type = "FAILED" => retries > MaxRetries
    /\ type \in {"COMPLETED", "TIME_LIMIT", "FAILED"} =>
          updated /\ \A o \in DOMAIN submitted : Ended(submitted[o])

IInv ==
    /\ TypeOK
    /\ FromTrajectory(sizes)
    /\ OrdersWithin(submitted)
    /\ CreditsCounted
    /\ Unresolved
    /\ Stopping
    /\ retries <= faults
    /\ NoSliceLost
    /\ status = "TERMINATED" => Closed(close_type)

\* What a trajectory makes a schedule of.
LEMMA ScheduleOf ==
    ASSUME NEW raw, FromTrajectory(raw)
    PROVE  /\ Merges(MergeMinSize(raw), raw)
           /\ raw \in Seq(0 .. Total) /\ Len(raw) \in 1 .. NumIntervals
           /\ MergeMinSize(raw) \in Seq(Int)
           /\ Len(MergeMinSize(raw)) \in 1 .. NumIntervals
           /\ Len(MergeMinSize(raw)) \in Nat \ {0}
           /\ Interval(MergeMinSize(raw)) \in Nat
<1>1. PICK n \in 1 .. NumIntervals : raw \in Trajectories(n)
  BY DEF FromTrajectory
<1>2. n \in Nat \ {0} /\ NumIntervals \in Nat /\ Duration \in Nat
  BY ACConfigAssumption DEF ValidAcConfig
<1>3. Merges(MergeMinSize(raw), raw)
  BY <1>1, <1>2, MergeKeepsTotal
<1>4. raw \in Seq(0 .. Total) /\ Len(raw) = n
  BY <1>1, <1>2, Sizes
<1> DEFINE s == MergeMinSize(raw)
<1> HIDE DEF s
<1>5. s \in Seq(Int) /\ Len(s) \in 1 .. n
  BY <1>3, <1>4 DEF Merges, s
<1>6. Len(s) \in 1 .. NumIntervals /\ Len(s) \in Nat \ {0}
  BY <1>2, <1>5
<1>7. Interval(s) \in Nat
  BY <1>2, <1>6 DEF Interval
<1> QED
  BY <1>3, <1>4, <1>5, <1>6, <1>7 DEF s

\* Nothing submitted, nothing asked for.
LEMMA NoOrders ==
    /\ OrdersWithin(<<>>)
    /\ Sum(CreditsOf(<<>>)) = 0
    /\ Sum(AmountsOf(<<>>)) = 0
    /\ Sum(CountsOf(<<>>)) = 0
<1>1. OrdersWithin(<<>>)
  BY DEF OrdersWithin
<1>2. CreditsOf(<<>>) = <<>> /\ AmountsOf(<<>>) = <<>> /\ CountsOf(<<>>) = <<>>
  BY DEF CreditsOf, AmountsOf, CountsOf
<1> QED
  BY <1>1, <1>2, SumEmpty

LEMMA AmountsAre == Amounts = Sum(AmountsOf(submitted))
BY DEF Amounts, AmountsOf

LEMMA ExecutedIs == Executed = Sum(ExecutedOf(submitted))
BY DEF Executed, ExecutedOf

LEMMA UntrueIs == Untrue = Sum(OvertoldOf(submitted))
BY DEF Untrue, OvertoldOf

LEMMA CoveredIs ==
    NoSliceLost <=> (slice_idx >= Len(Schedule) => Sum(CountsOf(submitted)) >= Total)
BY DEF NoSliceLost, CountsOf

LEMMA CoveredNext ==
    NoSliceLost' <=> (slice_idx' >= Len(Schedule') => Sum(CountsOf(submitted')) >= Total)
BY DEF NoSliceLost, CountsOf

LEMMA InitIInv == Init => IInv
<1> SUFFICES ASSUME Init PROVE IInv
    OBVIOUS
<1>1. NumIntervals \in 1 .. NumIntervals /\ MaxFaults \in Nat /\ VolumeForecast \in BOOLEAN
  BY ACConfigAssumption DEF ValidAcConfig
<1>2. FromTrajectory(sizes)
  BY <1>1 DEF Init, FromTrajectory
<1>3. /\ sizes \in Seq(0 .. Total) /\ Len(Schedule) \in Nat \ {0}
      /\ Interval(Schedule) \in Nat
  BY <1>2, ScheduleOf DEF Schedule
<1>4. submitted \in Seq(OrderRecord) /\ Len(submitted) = 0
  BY DEF Init
<1>5. TypeOK
  BY <1>1, <1>3, <1>4 DEF Init, TypeOK
<1>6. OrdersWithin(submitted) /\ CreditsCounted
  BY NoOrders DEF Init, CreditsCounted
<1>7. Unresolved /\ Stopping /\ retries <= faults
  BY DEF Init, Unresolved, Stopping
<1>8. NoSliceLost
  BY <1>3 DEF Init, NoSliceLost
<1> QED
  BY <1>2, <1>5, <1>6, <1>7, <1>8 DEF Init, IInv

\* The last slice takes at least what the orders leave.
LEMMA SliceSent ==
    ASSUME IInv, NEW s, s \in Seq(Int), Len(s) \in Nat \ {0}, slice_idx < Len(s),
           SubmitNextSlice(s)
    PROVE  /\ slice_idx' = slice_idx + 1
           /\ OrdersWithin(submitted') /\ Len(submitted') <= slice_idx'
           /\ cumulative_filled = Sum(CreditsOf(submitted'))
           /\ age' \in {age, 0}
           /\ slice_idx' >= Len(s) => Sum(CountsOf(submitted')) >= Total
<1> DEFINE amount == SliceAmount(s)
           C == Sum(CreditsOf(submitted))
           O == Sum(OpenOf(submitted))
           A == Sum(CountsOf(submitted))
<1>1. /\ slice_idx \in Nat /\ Len(submitted) <= slice_idx /\ Len(submitted) \in Nat
      /\ OrdersWithin(submitted) /\ cumulative_filled = C
  BY DEF IInv, TypeOK, CreditsCounted
<1>2. C \in Int /\ O \in Int /\ A \in Int
  BY <1>1, OrderLists, SumType
<1>3. C + O <= A
  BY <1>1, Covers
<1>4. Total \in Int
  BY ACConfigAssumption
<1>5. ExactRemainder = Total - cumulative_filled - O
  BY DEF ExactRemainder, OpenOf
<1> HIDE DEF C, O, A
<1>6. slice_idx' = slice_idx + 1
  BY DEF SubmitNextSlice
<1>7. slice_idx' >= Len(s) => amount = Total - C - O
  <2>1. slice_idx' >= Len(s) => slice_idx = Len(s) - 1
    BY <1>1, <1>6
  <2> QED
    BY <1>1, <1>5, <2>1 DEF SliceAmount
<1>8. amount \in Int
  <2>1. CASE slice_idx = Len(s) - 1
    BY <1>1, <1>2, <1>4, <1>5, <2>1 DEF SliceAmount
  <2>2. CASE slice_idx # Len(s) - 1
    <3>1. slice_idx + 1 \in 1 .. Len(s)
      BY <1>1
    <3> QED
      BY <2>2, <3>1 DEF SliceAmount
  <2> QED
    BY <2>1, <2>2
<1>9. CASE amount <= 0 /\ submitted' = submitted /\ age' = age
  <2>1. slice_idx' >= Len(s) => A >= Total
    BY <1>2, <1>3, <1>4, <1>7, <1>9
  <2>2. Len(submitted') <= slice_idx'
    BY <1>1, <1>6, <1>9
  <2> QED
    BY <1>1, <1>6, <1>9, <2>1, <2>2 DEF C, A
<1>10. CASE /\ amount > 0 /\ age' = 0
            /\ submitted' = Append(submitted, NewOrder(amount))
  <2>1. amount \in Nat \ {0}
    BY <1>8, <1>10
  <2> DEFINE longer == submitted'
  <2>2. longer = Append(submitted, NewOrder(amount))
    BY <1>10
  <2> HIDE DEF longer, amount
  <2>3. /\ OrdersWithin(longer) /\ Len(longer) = Len(submitted) + 1
        /\ Sum(CountsOf(longer)) = Sum(CountsOf(submitted)) + amount
        /\ Sum(CreditsOf(longer)) = Sum(CreditsOf(submitted))
    BY <1>1, <2>1, <2>2, OrderSent
  <2>4. slice_idx' >= Len(s) => Sum(CountsOf(longer)) >= Total
    BY <1>2, <1>3, <1>4, <1>7, <2>1, <2>3 DEF A
  <2>5. Len(longer) <= slice_idx'
    BY <1>1, <1>6, <2>3
  <2> QED
    BY <1>1, <1>6, <1>10, <2>3, <2>4, <2>5 DEF C, longer
<1> QED
  BY <1>9, <1>10 DEF SubmitNextSlice, NewOrder

-----------------------------------------------------------------------------
(* One step.                                                               *)

\* Sizes that stay make the same schedule.
LEMMA ScheduleKept ==
    ASSUME sizes' = sizes
    PROVE  Schedule' = Schedule /\ Interval(Schedule)' = Interval(Schedule)
BY DEF Schedule, Interval

LEMMA BalanceKeepsIInv == ASSUME IInv, ValidateSufficientBalance PROVE IInv'
<1>1. Schedule' = Schedule /\ Interval(Schedule)' = Interval(Schedule)
  BY ScheduleKept DEF ValidateSufficientBalance
<1>2. TypeOK'
  BY <1>1 DEF IInv, TypeOK, ValidateSufficientBalance, CloseExecutionBy
<1>3. FromTrajectory(sizes)' /\ OrdersWithin(submitted)' /\ CreditsCounted'
  BY DEF IInv, ValidateSufficientBalance, CreditsCounted
<1>4. Unresolved'
  BY DEF IInv, Unresolved, Attached, ValidateSufficientBalance, CloseExecutionBy
<1>5. Stopping'
  BY DEF IInv, Stopping, ValidateSufficientBalance, CloseExecutionBy
<1>6. (retries <= faults)'
  BY DEF IInv, ValidateSufficientBalance
<1>7. NoSliceLost'
  BY <1>1 DEF IInv, NoSliceLost, ValidateSufficientBalance
<1>8. (status = "TERMINATED" => Closed(close_type))'
  BY DEF IInv, Closed, ValidateSufficientBalance, CloseExecutionBy
<1> QED
  BY <1>2, <1>3, <1>4, <1>5, <1>6, <1>7, <1>8 DEF IInv

LEMMA AwaitKeepsIInv == ASSUME IInv, AwaitForecast PROVE IInv'
<1>1. Schedule' = Schedule /\ Interval(Schedule)' = Interval(Schedule)
  BY ScheduleKept DEF AwaitForecast
<1>2. TypeOK'
  BY <1>1 DEF IInv, TypeOK, AwaitForecast
<1>3. FromTrajectory(sizes)' /\ OrdersWithin(submitted)' /\ CreditsCounted'
  BY DEF IInv, AwaitForecast, CreditsCounted
<1>4. Unresolved'
  BY DEF IInv, Unresolved, Attached, AwaitForecast
<1>5. Stopping'
  BY DEF IInv, Stopping, AwaitForecast
<1>6. (retries <= faults)'
  BY DEF IInv, AwaitForecast
<1>7. NoSliceLost'
  BY <1>1 DEF IInv, NoSliceLost, AwaitForecast
<1>8. (status = "TERMINATED" => Closed(close_type))'
  BY DEF IInv, Closed, AwaitForecast
<1> QED
  BY <1>2, <1>3, <1>4, <1>5, <1>6, <1>7, <1>8 DEF IInv

\* The request of a stop.
LEMMA StopKeepsIInv == ASSUME IInv, EarlyStop PROVE IInv'
<1>1. Schedule' = Schedule /\ Interval(Schedule)' = Interval(Schedule)
  BY ScheduleKept DEF EarlyStop
<1>2. TypeOK'
  BY <1>1 DEF IInv, TypeOK, EarlyStop
<1>3. FromTrajectory(sizes)' /\ OrdersWithin(submitted)' /\ CreditsCounted'
  BY DEF IInv, EarlyStop, CreditsCounted
<1>4. Unresolved'
  BY DEF IInv, Unresolved, Attached, EarlyStop
<1>5. Stopping'
  BY DEF IInv, Stopping, EarlyStop
<1>6. (retries <= faults)'
  BY DEF IInv, EarlyStop
<1>7. NoSliceLost'
  BY <1>1 DEF IInv, NoSliceLost, EarlyStop
<1>8. (status = "TERMINATED" => Closed(close_type))'
  BY DEF IInv, Closed, EarlyStop
<1> QED
  BY <1>2, <1>3, <1>4, <1>5, <1>6, <1>7, <1>8 DEF IInv

\* A tick of the clock.
LEMMA TimeKeepsIInv == ASSUME IInv, TimePasses PROVE IInv'
<1>1. Schedule' = Schedule /\ Interval(Schedule)' = Interval(Schedule)
  BY ScheduleKept DEF TimePasses
<1>2. TypeOK'
  <2>1. Interval(Schedule) \in Nat
    BY ScheduleOf DEF IInv, Schedule
  <2>2. age' \in -1 .. Interval(Schedule)
    BY <2>1 DEF TimePasses
  <2> QED
    BY <1>1, <2>2 DEF IInv, TypeOK, TimePasses
<1>3. FromTrajectory(sizes)' /\ OrdersWithin(submitted)' /\ CreditsCounted'
  BY DEF IInv, TimePasses, CreditsCounted
<1>4. Unresolved'
  <2>1. age # -1
    BY DEF TimePasses
  <2> QED
    BY <2>1 DEF IInv, Unresolved, Attached, TimePasses
<1>5. Stopping'
  BY <1>1 DEF IInv, Stopping, TimePasses, AllDone, IsDone
<1>6. (retries <= faults)'
  BY DEF IInv, TimePasses
<1>7. NoSliceLost'
  BY <1>1 DEF IInv, NoSliceLost, TimePasses
<1>8. (status = "TERMINATED" => Closed(close_type))'
  BY DEF IInv, Closed, TimePasses
<1> QED
  BY <1>2, <1>3, <1>4, <1>5, <1>6, <1>7, <1>8 DEF IInv

\* What it closes by is true when all orders are done.
LEMMA FinallyClosed ==
    ASSUME IInv, AllDone(Schedule)
    PROVE  Closed(FinalCloseType)
<1>1. /\ slice_idx >= Len(Schedule)
      /\ \A o \in DOMAIN submitted : updated /\ Ended(submitted[o])
  BY DEF AllDone, IsDone
<1>2. Sum(CountsOf(submitted)) >= Total
  BY <1>1, CoveredIs DEF IInv
<1>3. submitted # <<>>
  BY <1>2, NoOrders, ACConfigAssumption
<1>4. updated
  <2>1. submitted \in Seq(OrderRecord)
    BY DEF IInv, TypeOK
  <2>2. 1 \in DOMAIN submitted
    BY <1>3, <2>1
  <2> QED
    BY <1>1, <2>2
<1>5. /\ FinalCloseType \in {"FAILED", "COMPLETED", "TIME_LIMIT"}
      /\ FinalCloseType = "COMPLETED" => cumulative_filled >= Total /\ ~(retries > MaxRetries)
      /\ FinalCloseType = "FAILED" => retries > MaxRetries
  BY DEF FinalCloseType
<1>6. ~(retries > MaxRetries) => retries <= MaxRetries
  BY ACConfigAssumption DEF IInv, TypeOK
<1> QED
  BY <1>1, <1>4, <1>5, <1>6 DEF Closed

\* A tick that does not await the forecast, or one that comes back with the
\* executor as it was: `s` is the schedule it goes by.
LEMMA TickBodyKeeps ==
    ASSUME IInv, NEW s, s \in Seq(Int), Len(s) \in Nat \ {0}, Interval(s) \in Nat,
           \/ s = Schedule /\ status = "RUNNING"
           \/ forecast # "RESOLVED" /\ Attached,
           TickBody(s)
    PROVE  /\ slice_idx' \in 0 .. Len(s) /\ age' \in -1 .. Interval(s)
           /\ OrdersWithin(submitted') /\ Len(submitted') <= slice_idx'
           /\ CreditsCounted'
           /\ slice_idx' >= Len(s) => Sum(CountsOf(submitted')) >= Total
           /\ \/ UNCHANGED <<status, close_type>>
              \/ /\ status' = "TERMINATED" /\ submitted' = submitted
                 /\ close_type' \in {"COMPLETED", "TIME_LIMIT", "FAILED"}
                 /\ Closed(close_type')
           /\ status # "RUNNING" => UNCHANGED <<status, close_type>>
<1>1. /\ slice_idx \in Nat /\ slice_idx <= Len(s) /\ age \in -1 .. Interval(s)
      /\ slice_idx >= Len(s) => s = Schedule /\ status = "RUNNING"
  <2>1. CASE s = Schedule /\ status = "RUNNING"
    BY <2>1 DEF IInv, TypeOK
  <2>2. CASE forecast # "RESOLVED"
    <3>1. slice_idx = 0 /\ age = -1
      BY <2>2 DEF IInv, Unresolved
    <3> QED
      BY <3>1
  <2> QED
    BY <2>1, <2>2
<1>2. OrdersWithin(submitted) /\ Len(submitted) <= slice_idx /\ CreditsCounted
  BY DEF IInv, TypeOK
<1>3. UNCHANGED <<cumulative_filled, retries, updated, faults>>
  BY DEF TickBody
<1>4. CASE /\ slice_idx >= Len(s)
           /\ IF AllDone(s) THEN CloseExecutionBy(FinalCloseType)
              ELSE UNCHANGED <<status, close_type>>
           /\ UNCHANGED <<slice_idx, submitted, age>>
  <2>1. s = Schedule /\ status = "RUNNING"
    BY <1>1, <1>4
  <2>2. Sum(CountsOf(submitted)) >= Total
    BY <1>4, <2>1, CoveredIs DEF IInv
  <2>3. CreditsCounted'
    BY <1>2, <1>3, <1>4 DEF CreditsCounted
  <2>4. slice_idx \in 0 .. Len(s)
    BY <1>1
  <2>5. CASE AllDone(s)
    <3>1. Closed(FinalCloseType)
      BY <2>1, <2>5, FinallyClosed
    <3>2. close_type' = FinalCloseType /\ status' = "TERMINATED"
      BY <1>4, <2>5 DEF CloseExecutionBy
    <3>3. FinalCloseType \in {"COMPLETED", "TIME_LIMIT", "FAILED"}
      BY DEF FinalCloseType
    <3> QED
      BY <1>1, <1>2, <1>4, <2>1, <2>2, <2>3, <2>4, <3>1, <3>2, <3>3
  <2>6. CASE ~AllDone(s)
    BY <1>1, <1>2, <1>4, <2>2, <2>3, <2>4, <2>6
  <2> QED
    BY <2>5, <2>6
<1>5. CASE /\ slice_idx < Len(s)
           /\ UNCHANGED <<status, close_type, slice_idx, submitted, age>>
  <2>1. CreditsCounted'
    BY <1>2, <1>3, <1>5 DEF CreditsCounted
  <2>2. slice_idx' \in 0 .. Len(s) /\ ~(slice_idx' >= Len(s))
    BY <1>1, <1>5
  <2> QED
    BY <1>1, <1>2, <1>5, <2>1, <2>2
<1>6. CASE /\ slice_idx < Len(s)
           /\ SubmitNextSlice(s)
           /\ UNCHANGED <<status, close_type>>
  <2>1. /\ slice_idx' = slice_idx + 1
        /\ OrdersWithin(submitted') /\ Len(submitted') <= slice_idx'
        /\ cumulative_filled = Sum(CreditsOf(submitted'))
        /\ age' \in {age, 0}
        /\ slice_idx' >= Len(s) => Sum(CountsOf(submitted')) >= Total
    BY <1>6, SliceSent
  <2>2. CreditsCounted'
    BY <1>3, <2>1 DEF CreditsCounted
  <2>3. slice_idx' \in 0 .. Len(s)
    BY <1>1, <1>6, <2>1
  <2>4. age' \in -1 .. Interval(s)
    BY <1>1, <2>1
  <2> QED
    BY <1>6, <2>1, <2>2, <2>3, <2>4
<1> QED
  BY <1>4, <1>5, <1>6 DEF TickBody

LEMMA TickKeepsIInv == ASSUME IInv, Tick PROVE IInv'
<1>1. /\ status = "RUNNING" /\ forecast = "RESOLVED"
      /\ TickBody(Schedule)
      /\ UNCHANGED <<forecast, sizes>>
      /\ UNCHANGED <<cumulative_filled, retries, updated, faults>>
  BY DEF Tick, TickBody
<1>2. Schedule' = Schedule /\ Interval(Schedule)' = Interval(Schedule)
  BY <1>1, ScheduleKept
<1>3. /\ Schedule \in Seq(Int) /\ Len(Schedule) \in Nat \ {0}
      /\ Interval(Schedule) \in Nat
  BY ScheduleOf DEF IInv, Schedule
<1>4. /\ slice_idx' \in 0 .. Len(Schedule) /\ age' \in -1 .. Interval(Schedule)
      /\ OrdersWithin(submitted') /\ Len(submitted') <= slice_idx'
      /\ CreditsCounted'
      /\ slice_idx' >= Len(Schedule) => Sum(CountsOf(submitted')) >= Total
      /\ \/ UNCHANGED <<status, close_type>>
         \/ /\ status' = "TERMINATED" /\ submitted' = submitted
            /\ close_type' \in {"COMPLETED", "TIME_LIMIT", "FAILED"}
            /\ Closed(close_type')
  BY <1>1, <1>3, TickBodyKeeps
<1>5. TypeOK'
  BY <1>1, <1>2, <1>4 DEF IInv, TypeOK, OrdersWithin
<1>6. FromTrajectory(sizes)' /\ OrdersWithin(submitted)' /\ (retries <= faults)'
  BY <1>1, <1>4 DEF IInv
<1>7. Unresolved'
  BY <1>1 DEF Unresolved
<1>8. Stopping'
  BY <1>1, <1>4 DEF IInv, Stopping
<1>9. NoSliceLost'
  BY <1>2, <1>4, CoveredNext
<1>10. (status = "TERMINATED" => Closed(close_type))'
  BY <1>1, <1>4 DEF Closed
<1> QED
  BY <1>4, <1>5, <1>6, <1>7, <1>8, <1>9, <1>10 DEF IInv

\* The tick that awaited the forecast goes by the new schedule.
LEMMA ResumeKeepsIInv == ASSUME IInv, ResumeTick PROVE IInv'
<1>1. /\ forecast = "AWAITED" /\ forecast' = "RESOLVED"
      /\ sizes' \in {sizes} \cup Trajectories(Len(Schedule))
      /\ TickBody(Schedule')
      /\ UNCHANGED <<cumulative_filled, retries, updated, faults>>
  BY DEF ResumeTick, TickBody
<1>2. FromTrajectory(sizes')
  <2>1. FromTrajectory(sizes)
    BY DEF IInv
  <2>2. Len(Schedule) \in 1 .. NumIntervals
    BY <2>1, ScheduleOf DEF Schedule
  <2> QED
    BY <1>1, <2>1, <2>2 DEF FromTrajectory
<1> DEFINE s == Schedule'
<1>3. s = MergeMinSize(sizes')
  BY DEF Schedule
<1>4. /\ sizes' \in Seq(0 .. Total)
      /\ s \in Seq(Int) /\ Len(s) \in Nat \ {0} /\ Interval(s) \in Nat
  BY <1>2, <1>3, ScheduleOf
<1>5. Interval(Schedule)' = Interval(s)
  BY DEF Interval
<1> HIDE DEF s
<1>6. forecast # "RESOLVED" /\ Attached /\ TickBody(s)
  BY <1>1 DEF IInv, Unresolved, s
<1>7. /\ slice_idx' \in 0 .. Len(s) /\ age' \in -1 .. Interval(s)
      /\ OrdersWithin(submitted') /\ Len(submitted') <= slice_idx'
      /\ CreditsCounted'
      /\ slice_idx' >= Len(s) => Sum(CountsOf(submitted')) >= Total
      /\ \/ UNCHANGED <<status, close_type>>
         \/ /\ status' = "TERMINATED" /\ submitted' = submitted
            /\ close_type' \in {"COMPLETED", "TIME_LIMIT", "FAILED"}
            /\ Closed(close_type')
      /\ status # "RUNNING" => UNCHANGED <<status, close_type>>
  BY <1>4, <1>6, TickBodyKeeps
<1>8. TypeOK'
  BY <1>1, <1>4, <1>5, <1>7 DEF IInv, TypeOK, OrdersWithin, s
<1>9. Unresolved'
  BY <1>1 DEF Unresolved
<1>10. Stopping'
  <2>1. close_type # "NONE" \/ status = "RUNNING"
    <3>1. slice_idx = 0 /\ ~(slice_idx >= Len(Schedule))
      BY <1>1, ScheduleOf DEF IInv, Unresolved, Schedule
    <3>2. ~AllDone(Schedule)
      BY <3>1 DEF AllDone
    <3> QED
      BY <1>6, <3>2 DEF IInv, Stopping, Attached
  <2> QED
    BY <1>7, <2>1 DEF IInv, Stopping
<1>11. NoSliceLost'
  BY <1>7, CoveredNext DEF s
<1>12. (status = "TERMINATED" => Closed(close_type))'
  BY <1>1, <1>6, <1>7 DEF Closed, Attached
<1> QED
  BY <1>1, <1>2, <1>7, <1>8, <1>9, <1>10, <1>11, <1>12 DEF IInv

LEMMA ShutDownKeepsIInv == ASSUME IInv, ShutDown PROVE IInv'
<1>1. /\ status = "SHUTTING_DOWN" /\ forecast # "AWAITED" /\ status' = "TERMINATED"
      /\ close_type' = IF close_type # "NONE" THEN close_type ELSE FinalCloseType
      /\ UNCHANGED <<sizes, forecast, slice_idx, submitted, cumulative_filled,
                     retries, age, updated, faults>>
  BY DEF ShutDown, CloseExecutionBy
<1>2. Schedule' = Schedule /\ Interval(Schedule)' = Interval(Schedule)
  BY <1>1, ScheduleKept
<1>3. Closed(close_type')
  <2>1. CASE close_type # "NONE"
    BY <1>1, <2>1 DEF IInv, Stopping, Closed
  <2>2. CASE close_type = "NONE"
    <3>1. AllDone(Schedule)
      BY <1>1, <2>2 DEF IInv, Stopping
    <3> QED
      BY <1>1, <2>2, <3>1, FinallyClosed
  <2> QED
    BY <2>1, <2>2
<1>4. close_type' \in {"NONE", "COMPLETED", "TIME_LIMIT", "FAILED", "EARLY_STOP",
                       "POSITION_HOLD", "INSUFFICIENT_BALANCE"}
  BY <1>1 DEF IInv, TypeOK, FinalCloseType
<1>5. TypeOK'
  BY <1>1, <1>2, <1>4 DEF IInv, TypeOK
<1>6. /\ FromTrajectory(sizes)' /\ OrdersWithin(submitted)' /\ CreditsCounted'
      /\ (retries <= faults)'
  BY <1>1 DEF IInv, CreditsCounted
<1>7. Unresolved'
  BY <1>1 DEF IInv, Unresolved
<1>8. Stopping'
  BY <1>1 DEF Stopping
<1>9. NoSliceLost'
  BY <1>1, <1>2 DEF IInv, NoSliceLost
<1>10. (status = "TERMINATED" => Closed(close_type))'
  BY <1>1, <1>3 DEF Closed
<1> QED
  BY <1>5, <1>6, <1>7, <1>8, <1>9, <1>10 DEF IInv

\* A working order is not among those of a schedule that is through.
LEMMA WorkingOrder ==
    ASSUME IInv, NEW o \in DOMAIN submitted, ~Ended(submitted[o])
    PROVE  /\ ~AllDone(Schedule) /\ forecast = "RESOLVED"
           /\ submitted[o].credited = 0
<1>1. OrdersWithin(submitted)
  BY DEF IInv
<1>2. submitted[o].credited \in Nat /\ (submitted[o].credited > 0 => submitted[o].completed)
  BY <1>1, OrderFields
<1>3. ~submitted[o].completed
  BY DEF Ended
<1>4. submitted # <<>>
  OBVIOUS
<1> QED
  BY <1>2, <1>3, <1>4 DEF IInv, Unresolved, AllDone, IsDone

\* An event of one order that leaves what it asks for, and ended if it was; only
\* when all orders are done may it shut down.
LEMMA OrderEvent ==
    ASSUME IInv, NEW o \in DOMAIN submitted, NEW t \in OrderRecord, OrderWithin(t),
           t.amount = submitted[o].amount, submitted[o].credited <= t.credited,
           Ended(submitted[o]) => Ended(t),
           submitted' = [submitted EXCEPT ![o] = t],
           cumulative_filled' = cumulative_filled + t.credited - submitted[o].credited,
           faults' \in faults .. MaxFaults, status \in {"RUNNING", "SHUTTING_DOWN"},
           status' = status \/ (status' = "SHUTTING_DOWN" /\ AllDone(Schedule)'),
           UNCHANGED <<close_type, sizes, forecast, slice_idx, retries, age, updated>>
    PROVE  IInv'
<1>1. Schedule' = Schedule /\ Interval(Schedule)' = Interval(Schedule)
  BY ScheduleKept
<1>2. OrdersWithin(submitted)
  BY DEF IInv
<1> DEFINE changed == submitted'
<1>3. changed = [submitted EXCEPT ![o] = t]
  OBVIOUS
<1> HIDE DEF changed
<1>4. /\ OrdersWithin(changed) /\ Len(changed) = Len(submitted)
      /\ DOMAIN changed = DOMAIN submitted
      /\ changed[o] = t /\ \A k \in DOMAIN submitted : k # o => changed[k] = submitted[k]
      /\ Sum(CountsOf(changed)) >= Sum(CountsOf(submitted))
      /\ Sum(CreditsOf(changed)) =
            Sum(CreditsOf(submitted)) + t.credited - submitted[o].credited
  <2>1. CountedAs(submitted[o]) <= CountedAs(t)
    <3>1. submitted[o].amount \in Nat /\ submitted[o].credited \in Nat
      BY <1>2, OrderFields
    <3>2. t.credited \in Nat
      BY DEF OrderRecord
    <3> QED
      BY <3>1, <3>2 DEF CountedAs
  <2>2. ChangesTo(changed, submitted, o, t)
    BY <1>3, <2>1 DEF ChangesTo
  <2> QED
    BY <1>2, <2>2, OrderChanged
<1>5. CreditsCounted'
  BY <1>4 DEF IInv, CreditsCounted, changed
<1>6. cumulative_filled' \in Nat
  <2>1. /\ Len(changed) \in Nat /\ DOMAIN changed = 1 .. Len(changed)
        /\ CreditsOf(changed) \in Seq(Int) /\ Len(CreditsOf(changed)) = Len(changed)
    BY <1>4, OrderLists
  <2>2. ASSUME NEW k \in 1 .. Len(CreditsOf(changed)) PROVE CreditsOf(changed)[k] >= 0
    <3>1. k \in DOMAIN changed
      BY <2>1
    <3>2. changed[k].credited \in Nat
      BY <1>4, <3>1, OrderFields
    <3> QED
      BY <3>1, <3>2 DEF CreditsOf
  <2>3. Sum(CreditsOf(changed)) \in Int /\ Sum(CreditsOf(changed)) >= 0
    BY <2>1, <2>2, SumType, SumNaturals
  <2> QED
    BY <1>5, <2>3 DEF CreditsCounted, changed
<1>7. faults' \in 0 .. MaxFaults /\ retries <= faults'
  BY ACConfigAssumption DEF IInv, TypeOK
<1>8. TypeOK'
  BY <1>1, <1>4, <1>6, <1>7 DEF IInv, TypeOK, OrdersWithin, changed
<1>9. Unresolved'
  BY DEF IInv, Unresolved
<1>10. NoSliceLost'
  <2>1. Sum(CountsOf(changed)) \in Int /\ Sum(CountsOf(submitted)) \in Int /\ Total \in Int
    BY <1>2, <1>4, OrderLists, SumType, ACConfigAssumption
  <2>2. slice_idx >= Len(Schedule) => Sum(CountsOf(changed)) >= Total
    BY <1>4, <2>1, CoveredIs DEF IInv
  <2> QED
    BY <1>1, <2>2, CoveredNext DEF changed
<1>11. FromTrajectory(sizes)' /\ OrdersWithin(submitted)'
  BY <1>4 DEF IInv, changed
<1>12. (retries <= faults)' /\ (status = "TERMINATED" => Closed(close_type))'
  BY <1>7
<1>13. AllDone(Schedule) => AllDone(Schedule)'
  <2>1. ASSUME NEW k \in DOMAIN submitted, IsDone(submitted[k])
        PROVE  IsDone(submitted[k])'
    <3>1. updated /\ updated' /\ Ended(submitted[k])
      BY <2>1 DEF IsDone
    <3>2. CASE k = o
      <4>1. submitted'[k] = t /\ Ended(t)
        BY <1>4, <3>1, <3>2 DEF changed
      <4> QED
        BY <3>1, <4>1 DEF IsDone, Ended
    <3>3. CASE k # o
      <4>1. submitted'[k] = submitted[k]
        BY <1>4, <3>3 DEF changed
      <4> QED
        BY <3>1, <4>1 DEF IsDone, Ended
    <3> QED
      BY <3>2, <3>3
  <2>2. DOMAIN submitted' = DOMAIN submitted
    BY <1>4 DEF changed
  <2> QED
    BY <1>1, <2>1, <2>2 DEF AllDone
<1>14. Stopping'
  BY <1>13 DEF IInv, Stopping
<1> QED
  BY <1>5, <1>8, <1>9, <1>10, <1>11, <1>12, <1>14 DEF IInv

LEMMA ExecutesKeepsIInv ==
    ASSUME IInv, NEW o \in DOMAIN submitted, VenueExecutes(o) PROVE IInv'
<1> DEFINE old == submitted[o]
<1>1. /\ old \in OrderRecord /\ old.amount \in Nat \ {0} /\ old.executed \in Nat
      /\ old.credited \in Nat /\ (old.credited > 0 => old.completed)
  BY OrderFields DEF IInv
<1>2. PICK lots \in 1 .. old.amount - old.executed :
          submitted' = [submitted EXCEPT ![o].executed = @ + lots]
  BY DEF VenueExecutes
<1> DEFINE t == [old EXCEPT !.executed = old.executed + lots]
<1>3. /\ t \in OrderRecord /\ t.amount = old.amount /\ t.credited = old.credited
      /\ t.executed = old.executed + lots /\ t.executed <= t.amount
      /\ t.canceled = old.canceled /\ t.completed = old.completed
  BY <1>1 DEF OrderRecord
<1>4. submitted' = [submitted EXCEPT ![o] = t]
  BY <1>2
<1> HIDE DEF t, old
<1>5. OrderWithin(t) /\ (Ended(old) => Ended(t))
  <2>1. old.executed # old.amount
    BY <1>1, <1>2
  <2> QED
    BY <1>1, <1>3, <2>1 DEF OrderWithin, Ended
<1>6. cumulative_filled' = cumulative_filled + t.credited - old.credited
  BY <1>1, <1>3 DEF IInv, TypeOK, VenueExecutes
<1>7. faults' \in faults .. MaxFaults
  BY ACConfigAssumption DEF IInv, TypeOK, VenueExecutes
<1>8. /\ status \in {"RUNNING", "SHUTTING_DOWN"} /\ status' = status
      /\ UNCHANGED <<close_type, sizes, forecast, slice_idx, retries, age, updated>>
  BY DEF VenueExecutes, Attached
<1>9. old.credited <= t.credited
  BY <1>1, <1>3
<1> QED
  BY <1>3, <1>4, <1>5, <1>6, <1>7, <1>8, <1>9, OrderEvent DEF old

LEMMA CanceledKeepsIInv ==
    ASSUME IInv, NEW o \in DOMAIN submitted, OrderCanceled(o) PROVE IInv'
<1> DEFINE old == submitted[o]
           t == [old EXCEPT !.canceled = TRUE]
<1>1. /\ old \in OrderRecord /\ old.executed \in Nat /\ old.executed <= old.amount
      /\ old.credited \in Nat /\ (old.credited > 0 => old.completed)
  BY OrderFields DEF IInv
<1>2. /\ t \in OrderRecord /\ t.amount = old.amount /\ t.credited = old.credited
      /\ t.executed = old.executed /\ t.completed = old.completed /\ t.canceled = TRUE
  <2> HIDE DEF old
  <2> QED
    BY <1>1 DEF OrderRecord
<1>3. submitted' = [submitted EXCEPT ![o] = t]
  BY DEF OrderCanceled
<1> HIDE DEF t, old
<1>4. OrderWithin(t) /\ Ended(t) /\ old.credited <= t.credited
  BY <1>1, <1>2 DEF OrderWithin, Ended
<1>5. cumulative_filled' = cumulative_filled + t.credited - old.credited
  BY <1>1, <1>2 DEF IInv, TypeOK, OrderCanceled
<1>6. faults' \in faults .. MaxFaults
  BY ACConfigAssumption DEF IInv, TypeOK, OrderCanceled
<1>7. /\ status \in {"RUNNING", "SHUTTING_DOWN"} /\ status' = status
      /\ UNCHANGED <<close_type, sizes, forecast, slice_idx, retries, age, updated>>
  BY DEF OrderCanceled, Attached
<1> QED
  BY <1>2, <1>3, <1>4, <1>5, <1>6, <1>7, OrderEvent DEF old

LEMMA CompletedKeepsIInv ==
    ASSUME IInv, NEW o \in DOMAIN submitted, OrderCompleted(o) PROVE IInv'
<1> DEFINE old == submitted[o]
<1>1. /\ old \in OrderRecord /\ old.executed \in Nat /\ old.amount \in Nat
      /\ old.executed <= old.amount /\ old.credited \in Nat
  BY OrderFields DEF IInv
<1>2. PICK told \in {old.executed, old.amount} :
        /\ submitted' = [submitted EXCEPT ![o].completed = TRUE, ![o].credited = @ + told]
        /\ cumulative_filled' = cumulative_filled + told
  BY DEF OrderCompleted
<1> DEFINE t == [old EXCEPT !.completed = TRUE, !.credited = old.credited + told]
<1>3. told \in Nat
  BY <1>1, <1>2
<1>4. /\ t \in OrderRecord /\ t.amount = old.amount /\ t.executed = old.executed
      /\ t.completed = TRUE /\ t.credited = old.credited + told
  <2>1. old.credited + told \in Nat
    BY <1>1, <1>3
  <2> HIDE DEF old
  <2>2. t \in OrderRecord
    BY <1>1, <2>1 DEF OrderRecord
  <2>3. t.amount = old.amount /\ t.executed = old.executed
    BY <1>1 DEF OrderRecord
  <2>4. t.completed = TRUE /\ t.credited = old.credited + told
    BY <1>1 DEF OrderRecord
  <2> HIDE DEF t
  <2> QED
    BY <2>2, <2>3, <2>4
<1>5. submitted' = [submitted EXCEPT ![o] = t]
  BY <1>2
<1> HIDE DEF t, old
<1>6. OrderWithin(t) /\ Ended(t) /\ old.credited <= t.credited
  BY <1>1, <1>3, <1>4 DEF OrderWithin, Ended
<1>7. cumulative_filled' = cumulative_filled + t.credited - old.credited
  <2>1. cumulative_filled \in Int
    BY DEF IInv, TypeOK
  <2> QED
    BY <1>1, <1>2, <1>3, <1>4, <2>1
<1>8. faults' \in faults .. MaxFaults
  BY ACConfigAssumption DEF IInv, TypeOK, OrderCompleted
<1>9. /\ status' = (IF AllDone(Schedule)' THEN "SHUTTING_DOWN" ELSE status)
      /\ status \in {"RUNNING", "SHUTTING_DOWN"}
      /\ UNCHANGED <<close_type, sizes, forecast, slice_idx, retries, age, updated>>
  BY DEF OrderCompleted, Attached
<1>10. status' = status \/ (status' = "SHUTTING_DOWN" /\ AllDone(Schedule)')
  BY <1>9
<1> QED
  BY <1>4, <1>5, <1>6, <1>7, <1>8, <1>9, <1>10, OrderEvent DEF old

LEMMA FailedKeepsIInv ==
    ASSUME IInv, NEW o \in DOMAIN submitted, OrderFailed(o) PROVE IInv'
<1>1. /\ status \in {"RUNNING", "SHUTTING_DOWN"}
      /\ ~Ended(submitted[o])
      /\ faults < MaxFaults /\ retries' = retries + 1 /\ faults' = faults + 1
      /\ slice_idx' = IF slice_idx > 0 THEN slice_idx - 1 ELSE 0
      /\ UNCHANGED <<status, close_type, sizes, forecast, cumulative_filled, age, updated>>
  BY DEF OrderFailed, Attached
<1>2. ~AllDone(Schedule) /\ forecast = "RESOLVED" /\ submitted[o].credited = 0
  BY <1>1, WorkingOrder
<1>4. Schedule' = Schedule /\ Interval(Schedule)' = Interval(Schedule)
  BY <1>1, ScheduleKept
<1> DEFINE shorter == submitted'
<1>5. shorter = RemoveAt(submitted, o)
  BY DEF OrderFailed
<1> HIDE DEF shorter
<1>6. /\ OrdersWithin(shorter) /\ Len(shorter) = Len(submitted) - 1
      /\ Sum(CreditsOf(shorter)) = Sum(CreditsOf(submitted))
  BY <1>2, <1>5, OrderTakenOut DEF IInv
<1>7. /\ Len(submitted) \in Nat \ {0} /\ Len(submitted) <= slice_idx
      /\ slice_idx \in 0 .. Len(Schedule) /\ Len(Schedule) \in Nat
  <2>1. submitted \in Seq(OrderRecord) /\ submitted # <<>>
    BY DEF IInv, TypeOK
  <2>2. Len(Schedule) \in Nat
    BY ScheduleOf DEF IInv, Schedule
  <2> QED
    BY <2>1, <2>2 DEF IInv, TypeOK
<1>8. /\ slice_idx' \in 0 .. Len(Schedule) /\ Len(shorter) <= slice_idx'
      /\ ~(slice_idx' >= Len(Schedule))
  BY <1>1, <1>6, <1>7
<1>9. /\ faults' \in 0 .. MaxFaults /\ retries' \in 0 .. MaxFaults /\ retries' <= faults'
  BY <1>1, ACConfigAssumption DEF IInv, TypeOK
<1>10. TypeOK'
  BY <1>1, <1>4, <1>6, <1>8, <1>9 DEF IInv, TypeOK, OrdersWithin, shorter
<1>11. /\ FromTrajectory(sizes)' /\ OrdersWithin(submitted)' /\ CreditsCounted'
       /\ (retries <= faults)'
  BY <1>1, <1>6, <1>9 DEF IInv, CreditsCounted, shorter
<1>12. Unresolved' /\ Stopping'
  BY <1>1, <1>2 DEF IInv, Unresolved, Stopping
<1>13. NoSliceLost'
  BY <1>4, <1>8 DEF NoSliceLost
<1>14. (status = "TERMINATED" => Closed(close_type))'
  BY <1>1
<1> QED
  BY <1>10, <1>11, <1>12, <1>13, <1>14 DEF IInv

LEMMA StepIInv == IInv /\ [Next]_vars => IInv'
<1> SUFFICES ASSUME IInv, [Next]_vars PROVE IInv'
    OBVIOUS
<1>1. CASE UNCHANGED vars
  <2>1. Schedule' = Schedule /\ Interval(Schedule)' = Interval(Schedule)
    BY <1>1, ScheduleKept DEF vars
  <2>2. TypeOK' /\ Unresolved' /\ (retries <= faults)'
    BY <1>1, <2>1 DEF IInv, TypeOK, Unresolved, Attached, vars
  <2>3. FromTrajectory(sizes)' /\ OrdersWithin(submitted)' /\ CreditsCounted'
    BY <1>1 DEF IInv, CreditsCounted, vars
  <2>4. Stopping'
    BY <1>1, <2>1 DEF IInv, Stopping, AllDone, IsDone, vars
  <2>5. NoSliceLost'
    BY <1>1, <2>1 DEF IInv, NoSliceLost, vars
  <2>6. (status = "TERMINATED" => Closed(close_type))'
    BY <1>1 DEF IInv, Closed, vars
  <2> QED
    BY <2>2, <2>3, <2>4, <2>5, <2>6 DEF IInv
<1>2. CASE Next
  BY <1>2, BalanceKeepsIInv, AwaitKeepsIInv, ResumeKeepsIInv, TickKeepsIInv,
     ShutDownKeepsIInv, StopKeepsIInv, TimeKeepsIInv, ExecutesKeepsIInv,
     CompletedKeepsIInv, FailedKeepsIInv, CanceledKeepsIInv DEF Next, ControlTask
<1> QED
  BY <1>1, <1>2

-----------------------------------------------------------------------------
(* How far the orders may pass the total.                                  *)

\* Sums of numbers that are not negative grow.
LEMMA AddsUpwards ==
    ASSUME NEW n \in Nat, NEW f, NEW acc, AddsUp(acc, f, n), \A k \in 1 .. n : f[k] >= 0
    PROVE  \A j \in 0 .. n : \A i \in 0 .. j : acc[i] <= acc[j]
<1> DEFINE S == {j \in Nat : j <= n => \A i \in 0 .. j : acc[i] <= acc[j]}
<1>1. 0 \in S
  BY DEF AddsUp
<1>2. ASSUME NEW j \in S PROVE j + 1 \in S
  <2>1. ASSUME j + 1 <= n, NEW i \in 0 .. j + 1 PROVE acc[i] <= acc[j + 1]
    <3>1. /\ j + 1 \in 1 .. n /\ (j + 1) - 1 = j /\ j \in 0 .. n /\ j + 1 \in 0 .. n
          /\ i \in 0 .. n
      BY <2>1
    <3>2. /\ acc[j] \in Int /\ acc[j + 1] \in Int /\ acc[i] \in Int
          /\ f[j + 1] \in Int /\ f[j + 1] >= 0 /\ acc[j + 1] = acc[j] + f[j + 1]
      BY <3>1 DEF AddsUp
    <3>3. CASE i \in 0 .. j
      <4>1. acc[i] <= acc[j]
        BY <2>1, <3>3
      <4> QED
        BY ONLY <3>2, <4>1
    <3>4. CASE i = j + 1
      BY <3>2, <3>4
    <3> QED
      BY <2>1, <3>3, <3>4
  <2> QED
    BY <2>1
<1>3. S = Nat
  <2> HIDE DEF S
  <2>1. S \in SUBSET Nat
    BY DEF S
  <2> QED
    BY <1>1, <1>2, <2>1, Induction
<1> QED
  BY <1>3

\* What the orders before index `i` may ask for when none failed: their slices,
\* and for the last one up to the whole total.
Reach(s) ==
    [i \in 0 .. Len(s) |-> IF i = Len(s) THEN Sum(SubSeq(s, 1, Len(s) - 1)) + Total
                                         ELSE Sum(SubSeq(s, 1, i))]

Reaches(reach, s) ==
    /\ reach \in [0 .. Len(s) -> Int]
    /\ reach[0] = 0
    /\ \A i \in 1 .. Len(s) - 1 : reach[i] = reach[i - 1] + s[i]
    /\ reach[Len(s)] = reach[Len(s) - 1] + Total
    /\ \A i \in 1 .. Len(s) : reach[i - 1] <= reach[i] /\ reach[i] <= reach[i - 1] + Total
    /\ \A i \in 0 .. Len(s) : reach[i] <= 2 * Total - Last(s)

LEMMA SlicesReach ==
    ASSUME NEW s \in Seq(Int), Len(s) \in Nat \ {0}, Sum(s) = Total,
           \A i \in 1 .. Len(s) : s[i] >= 0
    PROVE  Reaches(Reach(s), s)
<1> DEFINE n == Len(s)
           reach == Reach(s)
<1>1. PICK acc : AddsUp(acc, s, n) /\ Sum(s) = acc[n]
  BY HasSum
<1>2. \A i \in 0 .. n : Sum(SubSeq(s, 1, i)) = acc[i]
  BY <1>1, SumPrefix
<1>3. n \in Nat \ {0} /\ Last(s) = s[n] /\ Total \in Nat /\ acc[n] = Total
  BY <1>1, ACConfigAssumption DEF Last
<1>4. /\ \A i \in 0 .. n : acc[i] \in Int
      /\ acc[0] = 0
      /\ \A i \in 1 .. n : s[i] \in Int /\ s[i] >= 0 /\ acc[i] = acc[i - 1] + s[i]
  BY <1>1 DEF AddsUp
<1>5. \A j \in 0 .. n : \A i \in 0 .. j : acc[i] <= acc[j]
  BY <1>1, <1>3, <1>4, AddsUpwards
<1>6. /\ reach = [i \in 0 .. n |-> IF i = n THEN Sum(SubSeq(s, 1, n - 1)) + Total
                                           ELSE Sum(SubSeq(s, 1, i))]
  BY DEF Reach
<1> HIDE DEF n, reach
<1>7. \A i \in 0 .. n : reach[i] = IF i = n THEN acc[n - 1] + Total ELSE acc[i]
  <2>1. n - 1 \in 0 .. n
    BY <1>3
  <2> QED
    BY <1>2, <1>6, <2>1
<1>8. \A i \in 0 .. n : reach[i] \in Int
  <2> TAKE i \in 0 .. n
  <2>1. n - 1 \in 0 .. n
    BY <1>3
  <2>2. acc[i] \in Int /\ acc[n - 1] \in Int /\ acc[n - 1] + Total \in Int
    BY <1>3, <1>4, <2>1
  <2> QED
    BY <1>7, <2>2
<1>9. reach \in [0 .. n -> Int]
  BY <1>6, <1>8
<1>10. reach[0] = 0
  BY <1>3, <1>4, <1>7
<1>11. reach[n - 1] = acc[n - 1] /\ reach[n] = reach[n - 1] + Total
  BY <1>3, <1>7
<1>12. \A i \in 1 .. n - 1 : reach[i] = reach[i - 1] + s[i]
  <2> TAKE i \in 1 .. n - 1
  <2>1. /\ i \in 0 .. n /\ i - 1 \in 0 .. n /\ i # n /\ i - 1 # n /\ i \in 1 .. n
    BY <1>3
  <2> QED
    BY <1>4, <1>7, <2>1
<1>13. \A i \in 1 .. n : reach[i - 1] <= reach[i] /\ reach[i] <= reach[i - 1] + Total
  <2> TAKE i \in 1 .. n
  <2>1. CASE i = n
    <3>1. reach[n - 1] \in Int
      BY <1>3, <1>8
    <3> QED
      BY <1>3, <1>11, <2>1, <3>1
  <2>2. CASE i # n
    <3>1. /\ i \in 1 .. n - 1 /\ i \in 0 .. n /\ i - 1 \in 0 .. n /\ n \in 0 .. n
          /\ i - 1 # n /\ 0 \in 0 .. i - 1 /\ i \in 0 .. n
      BY <1>3, <2>2
    <3>2. /\ reach[i - 1] = acc[i - 1] /\ reach[i] = acc[i]
          /\ acc[i] \in Int /\ acc[i - 1] \in Int /\ s[i] \in Int /\ s[i] >= 0
          /\ acc[i] = acc[i - 1] + s[i]
      BY <1>4, <1>7, <2>2, <3>1
    <3>3. 0 <= acc[i - 1] /\ acc[i] <= Total
      BY <1>3, <1>4, <1>5, <3>1
    <3> QED
      BY ONLY <1>3, <3>2, <3>3
  <2> QED
    BY <2>1, <2>2
<1>14. reach[n] = 2 * Total - s[n]
  <2>1. n \in 1 .. n /\ n - 1 \in 0 .. n
    BY <1>3
  <2>2. acc[n] = acc[n - 1] + s[n] /\ acc[n - 1] \in Int /\ s[n] \in Int
    BY <1>4, <2>1
  <2> QED
    BY ONLY <1>3, <1>11, <2>2
<1>15. \A i \in 0 .. n : reach[i] <= 2 * Total - Last(s)
  <2> TAKE i \in 0 .. n
  <2>1. CASE i = n
    <3>1. reach[n] \in Int
      BY <1>3, <1>8
    <3> QED
      BY <1>3, <1>14, <2>1, <3>1
  <2>2. CASE i # n
    <3>1. i \in 0 .. n - 1 /\ n - 1 \in 0 .. n /\ i \in 0 .. n
      BY <1>3, <2>2
    <3>2. acc[i] <= acc[n - 1] /\ reach[i] = acc[i] /\ acc[i] \in Int /\ acc[n - 1] \in Int
      BY <1>4, <1>5, <1>7, <2>2, <3>1
    <3>3. reach[n] = acc[n - 1] + Total
      BY <1>11
    <3>4. reach[i] <= reach[n] /\ reach[n] \in Int
      BY ONLY <1>3, <3>2, <3>3
    <3> QED
      BY <1>3, <1>14, <3>4
  <2> QED
    BY <2>1, <2>2
<1> QED
  BY <1>9, <1>10, <1>11, <1>12, <1>13, <1>15 DEF Reaches, n, reach

LEMMA ScheduleReaches ==
    ASSUME NEW raw, FromTrajectory(raw)
    PROVE  Reaches(Reach(MergeMinSize(raw)), MergeMinSize(raw))
<1> DEFINE s == MergeMinSize(raw)
<1>1. Merges(s, raw) /\ s \in Seq(Int) /\ Len(s) \in Nat \ {0}
  BY ScheduleOf
<1> HIDE DEF s
<1>2. Sum(s) = Total /\ \A i \in DOMAIN s : s[i] >= MinOrder \/ s = <<Total>>
  BY <1>1 DEF Merges
<1>3. ASSUME NEW i \in 1 .. Len(s) PROVE s[i] >= 0
  <2>1. s[i] \in Int /\ i \in DOMAIN s
    BY <1>1
  <2>2. CASE s[i] >= MinOrder
    BY <2>1, <2>2, ACConfigAssumption
  <2>3. CASE s = <<Total>>
    <3>1. s[i] = Total
      BY <2>3
    <3> QED
      BY <3>1, ACConfigAssumption
  <2> QED
    BY <1>2, <2>1, <2>2, <2>3
<1> QED
  BY <1>1, <1>2, <1>3, SlicesReach DEF s

\* Every order sent asks for its slice, the last one for the total at most.
\* A failed order takes with it what it asked for, which is something, and the
\* index goes back over at most one total.
WithinReach ==
    Amounts <= Reach(Schedule)[slice_idx] + retries * (Total - 1)

LEMMA RetriesAdd ==
    ASSUME NEW r \in Nat
    PROVE  /\ r * (Total - 1) \in Int
           /\ (r + 1) * (Total - 1) = r * (Total - 1) + Total - 1
BY ACConfigAssumption

LEMMA InitReaches == Init => WithinReach
<1> SUFFICES ASSUME Init PROVE WithinReach
    OBVIOUS
<1>1. IInv
  BY InitIInv
<1>2. Reaches(Reach(Schedule), Schedule)
  BY <1>1, ScheduleReaches DEF IInv, Schedule
<1>3. Reach(Schedule)[0] = 0
  BY <1>2 DEF Reaches
<1>4. Amounts = 0
  BY NoOrders, AmountsAre DEF Init
<1>5. retries * (Total - 1) = 0
  BY ACConfigAssumption DEF Init
<1> QED
  BY <1>3, <1>4, <1>5 DEF Init, WithinReach

\* What the last slice takes is the total at most.
LEMMA SliceWithin ==
    ASSUME IInv, NEW s, s \in Seq(Int), Len(s) \in Nat \ {0}, slice_idx < Len(s),
           NEW reach, Reaches(reach, s), SubmitNextSlice(s)
    PROVE  /\ slice_idx + 1 \in 0 .. Len(s) /\ slice_idx \in 0 .. Len(s)
           /\ Sum(AmountsOf(submitted')) - Sum(AmountsOf(submitted))
                  <= reach[slice_idx + 1] - reach[slice_idx]
<1> DEFINE amount == SliceAmount(s)
           C == Sum(CreditsOf(submitted))
           O == Sum(OpenOf(submitted))
           A == Sum(AmountsOf(submitted))
<1>1. /\ slice_idx \in Nat /\ OrdersWithin(submitted) /\ cumulative_filled = C
      /\ Total \in Nat
  BY ACConfigAssumption DEF IInv, TypeOK, CreditsCounted
<1>2. C \in Int /\ O \in Int /\ A \in Int
  BY <1>1, OrderLists, SumType
<1>3. slice_idx + 1 \in 1 .. Len(s) /\ slice_idx \in 0 .. Len(s) /\ (slice_idx + 1) - 1 = slice_idx
  BY <1>1
<1>4. O >= 0
  <2>1. /\ DOMAIN submitted = 1 .. Len(submitted)
        /\ OpenOf(submitted) \in Seq(Int) /\ Len(OpenOf(submitted)) = Len(submitted)
    BY <1>1, OrderLists
  <2>2. ASSUME NEW k \in 1 .. Len(OpenOf(submitted)) PROVE OpenOf(submitted)[k] >= 0
    <3>1. k \in DOMAIN submitted
      BY <2>1
    <3>2. submitted[k].executed \in Nat
      BY <1>1, <3>1, OrderFields
    <3> QED
      BY <3>1, <3>2 DEF OpenOf, ExecutedAmountBase
  <2> QED
    BY <2>1, <2>2, SumNaturals
<1>5. cumulative_filled >= 0
  BY DEF IInv, TypeOK
<1>6. ExactRemainder = Total - cumulative_filled - O
  BY DEF ExactRemainder, OpenOf
<1> HIDE DEF C, O, A
<1> DEFINE room == reach[slice_idx + 1] - reach[slice_idx]
<1>7. reach[slice_idx + 1] \in Int /\ reach[slice_idx] \in Int /\ room \in Int /\ room >= 0
  <2>1. reach[(slice_idx + 1) - 1] <= reach[slice_idx + 1]
    BY <1>3 DEF Reaches
  <2>2. slice_idx + 1 \in 0 .. Len(s)
    BY <1>3
  <2>3. reach[slice_idx + 1] \in Int /\ reach[slice_idx] \in Int
    BY <1>3, <2>2 DEF Reaches
  <2>4. reach[slice_idx] <= reach[slice_idx + 1]
    BY <1>3, <2>1
  <2> HIDE DEF room
  <2>5. room = reach[slice_idx + 1] - reach[slice_idx]
    BY DEF room
  <2> QED
    BY ONLY <2>3, <2>4, <2>5
<1>8. amount \in Int /\ amount <= room
  <2>1. CASE slice_idx = Len(s) - 1
    <3>1. slice_idx + 1 = Len(s) /\ amount = ExactRemainder
      BY <1>1, <2>1 DEF SliceAmount
    <3>2. reach[slice_idx + 1] = reach[slice_idx] + Total
      BY <2>1, <3>1 DEF Reaches
    <3> HIDE DEF amount
    <3>3. amount = Total - C - O /\ C >= 0
      BY <1>1, <1>5, <1>6, <3>1
    <3> QED
      BY <1>1, <1>2, <1>4, <1>7, <3>2, <3>3
  <2>2. CASE slice_idx # Len(s) - 1
    <3>1. amount = s[slice_idx + 1] /\ slice_idx + 1 \in 1 .. Len(s) - 1
      BY <1>1, <1>3, <2>2 DEF SliceAmount
    <3>2. reach[slice_idx + 1] = reach[slice_idx] + s[slice_idx + 1]
      BY <1>3, <3>1 DEF Reaches
    <3>3. s[slice_idx + 1] \in Int
      BY <1>3
    <3> QED
      BY <1>7, <3>1, <3>2, <3>3
  <2> QED
    BY <2>1, <2>2
<1> HIDE DEF room, amount
<1>9. Sum(AmountsOf(submitted')) - A <= room
  <2>1. CASE submitted' = submitted
    BY <1>2, <1>7, <2>1 DEF A
  <2>2. CASE amount > 0 /\ submitted' = Append(submitted, NewOrder(amount))
    <3>1. amount \in Nat \ {0}
      BY <1>8, <2>2
    <3>2. Sum(AmountsOf(submitted')) = A + amount
      BY <1>1, <2>2, <3>1, OrderSent DEF A
    <3> QED
      BY <1>2, <1>7, <1>8, <3>2
  <2> QED
    BY <2>1, <2>2 DEF SubmitNextSlice, NewOrder, amount
<1> QED
  BY <1>3, <1>9 DEF A, room

\* The orders that are left when one failed ask for less.
LEMMA AmountTakenOut ==
    ASSUME NEW orders, OrdersWithin(orders), NEW o \in DOMAIN orders, orders[o].credited = 0,
           NEW shorter, shorter = RemoveAt(orders, o)
    PROVE  Sum(AmountsOf(shorter)) = Sum(AmountsOf(orders)) - orders[o].amount
<1> DEFINE n == Len(orders)
<1>1. orders \in Seq(OrderRecord) /\ n \in Nat /\ DOMAIN orders = 1 .. n /\ o \in 1 .. n
  BY DEF OrdersWithin
<1>2. /\ shorter \in Seq(OrderRecord) /\ Len(shorter) = n - 1
      /\ Without(shorter, orders, o, n)
  BY <1>1, Removal
<1>3. DOMAIN shorter = 1 .. n - 1
  BY <1>2
<1>4. OrdersWithin(shorter)
  BY OrderTakenOut
<1>5. /\ AmountsOf(orders) \in Seq(Int) /\ Len(AmountsOf(orders)) = n
      /\ AmountsOf(shorter) \in Seq(Int) /\ Len(AmountsOf(shorter)) = n - 1
  BY <1>2, <1>4, OrderLists DEF n
<1> HIDE DEF n
<1>6. Without(AmountsOf(shorter), AmountsOf(orders), o, n)
  <2>1. ASSUME NEW k \in 1 .. n - 1
        PROVE  AmountsOf(shorter)[k] = IF k < o THEN AmountsOf(orders)[k]
                                               ELSE AmountsOf(orders)[k + 1]
    <3>1. /\ k \in 1 .. n /\ k + 1 \in 1 .. n
          /\ shorter[k] = IF k < o THEN orders[k] ELSE orders[k + 1]
      BY <1>1, <1>2 DEF Without
    <3>2. AmountsOf(shorter)[k] = shorter[k].amount
      BY <1>3 DEF AmountsOf
    <3>3. /\ AmountsOf(orders)[k] = orders[k].amount
          /\ AmountsOf(orders)[k + 1] = orders[k + 1].amount
      BY <1>1, <3>1 DEF AmountsOf
    <3> QED
      BY ONLY <3>1, <3>2, <3>3
  <2> QED
    BY <2>1 DEF Without
<1>7. AmountsOf(orders)[o] = orders[o].amount
  BY <1>1 DEF AmountsOf
<1> QED
  BY ONLY <1>1, <1>5, <1>6, <1>7, SumRemoved

LEMMA TickReaches ==
    ASSUME IInv, NEW s, s \in Seq(Int), Len(s) \in Nat \ {0}, Reaches(Reach(s), s),
           Amounts <= Reach(s)[slice_idx] + retries * (Total - 1),
           slice_idx \in 0 .. Len(s), TickBody(s), s = Schedule'
    PROVE  WithinReach'
<1> DEFINE reach == Reach(s)
           rest == retries * (Total - 1)
           A == Sum(AmountsOf(submitted))
           B == Sum(AmountsOf(submitted'))
<1>1. /\ Amounts = A /\ Amounts' = B /\ retries' = retries
      /\ WithinReach' <=> B <= reach[slice_idx'] + rest
  BY DEF Amounts, AmountsOf, WithinReach, TickBody, Reach
<1>2. rest \in Int
  BY RetriesAdd DEF IInv, TypeOK
<1>3. CASE UNCHANGED <<slice_idx, submitted>>
  BY <1>1, <1>3
<1>4. CASE slice_idx < Len(s) /\ SubmitNextSlice(s)
  <2>1. /\ slice_idx + 1 \in 0 .. Len(s)
        /\ B - A <= reach[slice_idx + 1] - reach[slice_idx]
    BY <1>4, SliceWithin
  <2>2. A \in Int /\ B \in Int
    <3>1. OrdersWithin(submitted) /\ OrdersWithin(submitted')
      BY <1>4, SliceSent DEF IInv
    <3> QED
      BY <3>1, OrderLists, SumType
  <2>3. reach[slice_idx] \in Int /\ reach[slice_idx + 1] \in Int
    BY <2>1 DEF Reaches
  <2>4. slice_idx' = slice_idx + 1
    BY <1>4 DEF SubmitNextSlice
  <2>5. A <= reach[slice_idx] + rest
    BY <1>1
  <2> HIDE DEF A, B, reach, rest
  <2> QED
    BY <1>1, <1>2, <2>1, <2>2, <2>3, <2>4, <2>5
<1> QED
  BY <1>3, <1>4 DEF TickBody

LEMMA FailedReaches ==
    ASSUME IInv, WithinReach, NEW o \in DOMAIN submitted, OrderFailed(o)
    PROVE  WithinReach'
<1> DEFINE reach == Reach(Schedule)
           A == Sum(AmountsOf(submitted))
           B == Sum(AmountsOf(submitted'))
           rest == retries * (Total - 1)
           more == (retries + 1) * (Total - 1)
<1>1. Reaches(reach, Schedule) /\ Len(Schedule) \in Nat
  BY ScheduleReaches, ScheduleOf DEF IInv, Schedule
<1>2. /\ OrdersWithin(submitted) /\ submitted \in Seq(OrderRecord)
      /\ Len(submitted) <= slice_idx /\ slice_idx \in 0 .. Len(Schedule)
      /\ retries \in Nat /\ Total \in Nat
  BY ACConfigAssumption DEF IInv, TypeOK
<1>3. slice_idx \in 1 .. Len(Schedule)
  <2>1. Len(submitted) \in Nat \ {0}
    BY <1>2
  <2> QED
    BY <1>1, <1>2, <2>1
<1>4. slice_idx' = slice_idx - 1 /\ retries' = retries + 1 /\ Schedule' = Schedule
  <2>1. sizes' = sizes
    BY DEF OrderFailed
  <2> QED
    BY <1>3, <2>1, ScheduleKept DEF OrderFailed
<1>5. WithinReach' <=> B <= reach[slice_idx - 1] + more
  BY <1>4 DEF WithinReach, Amounts, AmountsOf, Reach
<1>6. A <= reach[slice_idx] + rest
  BY DEF WithinReach, Amounts, AmountsOf
<1>7. B = A - submitted[o].amount /\ submitted[o].amount \in Nat \ {0}
  <2>1. submitted[o].credited = 0
    BY WorkingOrder DEF OrderFailed
  <2> QED
    BY <1>2, <2>1, AmountTakenOut, OrderFields DEF OrderFailed
<1>8. A \in Int /\ rest \in Int /\ more = rest + Total - 1
  BY <1>2, OrderLists, SumType, RetriesAdd
<1>9. /\ reach[slice_idx] \in Int /\ reach[slice_idx - 1] \in Int
      /\ reach[slice_idx] <= reach[slice_idx - 1] + Total
  <2>1. slice_idx \in 0 .. Len(Schedule) /\ slice_idx - 1 \in 0 .. Len(Schedule)
    BY <1>1, <1>3
  <2> QED
    BY <1>1, <1>3, <2>1 DEF Reaches
<1> DEFINE lost == submitted[o].amount
<1>10. B = A - lost /\ lost \in Nat \ {0}
  BY <1>7
<1> HIDE DEF A, B, reach, rest, more, lost
<1>11. B <= reach[slice_idx - 1] + more
  BY ONLY <1>2, <1>6, <1>8, <1>9, <1>10
<1> QED
  BY ONLY <1>5, <1>11

\* A step that sends nothing and leaves the index alone.
LEMMA KeepsReach ==
    ASSUME WithinReach, UNCHANGED <<sizes, slice_idx, retries>>, Amounts' = Amounts
    PROVE  WithinReach'
<1>1. Schedule' = Schedule
  BY ScheduleKept
<1> QED
  BY <1>1 DEF WithinReach, Reach

LEMMA EventReaches ==
    ASSUME IInv, WithinReach, NEW o \in DOMAIN submitted,
           VenueExecutes(o) \/ OrderCompleted(o) \/ OrderCanceled(o)
    PROVE  WithinReach'
<1>1. /\ UNCHANGED <<sizes, slice_idx, retries>>
      /\ DOMAIN submitted' = DOMAIN submitted
      /\ \A k \in DOMAIN submitted : submitted'[k].amount = submitted[k].amount
  <2>1. submitted \in Seq(OrderRecord)
    BY DEF IInv, TypeOK
  <2>2. submitted[o] \in OrderRecord
    BY <2>1
  <2>3. CASE VenueExecutes(o)
    BY <2>1, <2>2, <2>3 DEF VenueExecutes, OrderRecord
  <2>4. CASE OrderCompleted(o)
    BY <2>1, <2>2, <2>4 DEF OrderCompleted, OrderRecord
  <2>5. CASE OrderCanceled(o)
    BY <2>1, <2>2, <2>5 DEF OrderCanceled, OrderRecord
  <2> QED
    BY <2>3, <2>4, <2>5
<1>2. Amounts' = Amounts
  BY <1>1 DEF Amounts
<1> QED
  BY <1>1, <1>2, KeepsReach

LEMMA StepReaches == IInv /\ WithinReach /\ [Next]_vars => WithinReach'
<1> SUFFICES ASSUME IInv, WithinReach, [Next]_vars PROVE WithinReach'
    OBVIOUS
<1>1. CASE ValidateSufficientBalance \/ AwaitForecast \/ ShutDown \/ EarlyStop
           \/ TimePasses \/ UNCHANGED vars
  <2>1. UNCHANGED <<sizes, slice_idx, retries, submitted>>
    BY <1>1 DEF ValidateSufficientBalance, AwaitForecast, ShutDown, EarlyStop,
                TimePasses, vars
  <2>2. Amounts' = Amounts
    BY <2>1 DEF Amounts
  <2> QED
    BY <2>1, <2>2, KeepsReach
<1>2. CASE Tick
  <2>1. Schedule' = Schedule /\ TickBody(Schedule)
    BY <1>2, ScheduleKept DEF Tick
  <2>2. /\ Schedule \in Seq(Int) /\ Len(Schedule) \in Nat \ {0}
        /\ Reaches(Reach(Schedule), Schedule)
    BY ScheduleOf, ScheduleReaches DEF IInv, Schedule
  <2>3. slice_idx \in 0 .. Len(Schedule)
    BY DEF IInv, TypeOK
  <2> QED
    BY <2>1, <2>2, <2>3, TickReaches DEF WithinReach
<1>3. CASE ResumeTick
  <2> DEFINE s == Schedule'
  <2>1. /\ FromTrajectory(sizes') /\ TickBody(s) /\ slice_idx = 0
    <3>1. IInv'
      BY StepIInv
    <3> QED
      BY <1>3, <3>1 DEF IInv, ResumeTick, Unresolved
  <2>2. s = MergeMinSize(sizes')
    BY DEF Schedule
  <2>3. /\ s \in Seq(Int) /\ Len(s) \in Nat \ {0} /\ Reaches(Reach(s), s)
    BY <2>1, <2>2, ScheduleOf, ScheduleReaches
  <2>4. Reaches(Reach(Schedule), Schedule)
    BY ScheduleReaches DEF IInv, Schedule
  <2>5. Reach(s)[0] = 0 /\ Reach(Schedule)[0] = 0
    BY <2>3, <2>4 DEF Reaches
  <2> HIDE DEF s
  <2>6. /\ Amounts <= Reach(s)[slice_idx] + retries * (Total - 1)
        /\ slice_idx \in 0 .. Len(s)
    BY <2>1, <2>3, <2>5 DEF WithinReach
  <2> QED
    BY <2>1, <2>3, <2>6, TickReaches DEF s
<1>4. ASSUME NEW o \in DOMAIN submitted,
             VenueExecutes(o) \/ OrderCompleted(o) \/ OrderCanceled(o) \/ OrderFailed(o)
      PROVE  WithinReach'
  BY <1>4, EventReaches, FailedReaches
<1> QED
  BY <1>1, <1>2, <1>3, <1>4 DEF Next, ControlTask

-----------------------------------------------------------------------------
(* Theorems.                                                               *)

\* The inductive invariant holds in every state of the executor.
THEOREM Invariance == Spec => []IInv
<1> QED
  BY InitIInv, StepIInv, PTL DEF Spec

\* The fields of the executor and of its orders have their types: the index
\* stays within the schedule, with an order or less per slice.
THEOREM TypeCorrect == Spec => []TypeOK
<1>1. IInv => TypeOK
  BY DEF IInv
<1> QED
  BY <1>1, Invariance, PTL

\* _merge_min_size() keeps the total, merges neighbours only and leaves no slice
\* below the minimum unless the whole total is.
THEOREM KeepsTheTotal == Spec => []SlicesAddUp
<1>1. ASSUME IInv PROVE SlicesAddUp
  <2>1. FromTrajectory(sizes)
    BY <1>1 DEF IInv
  <2>2. Len(sizes) \in 1 .. NumIntervals /\ Len(Schedule) \in 1 .. NumIntervals
    BY <2>1, ScheduleOf DEF Schedule
  <2>3. Merges(Schedule, sizes)
    BY <2>1, ScheduleOf DEF Schedule
  <2> QED
    BY <2>2, <2>3 DEF Merges, SlicesAddUp
<1> QED
  BY <1>1, Invariance, PTL

\* Once every slice is through, the orders sent and not failed cover the total,
\* each with what it asks for or with what its completions told if that is more,
\* whatever failed, was sent again, canceled or completed before, late or twice
\* (process_order_failed_event() and the exact remainder of the last slice).
THEOREM LosesNoSlice == Spec => []NoSliceLost
<1>1. IInv => NoSliceLost
  BY DEF IInv
<1> QED
  BY <1>1, Invariance, PTL

\* The executor credits no more than the venue executed and what completions
\* told beyond that, and its close type says what happened but for the latter:
\* process_order_completed_event() adds what each event tells.
THEOREM ClosesTruthfully == Spec => []TruthfulClose
<1>1. ASSUME IInv PROVE TruthfulClose
  <2>1. /\ cumulative_filled \in Int /\ Executed + Untrue \in Int
        /\ cumulative_filled <= Executed + Untrue
    <3>1. OrdersWithin(submitted) /\ cumulative_filled = Sum(CreditsOf(submitted))
      BY <1>1 DEF IInv, CreditsCounted
    <3>2. Sum(CreditsOf(submitted)) <= Sum(ExecutedOf(submitted)) + Sum(OvertoldOf(submitted))
      BY <3>1, Covers
    <3>3. /\ Sum(CreditsOf(submitted)) \in Int /\ Sum(ExecutedOf(submitted)) \in Int
          /\ Sum(OvertoldOf(submitted)) \in Int
      BY <3>1, OrderLists, SumType
    <3> QED
      BY <3>1, <3>2, <3>3, ExecutedIs, UntrueIs
  <2>2. Total \in Int
    BY ACConfigAssumption
  <2>3. ASSUME status = "TERMINATED"
        PROVE  /\ close_type # "NONE"
               /\ close_type = "COMPLETED" =>
                      Executed + Untrue >= Total /\ retries <= MaxRetries
               /\ close_type = "FAILED" => retries > MaxRetries
               /\ close_type \in {"COMPLETED", "TIME_LIMIT", "FAILED"} =>
                      updated /\ \A o \in DOMAIN submitted : Ended(submitted[o])
    <3>1. Closed(close_type)
      BY <1>1, <2>3 DEF IInv
    <3> QED
      BY <2>1, <2>2, <3>1 DEF Closed
  <2> QED
    BY <2>1, <2>3 DEF TruthfulClose
<1> QED
  BY <1>1, Invariance, PTL

\* After a stop no slice is sent, except by the first tick that was still
\* waiting for its forecast (control_task()).
THEOREM SendsNothingAfterStop == Spec => NoSliceAfterStop
<1>1. ASSUME IInv, [Next]_vars
      PROVE  [status # "RUNNING" /\ forecast # "AWAITED"
                 => Len(submitted') <= Len(submitted)]_vars
  <2> SUFFICES ASSUME Next, status # "RUNNING", forecast # "AWAITED"
               PROVE  Len(submitted') <= Len(submitted)
      BY <1>1
  <2>1. submitted \in Seq(OrderRecord) /\ Len(submitted) \in Nat /\ OrdersWithin(submitted)
    BY <1>1 DEF IInv, TypeOK
  <2>2. CASE submitted' = submitted
    BY <2>1, <2>2
  <2>3. ASSUME NEW o \in DOMAIN submitted, OrderFailed(o)
        PROVE  Len(submitted') <= Len(submitted)
    <3>1. o \in 1 .. Len(submitted) /\ submitted' = RemoveAt(submitted, o)
      BY <2>1, <2>3 DEF OrderFailed
    <3>2. Len(submitted') = Len(submitted) - 1
      BY <2>1, <3>1, Removal
    <3> QED
      BY <2>1, <3>2
  <2>4. ASSUME NEW o \in DOMAIN submitted,
               VenueExecutes(o) \/ OrderCompleted(o) \/ OrderCanceled(o)
        PROVE  Len(submitted') <= Len(submitted)
    <3>1. DOMAIN submitted' = DOMAIN submitted
      BY <2>1, <2>4 DEF VenueExecutes, OrderCompleted, OrderCanceled
    <3>2. IInv'
      BY <1>1, StepIInv
    <3>3. submitted' \in Seq(OrderRecord)
      BY <3>2 DEF IInv, TypeOK
    <3>4. Len(submitted') = Len(submitted)
      BY <2>1, <3>1, <3>3
    <3> QED
      BY <2>1, <3>4
  <2>5. /\ ~AwaitForecast /\ ~ResumeTick /\ ~Tick
    BY DEF AwaitForecast, ResumeTick, Tick
  <2>6. ValidateSufficientBalance \/ ShutDown \/ EarlyStop \/ TimePasses
           => submitted' = submitted
    BY DEF ValidateSufficientBalance, ShutDown, EarlyStop, TimePasses
  <2> QED
    BY <2>2, <2>3, <2>4, <2>5, <2>6 DEF Next, ControlTask
<1> QED
  BY <1>1, Invariance, PTL DEF Spec, NoSliceAfterStop

\* The orders pass the total by no more than the slices before the last one, and
\* by less than one more total for each failed order: whatever the venue fails,
\* cancels or executes late (_submit_next_slice() and
\* process_order_failed_event()).
THEOREM OverrunIsBounded == Spec => []OverrunBounded
<1>1. ASSUME IInv, WithinReach PROVE OverrunBounded
  <2> DEFINE reach == Reach(Schedule)
             rest == retries * (Total - 1)
  <2>1. Reaches(reach, Schedule) /\ slice_idx \in 0 .. Len(Schedule)
    BY <1>1, ScheduleReaches DEF IInv, TypeOK, Schedule
  <2>2. reach[slice_idx] \in Int /\ reach[slice_idx] <= 2 * Total - Last(Schedule)
    BY <2>1 DEF Reaches
  <2>3. Amounts <= reach[slice_idx] + rest /\ rest \in Int /\ Amounts \in Int
    <3>1. Amounts \in Int
      BY <1>1, AmountsAre, OrderLists, SumType DEF IInv
    <3>2. rest \in Int
      BY <1>1, RetriesAdd DEF IInv, TypeOK
    <3> QED
      BY <1>1, <3>1, <3>2 DEF WithinReach
  <2>4. Total \in Int /\ Last(Schedule) \in Int
    <3>1. Schedule \in Seq(Int) /\ Len(Schedule) \in Nat \ {0}
      BY <1>1, ScheduleOf DEF IInv, Schedule
    <3> QED
      BY <3>1, ACConfigAssumption DEF Last
  <2>5. OverrunBounded <=> Amounts <= 2 * Total - Last(Schedule) + rest
    BY DEF OverrunBounded
  <2> HIDE DEF reach, rest
  <2> QED
    BY <2>2, <2>3, <2>4, <2>5
<1>2. Spec => []WithinReach
  BY InitReaches, StepReaches, Invariance, PTL DEF Spec
<1> QED
  BY <1>1, <1>2, Invariance, PTL
===============================================================================
