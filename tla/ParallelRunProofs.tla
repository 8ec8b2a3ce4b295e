------------------------- MODULE ParallelRunProofs -------------------------
(***************************************************************************)
(* The scheduler for every plan; preflight for every document; the two of  *)
(* them one after the other (Scheduling) for any documents and limit; and  *)
(* the safety of a parallel run for every plan, limit, worker outcome and  *)
(* inherited start.                                                        *)
(***************************************************************************)
EXTENDS ParallelRun, Scheduling, TLAPS, WellFoundedInduction, FiniteSetTheorems

(***************************************************************************)
(* Facts about sequences                                                   *)
(***************************************************************************)
(* A sequence with one element more: its length, domain and elements.      *)
LEMMA AppendFacts ==
  ASSUME NEW S, NEW s \in Seq(S), NEW x \in S
  PROVE  /\ Append(s, x) \in Seq(S)
         /\ Append(s, x) # <<>>
         /\ Len(Append(s, x)) = Len(s) + 1
         /\ DOMAIN Append(s, x) = 1..(Len(s) + 1)
         /\ \A i \in 1..Len(s) : Append(s, x)[i] = s[i]
         /\ Append(s, x)[Len(s) + 1] = x
  OBVIOUS

(* Appending adds one element to the range.                                *)
LEMMA AppendRange ==
  ASSUME NEW S, NEW s \in Seq(S), NEW x \in S
  PROVE  Range(Append(s, x)) = Range(s) \union {x}
  <1>1. DOMAIN s = 1..Len(s)
    OBVIOUS
  <1>2. \A y : y \in Range(Append(s, x)) <=> \E i \in 1..(Len(s) + 1) : Append(s, x)[i] = y
    BY AppendFacts DEF Range
  <1>3. \A y : y \in Range(s) <=> \E i \in 1..Len(s) : s[i] = y
    BY <1>1 DEF Range
  <1>4. \A i \in 1..(Len(s) + 1) : i \in 1..Len(s) \/ i = Len(s) + 1
    OBVIOUS
  <1>5. 1..Len(s) \subseteq 1..(Len(s) + 1) /\ Len(s) + 1 \in 1..(Len(s) + 1)
    OBVIOUS
  <1> QED
    BY <1>2, <1>3, <1>4, <1>5, AppendFacts

(* Taking the last element off undoes an append.                           *)
LEMMA AppendFront ==
  ASSUME NEW S, NEW s \in Seq(S), NEW x \in S
  PROVE  Front(Append(s, x)) = s
  BY DEF Front

(* Appending an element that is new leaves no duplicates.                  *)
LEMMA AppendStaysInjective ==
  ASSUME NEW S, NEW s \in Seq(S), NEW x \in S, IsInjective(s), x \notin Range(s)
  PROVE  IsInjective(Append(s, x))
  <1>1. DOMAIN s = 1..Len(s) /\ DOMAIN Append(s, x) = 1..(Len(s) + 1)
    BY AppendFacts
  <1>2. \A i \in 1..Len(s) : Append(s, x)[i] = s[i] /\ Append(s, x)[i] # x
    BY AppendFacts, <1>1 DEF Range
  <1>3. Append(s, x)[Len(s) + 1] = x
    BY AppendFacts
  <1>4. \A i, j \in 1..(Len(s) + 1) : Append(s, x)[i] = Append(s, x)[j] => i = j
    BY <1>1, <1>2, <1>3 DEF IsInjective
  <1> QED
    BY <1>1, <1>4 DEF IsInjective

(* Both of it at once.                                                     *)
LEMMA NewLast ==
  ASSUME NEW S, NEW s \in Seq(S), NEW x \in S, IsInjective(s), x \notin Range(s)
  PROVE  /\ Append(s, x) \in Seq(S) /\ IsInjective(Append(s, x))
         /\ Range(Append(s, x)) = Range(s) \union {x}
  BY AppendFacts, AppendRange, AppendStaysInjective

(* In the order R, a set of pairs.                                         *)
Sorted(w, R) == \A i, j \in DOMAIN w : i < j => <<w[i], w[j]>> \in R

(* A last element that all others are below.                               *)
LEMMA AppendStaysSorted ==
  ASSUME NEW S, NEW R, NEW s \in Seq(S), NEW x \in S,
         Sorted(s, R), \A y \in Range(s) : <<y, x>> \in R
  PROVE  Sorted(Append(s, x), R)
  <1> DEFINE n == Append(s, x)
             m == Len(s)
  <1>1. /\ m \in Nat /\ DOMAIN s = 1..m /\ DOMAIN n = 1..(m + 1) /\ n[m + 1] = x
        /\ \A i \in 1..m : n[i] = s[i] /\ s[i] \in Range(s)
    BY DEF Range
  <1> HIDE DEF n, m
  <1>2. ASSUME NEW i \in DOMAIN n, NEW j \in DOMAIN n, i < j PROVE <<n[i], n[j]>> \in R
    <2>1. i \in 1..m /\ (j \in 1..m \/ j = m + 1)
      BY <1>1, <1>2
    <2> QED
      BY <1>1, <1>2, <2>1 DEF Sorted
  <1> QED
    BY <1>2 DEF n, Sorted

(* One after the other, all of the first below all of the second.          *)
LEMMA ConcatStaysSorted ==
  ASSUME NEW T, NEW R, NEW a \in Seq(T), NEW b \in Seq(T),
         Sorted(a, R), Sorted(b, R), \A t \in Range(a), u \in Range(b) : <<t, u>> \in R
  PROVE  Sorted(a \o b, R)
  <1> DEFINE m == Len(a)
             n == Len(b)
             c == a \o b
  <1>1. /\ m \in Nat /\ n \in Nat /\ DOMAIN a = 1..m /\ DOMAIN b = 1..n
        /\ DOMAIN c = 1..(m + n)
        /\ \A i \in 1..(m + n) : c[i] = IF i <= m THEN a[i] ELSE b[i - m]
    OBVIOUS
  <1>2. (\A i \in 1..m : a[i] \in Range(a)) /\ (\A i \in 1..n : b[i] \in Range(b))
    BY <1>1 DEF Range
  <1> HIDE DEF m, n, c
  <1>3. ASSUME NEW i \in DOMAIN c, NEW j \in DOMAIN c, i < j PROVE <<c[i], c[j]>> \in R
    <2>1. CASE j <= m
      <3>1. i \in 1..m /\ j \in 1..m /\ c[i] = a[i] /\ c[j] = a[j]
        BY <1>1, <1>3, <2>1
      <3> QED
        BY <1>1, <1>3, <3>1 DEF Sorted
    <2>2. CASE ~(i <= m)
      <3>1. i - m \in 1..n /\ j - m \in 1..n /\ i - m < j - m
        BY <1>1, <1>3, <2>2
      <3>2. c[i] = b[i - m] /\ c[j] = b[j - m]
        <4>1. ~(j <= m)
          BY <1>1, <1>3, <2>2
        <4> QED
          BY <1>1, <1>3, <2>2, <4>1
      <3> QED
        BY <1>1, <3>1, <3>2 DEF Sorted
    <2>3. CASE i <= m /\ ~(j <= m)
      <3>1. i \in 1..m /\ j - m \in 1..n /\ c[i] = a[i] /\ c[j] = b[j - m]
        BY <1>1, <1>3, <2>3
      <3> QED
        BY <1>2, <3>1
    <2> QED
      BY <2>1, <2>2, <2>3
  <1> QED
    BY <1>3 DEF c, Sorted

(* An element of a sequence is in its range, and of its type.              *)
LEMMA InRange ==
  ASSUME NEW S, NEW s \in Seq(S), NEW i \in DOMAIN s
  PROVE  s[i] \in Range(s) /\ s[i] \in S
  BY DEF Range

(* The range of a sequence over S lies in S.                               *)
LEMMA RangeType ==
  ASSUME NEW S, NEW s \in Seq(S)
  PROVE  Range(s) \subseteq S
  BY DEF Range

(* One after the other, without a common element.                          *)
LEMMA ConcatFacts ==
  ASSUME NEW T, NEW a \in Seq(T), NEW b \in Seq(T), IsInjective(a), IsInjective(b),
         Range(a) \cap Range(b) = {}
  PROVE  /\ a \o b \in Seq(T) /\ IsInjective(a \o b)
         /\ Range(a \o b) = Range(a) \union Range(b)
  <1> DEFINE m == Len(a)
             n == Len(b)
             c == a \o b
  <1>1. /\ m \in Nat /\ n \in Nat /\ DOMAIN a = 1..m /\ DOMAIN b = 1..n
        /\ c \in Seq(T) /\ DOMAIN c = 1..(m + n)
        /\ \A i \in 1..(m + n) : c[i] = IF i <= m THEN a[i] ELSE b[i - m]
    OBVIOUS
  <1> HIDE DEF m, n, c
  <1>2. \A i \in 1..(m + n) : i \in 1..m \/ (i - m \in 1..n /\ ~(i <= m))
    BY <1>1
  <1>30. (\A i \in 1..m : a[i] \in Range(a)) /\ (\A i \in 1..n : b[i] \in Range(b))
    BY <1>1 DEF Range
  <1>3. \A i \in 1..(m + n) : /\ i \in 1..m => c[i] = a[i] /\ c[i] \in Range(a)
                              /\ i - m \in 1..n => c[i] = b[i - m] /\ c[i] \in Range(b)
    <2> TAKE i \in 1..(m + n)
    <2>1. i \in 1..m => i <= m
      BY <1>1
    <2>2. i - m \in 1..n => ~(i <= m)
      BY <1>1
    <2> QED
      BY <1>1, <1>30, <2>1, <2>2
  <1>4. ASSUME NEW i \in 1..(m + n), NEW j \in 1..(m + n), c[i] = c[j] PROVE i = j
    <2>1. CASE i \in 1..m /\ j \in 1..m
      <3>1. a[i] = a[j]
        BY <1>3, <1>4, <2>1
      <3> QED
        BY <1>1, <2>1, <3>1 DEF IsInjective
    <2>2. CASE i - m \in 1..n /\ j - m \in 1..n
      <3>1. b[i - m] = b[j - m]
        BY <1>3, <1>4, <2>2
      <3>2. i - m = j - m
        BY <1>1, <2>2, <3>1 DEF IsInjective
      <3> QED
        BY <1>1, <3>2
    <2>3. CASE (i \in 1..m /\ j - m \in 1..n) \/ (j \in 1..m /\ i - m \in 1..n)
      BY <1>3, <1>4, <2>3
    <2> QED
      BY <1>2, <2>1, <2>2, <2>3
  <1>5. \A i \in 1..m : i \in 1..(m + n) /\ c[i] = a[i]
    BY <1>1
  <1>6. ASSUME NEW i \in 1..n PROVE m + i \in 1..(m + n) /\ c[m + i] = b[i]
    <2>1. m + i \in 1..(m + n) /\ ~(m + i <= m) /\ (m + i) - m = i
      BY <1>1
    <2> QED
      BY <1>1, <2>1
  <1>7. Range(a) \union Range(b) \subseteq Range(c)
    <2>1. \A i \in 1..(m + n) : c[i] \in Range(c)
      BY <1>1 DEF Range
    <2>2. (\A i \in 1..m : a[i] \in Range(c)) /\ (\A i \in 1..n : b[i] \in Range(c))
      BY <1>5, <1>6, <2>1
    <2> QED
      BY <1>1, <2>2 DEF Range
  <1>8. Range(c) \subseteq Range(a) \union Range(b)
    BY <1>1, <1>2, <1>3 DEF Range
  <1> QED
    BY <1>1, <1>4, <1>7, <1>8 DEF IsInjective, c

(***************************************************************************)
(* The scheduler, for every plan (dag.ts).  A fold is a recursive function *)
(* on the sets of positions: it exists, and is unfolded one position at a  *)
(* time, from the last.                                                    *)
(***************************************************************************)
(* Every set of natural numbers has a least one: what induction is done    *)
(* with below, as the library's rules have an operator for a parameter.    *)
LEMMA Least ==
  ASSUME NEW T, T \subseteq Nat, T # {}
  PROVE  \E n \in T : \A k \in T : n <= k
  <1>1. PICK n \in T : \A k \in T : <<k, n>> \notin OpToRel(<, Nat)
    BY WFMin, NatLessThanWellFounded, Zenon
  <1>2. \A k \in T : ~(k < n)
    BY <1>1, Zenon DEF OpToRel
  <1> QED
    BY <1>2

(* A set of numbers up to k that holds k has it as its maximum: the folds go *)
(* through the positions of a sequence from the last one down.             *)
LEMMA MaxOfPrefix ==
  ASSUME NEW k \in Nat \ {0}, NEW S \in SUBSET (1..k), k \in S
  PROVE  Max(S) = k
  <1>1. k \in S /\ \A y \in S : k >= y
    OBVIOUS
  <1>2. Max(S) \in S /\ \A y \in S : Max(S) >= y
    BY <1>1, Zenon DEF Max
  <1> DEFINE m == Max(S)
  <1>3. m \in S /\ m >= k
    BY <1>2
  <1> HIDE DEF m
  <1>4. m \in 1..k
    BY <1>3
  <1>5. m = k
    BY <1>3, <1>4
  <1> QED
    BY <1>5 DEF m

Wanted(plan, st, n, t) == plan.priority[t] = n /\ IsRunnable(plan, st, t)

Selected(plan, st, n, ready, t) ==
  IF plan.priority[t] = n /\ IsRunnable(plan, st, t) THEN Append(ready, t) ELSE ready

Selects(f, plan, st, n, S) ==
  f = [s \in SUBSET S |-> IF s = {} THEN <<>>
                          ELSE Selected(plan, st, n, f[s \ {Max(s)}], plan.order[Max(s)])]

Selection(plan, st, n) == CHOOSE f : Selects(f, plan, st, n, DOMAIN plan.order)

(* OfPriority is the fold's function at the set of all positions.          *)
LEMMA SelectionIs ==
  ASSUME NEW plan, NEW st, NEW n
  PROVE  OfPriority(plan, st, n) = Selection(plan, st, n)[DOMAIN plan.order]
  BY DEF OfPriority, FoldLeft, MapThenFoldSet, Selection, Selects, Selected

(* There is such a function for a plan of any size.                        *)
LEMMA SelectionExists ==
  ASSUME NEW plan, NEW st, NEW n, NEW size \in Nat
  PROVE  \E f : Selects(f, plan, st, n, 1..size)
  <1> DEFINE T == {k \in Nat : ~\E f : Selects(f, plan, st, n, 1..k)}
  <1>1. SUFFICES ASSUME T # {} PROVE FALSE
    OBVIOUS
  <1>10. T \subseteq Nat
    OBVIOUS
  <1>2. PICK k \in T : \A j \in T : k <= j
    <2> HIDE DEF T
    <2> QED
      BY <1>1, <1>10, Least
  <1>3. k # 0
    <2> DEFINE f == [s \in SUBSET {} |-> <<>>]
    <2>1. Selects(f, plan, st, n, {}) /\ 1..0 = {}
      BY DEF Selects
    <2> QED
      BY <2>1
  <1>4. k \in Nat \ {0} /\ k - 1 \in Nat /\ k - 1 \notin T
    BY <1>2, <1>3
  <1>5. PICK f : Selects(f, plan, st, n, 1..(k - 1))
    BY <1>4
  <1> DEFINE g == [s \in SUBSET (1..k) |->
                     IF k \in s THEN Selected(plan, st, n, f[s \ {k}], plan.order[k]) ELSE f[s]]
  <1>6. ASSUME NEW s \in SUBSET (1..k)
        PROVE  g[s] = IF s = {} THEN <<>>
                      ELSE Selected(plan, st, n, g[s \ {Max(s)}], plan.order[Max(s)])
    <2>1. CASE k \in s
      <3>1. Max(s) = k
        BY <1>4, <2>1, MaxOfPrefix
      <3>2. g[s \ {k}] = f[s \ {k}] /\ s # {}
        BY <2>1
      <3>3. g[s] = Selected(plan, st, n, f[s \ {k}], plan.order[k])
        BY <2>1
      <3> QED
        BY <3>1, <3>2, <3>3
    <2>2. CASE k \notin s
      <3>1. s \in SUBSET (1..(k - 1)) /\ g[s] = f[s]
        BY <1>4, <2>2
      <3>2. g[s \ {Max(s)}] = f[s \ {Max(s)}]
        BY <2>2
      <3>3. f[s] = IF s = {} THEN <<>>
                   ELSE Selected(plan, st, n, f[s \ {Max(s)}], plan.order[Max(s)])
        BY <1>5, <3>1 DEF Selects
      <3> QED
        BY <3>1, <3>2, <3>3
    <2> QED
      BY <2>1, <2>2
  <1>7. Selects(g, plan, st, n, 1..k)
    BY <1>6 DEF Selects
  <1> QED
    BY <1>2, <1>7

(* What the fold has after the first k tasks.                              *)
LEMMA SelectionUnfold ==
  ASSUME NEW plan, NEW st, NEW n,
         Len(plan.order) \in Nat, DOMAIN plan.order = 1..Len(plan.order)
  PROVE  /\ Selection(plan, st, n)[1..0] = <<>>
         /\ \A k \in 1..Len(plan.order) :
              Selection(plan, st, n)[1..k] =
                Selected(plan, st, n, Selection(plan, st, n)[1..(k - 1)], plan.order[k])
  <1> DEFINE f == Selection(plan, st, n)
             N == Len(plan.order)
  <1>1. N \in Nat /\ DOMAIN plan.order = 1..N
    OBVIOUS
  <1>2. Selects(f, plan, st, n, 1..N)
    <2>1. \E g : Selects(g, plan, st, n, 1..N)
      BY <1>1, SelectionExists
    <2> QED
      BY <1>1, <2>1, Zenon DEF Selection
  <1> HIDE DEF f
  <1>3. f[1..0] = <<>>
    BY <1>2 DEF Selects
  <1>4. ASSUME NEW k \in 1..N
        PROVE  f[1..k] = Selected(plan, st, n, f[1..(k - 1)], plan.order[k])
    <2> HIDE DEF N
    <2>0. k \in Nat \ {0} /\ k <= N
      BY <1>1
    <2>1. k \in 1..k /\ 1..k \in SUBSET (1..N)
      BY <1>1, <2>0
    <2>2. Max(1..k) = k
      BY <2>0, <2>1, MaxOfPrefix
    <2>3. (1..k) \ {k} = 1..(k - 1)
      BY <2>0
    <2> QED
      BY <1>2, <2>1, <2>2, <2>3 DEF Selects
  <1> QED
    BY <1>3, <1>4 DEF f

(* Where a task stands in the plan.                                        *)
Place(plan, t) == CHOOSE i \in DOMAIN plan.order : plan.order[i] = t

(* Pairs of tasks of T in the order of the plan, and in that of the waves. *)
InPlan(plan, T) == {p \in T \X T : Place(plan, p[1]) < Place(plan, p[2])}
InWaves(plan, T) == {p \in T \X T : Precedes(plan, p[1], p[2])}

(* The selected tasks are those that are wanted, each once, in the order of *)
(* the plan.                                                               *)
LEMMA SelectionFacts ==
  ASSUME NEW plan, NEW st, NEW n, NEW T, plan.order \in Seq(T), IsInjective(plan.order)
  PROVE  LET s == OfPriority(plan, st, n) IN
         /\ s \in Seq(T) /\ IsInjective(s)
         /\ Range(s) = {t \in Range(plan.order) : Wanted(plan, st, n, t)}
         /\ Sorted(s, InPlan(plan, T))
  <1> DEFINE f == Selection(plan, st, n)
             N == Len(plan.order)
             o == plan.order
             Upto(k) == {t \in T : \E i \in 1..k : o[i] = t /\ Wanted(plan, st, n, t)}
             Good(k) == /\ f[1..k] \in Seq(T) /\ IsInjective(f[1..k])
                        /\ Range(f[1..k]) = Upto(k)
                        /\ Sorted(f[1..k], InPlan(plan, T))
             B == {k \in 0..N : ~Good(k)}
  <1>1. N \in Nat /\ DOMAIN o = 1..N /\ \A i \in 1..N : o[i] \in T
    OBVIOUS
  <1>2. /\ f[1..0] = <<>>
        /\ \A k \in 1..N : f[1..k] = Selected(plan, st, n, f[1..(k - 1)], o[k])
    BY <1>1, SelectionUnfold
  <1>3. \A i, j \in 1..N : o[i] = o[j] => i = j
    BY <1>1 DEF IsInjective
  <1>4. OfPriority(plan, st, n) = f[1..N]
    BY <1>1, SelectionIs
  <1>8. \A i \in 1..N : Place(plan, o[i]) = i
    BY <1>1, <1>3 DEF Place
  <1> HIDE DEF f, o, N
  <1>5. B = {}
    <2> SUFFICES ASSUME B # {} PROVE FALSE
      OBVIOUS
    <2>1. B \subseteq Nat
      BY <1>1
    <2>2. PICK k \in B : \A j \in B : k <= j
      <3> HIDE DEF B
      <3> QED
        BY <2>1, Least
    <2>3. k # 0
      <3>1. Good(0)
        BY <1>2 DEF IsInjective, Range, Sorted
      <3> QED
        BY <2>2, <3>1
    <2>4. k \in 1..N /\ k - 1 \in 0..N /\ k - 1 \notin B
      <3>1. k \in 0..N
        BY <2>2
      <3> HIDE DEF B
      <3>2. k \in 1..N /\ k - 1 \in 0..N /\ ~(k <= k - 1)
        BY <1>1, <2>3, <3>1
      <3> QED
        BY <2>2, <3>2
    <2>5. Good(k - 1)
      BY <2>4
    <2> DEFINE w == f[1..(k - 1)]
    <2>6. f[1..k] = Selected(plan, st, n, w, o[k]) /\ o[k] \in T
      BY <1>1, <1>2, <2>4
    <2>7. \A i \in 1..k : i \in 1..(k - 1) \/ i = k
      BY <1>1, <2>4
    <2>8. 1..(k - 1) \subseteq 1..k /\ k \in 1..k
      BY <1>1, <2>4
    <2>9. /\ w \in Seq(T) /\ IsInjective(w) /\ Range(w) = Upto(k - 1)
          /\ Sorted(w, InPlan(plan, T))
      BY <2>5
    <2>10. o[k] \notin Upto(k - 1)
      BY <1>1, <1>3, <2>4
    <2> HIDE DEF w
    <2>11. CASE Wanted(plan, st, n, o[k])
      <3>1. f[1..k] = Append(w, o[k])
        BY <2>6, <2>11 DEF Selected, Wanted
      <3>2. Upto(k) = Upto(k - 1) \union {o[k]}
        BY <2>6, <2>7, <2>8, <2>11
      <3>4. \A y \in Range(w) : <<y, o[k]>> \in InPlan(plan, T)
        <4> TAKE y \in Range(w)
        <4>1. PICK i \in 1..(k - 1) : o[i] = y
          BY <2>9
        <4>2. i \in 1..N /\ i < k
          BY <1>1, <2>4, <4>1
        <4>3. Place(plan, o[i]) < Place(plan, o[k])
          BY <1>8, <2>4, <4>2
        <4> QED
          BY <1>1, <2>6, <4>1, <4>2, <4>3 DEF InPlan
      <3>5. Sorted(f[1..k], InPlan(plan, T))
        BY <2>6, <2>9, <3>1, <3>4, AppendStaysSorted
      <3>3. Good(k)
        BY <2>6, <2>9, <2>10, <3>1, <3>2, <3>5, NewLast
      <3> QED
        BY <2>2, <3>3
    <2>12. CASE ~Wanted(plan, st, n, o[k])
      <3>1. f[1..k] = w
        BY <2>6, <2>12 DEF Selected, Wanted
      <3>2. Upto(k) = Upto(k - 1)
        BY <2>6, <2>7, <2>8, <2>12
      <3>3. Good(k)
        BY <2>9, <3>1, <3>2
      <3> QED
        BY <2>2, <3>3
    <2> QED
      BY <2>11, <2>12
  <1>6. Good(N)
    <2>1. N \in 0..N
      BY <1>1
    <2> QED
      BY <1>5, <2>1
  <1>7. Upto(N) = {t \in Range(o) : Wanted(plan, st, n, t)}
    BY <1>1 DEF Range
  <1> QED
    BY <1>4, <1>6, <1>7 DEF o

(* The runnable tasks, each once, in order.                                *)
LEMMA RunnableFacts ==
  ASSUME NEW plan, NEW st, NEW T, plan.order \in Seq(T), IsInjective(plan.order),
         \A t \in Range(plan.order) : plan.priority[t] \in {0, 1, 2}
  PROVE  /\ ParallelRunnableTasks(plan, st) \in Seq(T)
         /\ IsInjective(ParallelRunnableTasks(plan, st))
         /\ Range(ParallelRunnableTasks(plan, st)) =
              {t \in Range(plan.order) : IsRunnable(plan, st, t)}
         /\ Sorted(ParallelRunnableTasks(plan, st), InWaves(plan, T))
  <1> DEFINE Of(n) == OfPriority(plan, st, n)
             Are(n) == {t \in Range(plan.order) : Wanted(plan, st, n, t)}
  <1>1. \A n : Of(n) \in Seq(T) /\ IsInjective(Of(n)) /\ Range(Of(n)) = Are(n)
    BY SelectionFacts
  <1>2. Are(0) \cap Are(1) = {} /\ (Are(0) \union Are(1)) \cap Are(2) = {}
    BY DEF Wanted
  <1>3. Are(0) \union Are(1) \union Are(2) =
          {t \in Range(plan.order) : IsRunnable(plan, st, t)}
    BY DEF Wanted
  <1>4. ParallelRunnableTasks(plan, st) = (Of(0) \o Of(1)) \o Of(2)
    BY DEF ParallelRunnableTasks
  <1>8. \A n \in {0, 1, 2} : Sorted(Of(n), InWaves(plan, T))
    <2> SUFFICES ASSUME NEW n \in {0, 1, 2}, NEW i \in DOMAIN Of(n), NEW j \in DOMAIN Of(n), i < j
                 PROVE  <<Of(n)[i], Of(n)[j]>> \in InWaves(plan, T)
      BY DEF Sorted
    <2> DEFINE p == <<Of(n)[i], Of(n)[j]>>
    <2>1. p \in InPlan(plan, T)
      BY SelectionFacts DEF Sorted
    <2>2. Of(n)[i] \in Are(n) /\ Of(n)[j] \in Are(n)
      BY <1>1 DEF Range
    <2>3. plan.priority[p[1]] = plan.priority[p[2]]
      BY <2>2 DEF Wanted
    <2> HIDE DEF p
    <2> QED
      BY <2>1, <2>3 DEF InPlan, InWaves, Precedes, Place, p
  <1>9. \A n, m \in {0, 1, 2} : n < m =>
          \A t \in Are(n), u \in Are(m) : <<t, u>> \in InWaves(plan, T)
    BY RangeType DEF Wanted, InWaves, Precedes
  <1> HIDE DEF Of, Are
  <1>5. /\ Of(0) \o Of(1) \in Seq(T) /\ IsInjective(Of(0) \o Of(1))
        /\ Range(Of(0) \o Of(1)) = Are(0) \union Are(1)
    BY <1>1, <1>2, ConcatFacts
  <1>10. Sorted(Of(0) \o Of(1), InWaves(plan, T))
    BY <1>1, <1>8, <1>9, ConcatStaysSorted
  <1> DEFINE a == Of(0) \o Of(1)
             b == Of(2)
  <1>6. /\ a \in Seq(T) /\ b \in Seq(T) /\ IsInjective(a) /\ IsInjective(b)
        /\ Range(a) = Are(0) \union Are(1) /\ Range(b) = Are(2) /\ Range(a) \cap Range(b) = {}
    BY <1>1, <1>2, <1>5
  <1>11. /\ Sorted(a, InWaves(plan, T)) /\ Sorted(b, InWaves(plan, T))
         /\ \A t \in Range(a), u \in Range(b) : <<t, u>> \in InWaves(plan, T)
    BY <1>6, <1>8, <1>9, <1>10
  <1> HIDE DEF a, b
  <1>12. Sorted(a \o b, InWaves(plan, T))
    BY <1>6, <1>11, ConcatStaysSorted
  <1>7. a \o b \in Seq(T) /\ IsInjective(a \o b) /\ Range(a \o b) = Range(a) \union Range(b)
    BY <1>6, ConcatFacts
  <1> QED
    BY <1>3, <1>4, <1>6, <1>7, <1>12 DEF a, b

(***************************************************************************)
(* The wave                                                                *)
(***************************************************************************)
Joined(plan, max, w, t) ==
  IF Joins(plan, w, t, max) THEN Append(w, t) ELSE w

Gathers(f, plan, max, s, S) ==
  f = [v \in SUBSET S |-> IF v = {} THEN <<>>
                          ELSE Joined(plan, max, f[v \ {Max(v)}], s[Max(v)])]

Gathering(plan, max, s) == CHOOSE f : Gathers(f, plan, max, s, DOMAIN s)

(* NextWave is the fold's function at the set of all positions.            *)
LEMMA NextWaveIs ==
  ASSUME NEW plan, NEW st, NEW max, NEW s, s = ParallelRunnableTasks(plan, st)
  PROVE  NextWave(plan, st, max) = Gathering(plan, max, s)[DOMAIN s]
  BY DEF NextWave, FoldLeft, MapThenFoldSet, Gathering, Gathers, Joined

(* There is such a function for any number of runnable tasks.              *)
LEMMA GatheringExists ==
  ASSUME NEW plan, NEW max, NEW s, NEW size \in Nat
  PROVE  \E f : Gathers(f, plan, max, s, 1..size)
  <1> DEFINE T == {k \in Nat : ~\E f : Gathers(f, plan, max, s, 1..k)}
  <1>1. SUFFICES ASSUME T # {} PROVE FALSE
    OBVIOUS
  <1>10. T \subseteq Nat
    OBVIOUS
  <1>2. PICK k \in T : \A j \in T : k <= j
    <2> HIDE DEF T
    <2> QED
      BY <1>1, <1>10, Least
  <1>3. k # 0
    <2> DEFINE f == [v \in SUBSET {} |-> <<>>]
    <2>1. Gathers(f, plan, max, s, {}) /\ 1..0 = {}
      BY DEF Gathers
    <2> QED
      BY <2>1
  <1>4. k \in Nat \ {0} /\ k - 1 \in Nat /\ k - 1 \notin T
    BY <1>2, <1>3
  <1>5. PICK f : Gathers(f, plan, max, s, 1..(k - 1))
    BY <1>4
  <1> DEFINE g == [v \in SUBSET (1..k) |->
                     IF k \in v THEN Joined(plan, max, f[v \ {k}], s[k]) ELSE f[v]]
  <1>6. ASSUME NEW v \in SUBSET (1..k)
        PROVE  g[v] = IF v = {} THEN <<>>
                      ELSE Joined(plan, max, g[v \ {Max(v)}], s[Max(v)])
    <2>1. CASE k \in v
      <3>1. Max(v) = k
        BY <1>4, <2>1, MaxOfPrefix
      <3>2. g[v \ {k}] = f[v \ {k}] /\ v # {}
        BY <2>1
      <3>3. g[v] = Joined(plan, max, f[v \ {k}], s[k])
        BY <2>1
      <3> QED
        BY <3>1, <3>2, <3>3
    <2>2. CASE k \notin v
      <3>1. v \in SUBSET (1..(k - 1)) /\ g[v] = f[v]
        BY <1>4, <2>2
      <3>2. g[v \ {Max(v)}] = f[v \ {Max(v)}]
        BY <2>2
      <3>3. f[v] = IF v = {} THEN <<>>
                   ELSE Joined(plan, max, f[v \ {Max(v)}], s[Max(v)])
        BY <1>5, <3>1 DEF Gathers
      <3> QED
        BY <3>1, <3>2, <3>3
    <2> QED
      BY <2>1, <2>2
  <1>7. Gathers(g, plan, max, s, 1..k)
    BY <1>6 DEF Gathers
  <1> QED
    BY <1>2, <1>7

(* What the fold has after the first k runnable tasks.                     *)
LEMMA GatheringUnfold ==
  ASSUME NEW plan, NEW max, NEW s, Len(s) \in Nat, DOMAIN s = 1..Len(s)
  PROVE  /\ Gathering(plan, max, s)[1..0] = <<>>
         /\ \A k \in 1..Len(s) :
              Gathering(plan, max, s)[1..k] =
                Joined(plan, max, Gathering(plan, max, s)[1..(k - 1)], s[k])
  <1> DEFINE f == Gathering(plan, max, s)
             N == Len(s)
  <1>2. Gathers(f, plan, max, s, 1..N)
    <2>1. \E g : Gathers(g, plan, max, s, 1..N)
      BY GatheringExists
    <2> QED
      BY <2>1, Zenon DEF Gathering
  <1> HIDE DEF f
  <1>3. f[1..0] = <<>>
    BY <1>2 DEF Gathers
  <1>4. ASSUME NEW k \in 1..N
        PROVE  f[1..k] = Joined(plan, max, f[1..(k - 1)], s[k])
    <2>1. N \in Nat
      OBVIOUS
    <2> HIDE DEF N
    <2>2. k \in Nat \ {0} /\ k <= N
      BY <2>1
    <2>3. k \in 1..k /\ 1..k \in SUBSET (1..N)
      BY <2>1, <2>2
    <2>4. Max(1..k) = k
      BY <2>2, <2>3, MaxOfPrefix
    <2>5. (1..k) \ {k} = 1..(k - 1)
      BY <2>2
    <2> QED
      BY <1>2, <2>3, <2>4, <2>5 DEF Gathers
  <1> QED
    BY <1>3, <1>4 DEF f

(* No two of a wave own the same file, and one without files is alone.     *)
Compatible(plan, w) ==
  \A i, j \in DOMAIN w : i # j => /\ Disjoint(plan, w[i], w[j])
                                  /\ plan.files[w[i]] # {}

Gathered(plan, max, w, T) ==
  w \in Seq(T) /\ IsInjective(w) /\ Compatible(plan, w) /\ Len(w) <= max

(* What a wave w has become after t was looked at.                         *)
Fits(plan, max, T, w, t, n) ==
  /\ Gathered(plan, max, n, T) /\ n # <<>>
  /\ Range(w) \subseteq Range(n) /\ Range(n) \subseteq Range(w) \union {t}
  /\ t \in Range(n) \/ IsKeptOut(plan, max, n, t)
  /\ \A u : IsKeptOut(plan, max, w, u) => IsKeptOut(plan, max, n, u)

(* A wave stays one when a task is looked at, and the task is in it or kept *)
(* out of it for good.                                                     *)
LEMMA JoinedFacts ==
  ASSUME NEW plan, NEW max \in Nat \ {0}, NEW T, NEW w, Gathered(plan, max, w, T),
         NEW t \in T, t \notin Range(w), \A u \in Range(w) : Precedes(plan, u, t)
  PROVE  Fits(plan, max, T, w, t, Joined(plan, max, w, t))
  <1> DEFINE n == Joined(plan, max, w, t)
  <1>1. w \in Seq(T) /\ IsInjective(w) /\ Compatible(plan, w) /\ Len(w) <= max
    BY DEF Gathered
  <1>2. /\ Len(w) \in Nat /\ DOMAIN w = 1..Len(w) /\ (w = <<>> <=> Len(w) = 0)
        /\ \A i \in 1..Len(w) : w[i] \in Range(w)
    BY <1>1 DEF Range
  <1>3. CASE Joins(plan, w, t, max)
    <2>1. n = Append(w, t)
      BY <1>3 DEF Joined
    <2>2. /\ n \in Seq(T) /\ IsInjective(n) /\ Range(n) = Range(w) \union {t}
      BY <1>1, <2>1, NewLast
    <2>3. /\ DOMAIN n = 1..(Len(w) + 1) /\ Len(n) = Len(w) + 1 /\ n[Len(w) + 1] = t
          /\ \A i \in 1..Len(w) : n[i] = w[i]
      BY <1>1, <2>1
    <2>4. /\ Len(w) < max /\ (plan.files[t] = {} => w = <<>>)
          /\ \A u \in Range(w) : plan.files[u] # {} /\ Disjoint(plan, t, u)
      BY <1>3 DEF Joins
    <2>5. Len(n) <= max
      BY <1>2, <2>3, <2>4
    <2>6. ASSUME NEW i \in DOMAIN n, NEW j \in DOMAIN n, i # j
          PROVE  Disjoint(plan, n[i], n[j]) /\ plan.files[n[i]] # {}
      <3>1. \A k \in DOMAIN n : k \in 1..Len(w) \/ k = Len(w) + 1
        BY <1>2, <2>3
      <3>2. CASE i \in 1..Len(w) /\ j \in 1..Len(w)
        BY <1>1, <1>2, <2>3, <2>6, <3>2 DEF Compatible
      <3>3. CASE i = Len(w) + 1 /\ j \in 1..Len(w)
        <4>1. n[i] = t /\ n[j] = w[j] /\ w[j] \in Range(w) /\ w # <<>>
          BY <1>2, <2>3, <3>3
        <4> QED
          BY <2>4, <4>1
      <3>4. CASE j = Len(w) + 1 /\ i \in 1..Len(w)
        <4>1. n[j] = t /\ n[i] = w[i] /\ w[i] \in Range(w)
          BY <1>2, <2>3, <3>4
        <4> QED
          BY <2>4, <4>1 DEF Disjoint
      <3> QED
        BY <2>6, <3>1, <3>2, <3>3, <3>4
    <2>7. Gathered(plan, max, n, T)
      BY <2>2, <2>5, <2>6 DEF Gathered, Compatible
    <2>8. ASSUME NEW u, IsKeptOut(plan, max, w, u) PROVE IsKeptOut(plan, max, n, u)
      <3> HIDE DEF n
      <3>0. Len(w) < max /\ Len(w) \in Nat
        BY <1>2, <2>4
      <3>1. Len(w) # max
        BY <3>0
      <3>2. PICK v \in Range(w) :
              /\ Precedes(plan, v, u)
              /\ ~Disjoint(plan, u, v) \/ plan.files[u] = {} \/ plan.files[v] = {}
        BY <2>8, <3>1, Zenon DEF IsKeptOut
      <3>3. v \in Range(n)
        BY <2>2
      <3> QED
        BY <3>2, <3>3, Zenon DEF IsKeptOut
    <2>9. n # <<>>
      BY <1>2, <2>3
    <2> QED
      BY <2>2, <2>7, <2>8, <2>9 DEF Fits
  <1>4. CASE ~Joins(plan, w, t, max)
    <2>1. n = w
      BY <1>4 DEF Joined
    <2>2. \/ ~(Len(w) < max)
          \/ plan.files[t] = {} /\ w # <<>>
          \/ \E u \in Range(w) : plan.files[u] = {} \/ ~Disjoint(plan, t, u)
      BY <1>4 DEF Joins
    <2>3. ~(Len(w) < max) => Len(w) = max
      <3> DEFINE l == Len(w)
      <3>1. l \in Nat /\ l <= max
        BY <1>1, <1>2
      <3> HIDE DEF l
      <3>2. ~(l < max) => l = max
        BY <3>1
      <3> QED
        BY <3>2 DEF l
    <2>4. w # <<>> => \E u \in Range(w) : TRUE
      <3>1. w # <<>> => 1 \in 1..Len(w)
        BY <1>2
      <3> QED
        BY <1>2, <3>1
    <2>5. IsKeptOut(plan, max, w, t)
      BY <2>2, <2>3, <2>4 DEF IsKeptOut
    <2>6. w # <<>>
      <3> SUFFICES ASSUME w = <<>> PROVE FALSE
        OBVIOUS
      <3>1. Range(w) = {} /\ Len(w) = 0
        BY <1>2 DEF Range
      <3> QED
        BY <2>2, <3>1
    <2> QED
      BY <2>1, <2>5, <2>6 DEF Fits
  <1> QED
    BY <1>3, <1>4

(* The next wave is safe and leaves out nothing that could join it, what-  *)
(* ever the plan and however many may run: what WaveIsRight of Scheduling  *)
(* says of the plans of its documents (dag.ts:29-56).                      *)
THEOREM NextWaveIsRight ==
  ASSUME NEW plan, NEW st, NEW max \in Nat \ {0}, NEW T,
         plan.order \in Seq(T), IsInjective(plan.order),
         \A t \in Range(plan.order) : plan.priority[t] \in {0, 1, 2},
         NEW w, w = NextWave(plan, st, max)
  PROVE  /\ w \in Seq(T)
         /\ IsSafeWave(plan, st, max, w) /\ IsGreedyWave(plan, st, max, w)
         /\ (\E t \in TasksOf(plan) : IsRunnable(plan, st, t)) => w # <<>>
  <1> DEFINE s == ParallelRunnableTasks(plan, st)
             N == Len(s)
             f == Gathering(plan, max, s)
             Upto(k) == {t \in T : \E i \in 1..k : s[i] = t}
             Good(k) == /\ Gathered(plan, max, f[1..k], T)
                        /\ Range(f[1..k]) \subseteq Upto(k)
                        /\ \A t \in Upto(k) \ Range(f[1..k]) : IsKeptOut(plan, max, f[1..k], t)
                        /\ k # 0 => f[1..k] # <<>>
             B == {k \in 0..N : ~Good(k)}
  <1>1. /\ s \in Seq(T) /\ IsInjective(s)
        /\ Range(s) = {t \in Range(plan.order) : IsRunnable(plan, st, t)}
        /\ Sorted(s, InWaves(plan, T))
    BY RunnableFacts
  <1>2. N \in Nat /\ DOMAIN s = 1..N /\ \A i \in 1..N : s[i] \in T
    BY <1>1
  <1>3. w = f[1..N]
    BY <1>2, NextWaveIs
  <1>4. /\ f[1..0] = <<>>
        /\ \A k \in 1..N : f[1..k] = Joined(plan, max, f[1..(k - 1)], s[k])
    BY <1>2, GatheringUnfold
  <1>5. \A i, j \in 1..N : s[i] = s[j] => i = j
    BY <1>1, <1>2 DEF IsInjective
  <1>6. Range(s) = Upto(N)
    BY <1>2 DEF Range
  <1> HIDE DEF s, N, f
  <1>7. B = {}
    <2> SUFFICES ASSUME B # {} PROVE FALSE
      OBVIOUS
    <2>1. B \subseteq Nat
      BY <1>2
    <2>2. PICK k \in B : \A j \in B : k <= j
      <3> HIDE DEF B
      <3> QED
        BY <2>1, Least
    <2>3. k # 0
      <3>1. Gathered(plan, max, <<>>, T) /\ Range(<<>>) = {}
        BY DEF Gathered, IsInjective, Compatible, Range
      <3>2. Upto(0) = {}
        OBVIOUS
      <3>3. Good(0)
        BY <1>4, <3>1, <3>2
      <3> QED
        BY <2>2, <3>3
    <2>4. k \in 1..N /\ k - 1 \in 0..N /\ k - 1 \notin B
      <3>1. k \in 0..N
        BY <2>2
      <3> HIDE DEF B
      <3>2. k \in 1..N /\ k - 1 \in 0..N /\ ~(k <= k - 1)
        BY <1>2, <2>3, <3>1
      <3> QED
        BY <2>2, <3>2
    <2>5. Good(k - 1)
      BY <2>4
    <2> DEFINE v == f[1..(k - 1)]
               n == f[1..k]
    <2>6. n = Joined(plan, max, v, s[k]) /\ s[k] \in T
      BY <1>2, <1>4, <2>4
    <2>7. \A i \in 1..k : i \in 1..(k - 1) \/ i = k
      BY <1>2, <2>4
    <2>8. 1..(k - 1) \subseteq 1..k /\ k \in 1..k
      BY <1>2, <2>4
    <2>9. Upto(k) = Upto(k - 1) \union {s[k]}
      BY <2>6, <2>7, <2>8
    <2>10. s[k] \notin Upto(k - 1)
      BY <1>2, <1>5, <2>4
    <2>11. /\ Gathered(plan, max, v, T) /\ Range(v) \subseteq Upto(k - 1)
           /\ \A t \in Upto(k - 1) \ Range(v) : IsKeptOut(plan, max, v, t)
      BY <2>5
    <2>16. \A u \in Upto(k - 1) : Precedes(plan, u, s[k])
      <3> TAKE u \in Upto(k - 1)
      <3>1. PICK i \in 1..(k - 1) : s[i] = u
        OBVIOUS
      <3>2. i \in DOMAIN s /\ k \in DOMAIN s /\ i < k
        BY <1>2, <2>4, <3>1
      <3> QED
        BY <1>1, <3>1, <3>2 DEF Sorted, InWaves
    <2> HIDE DEF v, n, Upto
    <2>12. s[k] \notin Range(v) /\ \A u \in Range(v) : Precedes(plan, u, s[k])
      BY <2>10, <2>11, <2>16
    <2>13. Fits(plan, max, T, v, s[k], n)
      BY <2>6, <2>11, <2>12, JoinedFacts
    <2>14. \A t \in Upto(k) \ Range(n) : IsKeptOut(plan, max, n, t)
      BY <2>9, <2>11, <2>13 DEF Fits
    <2>15. Good(k)
      BY <2>9, <2>11, <2>13, <2>14 DEF n, Fits
    <2> QED
      BY <2>2, <2>15
  <1>8. Good(N)
    <2>1. N \in 0..N
      BY <1>2
    <2> QED
      BY <1>7, <2>1
  <1>9. (\E t \in Range(plan.order) : IsRunnable(plan, st, t)) => N # 0
    BY <1>1, <1>2 DEF Range
  <1> HIDE DEF Upto
  <1>10. Gathered(plan, max, w, T) /\ Range(w) \subseteq Range(s)
    BY <1>3, <1>6, <1>8
  <1>11. \A t \in Range(s) \ Range(w) : IsKeptOut(plan, max, w, t)
    BY <1>3, <1>6, <1>8
  <1> QED
    BY <1>1, <1>3, <1>8, <1>9, <1>10, <1>11
    DEF Gathered, Compatible, IsSafeWave, IsGreedyWave, TasksOf

(***************************************************************************)
(* The cascade                                                             *)
(***************************************************************************)
Levels(f, plan, size) ==
  f = [n \in 0..size |->
         IF n = 0 THEN {}
         ELSE {t \in TasksOf(plan) : plan.dependsOn[t] \subseteq f[n-1]}]

Level(plan) == CHOOSE f : Levels(f, plan, Len(plan.order))

Reaches(f, plan, st, id, size) ==
  f = [n \in 0..size |->
         IF n = 0 THEN {id}
         ELSE f[n-1] \union
              {t \in TasksOf(plan) : /\ st[t] = "pending"
                                     /\ plan.dependsOn[t] \intersect f[n-1] # {}}]

Reach(plan, st, id) == CHOOSE f : Reaches(f, plan, st, id, Len(plan.order))

(* Acyclic, in terms of the function it chooses.                           *)
LEMMA AcyclicIs ==
  ASSUME NEW plan
  PROVE  Acyclic(plan) <=> Level(plan)[Len(plan.order)] = TasksOf(plan)
  BY DEF Acyclic, Level, Levels

(* Cascade, in terms of the function it chooses.                           *)
LEMMA CascadeIs ==
  ASSUME NEW plan, NEW st, NEW id
  PROVE  Cascade(plan, st, id) = Reach(plan, st, id)[Len(plan.order)] \ {id}
  BY DEF Cascade, Reach, Reaches

(* There is such a function for a plan of any size,                        *)
LEMMA LevelsExist ==
  ASSUME NEW plan, NEW size \in Nat
  PROVE  \E f : Levels(f, plan, size)
  <1> DEFINE T == {k \in Nat : ~\E f : Levels(f, plan, k)}
  <1>1. SUFFICES ASSUME T # {} PROVE FALSE
    OBVIOUS
  <1>10. T \subseteq Nat
    OBVIOUS
  <1>2. PICK k \in T : \A j \in T : k <= j
    <2> HIDE DEF T
    <2> QED
      BY <1>1, <1>10, Least
  <1>3. k # 0
    <2>1. Levels([n \in 0..0 |-> {}], plan, 0)
      BY DEF Levels
    <2> QED
      BY <2>1
  <1>4. k \in Nat \ {0} /\ k - 1 \in Nat /\ k - 1 \notin T
    BY <1>2, <1>3
  <1>5. PICK f : Levels(f, plan, k - 1)
    BY <1>4
  <1> DEFINE Above(S) == {t \in TasksOf(plan) : plan.dependsOn[t] \subseteq S}
             g == [n \in 0..k |-> IF n = k THEN Above(f[k - 1]) ELSE f[n]]
  <1>6. ASSUME NEW n \in 0..k PROVE g[n] = IF n = 0 THEN {} ELSE Above(g[n - 1])
    <2>1. n # 0 => n - 1 \in 0..(k - 1) /\ g[n - 1] = f[n - 1]
      BY <1>4
    <2>2. CASE n = k
      BY <1>4, <2>1, <2>2
    <2>3. CASE n # k
      <3>1. n \in 0..(k - 1)
        BY <1>4, <2>3
      <3>2. f[n] = IF n = 0 THEN {} ELSE Above(f[n - 1])
        BY <1>5, <3>1 DEF Levels
      <3> QED
        BY <2>1, <2>3, <3>2
    <2> QED
      BY <2>2, <2>3
  <1>7. Levels(g, plan, k)
    BY <1>6 DEF Levels
  <1> QED
    BY <1>2, <1>7

(* and one for what the cascade reaches.                                   *)
LEMMA ReachesExist ==
  ASSUME NEW plan, NEW st, NEW id, NEW size \in Nat
  PROVE  \E f : Reaches(f, plan, st, id, size)
  <1> DEFINE T == {k \in Nat : ~\E f : Reaches(f, plan, st, id, k)}
  <1>1. SUFFICES ASSUME T # {} PROVE FALSE
    OBVIOUS
  <1>10. T \subseteq Nat
    OBVIOUS
  <1>2. PICK k \in T : \A j \in T : k <= j
    <2> HIDE DEF T
    <2> QED
      BY <1>1, <1>10, Least
  <1>3. k # 0
    <2>1. Reaches([n \in 0..0 |-> {id}], plan, st, id, 0)
      BY DEF Reaches
    <2> QED
      BY <2>1
  <1>4. k \in Nat \ {0} /\ k - 1 \in Nat /\ k - 1 \notin T
    BY <1>2, <1>3
  <1>5. PICK f : Reaches(f, plan, st, id, k - 1)
    BY <1>4
  <1> DEFINE After(S) == S \union {t \in TasksOf(plan) : /\ st[t] = "pending"
                                                       /\ plan.dependsOn[t] \intersect S # {}}
             g == [n \in 0..k |-> IF n = k THEN After(f[k - 1]) ELSE f[n]]
  <1>6. ASSUME NEW n \in 0..k PROVE g[n] = IF n = 0 THEN {id} ELSE After(g[n - 1])
    <2>1. n # 0 => n - 1 \in 0..(k - 1) /\ g[n - 1] = f[n - 1]
      BY <1>4
    <2>2. CASE n = k
      BY <1>4, <2>1, <2>2
    <2>3. CASE n # k
      <3>1. n \in 0..(k - 1)
        BY <1>4, <2>3
      <3>2. f[n] = IF n = 0 THEN {id} ELSE After(f[n - 1])
        BY <1>5, <3>1 DEF Reaches
      <3> QED
        BY <2>1, <2>3, <3>2
    <2> QED
      BY <2>2, <2>3
  <1>7. Reaches(g, plan, st, id, k)
    BY <1>6 DEF Reaches
  <1> QED
    BY <1>2, <1>7

(* The equations that the two functions satisfy.                           *)
LEMMA LevelUnfold ==
  ASSUME NEW plan, Len(plan.order) \in Nat
  PROVE  /\ Level(plan)[0] = {}
         /\ \A n \in 1..Len(plan.order) :
              Level(plan)[n] = {t \in TasksOf(plan) : plan.dependsOn[t] \subseteq Level(plan)[n-1]}
  <1> DEFINE f == Level(plan)
             N == Len(plan.order)
  <1>1. Levels(f, plan, N)
    <2>1. \E g : Levels(g, plan, N)
      BY LevelsExist
    <2> QED
      BY <2>1, Zenon DEF Level
  <1> HIDE DEF f
  <1>2. f[0] = {}
    BY <1>1 DEF Levels
  <1>3. ASSUME NEW n \in 1..N
        PROVE  f[n] = {t \in TasksOf(plan) : plan.dependsOn[t] \subseteq f[n-1]}
    <2> HIDE DEF N
    <2>1. n \in 0..N /\ n # 0
      OBVIOUS
    <2> QED
      BY <1>1, <2>1 DEF Levels
  <1> QED
    BY <1>2, <1>3 DEF f

(* What the cascade has reached after n rounds.                            *)
LEMMA ReachUnfold ==
  ASSUME NEW plan, NEW st, NEW id, Len(plan.order) \in Nat
  PROVE  /\ Reach(plan, st, id)[0] = {id}
         /\ \A n \in 1..Len(plan.order) :
              Reach(plan, st, id)[n] =
                Reach(plan, st, id)[n-1] \union
                {t \in TasksOf(plan) : /\ st[t] = "pending"
                                       /\ plan.dependsOn[t] \intersect Reach(plan, st, id)[n-1] # {}}
  <1> DEFINE f == Reach(plan, st, id)
             N == Len(plan.order)
  <1>1. Reaches(f, plan, st, id, N)
    <2>1. \E g : Reaches(g, plan, st, id, N)
      BY ReachesExist
    <2> QED
      BY <2>1, Zenon DEF Reach
  <1> HIDE DEF f
  <1>2. f[0] = {id}
    BY <1>1 DEF Reaches
  <1>3. ASSUME NEW n \in 1..N
        PROVE  f[n] = f[n-1] \union
                      {t \in TasksOf(plan) : /\ st[t] = "pending"
                                             /\ plan.dependsOn[t] \intersect f[n-1] # {}}
    <2> HIDE DEF N
    <2>1. n \in 0..N /\ n # 0
      OBVIOUS
    <2> QED
      BY <1>1, <2>1 DEF Reaches
  <1> QED
    BY <1>2, <1>3 DEF f

(* Of the tasks of an acyclic plan none are such that each needs another.  *)
LEMMA NoKnot ==
  ASSUME NEW plan, Len(plan.order) \in Nat, Acyclic(plan),
         NEW P \in SUBSET TasksOf(plan),
         \A t \in P : plan.dependsOn[t] \cap P # {}
  PROVE  P = {}
  <1> DEFINE f == Level(plan)
             N == Len(plan.order)
             B == {n \in 0..N : f[n] \cap P # {}}
  <1>1. /\ f[0] = {}
        /\ \A n \in 1..N : f[n] = {t \in TasksOf(plan) : plan.dependsOn[t] \subseteq f[n-1]}
    BY LevelUnfold
  <1>2. f[N] = TasksOf(plan) /\ N \in Nat
    BY AcyclicIs
  <1> HIDE DEF f, N
  <1>3. B = {}
    <2> SUFFICES ASSUME B # {} PROVE FALSE
      OBVIOUS
    <2>1. B \subseteq Nat
      BY <1>2
    <2>2. PICK n \in B : \A j \in B : n <= j
      <3> HIDE DEF B
      <3> QED
        BY <2>1, Least
    <2>3. n \in 0..N /\ f[n] \cap P # {}
      BY <2>2
    <2>4. n # 0
      BY <1>1, <2>3
    <2>5. n \in 1..N /\ n - 1 \in 0..N /\ ~(n <= n - 1)
      BY <1>2, <2>3, <2>4
    <2>6. f[n-1] \cap P = {}
      BY <2>2, <2>5
    <2>7. PICK t \in P : plan.dependsOn[t] \subseteq f[n-1]
      BY <1>1, <2>3, <2>5
    <2> QED
      BY <2>6, <2>7
  <1>4. N \in 0..N
    BY <1>2
  <1> QED
    BY <1>2, <1>3, <1>4

(* The sets grow, and have stopped growing at the last.                    *)
LEMMA ReachGrows ==
  ASSUME NEW plan, NEW st, NEW id, Len(plan.order) \in Nat, NEW n \in 0..Len(plan.order)
  PROVE  Reach(plan, st, id)[n] \subseteq Reach(plan, st, id)[Len(plan.order)]
  <1> DEFINE f == Reach(plan, st, id)
             N == Len(plan.order)
             M == {k \in Nat : k <= N - n /\ ~(f[n] \subseteq f[n + k])}
  <1>1. \A k \in 1..N : f[k-1] \subseteq f[k]
    BY ReachUnfold
  <1>2. N \in Nat /\ n \in 0..N
    OBVIOUS
  <1> HIDE DEF f, N
  <1>3. M = {}
    <2> SUFFICES ASSUME M # {} PROVE FALSE
      OBVIOUS
    <2>1. M \subseteq Nat
      OBVIOUS
    <2>2. PICK k \in M : \A j \in M : k <= j
      <3> HIDE DEF M
      <3> QED
        BY <2>1, Least
    <2>3. k \in Nat /\ k <= N - n /\ ~(f[n] \subseteq f[n + k])
      BY <2>2
    <2>4. k # 0
      BY <1>2, <2>3
    <2>5. k - 1 \in Nat /\ k - 1 <= N - n /\ ~(k <= k - 1) /\ n + k \in 1..N
          /\ (n + k) - 1 = n + (k - 1)
      BY <1>2, <2>3, <2>4
    <2>6. f[n] \subseteq f[n + (k - 1)]
      BY <2>2, <2>5
    <2> QED
      BY <1>1, <2>3, <2>5, <2>6
  <1>4. N - n \in Nat /\ n + (N - n) = N /\ N - n <= N - n
    BY <1>2
  <1>5. f[n] \subseteq f[N]
    BY <1>3, <1>4
  <1> QED
    BY <1>5 DEF f, N

(* The last round reaches no task that was not reached before: of what is  *)
(* reached for the first time in round n, nothing is in the first n levels *)
(* of the plan.                                                            *)
LEMMA ReachStops ==
  ASSUME NEW plan, NEW st, NEW id, Len(plan.order) \in Nat \ {0}, Acyclic(plan),
         id \in TasksOf(plan)
  PROVE  LET N == Len(plan.order) IN
         Reach(plan, st, id)[N] = Reach(plan, st, id)[N - 1]
  <1> DEFINE f == Reach(plan, st, id)
             g == Level(plan)
             N == Len(plan.order)
             After(S) == {t \in TasksOf(plan) : /\ st[t] = "pending"
                                               /\ plan.dependsOn[t] \intersect S # {}}
             B == {n \in 1..N : ~((f[n] \ f[n-1]) \cap g[n] = {})}
  <1>1. f[0] = {id} /\ \A n \in 1..N : f[n] = f[n-1] \union After(f[n-1])
    BY ReachUnfold
  <1>2. /\ g[0] = {}
        /\ \A n \in 1..N : g[n] = {t \in TasksOf(plan) : plan.dependsOn[t] \subseteq g[n-1]}
    BY LevelUnfold
  <1>3. N \in Nat /\ N \in 1..N /\ g[N] = TasksOf(plan)
    BY AcyclicIs
  <1> HIDE DEF f, g, N
  <1>4. B = {}
    <2> SUFFICES ASSUME B # {} PROVE FALSE
      OBVIOUS
    <2>1. B \subseteq Nat
      BY <1>3
    <2>2. PICK n \in B : \A j \in B : n <= j
      <3> HIDE DEF B
      <3> QED
        BY <2>1, Least
    <2>3. n \in 1..N /\ n \in Nat
      BY <1>3, <2>2
    <2>4. PICK t \in f[n] \ f[n-1] : t \in g[n]
      BY <2>2
    <2>5. t \in After(f[n-1]) /\ plan.dependsOn[t] \subseteq g[n-1]
      BY <1>1, <1>2, <2>3, <2>4
    <2>6. PICK d \in plan.dependsOn[t] : d \in f[n-1]
      BY <2>5
    <2>7. CASE n = 1
      BY <1>2, <2>5, <2>6, <2>7
    <2>8. CASE n # 1
      <3>1. n - 1 \in 1..N /\ ~(n <= n - 1)
        BY <1>3, <2>3, <2>8
      <3>2. (f[n-1] \ f[(n-1)-1]) \cap g[n-1] = {}
        BY <2>2, <3>1
      <3>3. d \in f[(n-1)-1]
        BY <2>5, <2>6, <3>2
      <3>4. t \in f[n-1]
        BY <1>1, <2>5, <2>6, <3>1, <3>3
      <3> QED
        BY <2>4, <3>4
    <2> QED
      BY <2>7, <2>8
  <1>5. f[N] \ f[N-1] \subseteq TasksOf(plan)
    BY <1>1, <1>3
  <1>6. (f[N] \ f[N-1]) \cap g[N] = {}
    BY <1>3, <1>4
  <1>7. f[N-1] \subseteq f[N]
    BY <1>1, <1>3
  <1>8. f[N] = f[N-1]
    BY <1>3, <1>5, <1>6, <1>7
  <1> QED
    BY <1>8 DEF f, N

(* The cascade takes everything that needs what it has taken, and nothing  *)
(* else: no task is left pending for ever, none that could still run is    *)
(* skipped (dag.ts:58-79).                                                 *)
THEOREM CascadeIsExact ==
  ASSUME NEW plan, NEW st, NEW id \in TasksOf(plan),
         Len(plan.order) \in Nat \ {0}, Acyclic(plan),
         NEW c, c = Cascade(plan, st, id)
  PROVE  /\ c \subseteq TasksOf(plan) \ {id}
         /\ \A t \in TasksOf(plan) \ {id} :
              t \in c <=> /\ st[t] = "pending"
                         /\ plan.dependsOn[t] \cap (c \union {id}) # {}
  <1> DEFINE f == Reach(plan, st, id)
             N == Len(plan.order)
             After(S) == {t \in TasksOf(plan) : /\ st[t] = "pending"
                                               /\ plan.dependsOn[t] \intersect S # {}}
  <1>1. f[0] = {id} /\ \A n \in 1..N : f[n] = f[n-1] \union After(f[n-1])
    BY ReachUnfold
  <1>2. N \in Nat /\ N \in 1..N /\ 0 \in 0..N
    OBVIOUS
  <1>3. f[N] = f[N-1]
    BY ReachStops
  <1>4. \A n \in 0..N : f[n] \subseteq f[N]
    BY ReachGrows
  <1>5. c = f[N] \ {id}
    BY CascadeIs
  <1> HIDE DEF f, N
  <1>6. id \in f[N] /\ c \union {id} = f[N]
    BY <1>1, <1>2, <1>4, <1>5
  <1>7. \A t \in After(f[N]) : t \in f[N]
    BY <1>1, <1>2, <1>3
  <1>8. ASSUME NEW t \in f[N], t # id PROVE t \in After(f[N])
    <2> DEFINE B == {n \in 0..N : t \in f[n]}
    <2>1. N \in B /\ B \subseteq Nat
      BY <1>2, <1>8
    <2>2. PICK n \in B : \A j \in B : n <= j
      <3> HIDE DEF B
      <3> QED
        BY <2>1, Least
    <2>3. n \in 0..N /\ t \in f[n] /\ n # 0
      BY <1>1, <1>8, <2>2
    <2>4. n \in 1..N /\ n - 1 \in 0..N /\ ~(n <= n - 1)
      BY <1>2, <2>3
    <2>5. t \notin f[n-1]
      BY <2>2, <2>4
    <2>6. t \in After(f[n-1])
      BY <1>1, <2>3, <2>4, <2>5
    <2> QED
      BY <1>4, <2>4, <2>6
  <1> QED
    BY <1>5, <1>6, <1>7, <1>8

(***************************************************************************)
(* What preflight finds, for every document (plan-preflight.ts).           *)
(***************************************************************************)
(* A bounded set of numbers has a greatest one.                            *)
LEMMA Greatest ==
  ASSUME NEW N \in Nat, NEW T \in SUBSET (0..N), T # {}
  PROVE  \E n \in T : \A k \in T : k <= n
  <1> DEFINE M == {m \in Nat : N - m \in T}
  <1>1. M \subseteq Nat
    OBVIOUS
  <1>2. M # {}
    <2>1. PICK k \in T : TRUE
      OBVIOUS
    <2>2. k \in 0..N /\ N - k \in Nat /\ N - (N - k) = k
      BY <2>1
    <2> QED
      BY <2>1, <2>2
  <1>3. PICK m \in M : \A j \in M : m <= j
    <2> HIDE DEF M
    <2> QED
      BY <1>1, <1>2, Least
  <1>4. m \in Nat /\ N - m \in T
    BY <1>3
  <1>5. ASSUME NEW k \in T PROVE k <= N - m
    <2>1. k \in 0..N /\ N - k \in Nat /\ N - (N - k) = k
      OBVIOUS
    <2>2. N - k \in M
      BY <2>1
    <2>3. m <= N - k
      BY <1>3, <2>2
    <2> QED
      BY <1>4, <2>1, <2>3
  <1> QED
    BY <1>4, <1>5

(* What holds at 0, and with k - 1 at k, holds up to N.                    *)
LEMMA UpTo ==
  ASSUME NEW N \in Nat, NEW P, 0 \in P, \A k \in 1..N : k - 1 \in P => k \in P
  PROVE  \A k \in 0..N : k \in P
  <1> DEFINE B == {k \in 0..N : k \notin P}
  <1> SUFFICES ASSUME B # {} PROVE FALSE
    OBVIOUS
  <1>1. B \subseteq Nat
    OBVIOUS
  <1>2. PICK k \in B : \A j \in B : k <= j
    <2> HIDE DEF B
    <2> QED
      BY <1>1, Least
  <1>3. k \in 0..N /\ k \notin P /\ k # 0
    BY <1>2
  <1>4. k \in 1..N /\ k - 1 \in 0..N /\ ~(k <= k - 1)
    BY <1>3
  <1>5. k - 1 \in P
    BY <1>2, <1>4
  <1> QED
    BY <1>3, <1>4, <1>5

LEMMA AtLast ==
  ASSUME NEW N \in Nat, NEW P, 0 \in P, \A k \in 1..N : k - 1 \in P => k \in P
  PROVE  N \in P
  <1>1. \A k \in 0..N : k \in P
    BY UpTo
  <1> QED
    BY <1>1

(* A function on 1..n is a sequence; the end of one is another.            *)
LEMMA IsSeq ==
  ASSUME NEW S, NEW n \in Nat, NEW f \in [1..n -> S]
  PROVE  f \in Seq(S) /\ Len(f) = n
  OBVIOUS

LEMMA SubSeqFacts ==
  ASSUME NEW S, NEW s \in Seq(S), NEW m \in 1..Len(s)
  PROVE  LET e == SubSeq(s, m, Len(s)) IN
         /\ e \in Seq(S) /\ Len(e) = Len(s) - m + 1
         /\ \A i \in 1..(Len(s) - m + 1) : e[i] = s[m + i - 1]
  OBVIOUS

LEMMA SameSeq ==
  ASSUME NEW S, NEW s \in Seq(S), NEW t \in Seq(S), Len(s) = Len(t),
         \A i \in 1..Len(s) : s[i] = t[i]
  PROVE  s = t
  OBVIOUS

(* No tasks of S are such that each needs another of them.                 *)
HasNoKnot(plan, S) ==
  \A K \in SUBSET S : (\A t \in K : plan.dependsOn[t] \cap K # {}) => K = {}

(* A sequence has no more elements than places.                            *)
LEMMA RangeIsSmall ==
  ASSUME NEW T, NEW s \in Seq(T)
  PROVE  IsFiniteSet(Range(s)) /\ Cardinality(Range(s)) \in Nat /\ Cardinality(Range(s)) <= Len(s)
  <1>1. DOMAIN s = 1..Len(s) /\ Len(s) \in Nat
    OBVIOUS
  <1>2. IsFiniteSet(1..Len(s)) /\ Cardinality(1..Len(s)) = Len(s)
    BY <1>1, FS_Interval
  <1>3. s \in Surjection(1..Len(s), Range(s))
    BY <1>1 DEF Range, Surjection
  <1>4. IsFiniteSet(Range(s)) /\ Cardinality(Range(s)) <= Cardinality(1..Len(s))
    BY <1>2, <1>3, FS_Surjection, Zenon
  <1> QED
    BY <1>1, <1>2, <1>4, FS_CardinalityType

(* A plan is acyclic exactly when it has no such tasks: as long as a level *)
(* is not all of them it has a task less than the next.                    *)
LEMMA AcyclicMeansNoKnot ==
  ASSUME NEW plan, NEW T, plan.order \in Seq(T),
         \A t \in TasksOf(plan) : plan.dependsOn[t] \subseteq TasksOf(plan)
  PROVE  Acyclic(plan) <=> HasNoKnot(plan, TasksOf(plan))
  <1> DEFINE f == Level(plan)
             N == Len(plan.order)
             A == TasksOf(plan)
             P == {n \in 0..N : f[n] \subseteq A /\ (f[n] = A \/ Cardinality(f[n]) >= n)}
             Q == {n \in 0..N : n = 0 \/ f[n-1] \subseteq f[n]}
  <1>1. N \in Nat
    OBVIOUS
  <1>2. /\ f[0] = {}
        /\ \A n \in 1..N : f[n] = {t \in A : plan.dependsOn[t] \subseteq f[n-1]}
    BY <1>1, LevelUnfold
  <1>3. Acyclic(plan) <=> f[N] = A
    BY AcyclicIs
  <1>4. Acyclic(plan) => HasNoKnot(plan, A)
    BY <1>1, NoKnot DEF HasNoKnot
  <1>5. IsFiniteSet(A) /\ Cardinality(A) \in Nat /\ Cardinality(A) <= N
    BY RangeIsSmall DEF TasksOf
  <1> HIDE DEF f, N
  <1>6. ASSUME HasNoKnot(plan, A) PROVE f[N] = A
    <2>1. \A n \in 0..N : n \in Q
      <3>1. 0 \in Q
        BY <1>1
      <3>2. ASSUME NEW n \in 1..N, n - 1 \in Q PROVE n \in Q
        <4>1. n = 1 \/ n - 1 \in 1..N
          BY <1>1
        <4>2. CASE n = 1
          BY <1>1, <1>2, <4>2
        <4>3. CASE n - 1 \in 1..N
          <5>1. f[(n-1)-1] \subseteq f[n-1]
            BY <3>2, <4>3
          <5>2. f[n-1] \subseteq f[n]
            BY <1>2, <4>3, <5>1
          <5> QED
            BY <5>2
        <4> QED
          BY <4>1, <4>2, <4>3
      <3> HIDE DEF Q
      <3> QED
        BY <1>1, <3>1, <3>2, UpTo
    <2>2. 0 \in P
      <3>1. f[0] = {} /\ Cardinality(f[0]) = 0 /\ 0 \in 0..N
        BY <1>1, <1>2, FS_EmptySet
      <3>2. f[0] \subseteq A /\ Cardinality(f[0]) >= 0
        BY <3>1
      <3> QED
        BY <3>1, <3>2
    <2>3. ASSUME NEW n \in 1..N, n - 1 \in P PROVE n \in P
      <3>1. f[n-1] \subseteq f[n] /\ f[n] \subseteq A
        <4>1. n \in Q /\ n # 0
          BY <1>1, <2>1
        <4> QED
          BY <1>2, <4>1
      <3>2. CASE f[n-1] = A
        BY <3>1, <3>2
      <3>3. CASE f[n-1] # A
        <4>1. f[n-1] \subseteq A /\ Cardinality(f[n-1]) >= n - 1
          BY <2>3, <3>3
        <4> DEFINE K == A \ f[n-1]
        <4>2. PICK t \in K : plan.dependsOn[t] \cap K = {}
          <5>1. K \in SUBSET A /\ K # {}
            BY <3>3, <4>1
          <5> HIDE DEF K
          <5> QED
            BY <1>6, <5>1 DEF HasNoKnot
        <4>3. t \in A /\ t \notin f[n-1] /\ plan.dependsOn[t] \subseteq f[n-1]
          BY <4>2
        <4>4. t \in f[n]
          BY <1>2, <4>3
        <4>5. /\ IsFiniteSet(f[n]) /\ IsFiniteSet(f[n-1])
              /\ Cardinality(f[n]) \in Nat /\ Cardinality(f[n-1]) \in Nat
          BY <1>5, <3>1, <4>1, FS_Subset, FS_CardinalityType
        <4>6. /\ IsFiniteSet(f[n-1] \cup {t})
              /\ Cardinality(f[n-1] \cup {t}) = Cardinality(f[n-1]) + 1
          BY <4>3, <4>5, FS_AddElement
        <4>7. Cardinality(f[n-1] \cup {t}) <= Cardinality(f[n])
          <5>1. f[n-1] \cup {t} \in SUBSET f[n]
            BY <3>1, <4>4
          <5> QED
            BY <4>5, <5>1, FS_Subset
        <4>8. Cardinality(f[n]) >= n
          BY <4>1, <4>5, <4>6, <4>7
        <4> QED
          BY <3>1, <4>8
      <3> QED
        BY <3>2, <3>3
    <2>4. N \in P
      <3> HIDE DEF P
      <3>1. N \in Nat /\ 0 \in P /\ \A n \in 1..N : n - 1 \in P => n \in P
        BY <1>1, <2>2, <2>3
      <3> QED
        BY <3>1, AtLast
    <2>5. CASE f[N] # A
      <3>1. f[N] \in SUBSET A /\ Cardinality(f[N]) >= N
        BY <2>4, <2>5
      <3>2. Cardinality(f[N]) <= Cardinality(A) /\ Cardinality(f[N]) \in Nat
        BY <1>5, <3>1, FS_Subset, FS_CardinalityType
      <3>3. Cardinality(f[N]) = Cardinality(A)
        BY <1>1, <1>5, <3>1, <3>2
      <3> QED
        BY <1>5, <3>1, <3>3, FS_Subset
    <2> QED
      BY <2>5
  <1> QED
    BY <1>3, <1>4, <1>6 DEF f

(* The sets 1..k, from the last of them down.                              *)
LEMMA PrefixFacts ==
  ASSUME NEW n \in Nat, NEW k \in 1..n
  PROVE  1..k \in SUBSET (1..n) /\ 1..k # {} /\ Max(1..k) = k /\ (1..k) \ {k} = 1..(k - 1)
  <1>1. k \in Nat \ {0} /\ k \in 1..k /\ 1..k \in SUBSET (1..k)
    OBVIOUS
  <1>2. Max(1..k) = k
    BY <1>1, MaxOfPrefix
  <1>3. (1..k) \ {k} = 1..(k - 1)
    OBVIOUS
  <1> QED
    BY <1>1, <1>2, <1>3

(* A visit before its loop, and after.                                     *)
Entered(s, id) == [s EXCEPT !.marks[id] = "visiting", !.stack = Append(@, id)]

Left(s, id) == [s EXCEPT !.stack = Front(@), !.marks[id] = "done"]

Returned(a, id) == IF a.cycle # <<>> THEN a ELSE Left(a, id)

(* The loop of visit: the search after the first k dependencies of id. *)
FollowsBy(f, tasks, deeper, id, s, S) ==
  f = [z \in SUBSET S |->
         IF z = {} THEN Entered(s, id)
         ELSE Follow(tasks, deeper, id, f[z \ {Max(z)}], DependsOn(tasks, id)[Max(z)])]

FollowsAt(tasks, deeper, id, s, k) ==
  (CHOOSE f : FollowsBy(f, tasks, deeper, id, s, DOMAIN DependsOn(tasks, id)))[1..k]

LEMMA FollowsExists ==
  ASSUME NEW tasks, NEW deeper, NEW id, NEW s, NEW size \in Nat
  PROVE  \E f : FollowsBy(f, tasks, deeper, id, s, 1..size)
  <1> DEFINE T == {k \in 0..size : \E f : FollowsBy(f, tasks, deeper, id, s, 1..k)}
  <1>1. 0 \in T
    <2>1. FollowsBy([z \in SUBSET {} |-> Entered(s, id)], tasks, deeper, id, s, {}) /\ 1..0 = {}
      BY DEF FollowsBy
    <2> QED
      BY <2>1
  <1>2. ASSUME NEW k \in 1..size, k - 1 \in T PROVE k \in T
    <2>1. PICK f : FollowsBy(f, tasks, deeper, id, s, 1..(k - 1))
      BY <1>2
    <2>2. k \in Nat \ {0}
      OBVIOUS
    <2> DEFINE g == [z \in SUBSET (1..k) |->
                       IF k \in z THEN Follow(tasks, deeper, id, f[z \ {k}], DependsOn(tasks, id)[k]) ELSE f[z]]
    <2>3. ASSUME NEW z \in SUBSET (1..k)
          PROVE  g[z] = IF z = {} THEN Entered(s, id)
                        ELSE Follow(tasks, deeper, id, g[z \ {Max(z)}], DependsOn(tasks, id)[Max(z)])
      <3>1. CASE k \in z
        <4>1. Max(z) = k
          BY <2>2, <3>1, MaxOfPrefix
        <4>2. g[z \ {k}] = f[z \ {k}] /\ z # {}
          BY <3>1
        <4>3. g[z] = Follow(tasks, deeper, id, f[z \ {k}], DependsOn(tasks, id)[k])
          BY <3>1
        <4> QED
          BY <4>1, <4>2, <4>3
      <3>2. CASE k \notin z
        <4>1. z \in SUBSET (1..(k - 1)) /\ g[z] = f[z]
          BY <2>2, <3>2
        <4>2. g[z \ {Max(z)}] = f[z \ {Max(z)}]
          BY <3>2
        <4>3. f[z] = IF z = {} THEN Entered(s, id)
                     ELSE Follow(tasks, deeper, id, f[z \ {Max(z)}], DependsOn(tasks, id)[Max(z)])
          BY <2>1, <4>1 DEF FollowsBy
        <4> QED
          BY <4>1, <4>2, <4>3
      <3> QED
        BY <3>1, <3>2
    <2>4. FollowsBy(g, tasks, deeper, id, s, 1..k)
      BY <2>3 DEF FollowsBy
    <2> QED
      BY <2>4
  <1> HIDE DEF T
  <1>3. 0 \in T /\ \A k \in 1..size : k - 1 \in T => k \in T
    BY <1>1, <1>2
  <1>4. size \in T
    BY <1>3, AtLast
  <1> QED
    BY <1>4 DEF T

FollowsTo(tasks, deeper, id, s, n) ==
  /\ FollowsAt(tasks, deeper, id, s, 0) = Entered(s, id)
  /\ \A k \in 1..n :
       FollowsAt(tasks, deeper, id, s, k) = Follow(tasks, deeper, id, FollowsAt(tasks, deeper, id, s, k - 1), DependsOn(tasks, id)[k])
  /\ VisitWith(tasks, deeper, id, s) = Returned(FollowsAt(tasks, deeper, id, s, n), id)

LEMMA FollowsUnfold ==
  ASSUME NEW tasks, NEW deeper, NEW id, NEW s, NEW n \in Nat, DOMAIN DependsOn(tasks, id) = 1..n
  PROVE  FollowsTo(tasks, deeper, id, s, n)
  <1> DEFINE f == CHOOSE h : FollowsBy(h, tasks, deeper, id, s, DOMAIN DependsOn(tasks, id))
  <1>1. FollowsBy(f, tasks, deeper, id, s, 1..n)
    <2>1. \E h : FollowsBy(h, tasks, deeper, id, s, 1..n)
      BY FollowsExists
    <2> QED
      BY <2>1, Zenon
  <1>2. \A k : FollowsAt(tasks, deeper, id, s, k) = f[1..k]
    BY DEF FollowsAt
  <1>3. VisitWith(tasks, deeper, id, s) = Returned(FollowsAt(tasks, deeper, id, s, n), id)
    BY DEF FollowsBy, FollowsAt, FoldLeft, MapThenFoldSet, VisitWith, Entered, Left, Returned
  <1> HIDE DEF f
  <1>4. f[1..0] = Entered(s, id)
    BY <1>1 DEF FollowsBy
  <1>5. ASSUME NEW k \in 1..n
        PROVE  f[1..k] = Follow(tasks, deeper, id, f[1..(k - 1)], DependsOn(tasks, id)[k])
    <2>1. 1..k \in SUBSET (1..n) /\ 1..k # {} /\ Max(1..k) = k /\ (1..k) \ {k} = 1..(k - 1)
      BY PrefixFacts
    <2> QED
      BY <1>1, <2>1 DEF FollowsBy
  <1> QED
    BY <1>2, <1>3, <1>4, <1>5 DEF FollowsTo


(* Visit, as the function on the number of calls that may be nested.       *)
VisitsBy(f, tasks, size) ==
  f = [n \in 0..size |->
         [s \in Searches(tasks) |-> [id \in IdsOf(tasks) |->
            IF n = 0 THEN s ELSE VisitWith(tasks, f[n-1], id, s)]]]

VisitUpTo(tasks) == CHOOSE f : VisitsBy(f, tasks, Len(tasks))

LEMMA VisitsExist ==
  ASSUME NEW tasks, NEW size \in Nat
  PROVE  \E f : VisitsBy(f, tasks, size)
  <1> DEFINE T == {k \in 0..size : \E f : VisitsBy(f, tasks, k)}
  <1>1. 0 \in T
    <2>1. VisitsBy([n \in 0..0 |-> [s \in Searches(tasks) |-> [id \in IdsOf(tasks) |-> s]]],
                   tasks, 0)
      BY DEF VisitsBy
    <2> QED
      BY <2>1
  <1>2. ASSUME NEW k \in 1..size, k - 1 \in T PROVE k \in T
    <2>1. PICK f : VisitsBy(f, tasks, k - 1)
      BY <1>2
    <2> DEFINE Above(n, d) == [s \in Searches(tasks) |-> [id \in IdsOf(tasks) |->
                                 IF n = 0 THEN s ELSE VisitWith(tasks, d, id, s)]]
               g == [n \in 0..k |-> IF n = k THEN Above(k, f[k-1]) ELSE f[n]]
    <2>2. ASSUME NEW n \in 0..k PROVE g[n] = Above(n, g[n-1])
      <3>1. n # 0 => n - 1 \in 0..(k - 1) /\ g[n-1] = f[n-1]
        OBVIOUS
      <3>2. CASE n = k
        BY <3>1, <3>2
      <3>3. CASE n # k
        <4>1. n \in 0..(k - 1) /\ g[n] = f[n]
          BY <3>3
        <4>2. f[n] = Above(n, f[n-1])
          BY <2>1, <4>1 DEF VisitsBy
        <4>3. CASE n = 0
          BY <4>1, <4>2, <4>3
        <4>4. CASE n # 0
          BY <3>1, <4>1, <4>2, <4>4
        <4> QED
          BY <4>3, <4>4
      <3> QED
        BY <3>2, <3>3
    <2>3. VisitsBy(g, tasks, k)
      BY <2>2 DEF VisitsBy
    <2> QED
      BY <2>3
  <1> HIDE DEF T
  <1>3. 0 \in T /\ \A k \in 1..size : k - 1 \in T => k \in T
    BY <1>1, <1>2
  <1>4. size \in T
    BY <1>3, AtLast
  <1> QED
    BY <1>4 DEF T

LEMMA VisitUnfold ==
  ASSUME NEW tasks, Len(tasks) \in Nat
  PROVE  /\ Visit(tasks) = VisitUpTo(tasks)[Len(tasks)]
         /\ \A n \in 1..Len(tasks), s \in Searches(tasks), id \in IdsOf(tasks) :
              VisitUpTo(tasks)[n][s][id] = VisitWith(tasks, VisitUpTo(tasks)[n-1], id, s)
  <1> DEFINE f == VisitUpTo(tasks)
             N == Len(tasks)
  <1>1. VisitsBy(f, tasks, N)
    <2>1. \E g : VisitsBy(g, tasks, N)
      BY VisitsExist
    <2> QED
      BY <2>1, Zenon DEF VisitUpTo
  <1>2. Visit(tasks) = f[N]
    BY DEF Visit, VisitUpTo, VisitsBy
  <1> HIDE DEF f
  <1>3. ASSUME NEW n \in 1..N, NEW s \in Searches(tasks), NEW id \in IdsOf(tasks)
        PROVE  f[n][s][id] = VisitWith(tasks, f[n-1], id, s)
    <2> HIDE DEF N
    <2>1. n \in 0..N /\ n # 0
      OBVIOUS
    <2>2. f[n] = [z \in Searches(tasks) |-> [x \in IdsOf(tasks) |->
                    IF n = 0 THEN z ELSE VisitWith(tasks, f[n-1], x, z)]]
      BY <1>1, <2>1, Zenon DEF VisitsBy
    <2>3. f[n][s] = [x \in IdsOf(tasks) |-> IF n = 0 THEN s ELSE VisitWith(tasks, f[n-1], x, s)]
      BY <2>2
    <2> QED
      BY <2>1, <2>3
  <1> QED
    BY <1>2, <1>3 DEF f

(***************************************************************************)
(* The tasks of a document, and what each depends on                       *)
(***************************************************************************)
LEMMA TasksFacts ==
  ASSUME NEW tasks \in Seq(PlanTask)
  PROVE  /\ Len(tasks) \in Nat /\ DOMAIN tasks = 1..Len(tasks)
         /\ \A i \in DOMAIN tasks : tasks[i] \in PlanTask
         /\ \A i \in DOMAIN tasks : tasks[i].id \in Names /\ tasks[i].id \in IdsOf(tasks)
  <1>1. /\ Len(tasks) \in Nat /\ DOMAIN tasks = 1..Len(tasks)
        /\ \A i \in DOMAIN tasks : tasks[i] \in PlanTask
    OBVIOUS
  <1>2. ASSUME NEW t \in PlanTask PROVE t.id \in Names
    BY DEF PlanTask
  <1> QED
    BY <1>1, <1>2 DEF IdsOf

(* The sequence of the ids.                                                *)
LEMMA IdsFacts ==
  ASSUME NEW tasks \in Seq(PlanTask), NEW s, s = [i \in DOMAIN tasks |-> tasks[i].id]
  PROVE  s \in Seq(Names) /\ Len(s) = Len(tasks) /\ Range(s) = IdsOf(tasks)
  <1> DEFINE n == Len(tasks)
  <1>1. n \in Nat /\ DOMAIN tasks = 1..n /\ \A i \in 1..n : tasks[i].id \in Names
    BY TasksFacts
  <1> HIDE DEF n
  <1>2. s \in [1..n -> Names]
    BY <1>1
  <1>3. s \in Seq(Names) /\ Len(s) = n
    BY <1>1, <1>2, IsSeq
  <1>4. DOMAIN s = DOMAIN tasks /\ \A i \in DOMAIN tasks : s[i] = tasks[i].id
    OBVIOUS
  <1>5. Range(s) = IdsOf(tasks)
    BY <1>4 DEF Range, IdsOf
  <1> QED
    BY <1>3, <1>5 DEF n

(* The last task of an id, and what DependsOn takes from it.               *)
LEMMA DependsOnFacts ==
  ASSUME NEW tasks \in Seq(PlanTask), NEW id \in IdsOf(tasks)
  PROVE  /\ \E i \in DOMAIN tasks : tasks[i].id = id /\ DependsOn(tasks, id) = tasks[i].dependsOn
         /\ DependsOn(tasks, id) \in Seq(Names)
  <1> DEFINE T == {i \in DOMAIN tasks : tasks[i].id = id}
             Is(i) == i \in T /\ \A j \in DOMAIN tasks : tasks[j].id = id => j <= i
             last == CHOOSE i \in DOMAIN tasks :
                       tasks[i].id = id /\ \A j \in DOMAIN tasks : tasks[j].id = id => j <= i
  <1>1. T # {} /\ T \in SUBSET (0..Len(tasks)) /\ Len(tasks) \in Nat
    BY DEF IdsOf
  <1>2. \E n \in T : \A k \in T : k <= n
    <2> HIDE DEF T
    <2> QED
      BY <1>1, Greatest
  <1>3. last \in DOMAIN tasks /\ tasks[last].id = id
    BY <1>2, Zenon
  <1>4. DependsOn(tasks, id) = tasks[last].dependsOn
    BY DEF DependsOn
  <1> HIDE DEF last
  <1>5. tasks[last] \in PlanTask
    BY <1>3
  <1> QED
    BY <1>3, <1>4, <1>5 DEF PlanTask

LEMMA OthersFacts ==
  ASSUME NEW tasks, NEW id
  PROVE  Others(tasks, id) \subseteq IdsOf(tasks) \ {id}
  BY DEF Others

LEMMA IdsAreFew ==
  ASSUME NEW tasks \in Seq(PlanTask)
  PROVE  /\ IdsOf(tasks) \subseteq Names
         /\ IsFiniteSet(IdsOf(tasks)) /\ Cardinality(IdsOf(tasks)) <= Len(tasks)
         /\ Cardinality(IdsOf(tasks)) \in Nat /\ Len(tasks) \in Nat
  <1> DEFINE s == [i \in DOMAIN tasks |-> tasks[i].id]
  <1>1. s \in Seq(Names) /\ Len(s) = Len(tasks) /\ Len(tasks) \in Nat /\ Range(s) = IdsOf(tasks)
    BY IdsFacts, TasksFacts
  <1> HIDE DEF s
  <1>2. Range(s) \subseteq Names
    BY <1>1, RangeType
  <1> QED
    BY <1>1, <1>2, RangeIsSmall

(***************************************************************************)
(* The search: what it knows while it has found no cycle, and what it has  *)
(* found when it stops                                                     *)
(***************************************************************************)
Marked(s, mark) == {x \in DOMAIN s.marks : s.marks[x] = mark}

Chained(tasks, stack) ==
  \A i \in 1..(Len(stack) - 1) : stack[i+1] \in Others(tasks, stack[i])

(* No cycle yet: the stack is a path of those being visited, and what is   *)
(* done depends on what is done and has no cycle.                          *)
Searching(tasks, s) ==
  /\ s \in Searches(tasks) /\ s.cycle = <<>>
  /\ IsInjective(s.stack) /\ Range(s.stack) = Marked(s, "visiting")
  /\ Chained(tasks, s.stack)
  /\ \A x \in Marked(s, "done") : Others(tasks, x) \subseteq Marked(s, "done")
  /\ HasNoKnot(GraphOf(tasks), Marked(s, "done"))

Found(tasks, s) == s \in Searches(tasks) /\ IsCycle(tasks, s.cycle)

(* When visit is called, with at most n tasks new.                         *)
MayVisit(tasks, s, id, n) ==
  /\ Searching(tasks, s) /\ id \in Marked(s, "new")
  /\ s.stack # <<>> => id \in Others(tasks, Last(s.stack))
  /\ Cardinality(Marked(s, "new")) <= n

(* What it returns.                                                        *)
Visited(tasks, s, id, r) ==
  \/ Found(tasks, r)
  \/ /\ Searching(tasks, r) /\ r.stack = s.stack
     /\ Marked(s, "done") \union {id} \subseteq Marked(r, "done")

IsVisit(tasks, n, deeper) ==
  \A s \in Searches(tasks), id \in IdsOf(tasks) :
    MayVisit(tasks, s, id, n) => Visited(tasks, s, id, deeper[s][id])

LEMMA MarksFacts ==
  ASSUME NEW tasks, NEW s \in Searches(tasks)
  PROVE  /\ DOMAIN s.marks = IdsOf(tasks)
         /\ s.stack \in Seq(IdsOf(tasks)) /\ s.cycle \in Seq(IdsOf(tasks))
         /\ \A x \in IdsOf(tasks) : \/ x \in Marked(s, "new") \/ x \in Marked(s, "visiting")
                                    \/ x \in Marked(s, "done")
         /\ \A m : Marked(s, m) \subseteq IdsOf(tasks)
  BY DEF Searches, Marked

LEMMA FoundIsSome ==
  ASSUME NEW tasks, NEW s, Found(tasks, s)
  PROVE  s.cycle # <<>>
  BY DEF Found, IsCycle

(* The first step of a visit.                                              *)
LEMMA EnterRight ==
  ASSUME NEW tasks, NEW s, NEW id, NEW n, MayVisit(tasks, s, id, n),
         NEW e, e = Entered(s, id)
  PROVE  /\ Searching(tasks, e) /\ e.stack = Append(s.stack, id)
         /\ Marked(e, "done") = Marked(s, "done")
         /\ Marked(e, "visiting") = Marked(s, "visiting") \union {id}
  <1>1. /\ Searching(tasks, s) /\ s \in Searches(tasks) /\ id \in IdsOf(tasks)
        /\ s.marks[id] = "new" /\ DOMAIN s.marks = IdsOf(tasks)
        /\ s.stack \in Seq(IdsOf(tasks))
    BY DEF MayVisit, Searching, Marked, Searches
  <1>2. /\ e \in Searches(tasks) /\ e.stack = Append(s.stack, id) /\ e.cycle = s.cycle
        /\ DOMAIN e.marks = IdsOf(tasks) /\ e.marks[id] = "visiting"
        /\ \A x \in IdsOf(tasks) \ {id} : e.marks[x] = s.marks[x]
    <2>1. /\ e.marks = [s.marks EXCEPT ![id] = "visiting"] /\ e.stack = Append(s.stack, id)
          /\ e.cycle = s.cycle
          /\ e = [marks |-> e.marks, stack |-> e.stack, cycle |-> e.cycle]
      BY <1>1 DEF Searches, Entered
    <2>2. e.marks \in [IdsOf(tasks) -> {"new", "visiting", "done"}]
      BY <1>1, <2>1 DEF Searches
    <2>3. e.stack \in Seq(IdsOf(tasks)) /\ e.cycle \in Seq(IdsOf(tasks))
      BY <1>1, <2>1, AppendFacts DEF Searches
    <2>4. e \in Searches(tasks)
      BY <2>1, <2>2, <2>3 DEF Searches
    <2> QED
      BY <1>1, <2>1, <2>2, <2>4
  <1>3. /\ Marked(e, "done") = Marked(s, "done")
        /\ Marked(e, "visiting") = Marked(s, "visiting") \union {id}
    BY <1>1, <1>2 DEF Marked
  <1>4. id \notin Range(s.stack)
    BY <1>1 DEF Searching, Marked
  <1>5. IsInjective(e.stack) /\ Range(e.stack) = Range(s.stack) \union {id}
    BY <1>1, <1>2, <1>4, NewLast DEF Searching
  <1>6. Chained(tasks, e.stack)
    <2> DEFINE m == Len(s.stack)
               z == s.stack
    <2>1. /\ m \in Nat /\ Len(e.stack) = m + 1 /\ e.stack[m + 1] = id
          /\ \A i \in 1..m : e.stack[i] = z[i]
      BY <1>1, <1>2, AppendFacts
    <2>2. \A i \in 1..(m - 1) : z[i+1] \in Others(tasks, z[i])
      BY <1>1 DEF Searching, Chained
    <2>3. m # 0 => id \in Others(tasks, z[m])
      BY <1>1 DEF MayVisit, Last
    <2> HIDE DEF m, z
    <2>4. ASSUME NEW i \in 1..m PROVE e.stack[i+1] \in Others(tasks, e.stack[i])
      <3>1. CASE i = m
        BY <2>1, <2>3, <3>1
      <3>2. CASE i # m
        <4>1. i \in 1..(m - 1) /\ i + 1 \in 1..m
          BY <2>1, <3>2
        <4> QED
          BY <2>1, <2>2, <4>1
      <3> QED
        BY <3>1, <3>2
    <2>5. (m + 1) - 1 = m
      BY <2>1
    <2> QED
      BY <2>1, <2>4, <2>5 DEF Chained
  <1> QED
    BY <1>1, <1>2, <1>3, <1>5, <1>6 DEF Searching

(* A dependency that is being visited closes a cycle.                      *)
LEMMA ClosingRight ==
  ASSUME NEW tasks, NEW stack \in Seq(IdsOf(tasks)), stack # <<>>, IsInjective(stack),
         Chained(tasks, stack), NEW dep \in Range(stack), dep \in Others(tasks, Last(stack)),
         NEW c, c = Closing(stack, dep)
  PROVE  c \in Seq(IdsOf(tasks)) /\ IsCycle(tasks, c)
  <1> DEFINE at == CHOOSE i \in DOMAIN stack : stack[i] = dep
             m == Len(stack)
             part == SubSeq(stack, at, m)
             k == m - at + 1
  <1>1. at \in 1..m /\ stack[at] = dep /\ m \in Nat \ {0} /\ DOMAIN stack = 1..m
    <2>1. \E i \in DOMAIN stack : stack[i] = dep
      BY DEF Range
    <2>2. at \in DOMAIN stack /\ stack[at] = dep
      BY <2>1, Zenon
    <2> HIDE DEF at
    <2> QED
      BY <2>2
  <1>2. c = Append(part, dep)
    BY DEF Closing
  <1> HIDE DEF at
  <1>3. at # m
    BY <1>1, OthersFacts DEF Last
  <1>4. /\ part \in Seq(IdsOf(tasks)) /\ Len(part) = k /\ k \in Nat /\ k > 1
        /\ \A i \in 1..k : part[i] = stack[at + i - 1] /\ at + i - 1 \in 1..m
    <2>1. /\ part \in Seq(IdsOf(tasks)) /\ Len(part) = k
          /\ \A i \in 1..k : part[i] = stack[at + i - 1]
      BY <1>1, SubSeqFacts
    <2> HIDE DEF part, m
    <2>2. k \in Nat /\ k > 1 /\ \A i \in 1..k : at + i - 1 \in 1..m
      BY <1>1, <1>3
    <2> QED
      BY <2>1, <2>2
  <1>5. dep \in IdsOf(tasks)
    BY OthersFacts
  <1> HIDE DEF part, m
  <1>6. /\ c \in Seq(IdsOf(tasks)) /\ Len(c) = k + 1 /\ c[k + 1] = dep
        /\ \A i \in 1..k : c[i] = part[i]
        /\ Front(c) = part
    BY <1>2, <1>4, <1>5, AppendFacts, AppendFront
  <1>7. c[1] = dep /\ Last(c) = dep
    <2>1. 1 \in 1..k /\ at + 1 - 1 = at
      BY <1>1, <1>4
    <2>2. c[1] = part[1] /\ part[1] = stack[at + 1 - 1]
      BY <1>4, <1>6, <2>1
    <2>3. c[1] = dep
      BY <1>1, <2>1, <2>2
    <2> QED
      BY <1>6, <2>3 DEF Last
  <1>8. IsInjective(part)
    <2>1. ASSUME NEW i \in 1..k, NEW j \in 1..k, part[i] = part[j] PROVE i = j
      <3>1. stack[at + i - 1] = stack[at + j - 1] /\ at + i - 1 \in 1..m /\ at + j - 1 \in 1..m
        BY <1>4, <2>1
      <3>2. at + i - 1 = at + j - 1
        BY <1>1, <3>1 DEF IsInjective
      <3> QED
        BY <1>1, <1>4, <3>2
    <2>2. DOMAIN part = 1..k
      BY <1>4
    <2> QED
      BY <2>1, <2>2 DEF IsInjective
  <1>9. ASSUME NEW i \in 1..k PROVE c[i+1] \in Others(tasks, c[i])
    <2>1. c[i] = stack[at + i - 1]
      BY <1>4, <1>6
    <2>2. CASE i = k
      <3>1. at + i - 1 = m
        BY <1>1, <1>4, <2>2
      <3> QED
        BY <1>6, <2>1, <2>2, <3>1 DEF Last, m
    <2>3. CASE i # k
      <3>1. i + 1 \in 1..k /\ at + i - 1 \in 1..(m - 1) /\ at + (i + 1) - 1 = (at + i - 1) + 1
        BY <1>1, <1>4, <2>3
      <3>2. c[i+1] = stack[(at + i - 1) + 1]
        BY <1>4, <1>6, <3>1
      <3>3. stack[(at + i - 1) + 1] \in Others(tasks, stack[at + i - 1])
        BY <3>1 DEF Chained, m
      <3> QED
        BY <2>1, <3>2, <3>3
    <2> QED
      BY <2>2, <2>3
  <1>10. Len(c) > 2 /\ Len(c) - 1 = k
    BY <1>4, <1>6
  <1> QED
    BY <1>6, <1>7, <1>8, <1>9, <1>10 DEF IsCycle

(* The last step of a visit that has found nothing.                        *)
LEMMA LeaveRight ==
  ASSUME NEW tasks, NEW s, NEW id, NEW n, MayVisit(tasks, s, id, n),
         NEW a, Searching(tasks, a), a.stack = Append(s.stack, id),
         Marked(s, "done") \subseteq Marked(a, "done"),
         Others(tasks, id) \subseteq Marked(a, "done"),
         NEW r, r = Left(a, id)
  PROVE  Visited(tasks, s, id, r)
  <1>1. /\ Searching(tasks, s) /\ s \in Searches(tasks) /\ id \in IdsOf(tasks)
        /\ s.stack \in Seq(IdsOf(tasks)) /\ a \in Searches(tasks) /\ a.cycle = <<>>
        /\ DOMAIN a.marks = IdsOf(tasks) /\ id \in Marked(s, "new")
    BY MarksFacts DEF MayVisit, Searching
  <1>2. Front(a.stack) = s.stack
    BY <1>1, AppendFront
  <1>3. /\ r \in Searches(tasks) /\ r.stack = s.stack /\ r.cycle = <<>>
        /\ DOMAIN r.marks = IdsOf(tasks) /\ r.marks[id] = "done"
        /\ \A x \in IdsOf(tasks) \ {id} : r.marks[x] = a.marks[x]
    BY <1>1, <1>2 DEF Searches, Left
  <1>4. id \notin Range(s.stack)
    BY <1>1 DEF Searching, Marked
  <1>5. Marked(a, "visiting") = Range(s.stack) \union {id}
    <2>1. Range(a.stack) = Range(s.stack) \union {id}
      BY <1>1, AppendRange
    <2> QED
      BY <2>1 DEF Searching
  <1>6. Range(r.stack) = Marked(r, "visiting")
    <2>1. \A x : x \in Marked(r, "visiting") <=> x \in Marked(a, "visiting") /\ x # id
      BY <1>1, <1>3 DEF Marked
    <2> QED
      BY <1>3, <1>4, <1>5, <2>1
  <1>7. Marked(r, "done") = Marked(a, "done") \union {id}
    BY <1>1, <1>3 DEF Marked
  <1>8. id \notin Marked(a, "done")
    BY <1>5 DEF Marked
  <1>9. \A x \in Marked(r, "done") : Others(tasks, x) \subseteq Marked(r, "done")
    BY <1>7 DEF Searching
  <1>10. HasNoKnot(GraphOf(tasks), Marked(r, "done"))
    <2> SUFFICES ASSUME NEW K \in SUBSET Marked(r, "done"),
                        \A t \in K : GraphOf(tasks).dependsOn[t] \cap K # {}
                 PROVE  K = {}
      BY DEF HasNoKnot
    <2>1. \A t \in IdsOf(tasks) : GraphOf(tasks).dependsOn[t] = Others(tasks, t)
      BY DEF GraphOf
    <2>2. Marked(r, "done") \subseteq IdsOf(tasks)
      BY <1>3 DEF Marked
    <2>3. \A t \in K : Others(tasks, t) \cap K # {}
      BY <2>1, <2>2
    <2>4. \A t \in K \ {id} : t \in Marked(a, "done") /\ id \notin Others(tasks, t)
      BY <1>7, <1>8 DEF Searching
    <2>5. \A t \in K \ {id} : GraphOf(tasks).dependsOn[t] \cap (K \ {id}) # {}
      BY <2>1, <2>2, <2>3, <2>4
    <2>6. K \ {id} = {}
      BY <2>4, <2>5 DEF Searching, HasNoKnot
    <2>7. id \notin Others(tasks, id)
      BY OthersFacts
    <2> QED
      BY <2>3, <2>6, <2>7
  <1> QED
    BY <1>1, <1>3, <1>6, <1>7, <1>9, <1>10 DEF Searching, Visited

(* One turn of the loop: from what it was, the search may have found a     *)
(* cycle, or is where it was and knows of one dependency more.             *)
Followed(tasks, id, a, dep, r) ==
  \/ Found(tasks, r)
  \/ /\ Searching(tasks, r) /\ r.stack = a.stack
     /\ Marked(a, "done") \subseteq Marked(r, "done")
     /\ dep \in Others(tasks, id) => dep \in Marked(r, "done")

LEMMA FollowRight ==
  ASSUME NEW tasks, NEW deeper, NEW id, NEW n, IsVisit(tasks, n, deeper),
         NEW a, Searching(tasks, a), a.stack # <<>>, Last(a.stack) = id,
         Cardinality(Marked(a, "new")) <= n,
         NEW dep, NEW r, r = Follow(tasks, deeper, id, a, dep)
  PROVE  Followed(tasks, id, a, dep, r)
  <1>1. a \in Searches(tasks) /\ a.cycle = <<>> /\ a.stack \in Seq(IdsOf(tasks))
    BY MarksFacts DEF Searching
  <1>2. CASE dep \notin Others(tasks, id)
    BY <1>1, <1>2 DEF Follow, Followed
  <1>3. CASE dep \in Others(tasks, id)
    <2>1. dep \in IdsOf(tasks) /\ DOMAIN a.marks = IdsOf(tasks)
      BY <1>1, <1>3, OthersFacts, MarksFacts
    <2>2. a.marks[dep] \in {"new", "visiting", "done"}
      BY <1>1, <2>1 DEF Searches
    <2>3. CASE a.marks[dep] = "done"
      <3>1. r = a
        BY <1>1, <1>3, <2>3 DEF Follow
      <3>2. dep \in Marked(a, "done")
        BY <2>1, <2>3 DEF Marked
      <3> QED
        BY <3>1, <3>2 DEF Followed
    <2>4. CASE a.marks[dep] = "visiting"
      <3>1. r = [a EXCEPT !.cycle = Closing(a.stack, dep)]
        BY <1>1, <1>3, <2>4 DEF Follow
      <3>2. dep \in Range(a.stack)
        BY <2>1, <2>4 DEF Searching, Marked
      <3>3. /\ Closing(a.stack, dep) \in Seq(IdsOf(tasks))
            /\ IsCycle(tasks, Closing(a.stack, dep))
        BY <1>1, <1>3, <3>2, ClosingRight DEF Searching
      <3> DEFINE c == Closing(a.stack, dep)
      <3> HIDE DEF c
      <3>4. r = [a EXCEPT !.cycle = c] /\ c \in Seq(IdsOf(tasks)) /\ IsCycle(tasks, c)
        BY <3>1, <3>3 DEF c
      <3>5. r \in Searches(tasks) /\ r.cycle = c
        BY <1>1, <3>4 DEF Searches
      <3> QED
        BY <3>4, <3>5 DEF Found, Followed
    <2>5. CASE a.marks[dep] = "new"
      <3>1. r = deeper[a][dep]
        BY <1>1, <1>3, <2>5 DEF Follow
      <3>2. MayVisit(tasks, a, dep, n)
        BY <1>3, <2>1, <2>5 DEF MayVisit, Marked
      <3>3. Visited(tasks, a, dep, r)
        BY <1>1, <2>1, <3>1, <3>2 DEF IsVisit
      <3> QED
        BY <3>3 DEF Visited, Followed
    <2> QED
      BY <2>2, <2>3, <2>4, <2>5
  <1> QED
    BY <1>2, <1>3

(* A visit is right if those it makes are.                                 *)
LEMMA VisitWithRight ==
  ASSUME NEW tasks \in Seq(PlanTask), NEW deeper, NEW n \in Nat, IsVisit(tasks, n, deeper),
         NEW s, NEW id, MayVisit(tasks, s, id, n + 1)
  PROVE  Visited(tasks, s, id, VisitWith(tasks, deeper, id, s))
  <1> DEFINE deps == DependsOn(tasks, id)
             N == Len(deps)
             e == Entered(s, id)
             at(k) == FollowsAt(tasks, deeper, id, s, k)
             Knows(a, k) == \A j \in 1..k : deps[j] \in Others(tasks, id) =>
                                              deps[j] \in Marked(a, "done")
             Going(a, k) == /\ Searching(tasks, a) /\ a.stack = Append(s.stack, id)
                            /\ Marked(s, "done") \subseteq Marked(a, "done")
                            /\ Knows(a, k)
             P == {k \in 0..N : Found(tasks, at(k)) \/ Going(at(k), k)}
  <1>1. /\ s \in Searches(tasks) /\ id \in IdsOf(tasks) /\ id \in Marked(s, "new")
        /\ s.stack \in Seq(IdsOf(tasks)) /\ Searching(tasks, s)
    BY MarksFacts DEF MayVisit, Searching
  <1>2. deps \in Seq(Names) /\ N \in Nat /\ DOMAIN deps = 1..N
    BY <1>1, DependsOnFacts
  <1>3. /\ at(0) = e
        /\ \A k \in 1..N : at(k) = Follow(tasks, deeper, id, at(k - 1), deps[k])
        /\ VisitWith(tasks, deeper, id, s) = Returned(at(N), id)
    <2> HIDE DEF N
    <2>1. N \in Nat /\ DOMAIN DependsOn(tasks, id) = 1..N
      BY <1>2
    <2>2. FollowsTo(tasks, deeper, id, s, N)
      BY <2>1, FollowsUnfold, Zenon
    <2> QED
      BY <2>2 DEF FollowsTo
  <1>4. VisitWith(tasks, deeper, id, s) = IF at(N).cycle # <<>> THEN at(N) ELSE Left(at(N), id)
    BY <1>3 DEF Returned
  <1>5. 0 \in P
    <2>1. Searching(tasks, e) /\ e.stack = Append(s.stack, id) /\ Marked(e, "done") = Marked(s, "done")
      BY EnterRight
    <2> QED
      BY <1>2, <1>3, <2>1
  <1>6. /\ Append(s.stack, id) # <<>> /\ Last(Append(s.stack, id)) = id
        /\ Range(Append(s.stack, id)) = Range(s.stack) \union {id}
    BY <1>1, AppendFacts, AppendRange DEF Last
  <1>7. ASSUME NEW k \in 1..N, k - 1 \in P PROVE k \in P
    <2> DEFINE a == at(k - 1)
               r == at(k)
    <2>1. r = Follow(tasks, deeper, id, a, deps[k])
      BY <1>3
    <2>2. Found(tasks, a) \/ Going(a, k - 1)
      BY <1>7
    <2>3. CASE Found(tasks, a)
      <3>1. r = a
        BY <2>1, <2>3, FoundIsSome DEF Follow
      <3> QED
        BY <1>2, <2>3, <3>1
    <2>4. CASE Going(a, k - 1)
      <3> HIDE DEF a, r
      <3>1. a.stack # <<>> /\ Last(a.stack) = id
        BY <1>6, <2>4
      <3>2. Cardinality(Marked(a, "new")) <= n
        <4>1. /\ a \in Searches(tasks) /\ Marked(a, "visiting") = Range(s.stack) \union {id}
              /\ Marked(s, "visiting") = Range(s.stack)
          BY <1>1, <1>6, <2>4 DEF Searching
        <4>2. Marked(a, "new") \subseteq Marked(s, "new") \ {id}
          <5> SUFFICES ASSUME NEW x \in Marked(a, "new") PROVE x \in Marked(s, "new") \ {id}
            OBVIOUS
          <5>1. x \in IdsOf(tasks) /\ x \notin Marked(a, "done") /\ x \notin Marked(a, "visiting")
            BY <4>1 DEF Marked, Searches
          <5>2. x \notin Marked(s, "done") /\ x \notin Marked(s, "visiting") /\ x # id
            BY <2>4, <4>1, <5>1
          <5> QED
            BY <1>1, <5>1, <5>2, MarksFacts
        <4>3. IsFiniteSet(Marked(s, "new"))
          <5>1. Marked(s, "new") \in SUBSET IdsOf(tasks)
            BY <1>1, MarksFacts
          <5> QED
            BY <5>1, IdsAreFew, FS_Subset
        <4>4. /\ IsFiniteSet(Marked(s, "new") \ {id})
              /\ Cardinality(Marked(s, "new") \ {id}) = Cardinality(Marked(s, "new")) - 1
          BY <1>1, <4>3, FS_RemoveElement
        <4>5. /\ Cardinality(Marked(a, "new")) <= Cardinality(Marked(s, "new") \ {id})
              /\ IsFiniteSet(Marked(a, "new"))
          <5> DEFINE A == Marked(a, "new")
                     B == Marked(s, "new") \ {id}
          <5>1. A \in SUBSET B /\ IsFiniteSet(B)
            BY <4>2, <4>4
          <5> HIDE DEF A, B
          <5>2. IsFiniteSet(A) /\ Cardinality(A) <= Cardinality(B)
            BY <5>1, FS_Subset
          <5> QED
            BY <5>2 DEF A, B
        <4>6. /\ Cardinality(Marked(s, "new")) <= n + 1
              /\ Cardinality(Marked(a, "new")) \in Nat /\ Cardinality(Marked(s, "new")) \in Nat
          BY <4>3, <4>5, FS_CardinalityType DEF MayVisit
        <4> DEFINE ca == Cardinality(Marked(a, "new"))
                   cs == Cardinality(Marked(s, "new"))
        <4>7. ca \in Nat /\ cs \in Nat /\ cs <= n + 1 /\ ca <= cs - 1
          BY <4>4, <4>5, <4>6
        <4> HIDE DEF ca, cs
        <4>8. ca <= n
          BY <4>7
        <4> QED
          BY <4>8 DEF ca
      <3>3. \/ Found(tasks, r)
            \/ /\ Searching(tasks, r) /\ r.stack = a.stack
               /\ Marked(a, "done") \subseteq Marked(r, "done")
               /\ deps[k] \in Others(tasks, id) => deps[k] \in Marked(r, "done")
        <4> DEFINE dep == deps[k]
        <4>1. /\ IsVisit(tasks, n, deeper) /\ Searching(tasks, a) /\ a.stack # <<>>
              /\ Last(a.stack) = id /\ Cardinality(Marked(a, "new")) <= n
              /\ r = Follow(tasks, deeper, id, a, dep)
          BY <2>1, <2>4, <3>1, <3>2
        <4> HIDE DEF dep
        <4>2. Followed(tasks, id, a, dep, r)
          BY <4>1, FollowRight, Zenon
        <4> QED
          BY <4>2 DEF dep, Followed
      <3>4. CASE Found(tasks, r)
        BY <1>2, <3>4 DEF r
      <3>5. CASE /\ Searching(tasks, r) /\ r.stack = a.stack
                 /\ Marked(a, "done") \subseteq Marked(r, "done")
                 /\ deps[k] \in Others(tasks, id) => deps[k] \in Marked(r, "done")
        <4>1. Knows(r, k)
          <5> HIDE DEF deps, N
          <5> SUFFICES ASSUME NEW j \in 1..k, deps[j] \in Others(tasks, id)
                       PROVE  deps[j] \in Marked(r, "done")
            OBVIOUS
          <5>1. CASE j = k
            BY <3>5, <5>1
          <5>2. CASE j # k
            <6>1. j \in 1..(k - 1)
              BY <1>2, <5>2
            <6> QED
              BY <2>4, <3>5, <6>1
          <5> QED
            BY <5>1, <5>2
        <4>2. Going(r, k)
          BY <2>4, <3>5, <4>1
        <4> QED
          BY <1>2, <4>2 DEF r
      <3> QED
        BY <3>3, <3>4, <3>5
    <2> QED
      BY <2>2, <2>3, <2>4
  <1>8. N \in P
    <2> HIDE DEF P, N
    <2>1. N \in Nat /\ 0 \in P /\ \A k \in 1..N : k - 1 \in P => k \in P
      BY <1>2, <1>5, <1>7
    <2> QED
      BY <2>1, AtLast
  <1>9. CASE Found(tasks, at(N))
    <2>1. VisitWith(tasks, deeper, id, s) = at(N)
      BY <1>4, <1>9, FoundIsSome
    <2> QED
      BY <1>9, <2>1 DEF Visited
  <1>10. CASE Going(at(N), N)
    <2>1. VisitWith(tasks, deeper, id, s) = Left(at(N), id)
      BY <1>4, <1>10 DEF Searching
    <2>2. Others(tasks, id) \subseteq Marked(at(N), "done")
      <3> SUFFICES ASSUME NEW x \in Others(tasks, id) PROVE x \in Marked(at(N), "done")
        OBVIOUS
      <3>1. PICK j \in 1..N : deps[j] = x
        BY <1>2 DEF Others, Range
      <3> QED
        BY <1>10, <3>1
    <2> HIDE DEF at, N
    <2> QED
      BY <1>10, <2>1, <2>2, LeaveRight
  <1> QED
    BY <1>8, <1>9, <1>10

(* A visit that may nest as many more as there are new tasks is right.     *)
LEMMA VisitRight ==
  ASSUME NEW tasks \in Seq(PlanTask)
  PROVE  IsVisit(tasks, Len(tasks), Visit(tasks))
  <1> DEFINE N == Len(tasks)
             f == VisitUpTo(tasks)
             P == {n \in 0..N : IsVisit(tasks, n, f[n])}
  <1>1. N \in Nat
    OBVIOUS
  <1>2. /\ Visit(tasks) = f[N]
        /\ \A n \in 1..N, s \in Searches(tasks), id \in IdsOf(tasks) :
             f[n][s][id] = VisitWith(tasks, f[n-1], id, s)
    BY <1>1, VisitUnfold
  <1> HIDE DEF f, N
  <1>3. 0 \in P
    <2> SUFFICES ASSUME NEW s \in Searches(tasks), NEW id \in IdsOf(tasks),
                        MayVisit(tasks, s, id, 0)
                 PROVE  FALSE
      BY <1>1 DEF IsVisit
    <2>1. Marked(s, "new") \in SUBSET IdsOf(tasks) /\ id \in Marked(s, "new")
      BY MarksFacts DEF MayVisit
    <2>2. IsFiniteSet(Marked(s, "new"))
      BY <2>1, IdsAreFew, FS_Subset
    <2>3. Cardinality(Marked(s, "new")) \in Nat /\ Cardinality(Marked(s, "new")) # 0
      BY <2>1, <2>2, FS_CardinalityType, FS_EmptySet
    <2> QED
      BY <2>3 DEF MayVisit
  <1>4. ASSUME NEW n \in 1..N, n - 1 \in P PROVE n \in P
    <2>1. IsVisit(tasks, n - 1, f[n-1]) /\ n - 1 \in Nat /\ (n - 1) + 1 = n
      BY <1>1, <1>4
    <2>2. ASSUME NEW s \in Searches(tasks), NEW id \in IdsOf(tasks), MayVisit(tasks, s, id, n)
          PROVE  Visited(tasks, s, id, f[n][s][id])
      <3>1. f[n][s][id] = VisitWith(tasks, f[n-1], id, s)
        BY <1>2
      <3>2. Visited(tasks, s, id, VisitWith(tasks, f[n-1], id, s))
        BY <2>1, <2>2, VisitWithRight
      <3> QED
        BY <3>1, <3>2
    <2> QED
      BY <1>1, <2>2 DEF IsVisit
  <1> HIDE DEF P
  <1>5. N \in Nat /\ 0 \in P /\ \A n \in 1..N : n - 1 \in P => n \in P
    BY <1>1, <1>3, <1>4
  <1>6. N \in P
    BY <1>5, AtLast
  <1> QED
    BY <1>2, <1>6 DEF P, N

(* The loop of findCycle: the search after the first k tasks. *)
FindsBy(f, tasks, S) ==
  f = [z \in SUBSET S |->
         IF z = {} THEN NewSearch(tasks)
         ELSE VisitNew(tasks, f[z \ {Max(z)}], tasks[Max(z)].id)]

FindsAt(tasks, k) ==
  (CHOOSE f : FindsBy(f, tasks, DOMAIN tasks))[1..k]

LEMMA FindsExists ==
  ASSUME NEW tasks, NEW size \in Nat
  PROVE  \E f : FindsBy(f, tasks, 1..size)
  <1> DEFINE T == {k \in 0..size : \E f : FindsBy(f, tasks, 1..k)}
  <1>1. 0 \in T
    <2>1. FindsBy([z \in SUBSET {} |-> NewSearch(tasks)], tasks, {}) /\ 1..0 = {}
      BY DEF FindsBy
    <2> QED
      BY <2>1
  <1>2. ASSUME NEW k \in 1..size, k - 1 \in T PROVE k \in T
    <2>1. PICK f : FindsBy(f, tasks, 1..(k - 1))
      BY <1>2
    <2>2. k \in Nat \ {0}
      OBVIOUS
    <2> DEFINE g == [z \in SUBSET (1..k) |->
                       IF k \in z THEN VisitNew(tasks, f[z \ {k}], tasks[k].id) ELSE f[z]]
    <2>3. ASSUME NEW z \in SUBSET (1..k)
          PROVE  g[z] = IF z = {} THEN NewSearch(tasks)
                        ELSE VisitNew(tasks, g[z \ {Max(z)}], tasks[Max(z)].id)
      <3>1. CASE k \in z
        <4>1. Max(z) = k
          BY <2>2, <3>1, MaxOfPrefix
        <4>2. g[z \ {k}] = f[z \ {k}] /\ z # {}
          BY <3>1
        <4>3. g[z] = VisitNew(tasks, f[z \ {k}], tasks[k].id)
          BY <3>1
        <4> QED
          BY <4>1, <4>2, <4>3
      <3>2. CASE k \notin z
        <4>1. z \in SUBSET (1..(k - 1)) /\ g[z] = f[z]
          BY <2>2, <3>2
        <4>2. g[z \ {Max(z)}] = f[z \ {Max(z)}]
          BY <3>2
        <4>3. f[z] = IF z = {} THEN NewSearch(tasks)
                     ELSE VisitNew(tasks, f[z \ {Max(z)}], tasks[Max(z)].id)
          BY <2>1, <4>1 DEF FindsBy
        <4> QED
          BY <4>1, <4>2, <4>3
      <3> QED
        BY <3>1, <3>2
    <2>4. FindsBy(g, tasks, 1..k)
      BY <2>3 DEF FindsBy
    <2> QED
      BY <2>4
  <1> HIDE DEF T
  <1>3. 0 \in T /\ \A k \in 1..size : k - 1 \in T => k \in T
    BY <1>1, <1>2
  <1>4. size \in T
    BY <1>3, AtLast
  <1> QED
    BY <1>4 DEF T

FindsTo(tasks, n) ==
  /\ FindsAt(tasks, 0) = NewSearch(tasks)
  /\ \A k \in 1..n :
       FindsAt(tasks, k) = VisitNew(tasks, FindsAt(tasks, k - 1), tasks[k].id)
  /\ FindCycle(tasks) = FindsAt(tasks, n).cycle

LEMMA FindsUnfold ==
  ASSUME NEW tasks, NEW n \in Nat, DOMAIN tasks = 1..n
  PROVE  FindsTo(tasks, n)
  <1> DEFINE f == CHOOSE h : FindsBy(h, tasks, DOMAIN tasks)
  <1>1. FindsBy(f, tasks, 1..n)
    <2>1. \E h : FindsBy(h, tasks, 1..n)
      BY FindsExists
    <2> QED
      BY <2>1, Zenon
  <1>2. \A k : FindsAt(tasks, k) = f[1..k]
    BY DEF FindsAt
  <1>3. FindCycle(tasks) = FindsAt(tasks, n).cycle
    BY DEF FindsBy, FindsAt, FoldLeft, MapThenFoldSet, FindCycle
  <1> HIDE DEF f
  <1>4. f[1..0] = NewSearch(tasks)
    BY <1>1 DEF FindsBy
  <1>5. ASSUME NEW k \in 1..n
        PROVE  f[1..k] = VisitNew(tasks, f[1..(k - 1)], tasks[k].id)
    <2>1. 1..k \in SUBSET (1..n) /\ 1..k # {} /\ Max(1..k) = k /\ (1..k) \ {k} = 1..(k - 1)
      BY PrefixFacts
    <2> QED
      BY <1>1, <2>1 DEF FindsBy
  <1> QED
    BY <1>2, <1>3, <1>4, <1>5 DEF FindsTo


(* The graph of a document is a plan; a cycle of it is a knot.             *)
LEMMA GraphFacts ==
  ASSUME NEW tasks \in Seq(PlanTask)
  PROVE  /\ GraphOf(tasks).order \in Seq(Names) /\ TasksOf(GraphOf(tasks)) = IdsOf(tasks)
         /\ \A t \in IdsOf(tasks) : /\ GraphOf(tasks).dependsOn[t] = Others(tasks, t)
                                    /\ GraphOf(tasks).dependsOn[t] \subseteq IdsOf(tasks)
  <1> DEFINE s == [i \in DOMAIN tasks |-> tasks[i].id]
  <1>1. s \in Seq(Names) /\ Range(s) = IdsOf(tasks)
    BY IdsFacts
  <1>2. GraphOf(tasks).order = s /\ TasksOf(GraphOf(tasks)) = Range(s)
    BY DEF GraphOf, TasksOf
  <1>3. \A t \in IdsOf(tasks) : GraphOf(tasks).dependsOn[t] = Others(tasks, t)
    BY DEF GraphOf
  <1> QED
    BY <1>1, <1>2, <1>3, OthersFacts

LEMMA CycleIsKnot ==
  ASSUME NEW tasks, NEW c \in Seq(IdsOf(tasks)), IsCycle(tasks, c)
  PROVE  ~HasNoKnot(GraphOf(tasks), IdsOf(tasks))
  <1> DEFINE n == Len(c)
             K == {c[i] : i \in 1..(n - 1)}
  <1>1. n \in Nat /\ n > 2 /\ c[1] = c[n] /\ \A i \in 1..n : c[i] \in IdsOf(tasks)
    BY DEF IsCycle, Last
  <1>2. \A i \in 1..(n - 1) : c[i+1] \in Others(tasks, c[i])
    BY DEF IsCycle
  <1> HIDE DEF n
  <1>3. K \in SUBSET IdsOf(tasks) /\ c[1] \in K
    BY <1>1
  <1>4. ASSUME NEW t \in K PROVE GraphOf(tasks).dependsOn[t] \cap K # {}
    <2>1. PICK i \in 1..(n - 1) : t = c[i]
      OBVIOUS
    <2>2. c[i+1] \in Others(tasks, t)
      BY <1>2, <2>1
    <2>3. c[i+1] \in K
      <3>1. CASE i = n - 1
        <4>1. i + 1 = n
          BY <1>1, <3>1
        <4> QED
          BY <1>1, <1>3, <4>1
      <3>2. CASE i # n - 1
        <4>1. i + 1 \in 1..(n - 1)
          BY <1>1, <3>2
        <4> QED
          BY <4>1
      <3> QED
        BY <3>1, <3>2
    <2>4. GraphOf(tasks).dependsOn[t] = Others(tasks, t)
      BY <1>3 DEF GraphOf
    <2> QED
      BY <2>2, <2>3, <2>4
  <1> HIDE DEF K
  <1> QED
    BY <1>3, <1>4 DEF HasNoKnot

(* The search has seen the first k tasks, or found a cycle.                *)
LEMMA FindsRight ==
  ASSUME NEW tasks \in Seq(PlanTask)
  PROVE  LET s == FindsAt(tasks, Len(tasks)) IN
         /\ FindCycle(tasks) = s.cycle
         /\ Found(tasks, s) \/ (Searching(tasks, s) /\ IdsOf(tasks) \subseteq Marked(s, "done"))
  <1> DEFINE N == Len(tasks)
             at(k) == FindsAt(tasks, k)
             Seen(s, k) == /\ Searching(tasks, s) /\ s.stack = <<>>
                           /\ \A j \in 1..k : tasks[j].id \in Marked(s, "done")
             P == {k \in 0..N : Found(tasks, at(k)) \/ Seen(at(k), k)}
  <1>1. N \in Nat /\ DOMAIN tasks = 1..N
    OBVIOUS
  <1>2. /\ at(0) = NewSearch(tasks)
        /\ \A k \in 1..N : at(k) = VisitNew(tasks, at(k - 1), tasks[k].id)
        /\ FindCycle(tasks) = at(N).cycle
    BY <1>1, FindsUnfold DEF FindsTo
  <1>3. FindCycle(tasks) = at(N).cycle
    BY <1>2
  <1>4. 0 \in P
    <2> DEFINE s == NewSearch(tasks)
    <2>1. /\ s \in Searches(tasks) /\ s.stack = <<>> /\ s.cycle = <<>>
          /\ \A x \in IdsOf(tasks) : s.marks[x] = "new"
          /\ DOMAIN s.marks = IdsOf(tasks)
      BY DEF NewSearch, Searches
    <2>2. Marked(s, "visiting") = {} /\ Marked(s, "done") = {}
      BY <2>1 DEF Marked
    <2>3. IsInjective(s.stack) /\ Range(s.stack) = {} /\ Chained(tasks, s.stack)
      BY <2>1 DEF IsInjective, Range, Chained
    <2>4. Searching(tasks, s)
      BY <2>1, <2>2, <2>3 DEF Searching, HasNoKnot
    <2> QED
      BY <1>1, <1>2, <2>1, <2>4
  <1>5. ASSUME NEW k \in 1..N, k - 1 \in P PROVE k \in P
    <2> DEFINE a == at(k - 1)
               r == at(k)
               id == tasks[k].id
    <2>1. r = VisitNew(tasks, a, id) /\ id \in IdsOf(tasks)
      BY <1>1, <1>2 DEF IdsOf
    <2>2. Found(tasks, a) \/ Seen(a, k - 1)
      BY <1>5
    <2> HIDE DEF a, id
    <2>3. CASE Found(tasks, a)
      <3>1. r = a
        BY <2>1, <2>3, FoundIsSome DEF VisitNew
      <3> QED
        BY <1>1, <2>3, <3>1
    <2>4. CASE Seen(a, k - 1)
      <3>1. a \in Searches(tasks) /\ a.cycle = <<>> /\ DOMAIN a.marks = IdsOf(tasks)
        BY <2>4, MarksFacts DEF Searching
      <3>2. CASE a.marks[id] # "new"
        <4>1. r = a
          BY <2>1, <3>2 DEF VisitNew
        <4>2. Marked(a, "visiting") = {}
          BY <2>4 DEF Searching, Range
        <4>3. id \in Marked(a, "done")
          BY <2>1, <3>1, <3>2, <4>2, MarksFacts DEF Marked
        <4>4. Seen(r, k)
          BY <1>1, <2>4, <4>1, <4>3 DEF id
        <4> QED
          BY <1>1, <4>4
      <3>3. CASE a.marks[id] = "new"
        <4>1. r = Visit(tasks)[a][id]
          BY <2>1, <3>1, <3>3 DEF VisitNew
        <4>2. Cardinality(Marked(a, "new")) <= N
          <5>1. Marked(a, "new") \in SUBSET IdsOf(tasks)
            BY <3>1, MarksFacts
          <5>2. /\ IsFiniteSet(Marked(a, "new"))
                /\ Cardinality(Marked(a, "new")) <= Cardinality(IdsOf(tasks))
                /\ Cardinality(IdsOf(tasks)) <= N /\ Cardinality(IdsOf(tasks)) \in Nat
            BY <5>1, IdsAreFew, FS_Subset
          <5>3. Cardinality(Marked(a, "new")) \in Nat
            BY <5>2, FS_CardinalityType
          <5> QED
            BY <1>1, <5>2, <5>3
        <4>3. MayVisit(tasks, a, id, N)
          BY <2>1, <2>4, <3>1, <3>3, <4>2 DEF MayVisit, Marked
        <4>4. Visited(tasks, a, id, r)
          BY <2>1, <3>1, <4>1, <4>3, VisitRight DEF IsVisit
        <4>5. CASE Found(tasks, r)
          BY <1>1, <4>5
        <4>6. CASE /\ Searching(tasks, r) /\ r.stack = a.stack
                   /\ Marked(a, "done") \union {id} \subseteq Marked(r, "done")
          <5>1. ASSUME NEW j \in 1..k PROVE tasks[j].id \in Marked(r, "done")
            <6>1. CASE j = k
              BY <4>6, <6>1 DEF id
            <6>2. CASE j # k
              <7>1. j \in 1..(k - 1)
                BY <1>1, <6>2
              <7> QED
                BY <2>4, <4>6, <7>1
            <6> QED
              BY <6>1, <6>2
          <5>2. Seen(r, k)
            BY <2>4, <4>6, <5>1
          <5> QED
            BY <1>1, <5>2
        <4> QED
          BY <4>4, <4>5, <4>6 DEF Visited
      <3> QED
        BY <3>2, <3>3
    <2> QED
      BY <2>2, <2>3, <2>4
  <1>6. N \in P
    <2> HIDE DEF P, N
    <2>1. N \in Nat /\ 0 \in P /\ \A k \in 1..N : k - 1 \in P => k \in P
      BY <1>1, <1>4, <1>5
    <2> QED
      BY <2>1, AtLast
  <1>7. Seen(at(N), N) => IdsOf(tasks) \subseteq Marked(at(N), "done")
    BY <1>1 DEF IdsOf
  <1> QED
    BY <1>3, <1>6, <1>7

(* The search of findCycle finds a cycle exactly when the graph of the     *)
(* document has one, and what it returns is one: none of the marks it      *)
(* leaves, nor the order in which it meets the tasks, hides one            *)
(* (plan-preflight.ts:302-331).                                            *)
THEOREM FindCycleIsExact ==
  ASSUME NEW tasks \in Seq(PlanTask)
  PROVE  /\ FindCycle(tasks) = <<>> <=> Acyclic(GraphOf(tasks))
         /\ FindCycle(tasks) # <<>> => IsCycle(tasks, FindCycle(tasks))
  <1> DEFINE s == FindsAt(tasks, Len(tasks))
  <1>1. /\ FindCycle(tasks) = s.cycle
        /\ Found(tasks, s) \/ (Searching(tasks, s) /\ IdsOf(tasks) \subseteq Marked(s, "done"))
    BY FindsRight
  <1> HIDE DEF s
  <1>2. Acyclic(GraphOf(tasks)) <=> HasNoKnot(GraphOf(tasks), IdsOf(tasks))
    BY GraphFacts, AcyclicMeansNoKnot
  <1>3. CASE Found(tasks, s)
    <2>1. s.cycle \in Seq(IdsOf(tasks)) /\ IsCycle(tasks, s.cycle) /\ s.cycle # <<>>
      BY <1>3, MarksFacts, FoundIsSome DEF Found
    <2> QED
      BY <1>1, <1>2, <2>1, CycleIsKnot
  <1>4. CASE Searching(tasks, s) /\ IdsOf(tasks) \subseteq Marked(s, "done")
    <2>1. Marked(s, "done") = IdsOf(tasks)
      BY <1>4, MarksFacts DEF Searching
    <2> QED
      BY <1>1, <1>2, <1>4, <2>1 DEF Searching
  <1> QED
    BY <1>1, <1>3, <1>4

(***************************************************************************)
(* Spellings of a path                                                     *)
(***************************************************************************)
OneKept(kept, s) == IF s \in {Blank, Here} THEN kept ELSE Append(kept, s)
(* Meaningful: what is kept of the first k segments. *)
KeepsBy(f, segs, S) ==
  f = [z \in SUBSET S |->
         IF z = {} THEN <<>>
         ELSE OneKept(f[z \ {Max(z)}], segs[Max(z)])]

KeepsAt(segs, k) ==
  (CHOOSE f : KeepsBy(f, segs, DOMAIN segs))[1..k]

LEMMA KeepsExists ==
  ASSUME NEW segs, NEW size \in Nat
  PROVE  \E f : KeepsBy(f, segs, 1..size)
  <1> DEFINE T == {k \in 0..size : \E f : KeepsBy(f, segs, 1..k)}
  <1>1. 0 \in T
    <2>1. KeepsBy([z \in SUBSET {} |-> <<>>], segs, {}) /\ 1..0 = {}
      BY DEF KeepsBy
    <2> QED
      BY <2>1
  <1>2. ASSUME NEW k \in 1..size, k - 1 \in T PROVE k \in T
    <2>1. PICK f : KeepsBy(f, segs, 1..(k - 1))
      BY <1>2
    <2>2. k \in Nat \ {0}
      OBVIOUS
    <2> DEFINE g == [z \in SUBSET (1..k) |->
                       IF k \in z THEN OneKept(f[z \ {k}], segs[k]) ELSE f[z]]
    <2>3. ASSUME NEW z \in SUBSET (1..k)
          PROVE  g[z] = IF z = {} THEN <<>>
                        ELSE OneKept(g[z \ {Max(z)}], segs[Max(z)])
      <3>1. CASE k \in z
        <4>1. Max(z) = k
          BY <2>2, <3>1, MaxOfPrefix
        <4>2. g[z \ {k}] = f[z \ {k}] /\ z # {}
          BY <3>1
        <4>3. g[z] = OneKept(f[z \ {k}], segs[k])
          BY <3>1
        <4> QED
          BY <4>1, <4>2, <4>3
      <3>2. CASE k \notin z
        <4>1. z \in SUBSET (1..(k - 1)) /\ g[z] = f[z]
          BY <2>2, <3>2
        <4>2. g[z \ {Max(z)}] = f[z \ {Max(z)}]
          BY <3>2
        <4>3. f[z] = IF z = {} THEN <<>>
                     ELSE OneKept(f[z \ {Max(z)}], segs[Max(z)])
          BY <2>1, <4>1 DEF KeepsBy
        <4> QED
          BY <4>1, <4>2, <4>3
      <3> QED
        BY <3>1, <3>2
    <2>4. KeepsBy(g, segs, 1..k)
      BY <2>3 DEF KeepsBy
    <2> QED
      BY <2>4
  <1> HIDE DEF T
  <1>3. 0 \in T /\ \A k \in 1..size : k - 1 \in T => k \in T
    BY <1>1, <1>2
  <1>4. size \in T
    BY <1>3, AtLast
  <1> QED
    BY <1>4 DEF T

KeepsTo(segs, n) ==
  /\ KeepsAt(segs, 0) = <<>>
  /\ \A k \in 1..n :
       KeepsAt(segs, k) = OneKept(KeepsAt(segs, k - 1), segs[k])
  /\ Meaningful(segs) = KeepsAt(segs, n)

LEMMA KeepsUnfold ==
  ASSUME NEW segs, NEW n \in Nat, DOMAIN segs = 1..n
  PROVE  KeepsTo(segs, n)
  <1> DEFINE f == CHOOSE h : KeepsBy(h, segs, DOMAIN segs)
  <1>1. KeepsBy(f, segs, 1..n)
    <2>1. \E h : KeepsBy(h, segs, 1..n)
      BY KeepsExists
    <2> QED
      BY <2>1, Zenon
  <1>2. \A k : KeepsAt(segs, k) = f[1..k]
    BY DEF KeepsAt
  <1>3. Meaningful(segs) = KeepsAt(segs, n)
    BY DEF KeepsBy, KeepsAt, FoldLeft, MapThenFoldSet, Meaningful, OneKept
  <1> HIDE DEF f
  <1>4. f[1..0] = <<>>
    BY <1>1 DEF KeepsBy
  <1>5. ASSUME NEW k \in 1..n
        PROVE  f[1..k] = OneKept(f[1..(k - 1)], segs[k])
    <2>1. 1..k \in SUBSET (1..n) /\ 1..k # {} /\ Max(1..k) = k /\ (1..k) \ {k} = 1..(k - 1)
      BY PrefixFacts
    <2> QED
      BY <1>1, <2>1 DEF KeepsBy
  <1> QED
    BY <1>2, <1>3, <1>4, <1>5 DEF KeepsTo


(* What is kept has none of those that are dropped, and all if there are   *)
(* none.                                                                   *)
LEMMA MeaningfulFacts ==
  ASSUME NEW T, NEW segs \in Seq(T)
  PROVE  /\ Meaningful(segs) \in Seq(T)
         /\ Range(Meaningful(segs)) \cap {Blank, Here} = {}
         /\ Range(segs) \cap {Blank, Here} = {} => Meaningful(segs) = segs
  <1> DEFINE n == Len(segs)
             at(k) == KeepsAt(segs, k)
             P == {k \in 0..n :
                     /\ at(k) \in Seq(T) /\ Range(at(k)) \cap {Blank, Here} = {}
                     /\ Range(segs) \cap {Blank, Here} = {} =>
                          Len(at(k)) = k /\ \A j \in 1..k : at(k)[j] = segs[j]}
  <1>1. n \in Nat /\ DOMAIN segs = 1..n /\ \A k \in 1..n : segs[k] \in T /\ segs[k] \in Range(segs)
    BY DEF Range
  <1>2. /\ at(0) = <<>>
        /\ \A k \in 1..n : at(k) = IF segs[k] \in {Blank, Here} THEN at(k - 1)
                                   ELSE Append(at(k - 1), segs[k])
        /\ Meaningful(segs) = at(n)
    BY <1>1, KeepsUnfold DEF KeepsTo, OneKept
  <1>3. 0 \in P
    <2>1. at(0) \in Seq(T) /\ Len(at(0)) = 0 /\ Range(at(0)) = {} /\ 0 \in 0..n
      <3>1. at(0) = <<>>
        BY <1>2
      <3>2. <<>> \in Seq(T) /\ Len(<<>>) = 0 /\ Range(<<>>) = {}
        BY DEF Range
      <3>3. n \in Nat => 0 \in 0..n
        OBVIOUS
      <3> HIDE DEF at, n
      <3>4. 0 \in 0..n
        BY <1>1, <3>3
      <3> QED
        BY <3>1, <3>2, <3>4
    <2> HIDE DEF at, n
    <2> QED
      BY <2>1
  <1>4. ASSUME NEW k \in 1..n, k - 1 \in P PROVE k \in P
    <2> DEFINE a == at(k - 1)
               r == at(k)
    <2>1. /\ r = IF segs[k] \in {Blank, Here} THEN a ELSE Append(a, segs[k])
          /\ segs[k] \in T /\ segs[k] \in Range(segs)
      BY <1>1, <1>2
    <2>2. /\ a \in Seq(T) /\ Range(a) \cap {Blank, Here} = {}
          /\ Range(segs) \cap {Blank, Here} = {} =>
               Len(a) = k - 1 /\ \A j \in 1..(k - 1) : a[j] = segs[j]
      BY <1>4
    <2> HIDE DEF a, n
    <2>3. CASE segs[k] \in {Blank, Here}
      BY <2>1, <2>2, <2>3
    <2>4. CASE segs[k] \notin {Blank, Here}
      <3>1. r = Append(a, segs[k])
        BY <2>1, <2>4
      <3> HIDE DEF r
      <3>2. r \in Seq(T) /\ Range(r) = Range(a) \union {segs[k]}
        BY <2>1, <2>2, <3>1, AppendFacts, AppendRange
      <3>3. ASSUME Range(segs) \cap {Blank, Here} = {}
            PROVE  Len(r) = k /\ \A j \in 1..k : r[j] = segs[j]
        <4>1. Len(a) = k - 1 /\ k - 1 \in Nat /\ \A j \in 1..(k - 1) : a[j] = segs[j]
          BY <1>1, <2>2, <3>3
        <4>2. /\ Len(r) = (k - 1) + 1 /\ r[(k - 1) + 1] = segs[k]
              /\ \A j \in 1..(k - 1) : r[j] = a[j]
          BY <2>1, <2>2, <3>1, <4>1, AppendFacts
        <4>3. (k - 1) + 1 = k /\ \A j \in 1..k : j = k \/ j \in 1..(k - 1)
          BY <1>1
        <4> QED
          BY <4>1, <4>2, <4>3
      <3>4. Range(r) \cap {Blank, Here} = {}
        BY <2>2, <2>4, <3>2
      <3> QED
        BY <3>2, <3>3, <3>4 DEF r
    <2> QED
      BY <2>3, <2>4
  <1>5. n \in P
    <2> HIDE DEF P, n
    <2>1. n \in Nat /\ 0 \in P /\ \A k \in 1..n : k - 1 \in P => k \in P
      BY <1>1, <1>3, <1>4
    <2> QED
      BY <2>1, AtLast
  <1>6. ASSUME Range(segs) \cap {Blank, Here} = {} PROVE Meaningful(segs) = segs
    <2> DEFINE m == Meaningful(segs)
    <2>1. m \in Seq(T) /\ Len(m) = n /\ \A j \in 1..n : m[j] = segs[j]
      BY <1>2, <1>5, <1>6
    <2> HIDE DEF m
    <2>2. DOMAIN m = DOMAIN segs /\ \A j \in DOMAIN m : m[j] = segs[j]
      BY <1>1, <2>1
    <2>3. m = segs
      BY <2>1, <2>2
    <2> QED
      BY <2>3 DEF m
  <1> QED
    BY <1>2, <1>5, <1>6

(* checkFileEntry accepts the literal spelling of a path and no other.     *)
LEMMA LiteralIsAccepted ==
  ASSUME NEW raw \in Path
  PROVE  /\ IsLiteral(raw) <=> CheckFileEntry(raw).kind = "ok" /\ ~CheckFileEntry(raw).cosmetic
         /\ IsLiteral(raw) => CheckFileEntry(raw).normalized = raw
  <1> DEFINE segs == raw.segs
             kept == Meaningful(raw.segs)
             entry == CheckFileEntry(raw)
  <1>1. /\ segs \in Seq(Segments) /\ segs # <<>> /\ raw.padded \in BOOLEAN
        /\ raw = [padded |-> raw.padded, mark |-> raw.mark, segs |-> segs]
        /\ raw.mark \in {"none", "backslash", "glob", "home"}
    BY DEF Path
  <1>2. /\ kept \in Seq(Segments) /\ Range(kept) \cap {Blank, Here} = {}
        /\ Range(segs) \cap {Blank, Here} = {} => kept = segs
    BY <1>1, MeaningfulFacts
  <1>3. segs[1] \in Range(segs)
    BY <1>1 DEF Range
  <1> HIDE DEF kept
  <1>4. ASSUME IsLiteral(raw)
        PROVE  entry = [kind |-> "ok", normalized |-> raw, cosmetic |-> FALSE]
    <2>1. raw.padded = FALSE /\ raw.mark = "none" /\ Range(segs) \cap {Blank, Here, Up} = {}
      BY <1>1, <1>4 DEF IsLiteral
    <2>2. kept = segs /\ segs[1] # Blank /\ Up \notin Range(segs) /\ kept # <<>>
      BY <1>1, <1>2, <1>3, <2>1
    <2>3. segs # <<Blank>>
      BY <2>2
    <2>4. Spelling(kept) = raw
      BY <1>1, <2>1, <2>2 DEF Spelling
    <2>5. entry = [kind |-> "ok", normalized |-> Spelling(kept),
                   cosmetic |-> Cosmetic(Spelling(kept), raw)]
      BY <2>1, <2>2, <2>3 DEF CheckFileEntry, kept
    <2> QED
      BY <2>4, <2>5 DEF Cosmetic
  <1>5. ASSUME entry.kind = "ok", ~entry.cosmetic PROVE IsLiteral(raw)
    <2>1. /\ ~(raw.mark = "none" /\ segs = <<Blank>>)
          /\ raw.mark \notin {"backslash", "glob", "home"} /\ Up \notin Range(segs)
      BY <1>5 DEF CheckFileEntry
    <2>2. entry = [kind |-> "ok", normalized |-> Spelling(kept),
                   cosmetic |-> Cosmetic(Spelling(kept), raw)]
      BY <1>5 DEF CheckFileEntry, kept
    <2>3. Spelling(kept) = raw
      <3>1. entry.cosmetic = (Spelling(kept) # raw)
        BY <2>2 DEF Cosmetic
      <3> HIDE DEF entry
      <3> QED
        BY <1>5, <3>1, Zenon
    <2>4. kept = segs /\ raw.padded = FALSE /\ raw.mark = "none"
      BY <2>3 DEF Spelling
    <2> QED
      BY <1>2, <2>1, <2>4 DEF IsLiteral
  <1> HIDE DEF entry
  <1>6. IsLiteral(raw) => entry.kind = "ok" /\ ~entry.cosmetic /\ entry.normalized = raw
    BY <1>4
  <1> QED
    BY <1>5, <1>6 DEF entry

(***************************************************************************)
(* The plan of a document, and what blocks it                              *)
(***************************************************************************)
LEMMA WhenFacts ==
  ASSUME NEW c, NEW code, NEW about
  PROVE  When(c, code, about) = {} <=> ~c
  BY DEF When

LEMMA DocFacts ==
  ASSUME NEW d \in PlanOutput
  PROVE  d.tasks \in Seq(PlanTask)
  BY DEF PlanOutput

Order(tasks) == [i \in DOMAIN tasks |-> tasks[i].id]

(* Where the ids are distinct, the first task of an id is the last of it.  *)
IsPlanOf(plan, tasks) ==
  /\ plan.order = Order(tasks) /\ plan.order \in Seq(Names)
  /\ TasksOf(plan) = IdsOf(tasks)
  /\ IsInjective(Order(tasks)) =>
       \A i \in DOMAIN tasks :
         /\ plan.dependsOn[tasks[i].id] = Range(tasks[i].dependsOn)
         /\ plan.files[tasks[i].id] = Range(tasks[i].files)
         /\ plan.priority[tasks[i].id] = tasks[i].priority
         /\ DependsOn(tasks, tasks[i].id) = tasks[i].dependsOn

LEMMA PlanOfFacts ==
  ASSUME NEW d \in PlanOutput, NEW tasks, tasks = d.tasks, NEW plan, plan = PlanOf(d)
  PROVE  IsPlanOf(plan, tasks)
  <1>1. tasks \in Seq(PlanTask)
    BY DocFacts
  <1>2. plan.order = Order(tasks)
    BY DEF PlanOf, Order
  <1>3. Order(tasks) \in Seq(Names) /\ Range(Order(tasks)) = IdsOf(tasks)
    BY <1>1, IdsFacts DEF Order
  <1>4. ASSUME IsInjective(Order(tasks)), NEW i \in DOMAIN tasks
        PROVE  /\ plan.dependsOn[tasks[i].id] = Range(tasks[i].dependsOn)
               /\ plan.files[tasks[i].id] = Range(tasks[i].files)
               /\ plan.priority[tasks[i].id] = tasks[i].priority
               /\ DependsOn(tasks, tasks[i].id) = tasks[i].dependsOn
    <2> DEFINE id == tasks[i].id
               at == CHOOSE j \in DOMAIN tasks : tasks[j].id = id
    <2>1. \A j \in DOMAIN tasks : tasks[j].id = id => j = i
      BY <1>4 DEF Order, IsInjective
    <2>2. at = i
      <3>1. at \in DOMAIN tasks /\ tasks[at].id = id
        BY Zenon
      <3> HIDE DEF at, id
      <3> QED
        BY <2>1, <3>1
    <2>3. id \in IdsOf(tasks)
      BY <1>1, TasksFacts
    <2>4. /\ plan.dependsOn = [x \in IdsOf(tasks) |->
               Range(tasks[CHOOSE j \in DOMAIN tasks : tasks[j].id = x].dependsOn)]
          /\ plan.files = [x \in IdsOf(tasks) |->
               Range(tasks[CHOOSE j \in DOMAIN tasks : tasks[j].id = x].files)]
          /\ plan.priority = [x \in IdsOf(tasks) |->
               tasks[CHOOSE j \in DOMAIN tasks : tasks[j].id = x].priority]
      BY DEF PlanOf
    <2>5. /\ plan.dependsOn[id] = Range(tasks[at].dependsOn)
          /\ plan.files[id] = Range(tasks[at].files)
          /\ plan.priority[id] = tasks[at].priority
      BY <2>3, <2>4, Zenon
    <2>6. DependsOn(tasks, id) = tasks[i].dependsOn
      <3>1. PICK j \in DOMAIN tasks : tasks[j].id = id /\ DependsOn(tasks, id) = tasks[j].dependsOn
        BY <1>1, <2>3, DependsOnFacts
      <3>2. j = i
        BY <2>1, <3>1
      <3> QED
        BY <3>1, <3>2
    <2> HIDE DEF at
    <2> QED
      BY <2>2, <2>5, <2>6
  <1> QED
    BY <1>2, <1>3, <1>4 DEF TasksOf, IsPlanOf

(* What checkTaskGraph lets through.                                       *)
GraphPasses(d, tasks) ==
  /\ d.status = "completed" /\ tasks # <<>> /\ IsInjective(Order(tasks))
  /\ \A i \in DOMAIN tasks : \A dep \in Range(tasks[i].dependsOn) :
       dep # tasks[i].id /\ dep \in IdsOf(tasks)
  /\ FindCycle(tasks) = <<>>
  /\ d.first \in IdsOf(tasks) \union {None}

LEMMA GraphBlockersFacts ==
  ASSUME NEW d \in PlanOutput
  PROVE  GraphBlockers(d) = {} <=> GraphPasses(d, d.tasks)
  <1> DEFINE ids == IdsOf(d.tasks)
             OfId(i) == When(Twice([j \in DOMAIN d.tasks |-> d.tasks[j].id], d.tasks[i].id),
                             "task.id.duplicate", d.tasks[i].id)
             OfDep(i, dep) == When(dep = d.tasks[i].id, "task.deps.self", d.tasks[i].id)
                              \union When(dep \notin ids, "task.deps.unknown", d.tasks[i].id)
             Each(i) == OfId(i) \union UNION {OfDep(i, dep) : dep \in Range(d.tasks[i].dependsOn)}
             status == When(d.status # "completed", "plan.status.not-completed", None)
             cycle == When(FindCycle(d.tasks) # <<>>, "plan.deps.cycle", None)
             first == When(d.first \notin ids \union {None},
                           "plan.recommended-first-task.unknown", None)
  <1>1. GraphBlockers(d) = status \union
          IF d.tasks = <<>> THEN When(TRUE, "plan.tasks.empty", None)
          ELSE ((UNION {Each(i) : i \in DOMAIN d.tasks}) \union cycle) \union first
    BY DEF GraphBlockers
  <1>2. /\ status = {} <=> d.status = "completed"
        /\ cycle = {} <=> FindCycle(d.tasks) = <<>>
        /\ first = {} <=> d.first \in ids \union {None}
        /\ When(TRUE, "plan.tasks.empty", None) # {}
    BY WhenFacts
  <1>3. ASSUME NEW i \in DOMAIN d.tasks
        PROVE  Each(i) = {} <=> /\ ~Twice(Order(d.tasks), d.tasks[i].id)
                                /\ \A dep \in Range(d.tasks[i].dependsOn) :
                                     dep # d.tasks[i].id /\ dep \in ids
    <2>1. OfId(i) = {} <=> ~Twice(Order(d.tasks), d.tasks[i].id)
      BY WhenFacts DEF Order
    <2>2. ASSUME NEW dep PROVE OfDep(i, dep) = {} <=> dep # d.tasks[i].id /\ dep \in ids
      <3>1. /\ When(dep = d.tasks[i].id, "task.deps.self", d.tasks[i].id) = {} <=> dep # d.tasks[i].id
            /\ When(dep \notin ids, "task.deps.unknown", d.tasks[i].id) = {} <=> dep \in ids
        BY WhenFacts
      <3> HIDE DEF ids
      <3> QED
        BY <3>1
    <2> HIDE DEF OfId, OfDep
    <2>3. UNION {OfDep(i, dep) : dep \in Range(d.tasks[i].dependsOn)} = {} <=>
            \A dep \in Range(d.tasks[i].dependsOn) : OfDep(i, dep) = {}
      OBVIOUS
    <2> QED
      BY <2>1, <2>2, <2>3
  <1>4. IsInjective(Order(d.tasks)) <=> \A i \in DOMAIN d.tasks : ~Twice(Order(d.tasks), d.tasks[i].id)
    <2>1. d.tasks \in Seq(PlanTask)
      BY DocFacts
    <2>2. Len(d.tasks) \in Nat /\ DOMAIN d.tasks = 1..Len(d.tasks)
      BY <2>1, TasksFacts
    <2> DEFINE o == Order(d.tasks)
               n == Len(d.tasks)
    <2>3. DOMAIN o = 1..n /\ \A i \in 1..n : o[i] = d.tasks[i].id
      BY <2>2 DEF Order
    <2> HIDE DEF o, n
    <2>4. IsInjective(o) => \A i \in 1..n : ~Twice(o, o[i])
      BY <2>2, <2>3 DEF IsInjective, Twice
    <2>5. ASSUME \A i \in 1..n : ~Twice(o, o[i]), NEW i \in 1..n, NEW j \in 1..n, o[i] = o[j]
          PROVE  i = j
      <3>1. ~(i < j) /\ ~(j < i)
        BY <2>3, <2>5 DEF Twice
      <3> QED
        BY <3>1
    <2>6. (\A i \in 1..n : ~Twice(o, o[i])) => IsInjective(o)
      BY <2>3, <2>5 DEF IsInjective
    <2> QED
      BY <2>2, <2>3, <2>4, <2>6 DEF o, n
  <1> HIDE DEF status, cycle, first, Each, ids
  <1>5. UNION {Each(i) : i \in DOMAIN d.tasks} = {} <=> \A i \in DOMAIN d.tasks : Each(i) = {}
    OBVIOUS
  <1> QED
    <2>1. UNION {Each(i) : i \in DOMAIN d.tasks} = {} <=>
            /\ IsInjective(Order(d.tasks))
            /\ \A i \in DOMAIN d.tasks : \A dep \in Range(d.tasks[i].dependsOn) :
                 dep # d.tasks[i].id /\ dep \in ids
      BY <1>3, <1>4, <1>5
    <2> DEFINE each == UNION {Each(i) : i \in DOMAIN d.tasks}
    <2> HIDE DEF each
    <2>2. GraphBlockers(d) = {} <=>
            status = {} /\ d.tasks # <<>> /\ each = {} /\ cycle = {} /\ first = {}
      BY <1>1, <1>2 DEF each
    <2> QED
      BY <1>2, <2>1, <2>2 DEF GraphPasses, ids, each

LEMMA FileBlockersFacts ==
  ASSUME NEW tasks \in Seq(PlanTask)
  PROVE  FileBlockers(tasks) = {} <=>
           \A i \in DOMAIN tasks : \A raw \in Range(tasks[i].files) : IsLiteral(raw)
  <1> DEFINE OfFile(task, raw) ==
               IF CheckFileEntry(raw).kind # "ok"
               THEN When(TRUE, "task.files." \o CheckFileEntry(raw).kind, task.id)
               ELSE When(CheckFileEntry(raw).cosmetic, "task.files.unnormalized", task.id)
             Each(i) == UNION {OfFile(tasks[i], raw) : raw \in Range(tasks[i].files)}
  <1>1. FileBlockers(tasks) = UNION {Each(i) : i \in DOMAIN tasks}
    BY DEF FileBlockers
  <1>2. ASSUME NEW task, NEW raw \in Path PROVE OfFile(task, raw) = {} <=> IsLiteral(raw)
    <2>1. When(TRUE, "task.files." \o CheckFileEntry(raw).kind, task.id) # {}
      BY WhenFacts
    <2>2. When(CheckFileEntry(raw).cosmetic, "task.files.unnormalized", task.id) = {} <=>
            ~CheckFileEntry(raw).cosmetic
      BY WhenFacts
    <2>3. OfFile(task, raw) = {} <=> CheckFileEntry(raw).kind = "ok" /\ ~CheckFileEntry(raw).cosmetic
      BY <2>1, <2>2, Zenon
    <2> QED
      BY <2>3, LiteralIsAccepted, Zenon
  <1>3. ASSUME NEW i \in DOMAIN tasks PROVE Range(tasks[i].files) \subseteq Path
    <2>1. tasks[i] \in PlanTask
      BY TasksFacts
    <2>2. tasks[i].files \in Seq(Path)
      BY <2>1 DEF PlanTask
    <2> QED
      BY <2>2, RangeType
  <1> HIDE DEF OfFile
  <1>4. ASSUME NEW i \in DOMAIN tasks
        PROVE  Each(i) = {} <=> \A raw \in Range(tasks[i].files) : IsLiteral(raw)
    <2>1. \A raw \in Range(tasks[i].files) : OfFile(tasks[i], raw) = {} <=> IsLiteral(raw)
      BY <1>2, <1>3
    <2>2. Each(i) = {} <=> \A raw \in Range(tasks[i].files) : OfFile(tasks[i], raw) = {}
      OBVIOUS
    <2> QED
      BY <2>1, <2>2
  <1> HIDE DEF Each
  <1>5. UNION {Each(i) : i \in DOMAIN tasks} = {} <=> \A i \in DOMAIN tasks : Each(i) = {}
    OBVIOUS
  <1> QED
    BY <1>1, <1>4, <1>5

(* Once the rest is right, the plan has the edges of the graph.            *)
LEMMA SameKnots ==
  ASSUME NEW d \in PlanOutput, NEW tasks, tasks = d.tasks, NEW plan, plan = PlanOf(d),
         IsInjective(Order(tasks)),
         \A t \in IdsOf(tasks) : plan.dependsOn[t] \subseteq IdsOf(tasks) \ {t}
  PROVE  /\ \A t \in IdsOf(tasks) : plan.dependsOn[t] = Others(tasks, t)
         /\ Acyclic(plan) <=> Acyclic(GraphOf(tasks))
  <1>1. tasks \in Seq(PlanTask)
    BY DocFacts
  <1>2. /\ plan.order \in Seq(Names) /\ TasksOf(plan) = IdsOf(tasks)
        /\ \A i \in DOMAIN tasks : plan.dependsOn[tasks[i].id] = Range(tasks[i].dependsOn)
        /\ \A i \in DOMAIN tasks : DependsOn(tasks, tasks[i].id) = tasks[i].dependsOn
    <2>1. IsPlanOf(plan, tasks)
      BY PlanOfFacts
    <2> QED
      BY <2>1 DEF IsPlanOf
  <1>3. ASSUME NEW t \in IdsOf(tasks) PROVE plan.dependsOn[t] = Others(tasks, t)
    <2>1. PICK i \in DOMAIN tasks : tasks[i].id = t
      BY DEF IdsOf
    <2>2. plan.dependsOn[t] = Range(DependsOn(tasks, t))
      BY <1>2, <2>1
    <2>3. plan.dependsOn[t] \subseteq IdsOf(tasks) \ {t}
      OBVIOUS
    <2> QED
      BY <2>2, <2>3 DEF Others
  <1>4. \A t \in IdsOf(tasks) : GraphOf(tasks).dependsOn[t] = Others(tasks, t)
    BY <1>1, GraphFacts
  <1>5. HasNoKnot(plan, IdsOf(tasks)) <=> HasNoKnot(GraphOf(tasks), IdsOf(tasks))
    BY <1>3, <1>4 DEF HasNoKnot
  <1>6. Acyclic(plan) <=> HasNoKnot(plan, IdsOf(tasks))
    <2>1. \A t \in TasksOf(plan) : plan.dependsOn[t] \subseteq TasksOf(plan)
      BY <1>2
    <2> QED
      BY <1>2, <2>1, AcyclicMeansNoKnot
  <1>7. Acyclic(GraphOf(tasks)) <=> HasNoKnot(GraphOf(tasks), IdsOf(tasks))
    BY <1>1, GraphFacts, AcyclicMeansNoKnot
  <1> QED
    BY <1>3, <1>5, <1>6, <1>7

(* Preflight blocks a document exactly when it must (checkTaskGraph and    *)
(* checkTaskFiles, plan-preflight.ts:235-331, 335-338).                    *)
THEOREM BlockersAreExact ==
  ASSUME NEW d \in PlanOutput, NEW tasks, tasks = d.tasks
  PROVE  Blockers(d) = {} <=>
           /\ d.status = "completed" /\ WellFormedPlan(PlanOf(d))
           /\ d.first \in IdsOf(tasks) \union {None}
           /\ \A i \in DOMAIN tasks : \A raw \in Range(tasks[i].files) : IsLiteral(raw)
  <1> DEFINE plan == PlanOf(d)
             Literal == \A i \in DOMAIN tasks : \A raw \in Range(tasks[i].files) : IsLiteral(raw)
  <1>1. tasks \in Seq(PlanTask)
    BY DocFacts
  <1>2. Blockers(d) = {} <=> GraphPasses(d, tasks) /\ Literal
    BY <1>1, GraphBlockersFacts, FileBlockersFacts DEF Blockers
  <1> HIDE DEF Literal
  <1>3. /\ plan.order = Order(tasks) /\ TasksOf(plan) = IdsOf(tasks)
        /\ IsInjective(Order(tasks)) =>
             \A i \in DOMAIN tasks : plan.dependsOn[tasks[i].id] = Range(tasks[i].dependsOn)
    <2>1. IsPlanOf(plan, tasks)
      BY PlanOfFacts
    <2> HIDE DEF plan
    <2> QED
      BY <2>1 DEF IsPlanOf
  <1> HIDE DEF plan
  <1>4. Order(tasks) # <<>> <=> tasks # <<>>
    <2>1. Len(tasks) \in Nat /\ DOMAIN tasks = 1..Len(tasks)
      BY <1>1, TasksFacts
    <2>2. Len(Order(tasks)) = Len(tasks) /\ Order(tasks) \in Seq(Names)
      BY <1>1, IdsFacts DEF Order
    <2> QED
      BY <1>1, <2>1, <2>2
  <1>5. ASSUME IsInjective(Order(tasks))
        PROVE  (\A i \in DOMAIN tasks : \A dep \in Range(tasks[i].dependsOn) :
                  dep # tasks[i].id /\ dep \in IdsOf(tasks))
               <=> \A t \in IdsOf(tasks) : plan.dependsOn[t] \subseteq IdsOf(tasks) \ {t}
    <2>1. \A i \in DOMAIN tasks : plan.dependsOn[tasks[i].id] = Range(tasks[i].dependsOn)
      BY <1>3, <1>5
    <2>2. \A t : t \in IdsOf(tasks) <=> \E i \in DOMAIN tasks : tasks[i].id = t
      BY DEF IdsOf
    <2> QED
      BY <2>1, <2>2
  <1>6. ASSUME IsInjective(Order(tasks)),
               \A t \in IdsOf(tasks) : plan.dependsOn[t] \subseteq IdsOf(tasks) \ {t}
        PROVE  Acyclic(plan) <=> FindCycle(tasks) = <<>>
    BY <1>1, <1>6, SameKnots, FindCycleIsExact DEF plan
  <1>7. WellFormedPlan(plan) <=>
          /\ tasks # <<>> /\ IsInjective(Order(tasks))
          /\ \A t \in IdsOf(tasks) : plan.dependsOn[t] \subseteq IdsOf(tasks) \ {t}
          /\ Acyclic(plan)
    BY <1>3, <1>4 DEF WellFormedPlan
  <1>8. GraphPasses(d, tasks) <=>
          d.status = "completed" /\ WellFormedPlan(plan) /\ d.first \in IdsOf(tasks) \union {None}
    BY <1>5, <1>6, <1>7 DEF GraphPasses
  <1> QED
    BY <1>2, <1>8 DEF plan, Literal

(* A recommended task that preflight neither blocks nor warns of depends   *)
(* on nothing: it can be the first to run.                                 *)
LEMMA RecommendedCanRun ==
  ASSUME NEW d \in PlanOutput,
         Blockers(d) = {}, GraphWarnings(d) = {}
  PROVE  PlanOf(d).dependsOn[d.first] = {}
  <1> DEFINE IsFirst(i) == d.tasks[i].id = d.first /\ \A j \in 1..(i-1) : d.tasks[j].id # d.first
  <1>1. d.tasks \in Seq(PlanTask) /\ GraphPasses(d, d.tasks)
    BY DocFacts, GraphBlockersFacts DEF Blockers
  <1>2. /\ When(d.first = None, "plan.recommended-first-task.missing", None) = {}
        /\ When(\E i \in DOMAIN d.tasks : IsFirst(i) /\ d.tasks[i].dependsOn # <<>>,
                "plan.recommended-first-task.has-deps", None) = {}
    BY <1>1 DEF GraphWarnings, GraphPasses
  <1>3. d.first # None
    BY <1>2, WhenFacts
  <1>4. ~\E i \in DOMAIN d.tasks : IsFirst(i) /\ d.tasks[i].dependsOn # <<>>
    <2> DEFINE c == \E i \in DOMAIN d.tasks : IsFirst(i) /\ d.tasks[i].dependsOn # <<>>
    <2>1. When(c, "plan.recommended-first-task.has-deps", None) = {}
      BY <1>2
    <2> HIDE DEF c
    <2>2. ~c
      BY <2>1, WhenFacts
    <2> QED
      BY <2>2 DEF c
  <1>5. PICK i \in DOMAIN d.tasks : d.tasks[i].id = d.first
    BY <1>1, <1>3 DEF GraphPasses, IdsOf
  <1>6. IsFirst(i)
    <2>1. \A j \in DOMAIN d.tasks : d.tasks[j].id = d.tasks[i].id => j = i
      BY <1>1 DEF GraphPasses, Order, IsInjective
    <2>2. \A j \in 1..(i-1) : j \in DOMAIN d.tasks /\ j # i
      BY <1>1, TasksFacts
    <2> QED
      BY <1>5, <2>1, <2>2
  <1>7. d.tasks[i].dependsOn = <<>>
    BY <1>4, <1>6
  <1>8. PlanOf(d).dependsOn[d.tasks[i].id] = Range(d.tasks[i].dependsOn)
    <2>1. IsPlanOf(PlanOf(d), d.tasks) /\ IsInjective(Order(d.tasks))
      BY <1>1, PlanOfFacts DEF GraphPasses
    <2> QED
      BY <2>1 DEF IsPlanOf
  <1> QED
    BY <1>5, <1>7, <1>8 DEF Range

(* Of every document of the schema, as drawn.                              *)
LEMMA PreflightOfDocument ==
  ASSUME doc \in PlanOutput
  PROVE  PreflightIsExact
  <1>1. doc.tasks \in Seq(PlanTask)
    BY DocFacts
  <1>2. /\ FindCycle(doc.tasks) = <<>> <=> Acyclic(GraphOf(doc.tasks))
        /\ FindCycle(doc.tasks) # <<>> => IsCycle(doc.tasks, FindCycle(doc.tasks))
    BY <1>1, FindCycleIsExact
  <1>3. Blockers(doc) = {} <=>
          /\ doc.status = "completed" /\ WellFormedPlan(PlanOf(doc))
          /\ doc.first \in IdsOf(doc.tasks) \union {None}
          /\ \A i \in DOMAIN doc.tasks : \A raw \in Range(doc.tasks[i].files) : IsLiteral(raw)
    BY BlockersAreExact
  <1>4. Blockers(doc) = {} /\ GraphWarnings(doc) = {} => PlanOf(doc).dependsOn[doc.first] = {}
    BY RecommendedCanRun
  <1> QED
    BY <1>2, <1>3, <1>4, Zenon DEF PreflightIsExact, DocPlan

(***************************************************************************)
(* Waves of the plan of an admitted document                               *)
(***************************************************************************)
Schedulable(plan) ==
  /\ plan.order \in Seq(Names) /\ IsInjective(plan.order) /\ Len(plan.order) \in Nat \ {0}
  /\ \A t \in TasksOf(plan) : /\ plan.dependsOn[t] \subseteq TasksOf(plan) \ {t}
                              /\ plan.priority[t] \in {0, 1, 2}
  /\ Acyclic(plan)

(* What is done or failed could run, what is skipped needs what failed or  *)
(* was skipped, and what is pending can still run.                         *)
Coherent(plan, s) ==
  /\ s \in [TasksOf(plan) -> TaskStatus]
  /\ \A t \in TasksOf(plan) :
       /\ s[t] \in {"done", "failed"} => \A d \in plan.dependsOn[t] : s[d] = "done"
       /\ s[t] = "skipped" => \E d \in plan.dependsOn[t] : s[d] \in {"failed", "skipped"}
       /\ s[t] = "pending" => \A d \in plan.dependsOn[t] : s[d] \in {"pending", "done"}

FailedOf(plan, s) == {t \in TasksOf(plan) : s[t] = "failed"}

LEMMA AdmittedPlan ==
  ASSUME NEW d \in PlanOutput, Blockers(d) = {}, NEW plan, plan = PlanOf(d)
  PROVE  /\ Schedulable(plan) /\ IsPlanOf(plan, d.tasks) /\ IsInjective(Order(d.tasks))
         /\ TasksOf(plan) = IdsOf(d.tasks)
         /\ \A t \in IdsOf(d.tasks) : plan.dependsOn[t] = Others(d.tasks, t)
         /\ \A i \in DOMAIN d.tasks : \A raw \in Range(d.tasks[i].files) : IsLiteral(raw)
  <1> DEFINE tasks == d.tasks
  <1>1. IsPlanOf(plan, tasks) /\ tasks \in Seq(PlanTask)
    BY PlanOfFacts, DocFacts
  <1>2. /\ WellFormedPlan(plan)
        /\ \A i \in DOMAIN tasks : \A raw \in Range(tasks[i].files) : IsLiteral(raw)
    BY BlockersAreExact
  <1> HIDE DEF tasks
  <1>3. /\ plan.order = Order(tasks) /\ plan.order \in Seq(Names) /\ TasksOf(plan) = IdsOf(tasks)
        /\ plan.order # <<>> /\ IsInjective(plan.order) /\ Acyclic(plan)
        /\ \A t \in IdsOf(tasks) : plan.dependsOn[t] \subseteq IdsOf(tasks) \ {t}
    BY <1>1, <1>2 DEF IsPlanOf, WellFormedPlan
  <1>4. Len(plan.order) \in Nat \ {0}
    BY <1>3
  <1>5. ASSUME NEW t \in IdsOf(tasks) PROVE plan.priority[t] \in {0, 1, 2}
    <2>1. PICK i \in DOMAIN tasks : tasks[i].id = t
      BY DEF IdsOf
    <2>2. plan.priority[t] = tasks[i].priority
      BY <1>1, <1>3, <2>1 DEF IsPlanOf
    <2>3. tasks[i] \in PlanTask
      BY <1>1, TasksFacts
    <2> QED
      BY <2>2, <2>3 DEF PlanTask
  <1>6. \A t \in IdsOf(tasks) : plan.dependsOn[t] = Others(tasks, t)
    BY <1>3, SameKnots DEF tasks
  <1> QED
    BY <1>1, <1>2, <1>3, <1>4, <1>5, <1>6 DEF Schedulable, tasks

(* The end of one task of a wave leaves the others as they were.           *)
EndsRight(plan, bad, s, t, r) ==
  /\ Coherent(plan, r)
  /\ FailedOf(plan, r) = FailedOf(plan, s) \union ({t} \cap bad)
  /\ \A x \in TasksOf(plan) \ {t} : IsRunnable(plan, s, x) => IsRunnable(plan, r, x)

LEMMA DoneRight ==
  ASSUME NEW plan, NEW bad, Schedulable(plan), NEW s, Coherent(plan, s),
         NEW t \in TasksOf(plan), IsRunnable(plan, s, t), t \notin bad,
         NEW r, r = Ended(plan, bad, s, t)
  PROVE  EndsRight(plan, bad, s, t, r)
  <1> DEFINE T == TasksOf(plan)
             Dep(x) == plan.dependsOn[x]
  <1>1. /\ s \in [T -> TaskStatus] /\ s[t] = "pending" /\ \A d \in Dep(t) : s[d] = "done"
        /\ \A x \in T : Dep(x) \subseteq T \ {x}
    BY DEF Coherent, IsRunnable, Schedulable
  <1>2. /\ r \in [T -> TaskStatus] /\ r[t] = "done" /\ \A x \in T \ {t} : r[x] = s[x]
    BY <1>1 DEF Ended, TaskStatus
  <1>3. Coherent(plan, r)
    BY <1>1, <1>2 DEF Coherent
  <1>4. FailedOf(plan, r) = FailedOf(plan, s)
    BY <1>1, <1>2 DEF FailedOf
  <1>5. ASSUME NEW x \in T \ {t}, IsRunnable(plan, s, x) PROVE IsRunnable(plan, r, x)
    BY <1>1, <1>2, <1>5 DEF IsRunnable
  <1> QED
    BY <1>3, <1>4, <1>5 DEF EndsRight

(* What a cascade skips, as CascadeIsExact has it.                         *)
SkipsOf(plan, f, t, c) ==
  /\ c \subseteq TasksOf(plan) \ {t}
  /\ \A x \in TasksOf(plan) \ {t} :
       x \in c <=> /\ f[x] = "pending"
                  /\ plan.dependsOn[x] \cap (c \union {t}) # {}

LEMMA SkipsAreExact ==
  ASSUME NEW plan, NEW f, NEW t \in TasksOf(plan),
         Len(plan.order) \in Nat \ {0}, Acyclic(plan),
         NEW c, c = Cascade(plan, f, t)
  PROVE  SkipsOf(plan, f, t, c)
  <1>1. /\ c \subseteq TasksOf(plan) \ {t}
        /\ \A x \in TasksOf(plan) \ {t} :
             x \in c <=> /\ f[x] = "pending"
                        /\ plan.dependsOn[x] \cap (c \union {t}) # {}
    BY CascadeIsExact
  <1> QED
    BY <1>1 DEF SkipsOf

LEMMA FailedRight ==
  ASSUME NEW plan, NEW bad, Schedulable(plan), NEW s, Coherent(plan, s),
         NEW t \in TasksOf(plan), IsRunnable(plan, s, t), t \in bad,
         NEW r, r = Ended(plan, bad, s, t)
  PROVE  EndsRight(plan, bad, s, t, r)
  <1> DEFINE T == TasksOf(plan)
             Dep(x) == plan.dependsOn[x]
             f == [s EXCEPT ![t] = "failed"]
             c == Cascade(plan, f, t)
  <1>1. /\ s \in [T -> TaskStatus] /\ s[t] = "pending" /\ \A d \in Dep(t) : s[d] = "done"
        /\ \A x \in T : Dep(x) \subseteq T \ {x}
    BY DEF Coherent, IsRunnable, Schedulable
  <1>2. f \in [T -> TaskStatus] /\ f[t] = "failed" /\ \A x \in T \ {t} : f[x] = s[x]
    BY <1>1 DEF TaskStatus
  <1>3. r = [x \in DOMAIN f |-> IF f[x] = "pending" /\ x \in c THEN "skipped" ELSE f[x]]
    BY DEF Ended, AutoSkipDependents
  <1>4. /\ c \subseteq T \ {t}
        /\ \A x \in T \ {t} : x \in c <=> f[x] = "pending" /\ Dep(x) \cap (c \union {t}) # {}
    <2>1. Len(plan.order) \in Nat \ {0} /\ Acyclic(plan)
      BY DEF Schedulable
    <2>2. SkipsOf(plan, f, t, c)
      <3> HIDE DEF f
      <3> QED
        BY <2>1, SkipsAreExact, Zenon
    <2> QED
      BY <2>2 DEF SkipsOf
  <1>a. c \subseteq T \ {t} /\ t \in T
    BY <1>4
  <1> HIDE DEF c, f, T
  <1>5. /\ r \in [T -> TaskStatus] /\ r[t] = "failed"
        /\ \A x \in c : s[x] = "pending" /\ r[x] = "skipped"
        /\ \A x \in T : x # t /\ x \notin c => r[x] = s[x]
    <2>1. DOMAIN f = T /\ \A x \in T : f[x] \in TaskStatus
      BY <1>2
    <2>2. \A x \in T : r[x] = IF f[x] = "pending" /\ x \in c THEN "skipped" ELSE f[x]
      BY <1>3, <2>1
    <2>3. \A x \in c : x \in T /\ x # t /\ f[x] = "pending"
      BY <1>4
    <2>4. r \in [T -> TaskStatus]
      BY <1>3, <2>1 DEF TaskStatus
    <2>5. r[t] = "failed"
      BY <1>2, <1>a, <2>2
    <2>6. \A x \in c : s[x] = "pending" /\ r[x] = "skipped"
      BY <1>2, <2>2, <2>3
    <2>7. \A x \in T : x # t /\ x \notin c => r[x] = s[x]
      BY <1>2, <2>2
    <2> QED
      BY <2>4, <2>5, <2>6, <2>7
  <1>6. \A x \in T : s[x] # "pending" => r[x] = s[x]
    BY <1>1, <1>5
  <1>7. ASSUME NEW x \in T PROVE
          /\ r[x] \in {"done", "failed"} => \A d \in Dep(x) : r[d] = "done"
          /\ r[x] = "skipped" => \E d \in Dep(x) : r[d] \in {"failed", "skipped"}
          /\ r[x] = "pending" => \A d \in Dep(x) : r[d] \in {"pending", "done"}
    <2>0. /\ s[x] \in {"done", "failed"} => \A d \in Dep(x) : s[d] = "done"
          /\ s[x] = "skipped" => \E d \in Dep(x) : s[d] \in {"failed", "skipped"}
          /\ s[x] = "pending" => \A d \in Dep(x) : s[d] \in {"pending", "done"}
      BY DEF Coherent, T
    <2>1. CASE x = t
      <3>1. \A d \in Dep(x) : r[d] = "done"
        BY <1>1, <1>6, <2>1
      <3> QED
        BY <1>5, <2>1, <3>1
    <2>2. CASE x \in c
      <3>1. r[x] = "skipped" /\ Dep(x) \cap (c \union {t}) # {}
        BY <1>4, <1>5, <2>2
      <3>2. \E d \in Dep(x) : r[d] \in {"failed", "skipped"}
        BY <1>5, <3>1
      <3> QED
        BY <3>1, <3>2
    <2>3. CASE x # t /\ x \notin c
      <3>1. r[x] = s[x]
        BY <1>5, <2>3
      <3>2. CASE s[x] \in {"done", "failed"}
        BY <1>1, <1>6, <2>0, <3>1, <3>2
      <3>3. CASE s[x] = "skipped"
        <4>1. PICK d \in Dep(x) : s[d] \in {"failed", "skipped"}
          BY <2>0, <3>3
        <4>2. r[d] = s[d]
          BY <1>1, <1>6, <4>1
        <4> QED
          BY <3>1, <3>3, <4>1, <4>2
      <3>4. CASE s[x] = "pending"
        <4>1. f[x] = "pending"
          BY <1>2, <2>3, <3>4
        <4>2. Dep(x) \cap (c \union {t}) = {}
          BY <1>4, <2>3, <4>1
        <4>3. \A d \in Dep(x) : r[d] = s[d]
          BY <1>1, <1>5, <4>2
        <4> QED
          BY <2>0, <3>1, <3>4, <4>3
      <3>5. s[x] \in {"pending", "done", "skipped", "failed"}
        BY <1>1 DEF TaskStatus
      <3> QED
        BY <3>2, <3>3, <3>4, <3>5
    <2> QED
      BY <2>1, <2>2, <2>3
  <1>8. Coherent(plan, r)
    BY <1>5, <1>7 DEF Coherent, T
  <1>9. FailedOf(plan, r) = FailedOf(plan, s) \union {t}
    <2>1. \A x \in T : r[x] = "failed" <=> s[x] = "failed" \/ x = t
      BY <1>1, <1>5
    <2> QED
      BY <2>1 DEF FailedOf, T
  <1>10. ASSUME NEW x \in T \ {t}, IsRunnable(plan, s, x) PROVE IsRunnable(plan, r, x)
    <2>1. s[x] = "pending" /\ \A d \in Dep(x) : s[d] = "done" /\ d \in T
      BY <1>1, <1>10 DEF IsRunnable
    <2>2. \A d \in Dep(x) : r[d] = "done" /\ d # t /\ d \notin c
      BY <1>1, <1>5, <1>6, <2>1
    <2>3. x \notin c
      BY <1>4, <2>2
    <2>4. r[x] = "pending"
      BY <1>5, <2>1, <2>3
    <2> QED
      BY <2>2, <2>4 DEF IsRunnable
  <1> QED
    BY <1>8, <1>9, <1>10 DEF EndsRight, T

LEMMA EndedRight ==
  ASSUME NEW plan, NEW bad, Schedulable(plan), NEW s, Coherent(plan, s),
         NEW t \in TasksOf(plan), IsRunnable(plan, s, t),
         NEW r, r = Ended(plan, bad, s, t)
  PROVE  EndsRight(plan, bad, s, t, r)
  <1>1. CASE t \in bad
    BY <1>1, FailedRight
  <1>2. CASE t \notin bad
    BY <1>2, DoneRight
  <1> QED
    BY <1>1, <1>2

(* A wave that ends: the statuses after its first k tasks. *)
EndsBy(f, plan, bad, st, w, S) ==
  f = [z \in SUBSET S |->
         IF z = {} THEN st
         ELSE Ended(plan, bad, f[z \ {Max(z)}], w[Max(z)])]

EndsAt(plan, bad, st, w, k) ==
  (CHOOSE f : EndsBy(f, plan, bad, st, w, DOMAIN w))[1..k]

LEMMA EndsExists ==
  ASSUME NEW plan, NEW bad, NEW st, NEW w, NEW size \in Nat
  PROVE  \E f : EndsBy(f, plan, bad, st, w, 1..size)
  <1> DEFINE T == {k \in 0..size : \E f : EndsBy(f, plan, bad, st, w, 1..k)}
  <1>1. 0 \in T
    <2>1. EndsBy([z \in SUBSET {} |-> st], plan, bad, st, w, {}) /\ 1..0 = {}
      BY DEF EndsBy
    <2> QED
      BY <2>1
  <1>2. ASSUME NEW k \in 1..size, k - 1 \in T PROVE k \in T
    <2>1. PICK f : EndsBy(f, plan, bad, st, w, 1..(k - 1))
      BY <1>2
    <2>2. k \in Nat \ {0}
      OBVIOUS
    <2> DEFINE g == [z \in SUBSET (1..k) |->
                       IF k \in z THEN Ended(plan, bad, f[z \ {k}], w[k]) ELSE f[z]]
    <2>3. ASSUME NEW z \in SUBSET (1..k)
          PROVE  g[z] = IF z = {} THEN st
                        ELSE Ended(plan, bad, g[z \ {Max(z)}], w[Max(z)])
      <3>1. CASE k \in z
        <4>1. Max(z) = k
          BY <2>2, <3>1, MaxOfPrefix
        <4>2. g[z \ {k}] = f[z \ {k}] /\ z # {}
          BY <3>1
        <4>3. g[z] = Ended(plan, bad, f[z \ {k}], w[k])
          BY <3>1
        <4> QED
          BY <4>1, <4>2, <4>3
      <3>2. CASE k \notin z
        <4>1. z \in SUBSET (1..(k - 1)) /\ g[z] = f[z]
          BY <2>2, <3>2
        <4>2. g[z \ {Max(z)}] = f[z \ {Max(z)}]
          BY <3>2
        <4>3. f[z] = IF z = {} THEN st
                     ELSE Ended(plan, bad, f[z \ {Max(z)}], w[Max(z)])
          BY <2>1, <4>1 DEF EndsBy
        <4> QED
          BY <4>1, <4>2, <4>3
      <3> QED
        BY <3>1, <3>2
    <2>4. EndsBy(g, plan, bad, st, w, 1..k)
      BY <2>3 DEF EndsBy
    <2> QED
      BY <2>4
  <1> HIDE DEF T
  <1>3. 0 \in T /\ \A k \in 1..size : k - 1 \in T => k \in T
    BY <1>1, <1>2
  <1>4. size \in T
    BY <1>3, AtLast
  <1> QED
    BY <1>4 DEF T

EndsTo(plan, bad, st, w, n) ==
  /\ EndsAt(plan, bad, st, w, 0) = st
  /\ \A k \in 1..n :
       EndsAt(plan, bad, st, w, k) = Ended(plan, bad, EndsAt(plan, bad, st, w, k - 1), w[k])
  /\ AfterWave(plan, bad, st, w) = EndsAt(plan, bad, st, w, n)

LEMMA EndsUnfold ==
  ASSUME NEW plan, NEW bad, NEW st, NEW w, NEW n \in Nat, DOMAIN w = 1..n
  PROVE  EndsTo(plan, bad, st, w, n)
  <1> DEFINE f == CHOOSE h : EndsBy(h, plan, bad, st, w, DOMAIN w)
  <1>1. EndsBy(f, plan, bad, st, w, 1..n)
    <2>1. \E h : EndsBy(h, plan, bad, st, w, 1..n)
      BY EndsExists
    <2> QED
      BY <2>1, Zenon
  <1>2. \A k : EndsAt(plan, bad, st, w, k) = f[1..k]
    BY DEF EndsAt
  <1>3. AfterWave(plan, bad, st, w) = EndsAt(plan, bad, st, w, n)
    BY DEF EndsBy, EndsAt, FoldLeft, MapThenFoldSet, AfterWave
  <1> HIDE DEF f
  <1>4. f[1..0] = st
    BY <1>1 DEF EndsBy
  <1>5. ASSUME NEW k \in 1..n
        PROVE  f[1..k] = Ended(plan, bad, f[1..(k - 1)], w[k])
    <2>1. 1..k \in SUBSET (1..n) /\ 1..k # {} /\ Max(1..k) = k /\ (1..k) \ {k} = 1..(k - 1)
      BY PrefixFacts
    <2> QED
      BY <1>1, <2>1 DEF EndsBy
  <1> QED
    BY <1>2, <1>3, <1>4, <1>5 DEF EndsTo


(* All of a wave.                                                          *)
LEMMA AfterWaveRight ==
  ASSUME NEW plan, NEW bad, Schedulable(plan), NEW s, Coherent(plan, s),
         NEW w \in Seq(TasksOf(plan)), IsInjective(w),
         \A i \in DOMAIN w : IsRunnable(plan, s, w[i]),
         NEW r, r = AfterWave(plan, bad, s, w)
  PROVE  /\ Coherent(plan, r)
         /\ FailedOf(plan, r) = FailedOf(plan, s) \union (Range(w) \cap bad)
  <1> DEFINE n == Len(w)
             at(k) == EndsAt(plan, bad, s, w, k)
             Good(k) == /\ Coherent(plan, at(k))
                        /\ FailedOf(plan, at(k)) =
                             FailedOf(plan, s) \union ({w[i] : i \in 1..k} \cap bad)
                        /\ \A i \in (k+1)..n : IsRunnable(plan, at(k), w[i])
             P == {k \in 0..n : Good(k)}
  <1>1. n \in Nat /\ DOMAIN w = 1..n /\ \A i \in 1..n : w[i] \in TasksOf(plan)
    OBVIOUS
  <1>2. /\ at(0) = s /\ \A k \in 1..n : at(k) = Ended(plan, bad, at(k - 1), w[k])
        /\ r = at(n)
    <2> HIDE DEF n
    <2>1. DOMAIN w = 1..n /\ n \in Nat
      BY <1>1
    <2>2. EndsTo(plan, bad, s, w, n)
      BY <2>1, EndsUnfold, Zenon
    <2> QED
      BY <2>2 DEF EndsTo
  <1> HIDE DEF n, at
  <1>3. 0 \in P
    <2>1. 0 \in 0..n /\ {w[i] : i \in 1..0} = {} /\ 0 + 1 = 1
      BY <1>1
    <2>2. at(0) = s /\ \A i \in 1..n : IsRunnable(plan, s, w[i])
      BY <1>1, <1>2
    <2> QED
      BY <2>1, <2>2
  <1>4. ASSUME NEW k \in 1..n, k - 1 \in P PROVE k \in P
    <2> DEFINE a == at(k - 1)
               b == at(k)
               t == w[k]
    <2>1. b = Ended(plan, bad, a, t) /\ t \in TasksOf(plan)
      BY <1>1, <1>2
    <2>2. /\ Coherent(plan, a)
          /\ FailedOf(plan, a) = FailedOf(plan, s) \union ({w[i] : i \in 1..(k-1)} \cap bad)
          /\ \A i \in ((k-1)+1)..n : IsRunnable(plan, a, w[i])
      BY <1>4
    <2> HIDE DEF a, b
    <2>3. k \in ((k-1)+1)..n /\ \A i \in (k+1)..n : i \in ((k-1)+1)..n /\ i # k /\ i \in 1..n
      BY <1>1
    <2>4. IsRunnable(plan, a, t)
      BY <2>2, <2>3
    <2>5. EndsRight(plan, bad, a, t, b)
      <3> HIDE DEF t
      <3> QED
        BY <2>1, <2>2, <2>4, EndedRight, Zenon
    <2>6. {w[i] : i \in 1..k} = {w[i] : i \in 1..(k-1)} \union {t}
      <3>1. \A i : i \in 1..k <=> i \in 1..(k-1) \/ i = k
        BY <1>1
      <3> QED
        BY <3>1
    <2>7. ASSUME NEW i \in (k+1)..n PROVE IsRunnable(plan, b, w[i])
      <3>1. w[i] # t
        BY <1>1, <2>3 DEF IsInjective
      <3>2. IsRunnable(plan, a, w[i]) /\ w[i] \in TasksOf(plan)
        BY <1>1, <2>2, <2>3
      <3> QED
        BY <2>5, <3>1, <3>2 DEF EndsRight
    <2>8. FailedOf(plan, b) = FailedOf(plan, s) \union ({w[i] : i \in 1..k} \cap bad)
      <3>1. FailedOf(plan, b) = FailedOf(plan, a) \union ({t} \cap bad)
        BY <2>5 DEF EndsRight
      <3> DEFINE A == FailedOf(plan, s)
                 B == {w[i] : i \in 1..(k-1)}
                 C == {w[i] : i \in 1..k}
      <3>2. FailedOf(plan, a) = A \union (B \cap bad) /\ C = B \union {t}
        BY <2>2, <2>6
      <3> HIDE DEF A, B, C, t
      <3>3. FailedOf(plan, b) = A \union (C \cap bad)
        BY <3>1, <3>2
      <3> QED
        BY <3>3 DEF A, C
    <2>9. Coherent(plan, b)
      BY <2>5 DEF EndsRight
    <2>10. k \in 0..n
      BY <1>1
    <2> QED
      BY <2>7, <2>8, <2>9, <2>10 DEF b
  <1>5. n \in Nat /\ 0 \in P /\ \A k \in 1..n : k - 1 \in P => k \in P
    BY <1>1, <1>3, <1>4
  <1>6. n \in P
    <2> HIDE DEF P
    <2> QED
      BY <1>5, AtLast
  <1>7. {w[i] : i \in 1..n} = Range(w)
    BY <1>1 DEF Range
  <1> QED
    BY <1>2, <1>6, <1>7

(* When nothing can run, nothing is pending: what is pending needs only    *)
(* what is pending or done, and no cycle holds it.                         *)
LEMMA NothingPends ==
  ASSUME NEW plan, Schedulable(plan), NEW s, Coherent(plan, s),
         \A t \in TasksOf(plan) : ~IsRunnable(plan, s, t)
  PROVE  \A t \in TasksOf(plan) : s[t] # "pending"
  <1> DEFINE K == {t \in TasksOf(plan) : s[t] = "pending"}
  <1>1. ASSUME NEW t \in K PROVE plan.dependsOn[t] \cap K # {}
    <2>1. PICK d \in plan.dependsOn[t] : s[d] # "done"
      BY DEF IsRunnable
    <2>2. s[d] = "pending" /\ d \in TasksOf(plan)
      BY <2>1 DEF Coherent, Schedulable
    <2> QED
      BY <2>1, <2>2
  <1>2. K = {}
    <2>1. Len(plan.order) \in Nat /\ Acyclic(plan)
      BY DEF Schedulable
    <2>2. K \in SUBSET TasksOf(plan)
      OBVIOUS
    <2> HIDE DEF K
    <2> QED
      BY <1>1, <2>1, <2>2, NoKnot
  <1> QED
    BY <1>2

(* Skipped is exactly what needs, through others, a task that failed.      *)
LEMMA SkippedIsExact ==
  ASSUME NEW plan, Schedulable(plan), NEW s, Coherent(plan, s),
         NEW tasks, TasksOf(plan) = IdsOf(tasks),
         \A t \in IdsOf(tasks) : plan.dependsOn[t] = Others(tasks, t),
         NEW t \in IdsOf(tasks)
  PROVE  s[t] = "skipped" <=> \E u \in FailedOf(plan, s) : LeadsTo(tasks, t, u)
  <1> DEFINE T == IdsOf(tasks)
             F == FailedOf(plan, s)
             Needs(x) == \E u \in F : LeadsTo(tasks, x, u)
             K == {x \in T : s[x] = "skipped" /\ ~Needs(x)}
  <1>1. /\ \A x \in T : Others(tasks, x) \subseteq T
        /\ \A x \in T : s[x] \in {"pending", "done", "skipped", "failed"}
        /\ \A x \in T :
             /\ s[x] \in {"done", "failed"} => \A d \in Others(tasks, x) : s[d] = "done"
             /\ s[x] = "skipped" => \E d \in Others(tasks, x) : s[d] \in {"failed", "skipped"}
             /\ s[x] = "pending" => \A d \in Others(tasks, x) : s[d] \in {"pending", "done"}
    BY OthersFacts DEF Coherent, TaskStatus
  <1>2. ASSUME NEW x \in K PROVE plan.dependsOn[x] \cap K # {}
    <2>1. PICK d \in Others(tasks, x) : s[d] \in {"failed", "skipped"}
      BY <1>1
    <2>2. d \in T
      BY <1>1, <2>1
    <2>3. CASE s[d] = "failed"
      <3>1. LeadsTo(tasks, x, d)
        BY <2>1 DEF LeadsTo
      <3>2. d \in F
        BY <2>2, <2>3 DEF FailedOf
      <3> QED
        BY <3>1, <3>2
    <2>4. CASE s[d] = "skipped"
      <3>1. ASSUME NEW u \in F, LeadsTo(tasks, d, u) PROVE FALSE
        <4>1. LeadsTo(tasks, x, u)
          BY <2>1, <3>1 DEF LeadsTo
        <4> QED
          BY <4>1
      <3>2. d \in K
        BY <2>2, <2>4, <3>1
      <3>3. plan.dependsOn[x] = Others(tasks, x)
        OBVIOUS
      <3> QED
        BY <2>1, <3>2, <3>3
    <2> QED
      BY <2>1, <2>3, <2>4
  <1>3. K = {}
    <2>1. Len(plan.order) \in Nat /\ Acyclic(plan)
      BY DEF Schedulable
    <2>2. K \in SUBSET TasksOf(plan)
      OBVIOUS
    <2> HIDE DEF K
    <2> QED
      BY <1>2, <2>1, <2>2, NoKnot
  <1>4. ASSUME s[t] # "skipped", NEW u \in F, LeadsTo(tasks, t, u) PROVE FALSE
    <2> DEFINE S == {x \in T : s[x] \in {"pending", "done"}}
    <2>1. Others(tasks, t) \subseteq S
      BY <1>1, <1>4
    <2>2. \A x \in S : Others(tasks, x) \subseteq S
      BY <1>1
    <2>3. S \in SUBSET T
      OBVIOUS
    <2>4. u \in S
      <3> HIDE DEF S
      <3> QED
        BY <1>4, <2>1, <2>2, <2>3 DEF LeadsTo
    <2>5. s[u] = "failed"
      BY DEF FailedOf
    <2> QED
      BY <2>4, <2>5
  <1> QED
    BY <1>3, <1>4

(***************************************************************************)
(* The invariant of the schedule                                           *)
(***************************************************************************)
(* A document preflight lets through has coherent statuses, the next wave  *)
(* of them, and has failed what its statuses say; nothing runs of another. *)
ScheduleOf(d, s, w, f) ==
  LET plan == PlanOf(d)
  IN  IF Blockers(d) = {}
      THEN Coherent(plan, s) /\ w = NextWave(plan, s, MaxAtOnce) /\ f = FailedOf(plan, s)
      ELSE s = <<>> /\ w = <<>>

ScheduleInv == doc \in PlanOutput /\ ScheduleOf(doc, outcome, members, failed)

(* What a wave of a document owes its statuses.                            *)
LEMMA WaveOfDocument ==
  ASSUME NEW plan, Schedulable(plan), NEW s, NEW w, w = NextWave(plan, s, MaxAtOnce)
  PROVE  /\ w \in Seq(TasksOf(plan)) /\ IsInjective(w)
         /\ \A i \in DOMAIN w : IsRunnable(plan, s, w[i])
         /\ IsSafeWave(plan, s, MaxAtOnce, w) /\ IsGreedyWave(plan, s, MaxAtOnce, w)
         /\ w = <<>> => \A t \in TasksOf(plan) : ~IsRunnable(plan, s, t)
  <1>1. /\ plan.order \in Seq(Names) /\ IsInjective(plan.order)
        /\ \A t \in Range(plan.order) : plan.priority[t] \in {0, 1, 2}
    BY DEF Schedulable, TasksOf
  <1>2. MaxAtOnce \in Nat \ {0}
    BY MaxAtOnceAssumption
  <1>3. /\ w \in Seq(Names)
        /\ IsSafeWave(plan, s, MaxAtOnce, w) /\ IsGreedyWave(plan, s, MaxAtOnce, w)
        /\ (\E t \in TasksOf(plan) : IsRunnable(plan, s, t)) => w # <<>>
    BY <1>1, <1>2, NextWaveIsRight
  <1>4. /\ IsInjective(w)
        /\ \A t \in Range(w) : t \in TasksOf(plan) /\ IsRunnable(plan, s, t)
    BY <1>3 DEF IsSafeWave
  <1>5. \A i \in DOMAIN w : w[i] \in Range(w)
    BY DEF Range
  <1>6. w \in Seq(TasksOf(plan))
    <2>1. Len(w) \in Nat /\ DOMAIN w = 1..Len(w) /\ w = [i \in 1..Len(w) |-> w[i]]
      BY <1>3
    <2>2. \A i \in 1..Len(w) : w[i] \in TasksOf(plan)
      BY <1>4, <1>5, <2>1
    <2> QED
      BY <2>1, <2>2, IsSeq
  <1> QED
    BY <1>3, <1>4, <1>5, <1>6

LEMMA ScheduleInitInv == ScheduleInit => ScheduleInv
  <1> SUFFICES ASSUME ScheduleInit PROVE ScheduleInv
    OBVIOUS
  <1> DEFINE plan == PlanOf(doc)
  <1>1. doc \in PlanOutput
    BY DocsAssumption DEF ScheduleInit
  <1>2. CASE Blockers(doc) = {}
    <2>1. Schedulable(plan) /\ TasksOf(plan) = IdsOf(doc.tasks)
      BY <1>1, <1>2, AdmittedPlan
    <2>2. /\ outcome = [t \in IdsOf(doc.tasks) |-> "pending"] /\ failed = {}
          /\ members = NextWave(plan, outcome, MaxAtOnce)
      BY <1>2 DEF ScheduleInit, DocPlan
    <2> HIDE DEF plan
    <2>3. \A t \in TasksOf(plan) : outcome[t] = "pending"
      BY <2>1, <2>2
    <2>4. \A t \in TasksOf(plan) : plan.dependsOn[t] \subseteq TasksOf(plan)
      BY <2>1 DEF Schedulable
    <2>5. outcome \in [TasksOf(plan) -> TaskStatus]
      BY <2>1, <2>2 DEF TaskStatus
    <2>6. Coherent(plan, outcome)
      BY <2>3, <2>4, <2>5 DEF Coherent
    <2>7. FailedOf(plan, outcome) = {}
      BY <2>3 DEF FailedOf
    <2> QED
      BY <1>1, <1>2, <2>2, <2>6, <2>7 DEF ScheduleInv, ScheduleOf, plan
  <1>3. CASE Blockers(doc) # {}
    BY <1>1, <1>3 DEF ScheduleInit, ScheduleInv, ScheduleOf
  <1> QED
    BY <1>2, <1>3

LEMMA ScheduleNextInv == ScheduleInv /\ [ScheduleNext]_scheduleVars => ScheduleInv'
  <1> SUFFICES ASSUME ScheduleInv, [ScheduleNext]_scheduleVars PROVE ScheduleInv'
    OBVIOUS
  <1>1. CASE UNCHANGED scheduleVars
    BY <1>1 DEF ScheduleInv, ScheduleOf, scheduleVars
  <1>2. ASSUME NEW bad \in SUBSET Range(members), WaveEnds(bad) PROVE ScheduleInv'
    <2> DEFINE plan == PlanOf(doc)
    <2>1. /\ members # <<>> /\ doc' = doc /\ failed' = failed \union bad
          /\ outcome' = AfterWave(plan, bad, outcome, members)
          /\ members' = NextWave(plan, outcome', MaxAtOnce)
      BY <1>2 DEF WaveEnds, DocPlan
    <2>2. doc \in PlanOutput /\ Blockers(doc) = {}
      BY <2>1 DEF ScheduleInv, ScheduleOf
    <2>3. Schedulable(plan)
      BY <2>2, AdmittedPlan
    <2>4. /\ Coherent(plan, outcome) /\ members = NextWave(plan, outcome, MaxAtOnce)
          /\ failed = FailedOf(plan, outcome)
      BY <2>2 DEF ScheduleInv, ScheduleOf
    <2> HIDE DEF plan
    <2>5. /\ members \in Seq(TasksOf(plan)) /\ IsInjective(members)
          /\ \A i \in DOMAIN members : IsRunnable(plan, outcome, members[i])
      BY <2>3, <2>4, WaveOfDocument
    <2>6. /\ Coherent(plan, outcome')
          /\ FailedOf(plan, outcome') = FailedOf(plan, outcome) \union (Range(members) \cap bad)
      BY <2>1, <2>3, <2>4, <2>5, AfterWaveRight
    <2>7. failed' = FailedOf(plan, outcome')
      BY <2>1, <2>4, <2>6
    <2>8. ScheduleOf(doc, outcome', members', failed')
      BY <2>1, <2>2, <2>6, <2>7 DEF ScheduleOf, plan
    <2> QED
      BY <2>1, <2>2, <2>8 DEF ScheduleInv
  <1> QED
    BY <1>1, <1>2 DEF ScheduleNext

(* The schedule keeps its invariant.                                       *)
LEMMA ScheduleInvHolds == ScheduleSpec => []ScheduleInv
  <1> QED
    BY ScheduleInitInv, ScheduleNextInv, PTL DEF ScheduleSpec

(* An admitted document is one preflight found no blocker in.              *)
LEMMA AdmittedFacts ==
  ASSUME ScheduleInv, Admitted
  PROVE  /\ doc \in PlanOutput /\ Blockers(doc) = {} /\ Schedulable(DocPlan)
         /\ Coherent(DocPlan, outcome) /\ members = NextWave(DocPlan, outcome, MaxAtOnce)
         /\ failed = FailedOf(DocPlan, outcome)
  <1>1. Blockers(doc) = {}
    BY DEF ScheduleInv, ScheduleOf, Admitted
  <1>2. doc \in PlanOutput
    BY DEF ScheduleInv
  <1>3. Schedulable(DocPlan)
    BY <1>1, <1>2, AdmittedPlan DEF DocPlan
  <1> QED
    BY <1>1, <1>2, <1>3 DEF ScheduleInv, ScheduleOf, DocPlan

(* Whatever the documents, preflight blocks exactly what the scheduler can *)
(* not finish or compare, and names a real cycle if there is one           *)
(* (plan-preflight.ts:235-363, 372-428).                                   *)
THEOREM PreflightStaysExact == ScheduleSpec => []PreflightIsExact
  <1>1. ScheduleInv => PreflightIsExact
    BY PreflightOfDocument DEF ScheduleInv
  <1> QED
    BY <1>1, ScheduleInvHolds, PTL

(* Whatever the documents, the outcomes and the limit, the members of a    *)
(* wave own disjoint files, and nothing that could join is left out        *)
(* (dag.ts:29-56).                                                         *)
THEOREM WavesAreRight == ScheduleSpec => []WaveIsRight
  <1>1. ASSUME ScheduleInv, Admitted
        PROVE  /\ IsSafeWave(DocPlan, outcome, MaxAtOnce, members)
               /\ IsGreedyWave(DocPlan, outcome, MaxAtOnce, members)
    BY <1>1, AdmittedFacts, WaveOfDocument
  <1> QED
    BY <1>1, ScheduleInvHolds, PTL DEF WaveIsRight

(* Whatever the documents and the outcomes, the schedule ends only when    *)
(* every task is decided, and skips just what needs, through others, a     *)
(* task that failed (dag.ts:58-79).                                        *)
THEOREM SchedulesDecideAll == ScheduleSpec => []EmptyWaveMeansDecided
  <1>1. ASSUME ScheduleInv, Admitted
        PROVE  /\ members = <<>> => \A t \in IdsOf(doc.tasks) : outcome[t] # "pending"
               /\ \A t \in IdsOf(doc.tasks) :
                    outcome[t] = "skipped" <=> \E u \in failed : LeadsTo(doc.tasks, t, u)
    <2> DEFINE plan == DocPlan
               tasks == doc.tasks
    <2>1. /\ doc \in PlanOutput /\ Blockers(doc) = {} /\ Schedulable(plan)
          /\ Coherent(plan, outcome) /\ members = NextWave(plan, outcome, MaxAtOnce)
          /\ failed = FailedOf(plan, outcome)
      BY <1>1, AdmittedFacts
    <2>2. /\ TasksOf(plan) = IdsOf(tasks)
          /\ \A t \in IdsOf(tasks) : plan.dependsOn[t] = Others(tasks, t)
      BY <2>1, AdmittedPlan DEF DocPlan
    <2> HIDE DEF plan, tasks
    <2>3. ASSUME members = <<>> PROVE \A t \in IdsOf(tasks) : outcome[t] # "pending"
      <3>1. \A t \in TasksOf(plan) : ~IsRunnable(plan, outcome, t)
        BY <2>1, <2>3, WaveOfDocument
      <3> QED
        BY <2>1, <2>2, <3>1, NothingPends
    <2>4. ASSUME NEW t \in IdsOf(tasks)
          PROVE  outcome[t] = "skipped" <=> \E u \in FailedOf(plan, outcome) : LeadsTo(tasks, t, u)
      BY <2>1, <2>2, SkippedIsExact
    <2> QED
      BY <2>1, <2>3, <2>4 DEF tasks
  <1> QED
    BY <1>1, ScheduleInvHolds, PTL DEF EmptyWaveMeansDecided

(***************************************************************************)
(* What a task is behind of                                                *)
(***************************************************************************)
(* Every task from which a chain of dependencies comes.                    *)
Behind(tasks, x) == {y \in IdsOf(tasks) : LeadsTo(tasks, x, y)}

(* Dependencies are names of other tasks, and none of them closes a cycle. *)
Ordered(tasks) ==
  /\ tasks \in Seq(PlanTask)
  /\ \A id \in IdsOf(tasks) : Range(DependsOn(tasks, id)) = Others(tasks, id)
  /\ \A K \in SUBSET IdsOf(tasks) : (\A t \in K : Others(tasks, t) \cap K # {}) => K = {}

LEMMA LeadsFacts ==
  ASSUME NEW tasks, NEW x
  PROVE  /\ \A d \in Others(tasks, x) : LeadsTo(tasks, x, d)
         /\ \A y, z : LeadsTo(tasks, x, y) /\ LeadsTo(tasks, y, z) /\ y \in IdsOf(tasks)
                         => LeadsTo(tasks, x, z)
  <1>1. \A d \in Others(tasks, x) : LeadsTo(tasks, x, d)
    BY DEF LeadsTo
  <1>2. ASSUME NEW y \in IdsOf(tasks), NEW z, LeadsTo(tasks, x, y), LeadsTo(tasks, y, z)
        PROVE  LeadsTo(tasks, x, z)
    BY <1>2 DEF LeadsTo
  <1> QED
    BY <1>1, <1>2

LEMMA BehindUnfold ==
  ASSUME NEW tasks, NEW x
  PROVE  Behind(tasks, x) = Others(tasks, x) \union UNION {Behind(tasks, d) : d \in Others(tasks, x)}
  <1> DEFINE S == Others(tasks, x) \union UNION {Behind(tasks, d) : d \in Others(tasks, x)}
  <1>1. Others(tasks, x) \subseteq IdsOf(tasks)
    BY OthersFacts
  <1>2. S \subseteq Behind(tasks, x)
    <2>1. ASSUME NEW d \in Others(tasks, x) PROVE d \in Behind(tasks, x)
      BY <1>1, LeadsFacts DEF Behind
    <2>2. ASSUME NEW d \in Others(tasks, x), NEW y \in Behind(tasks, d)
          PROVE  y \in Behind(tasks, x)
      <3>1. LeadsTo(tasks, x, d) /\ LeadsTo(tasks, d, y) /\ d \in IdsOf(tasks) /\ y \in IdsOf(tasks)
        BY <1>1, LeadsFacts DEF Behind
      <3>2. LeadsTo(tasks, x, y)
        BY <3>1, LeadsFacts
      <3> QED
        BY <3>1, <3>2 DEF Behind
    <2> QED
      BY <2>1, <2>2
  <1>3. S \in SUBSET IdsOf(tasks)
    BY <1>1, <1>2 DEF Behind
  <1>4. ASSUME NEW y \in S PROVE Others(tasks, y) \subseteq S
    <2> SUFFICES ASSUME NEW z \in Others(tasks, y) PROVE z \in S
      OBVIOUS
    <2>1. z \in IdsOf(tasks) /\ LeadsTo(tasks, y, z)
      BY OthersFacts, LeadsFacts
    <2>2. CASE y \in Others(tasks, x)
      BY <2>1, <2>2 DEF Behind
    <2>3. CASE y \notin Others(tasks, x)
      <3>1. PICK d \in Others(tasks, x) : y \in Behind(tasks, d)
        BY <2>3
      <3>2. LeadsTo(tasks, d, y) /\ y \in IdsOf(tasks)
        BY <3>1 DEF Behind
      <3>3. LeadsTo(tasks, d, z)
        BY <2>1, <3>2, LeadsFacts
      <3>4. z \in Behind(tasks, d)
        BY <2>1, <3>3 DEF Behind
      <3> QED
        BY <3>1, <3>4
    <2> QED
      BY <2>2, <2>3
  <1>5. Others(tasks, x) \subseteq S
    OBVIOUS
  <1> HIDE DEF S
  <1>6. Behind(tasks, x) \subseteq S
    BY <1>3, <1>4, <1>5 DEF Behind, LeadsTo
  <1> QED
    BY <1>2, <1>6 DEF S

(* No task is behind itself.                                               *)
LEMMA NotBehindItself ==
  ASSUME NEW tasks, Ordered(tasks), NEW x \in IdsOf(tasks)
  PROVE  ~LeadsTo(tasks, x, x)
  <1> SUFFICES ASSUME LeadsTo(tasks, x, x) PROVE FALSE
    OBVIOUS
  <1> DEFINE K == {y \in IdsOf(tasks) : LeadsTo(tasks, x, y) /\ LeadsTo(tasks, y, x)}
  <1>1. ASSUME NEW y \in K PROVE Others(tasks, y) \cap K # {}
    <2>1. x \in Behind(tasks, y)
      BY DEF Behind
    <2>2. CASE x \in Others(tasks, y)
      BY <2>2
    <2>3. CASE x \notin Others(tasks, y)
      <3>1. PICK d \in Others(tasks, y) : x \in Behind(tasks, d)
        BY <2>1, <2>3, BehindUnfold
      <3>2. d \in IdsOf(tasks) /\ LeadsTo(tasks, y, d) /\ LeadsTo(tasks, d, x)
        BY <3>1, OthersFacts, LeadsFacts DEF Behind
      <3>3. LeadsTo(tasks, x, d)
        BY <3>2, LeadsFacts
      <3> QED
        BY <3>1, <3>2, <3>3
    <2> QED
      BY <2>2, <2>3
  <1>2. K \in SUBSET IdsOf(tasks) /\ x \in K
    OBVIOUS
  <1> HIDE DEF K
  <1> QED
    BY <1>1, <1>2 DEF Ordered

(***************************************************************************)
(* The ancestors map: collect and checkOwnershipOverlap                    *)
(***************************************************************************)
(* The map once the tasks of A have been asked for.                        *)
KnownOf(tasks, A) == [x \in A |-> Behind(tasks, x)]

LEMMA KnownFacts ==
  ASSUME NEW tasks, NEW A \in SUBSET IdsOf(tasks)
  PROVE  /\ KnownOf(tasks, A) \in Known(tasks) /\ DOMAIN KnownOf(tasks, A) = A
         /\ \A x \in A : KnownOf(tasks, A)[x] = Behind(tasks, x)
  BY DEF KnownOf, Known, Behind

(* A call of collect: what is being visited leads to its task, and the     *)
(* calls it may nest are enough for the rest of the tasks.                 *)
MayCollect(tasks, A, id, visiting, n) ==
  /\ A \in SUBSET IdsOf(tasks) /\ id \in IdsOf(tasks) /\ visiting \in SUBSET IdsOf(tasks)
  /\ \A v \in visiting : LeadsTo(tasks, v, id)
  /\ Cardinality(IdsOf(tasks) \ visiting) <= n

(* Its result: all that was known, and the task.                           *)
Collected(tasks, A, id, r) ==
  \E B \in SUBSET IdsOf(tasks) : A \union {id} \subseteq B /\ r = KnownOf(tasks, B)

IsCollect(tasks, n, c) ==
  \A A \in SUBSET IdsOf(tasks), id \in IdsOf(tasks), visiting \in SUBSET IdsOf(tasks) :
    MayCollect(tasks, A, id, visiting, n) =>
      Collected(tasks, A, id, c[KnownOf(tasks, A)][id][visiting])

(* Its loop: what was known and more, and the result R.                    *)
Added(tasks, A, a, R) ==
  \E B \in SUBSET IdsOf(tasks) : A \subseteq B /\ a.known = KnownOf(tasks, B) /\ a.result = R

LEMMA AddRight ==
  ASSUME NEW tasks, Ordered(tasks), NEW deeper, NEW n \in Nat, IsCollect(tasks, n, deeper),
         NEW A, NEW id, NEW visiting, MayCollect(tasks, A, id, visiting, n + 1),
         NEW a, NEW R, Added(tasks, A, a, R), NEW dep \in Others(tasks, id)
  PROVE  Added(tasks, A, Add(tasks, deeper, id, visiting, a, dep),
               R \union {dep} \union Behind(tasks, dep))
  <1> DEFINE ids == IdsOf(tasks)
             V == visiting \union {id}
  <1>1. /\ A \in SUBSET ids /\ id \in ids /\ visiting \in SUBSET ids
        /\ \A v \in visiting : LeadsTo(tasks, v, id)
        /\ Cardinality(ids \ visiting) <= n + 1
    BY DEF MayCollect
  <1>2. dep \in ids \ {id} /\ LeadsTo(tasks, id, dep)
    BY OthersFacts, LeadsFacts
  <1>3. id \notin visiting
    BY <1>1, NotBehindItself
  <1>4. dep \notin visiting
    <2>1. ASSUME dep \in visiting PROVE FALSE
      <3>1. LeadsTo(tasks, dep, id)
        BY <1>1, <2>1
      <3>2. LeadsTo(tasks, id, id)
        BY <1>2, <3>1, LeadsFacts
      <3> QED
        BY <1>1, <3>2, NotBehindItself
    <2> QED
      BY <2>1
  <1>5. PICK B \in SUBSET ids : A \subseteq B /\ a.known = KnownOf(tasks, B) /\ a.result = R
    BY DEF Added
  <1>6. MayCollect(tasks, B, dep, V, n)
    <2>1. \A v \in V : LeadsTo(tasks, v, dep)
      BY <1>1, <1>2, LeadsFacts
    <2>2. Cardinality(ids \ V) <= n
      <3> DEFINE S == ids \ visiting
      <3>1. IsFiniteSet(ids)
        BY IdsAreFew DEF Ordered
      <3>2. S \in SUBSET ids /\ id \in S /\ ids \ V = S \ {id}
        BY <1>1, <1>3
      <3> HIDE DEF S, ids, V
      <3>3. IsFiniteSet(S)
        BY <3>1, <3>2, FS_Subset
      <3>4. Cardinality(S \ {id}) = Cardinality(S) - 1 /\ Cardinality(S) \in Nat
        BY <3>2, <3>3, FS_RemoveElement, FS_CardinalityType
      <3>5. Cardinality(S) <= n + 1
        BY <1>1 DEF S, ids
      <3> DEFINE c == Cardinality(S)
      <3>6. c \in Nat /\ c <= n + 1 /\ Cardinality(ids \ V) = c - 1
        BY <3>2, <3>4, <3>5
      <3> HIDE DEF c
      <3>7. c - 1 <= n
        BY <3>6
      <3> QED
        BY <3>6, <3>7
    <2> QED
      BY <1>1, <1>2, <1>5, <2>1, <2>2 DEF MayCollect
  <1> DEFINE k == deeper[KnownOf(tasks, B)][dep][V]
  <1>7. Collected(tasks, B, dep, k)
    BY <1>1, <1>2, <1>5, <1>6 DEF IsCollect
  <1>8. PICK C \in SUBSET ids : B \union {dep} \subseteq C /\ k = KnownOf(tasks, C)
    BY <1>7 DEF Collected
  <1>9. k[dep] = Behind(tasks, dep)
    BY <1>8, KnownFacts
  <1>10. dep \in ids /\ dep \notin V
    BY <1>2, <1>4
  <1>11. Add(tasks, deeper, id, visiting, a, dep)
           = [known |-> k, result |-> a.result \union {dep} \union k[dep]]
    BY <1>5, <1>10 DEF Add
  <1> HIDE DEF k, ids, V
  <1> DEFINE r == Add(tasks, deeper, id, visiting, a, dep)
  <1>12. r.known = KnownOf(tasks, C) /\ r.result = R \union {dep} \union Behind(tasks, dep)
    BY <1>5, <1>8, <1>9, <1>11
  <1>13. A \subseteq C /\ C \in SUBSET ids
    BY <1>5, <1>8
  <1> HIDE DEF r
  <1>14. Added(tasks, A, r, R \union {dep} \union Behind(tasks, dep))
    BY <1>12, <1>13 DEF Added, ids
  <1> QED
    BY <1>14 DEF r

(* The end of collect.                                                     *)
Asked(known, id, all) ==
  IF id \in DOMAIN known THEN known ELSE Learned(all.known, id, all.result)

(* The loop of collect: what is known after the first k dependencies of id. *)
AddsBy(f, tasks, deeper, known, id, visiting, S) ==
  f = [z \in SUBSET S |->
         IF z = {} THEN [known |-> known, result |-> {}]
         ELSE Add(tasks, deeper, id, visiting, f[z \ {Max(z)}], DependsOn(tasks, id)[Max(z)])]

AddsAt(tasks, deeper, known, id, visiting, k) ==
  (CHOOSE f : AddsBy(f, tasks, deeper, known, id, visiting, DOMAIN DependsOn(tasks, id)))[1..k]

LEMMA AddsExists ==
  ASSUME NEW tasks, NEW deeper, NEW known, NEW id, NEW visiting, NEW size \in Nat
  PROVE  \E f : AddsBy(f, tasks, deeper, known, id, visiting, 1..size)
  <1> DEFINE T == {k \in 0..size : \E f : AddsBy(f, tasks, deeper, known, id, visiting, 1..k)}
  <1>1. 0 \in T
    <2>1. AddsBy([z \in SUBSET {} |-> [known |-> known, result |-> {}]], tasks, deeper, known, id, visiting, {}) /\ 1..0 = {}
      BY DEF AddsBy
    <2> QED
      BY <2>1
  <1>2. ASSUME NEW k \in 1..size, k - 1 \in T PROVE k \in T
    <2>1. PICK f : AddsBy(f, tasks, deeper, known, id, visiting, 1..(k - 1))
      BY <1>2
    <2>2. k \in Nat \ {0}
      OBVIOUS
    <2> DEFINE g == [z \in SUBSET (1..k) |->
                       IF k \in z THEN Add(tasks, deeper, id, visiting, f[z \ {k}], DependsOn(tasks, id)[k]) ELSE f[z]]
    <2>3. ASSUME NEW z \in SUBSET (1..k)
          PROVE  g[z] = IF z = {} THEN [known |-> known, result |-> {}]
                        ELSE Add(tasks, deeper, id, visiting, g[z \ {Max(z)}], DependsOn(tasks, id)[Max(z)])
      <3>1. CASE k \in z
        <4>1. Max(z) = k
          BY <2>2, <3>1, MaxOfPrefix
        <4>2. g[z \ {k}] = f[z \ {k}] /\ z # {}
          BY <3>1
        <4>3. g[z] = Add(tasks, deeper, id, visiting, f[z \ {k}], DependsOn(tasks, id)[k])
          BY <3>1
        <4> QED
          BY <4>1, <4>2, <4>3
      <3>2. CASE k \notin z
        <4>1. z \in SUBSET (1..(k - 1)) /\ g[z] = f[z]
          BY <2>2, <3>2
        <4>2. g[z \ {Max(z)}] = f[z \ {Max(z)}]
          BY <3>2
        <4>3. f[z] = IF z = {} THEN [known |-> known, result |-> {}]
                     ELSE Add(tasks, deeper, id, visiting, f[z \ {Max(z)}], DependsOn(tasks, id)[Max(z)])
          BY <2>1, <4>1 DEF AddsBy
        <4> QED
          BY <4>1, <4>2, <4>3
      <3> QED
        BY <3>1, <3>2
    <2>4. AddsBy(g, tasks, deeper, known, id, visiting, 1..k)
      BY <2>3 DEF AddsBy
    <2> QED
      BY <2>4
  <1> HIDE DEF T
  <1>3. 0 \in T /\ \A k \in 1..size : k - 1 \in T => k \in T
    BY <1>1, <1>2
  <1>4. size \in T
    BY <1>3, AtLast
  <1> QED
    BY <1>4 DEF T

AddsTo(tasks, deeper, known, id, visiting, n) ==
  /\ AddsAt(tasks, deeper, known, id, visiting, 0) = [known |-> known, result |-> {}]
  /\ \A k \in 1..n :
       AddsAt(tasks, deeper, known, id, visiting, k) = Add(tasks, deeper, id, visiting, AddsAt(tasks, deeper, known, id, visiting, k - 1), DependsOn(tasks, id)[k])
  /\ CollectWith(tasks, deeper, known, id, visiting)
       = Asked(known, id, AddsAt(tasks, deeper, known, id, visiting, n))

LEMMA AddsUnfold ==
  ASSUME NEW tasks, NEW deeper, NEW known, NEW id, NEW visiting, NEW n \in Nat, DOMAIN DependsOn(tasks, id) = 1..n
  PROVE  AddsTo(tasks, deeper, known, id, visiting, n)
  <1> DEFINE f == CHOOSE h : AddsBy(h, tasks, deeper, known, id, visiting, DOMAIN DependsOn(tasks, id))
  <1>1. AddsBy(f, tasks, deeper, known, id, visiting, 1..n)
    <2>1. \E h : AddsBy(h, tasks, deeper, known, id, visiting, 1..n)
      BY AddsExists
    <2> QED
      BY <2>1, Zenon
  <1>2. \A k : AddsAt(tasks, deeper, known, id, visiting, k) = f[1..k]
    BY DEF AddsAt
  <1>3. CollectWith(tasks, deeper, known, id, visiting)
       = Asked(known, id, AddsAt(tasks, deeper, known, id, visiting, n))
    BY DEF AddsBy, AddsAt, FoldLeft, MapThenFoldSet, CollectWith, Asked
  <1> HIDE DEF f
  <1>4. f[1..0] = [known |-> known, result |-> {}]
    BY <1>1 DEF AddsBy
  <1>5. ASSUME NEW k \in 1..n
        PROVE  f[1..k] = Add(tasks, deeper, id, visiting, f[1..(k - 1)], DependsOn(tasks, id)[k])
    <2>1. 1..k \in SUBSET (1..n) /\ 1..k # {} /\ Max(1..k) = k /\ (1..k) \ {k} = 1..(k - 1)
      BY PrefixFacts
    <2> QED
      BY <1>1, <2>1 DEF AddsBy
  <1> QED
    BY <1>2, <1>3, <1>4, <1>5 DEF AddsTo


(* A call is right if those it makes are.                                  *)
LEMMA CollectWithRight ==
  ASSUME NEW tasks, Ordered(tasks), NEW deeper, NEW n \in Nat, IsCollect(tasks, n, deeper),
         NEW A, NEW id, NEW visiting, MayCollect(tasks, A, id, visiting, n + 1)
  PROVE  Collected(tasks, A, id, CollectWith(tasks, deeper, KnownOf(tasks, A), id, visiting))
  <1> DEFINE deps == DependsOn(tasks, id)
             N == Len(deps)
             known == KnownOf(tasks, A)
             at(k) == AddsAt(tasks, deeper, known, id, visiting, k)
             Of(k) == {y \in IdsOf(tasks) : \E j \in 1..k : y = deps[j] \/ y \in Behind(tasks, deps[j])}
             P == {k \in 0..N : Added(tasks, A, at(k), Of(k))}
  <1>1. A \in SUBSET IdsOf(tasks) /\ id \in IdsOf(tasks)
    BY DEF MayCollect
  <1>2. /\ deps \in Seq(Names) /\ N \in Nat /\ DOMAIN deps = 1..N
        /\ Range(deps) = Others(tasks, id) /\ \A j \in 1..N : deps[j] \in Others(tasks, id)
    <2>1. deps \in Seq(Names) /\ Range(deps) = Others(tasks, id)
      BY <1>1, DependsOnFacts DEF Ordered
    <2> QED
      BY <2>1 DEF Range
  <1>3. /\ at(0) = [known |-> known, result |-> {}]
        /\ \A k \in 1..N : at(k) = Add(tasks, deeper, id, visiting, at(k - 1), deps[k])
        /\ CollectWith(tasks, deeper, known, id, visiting) = Asked(known, id, at(N))
    <2> HIDE DEF N, known
    <2>1. N \in Nat /\ DOMAIN DependsOn(tasks, id) = 1..N
      BY <1>2
    <2>2. AddsTo(tasks, deeper, known, id, visiting, N)
      BY <2>1, AddsUnfold, Zenon
    <2> QED
      BY <2>2 DEF AddsTo
  <1> HIDE DEF at, N, deps
  <1>4. 0 \in P
    <2>1. Of(0) = {} /\ 0 \in 0..N
      BY <1>2
    <2>2. at(0).known = KnownOf(tasks, A) /\ at(0).result = {}
      BY <1>3
    <2> HIDE DEF Of
    <2>3. Added(tasks, A, at(0), Of(0))
      BY <1>1, <2>1, <2>2 DEF Added
    <2> QED
      BY <2>1, <2>3
  <1>5. ASSUME NEW k \in 1..N, k - 1 \in P PROVE k \in P
    <2>1. at(k) = Add(tasks, deeper, id, visiting, at(k - 1), deps[k]) /\ deps[k] \in Others(tasks, id)
      BY <1>2, <1>3
    <2> DEFINE R == Of(k - 1)
    <2>2. Added(tasks, A, at(k - 1), R)
      BY <1>5
    <2>3. Of(k) = R \union {deps[k]} \union Behind(tasks, deps[k])
      <3>1. \A j : j \in 1..k <=> j \in 1..(k-1) \/ j = k
        BY <1>2
      <3>2. deps[k] \in IdsOf(tasks) /\ Behind(tasks, deps[k]) \subseteq IdsOf(tasks)
        BY <2>1, OthersFacts DEF Behind
      <3> QED
        BY <3>1, <3>2
    <2> HIDE DEF R, known
    <2>4. Added(tasks, A, Add(tasks, deeper, id, visiting, at(k - 1), deps[k]),
                R \union {deps[k]} \union Behind(tasks, deps[k]))
      <3> DEFINE a == at(k - 1)
                 dep == deps[k]
      <3>1. Added(tasks, A, a, R) /\ dep \in Others(tasks, id)
        BY <2>1, <2>2
      <3> HIDE DEF a, dep
      <3>2. Added(tasks, A, Add(tasks, deeper, id, visiting, a, dep),
                  R \union {dep} \union Behind(tasks, dep))
        BY <3>1, AddRight
      <3> QED
        BY <3>2 DEF a, dep
    <2>5. Added(tasks, A, at(k), Of(k))
      <3> HIDE DEF Of
      <3> QED
        BY <2>1, <2>3, <2>4
    <2>6. k \in 0..N
      BY <1>2
    <2> QED
      BY <2>5, <2>6
  <1>6. N \in P
    <2>1. N \in Nat /\ 0 \in P /\ \A k \in 1..N : k - 1 \in P => k \in P
      BY <1>2, <1>4, <1>5
    <2> HIDE DEF P
    <2> QED
      BY <2>1, AtLast
  <1>7. Of(N) = Behind(tasks, id)
    <2>1. \A y : y \in Of(N) <=> \E d \in Others(tasks, id) : y = d \/ y \in Behind(tasks, d)
      <3>1. \A d \in Others(tasks, id) : d \in IdsOf(tasks) /\ Behind(tasks, d) \subseteq IdsOf(tasks)
        BY OthersFacts DEF Behind
      <3>2. \A d : d \in Others(tasks, id) <=> \E j \in 1..N : deps[j] = d
        BY <1>2 DEF Range
      <3> QED
        BY <3>1, <3>2
    <2>2. Behind(tasks, id) = Others(tasks, id) \union UNION {Behind(tasks, d) : d \in Others(tasks, id)}
      BY BehindUnfold
    <2> HIDE DEF Of
    <2> QED
      BY <2>1, <2>2
  <1>8. PICK B \in SUBSET IdsOf(tasks) :
          /\ A \subseteq B /\ at(N).known = KnownOf(tasks, B)
          /\ at(N).result = Behind(tasks, id)
    BY <1>6, <1>7 DEF Added
  <1>9. CASE id \in A
    <2>1. Asked(known, id, at(N)) = KnownOf(tasks, A)
      BY <1>1, <1>9, KnownFacts DEF Asked
    <2> QED
      BY <1>1, <1>3, <1>9, <2>1 DEF Collected
  <1>10. CASE id \notin A
    <2>1. Asked(known, id, at(N)) = Learned(KnownOf(tasks, B), id, Behind(tasks, id))
      BY <1>1, <1>8, <1>10, KnownFacts DEF Asked
    <2>2. Learned(KnownOf(tasks, B), id, Behind(tasks, id)) = KnownOf(tasks, B \union {id})
      BY DEF Learned, KnownOf
    <2>3. B \union {id} \in SUBSET IdsOf(tasks) /\ A \union {id} \subseteq B \union {id}
      BY <1>1, <1>8
    <2> QED
      BY <1>3, <2>1, <2>2, <2>3 DEF Collected
  <1> QED
    BY <1>9, <1>10

(* collect, as the function on the number of calls that may be nested.     *)
CollectsBy(f, tasks, size) ==
  f = [n \in 0..size |->
         [known \in Known(tasks) |-> [id \in IdsOf(tasks) |-> [visiting \in SUBSET IdsOf(tasks) |->
            IF n = 0 THEN known ELSE CollectWith(tasks, f[n-1], known, id, visiting)]]]]

CollectUpTo(tasks) == CHOOSE f : CollectsBy(f, tasks, Len(tasks))

LEMMA CollectsExist ==
  ASSUME NEW tasks, NEW size \in Nat
  PROVE  \E f : CollectsBy(f, tasks, size)
  <1> DEFINE T == {k \in 0..size : \E f : CollectsBy(f, tasks, k)}
             Level0(n, d) ==
               [known \in Known(tasks) |-> [id \in IdsOf(tasks) |-> [visiting \in SUBSET IdsOf(tasks) |->
                  IF n = 0 THEN known ELSE CollectWith(tasks, d, known, id, visiting)]]]
  <1>1. 0 \in T
    <2> DEFINE g == [n \in 0..0 |-> Level0(0, n)]
    <2>1. ASSUME NEW n \in 0..0 PROVE g[n] = Level0(n, g[n-1])
      <3>1. n = 0
        OBVIOUS
      <3> QED
        BY <3>1
    <2>2. CollectsBy(g, tasks, 0)
      BY <2>1 DEF CollectsBy
    <2> QED
      BY <2>2
  <1>2. ASSUME NEW k \in 1..size, k - 1 \in T PROVE k \in T
    <2>1. PICK f : CollectsBy(f, tasks, k - 1)
      BY <1>2
    <2> DEFINE g == [n \in 0..k |-> IF n = k THEN Level0(k, f[k-1]) ELSE f[n]]
    <2>2. ASSUME NEW n \in 0..k PROVE g[n] = Level0(n, g[n-1])
      <3>1. n # 0 => n - 1 \in 0..(k - 1) /\ g[n-1] = f[n-1]
        OBVIOUS
      <3>2. CASE n = k
        BY <3>1, <3>2
      <3>3. CASE n # k
        <4>1. n \in 0..(k - 1) /\ g[n] = f[n]
          BY <3>3
        <4>2. f[n] = Level0(n, f[n-1])
          BY <2>1, <4>1 DEF CollectsBy
        <4>3. CASE n = 0
          BY <4>1, <4>2, <4>3
        <4>4. CASE n # 0
          BY <3>1, <4>1, <4>2, <4>4
        <4> QED
          BY <4>3, <4>4
      <3> QED
        BY <3>2, <3>3
    <2>3. CollectsBy(g, tasks, k)
      BY <2>2 DEF CollectsBy
    <2> QED
      BY <2>3
  <1> HIDE DEF T
  <1>3. 0 \in T /\ \A k \in 1..size : k - 1 \in T => k \in T
    BY <1>1, <1>2
  <1>4. size \in T
    BY <1>3, AtLast
  <1> QED
    BY <1>4 DEF T

LEMMA CollectUnfold ==
  ASSUME NEW tasks, Len(tasks) \in Nat
  PROVE  /\ Collect(tasks) = CollectUpTo(tasks)[Len(tasks)]
         /\ \A n \in 1..Len(tasks), known \in Known(tasks), id \in IdsOf(tasks),
               visiting \in SUBSET IdsOf(tasks) :
              CollectUpTo(tasks)[n][known][id][visiting]
                = CollectWith(tasks, CollectUpTo(tasks)[n-1], known, id, visiting)
  <1> DEFINE f == CollectUpTo(tasks)
             N == Len(tasks)
  <1>1. CollectsBy(f, tasks, N)
    <2>1. \E g : CollectsBy(g, tasks, N)
      BY CollectsExist
    <2> QED
      BY <2>1, Zenon DEF CollectUpTo
  <1>2. Collect(tasks) = f[N]
    BY DEF Collect, CollectUpTo, CollectsBy
  <1> HIDE DEF f
  <1>3. ASSUME NEW n \in 1..N, NEW known \in Known(tasks), NEW id \in IdsOf(tasks),
               NEW visiting \in SUBSET IdsOf(tasks)
        PROVE  f[n][known][id][visiting] = CollectWith(tasks, f[n-1], known, id, visiting)
    <2> HIDE DEF N
    <2>1. n \in 0..N /\ n # 0
      OBVIOUS
    <2>2. f[n] = [z \in Known(tasks) |-> [x \in IdsOf(tasks) |-> [v \in SUBSET IdsOf(tasks) |->
                    IF n = 0 THEN z ELSE CollectWith(tasks, f[n-1], z, x, v)]]]
      BY <1>1, <2>1, Zenon DEF CollectsBy
    <2>3. f[n][known] = [x \in IdsOf(tasks) |-> [v \in SUBSET IdsOf(tasks) |->
                    IF n = 0 THEN known ELSE CollectWith(tasks, f[n-1], known, x, v)]]
      BY <2>2
    <2>4. f[n][known][id] = [v \in SUBSET IdsOf(tasks) |->
                    IF n = 0 THEN known ELSE CollectWith(tasks, f[n-1], known, id, v)]
      BY <2>3
    <2> QED
      BY <2>1, <2>4
  <1> QED
    BY <1>2, <1>3 DEF f

LEMMA CollectRight ==
  ASSUME NEW tasks, Ordered(tasks)
  PROVE  IsCollect(tasks, Len(tasks), Collect(tasks))
  <1> DEFINE N == Len(tasks)
             f == CollectUpTo(tasks)
             P == {n \in 0..N : IsCollect(tasks, n, f[n])}
  <1>1. N \in Nat
    BY DEF Ordered
  <1>2. /\ Collect(tasks) = f[N]
        /\ \A n \in 1..N, known \in Known(tasks), id \in IdsOf(tasks), visiting \in SUBSET IdsOf(tasks) :
             f[n][known][id][visiting] = CollectWith(tasks, f[n-1], known, id, visiting)
    BY <1>1, CollectUnfold
  <1> HIDE DEF f, N
  <1>3. 0 \in P
    <2> SUFFICES ASSUME NEW A, NEW id, NEW visiting, MayCollect(tasks, A, id, visiting, 0)
                 PROVE  FALSE
      BY <1>1 DEF IsCollect
    <2> DEFINE S == IdsOf(tasks) \ visiting
    <2>1. /\ id \in IdsOf(tasks) /\ \A v \in visiting : LeadsTo(tasks, v, id)
          /\ Cardinality(S) <= 0
      BY DEF MayCollect
    <2>2. id \in S
      BY <2>1, NotBehindItself
    <2>3. IsFiniteSet(S)
      <3>1. IsFiniteSet(IdsOf(tasks)) /\ S \in SUBSET IdsOf(tasks)
        BY IdsAreFew DEF Ordered
      <3> HIDE DEF S
      <3> QED
        BY <3>1, FS_Subset
    <2> HIDE DEF S
    <2>4. Cardinality(S) \in Nat /\ Cardinality(S) # 0
      BY <2>2, <2>3, FS_CardinalityType, FS_EmptySet
    <2> QED
      BY <2>1, <2>4
  <1>4. ASSUME NEW n \in 1..N, n - 1 \in P PROVE n \in P
    <2>1. IsCollect(tasks, n - 1, f[n-1]) /\ n - 1 \in Nat /\ (n - 1) + 1 = n
      BY <1>1, <1>4
    <2>2. ASSUME NEW A \in SUBSET IdsOf(tasks), NEW id \in IdsOf(tasks),
                 NEW visiting \in SUBSET IdsOf(tasks), MayCollect(tasks, A, id, visiting, n)
          PROVE  Collected(tasks, A, id, f[n][KnownOf(tasks, A)][id][visiting])
      <3>1. KnownOf(tasks, A) \in Known(tasks)
        BY KnownFacts
      <3>2. f[n][KnownOf(tasks, A)][id][visiting]
              = CollectWith(tasks, f[n-1], KnownOf(tasks, A), id, visiting)
        BY <1>2, <3>1
      <3>3. Collected(tasks, A, id, CollectWith(tasks, f[n-1], KnownOf(tasks, A), id, visiting))
        BY <2>1, <2>2, CollectWithRight
      <3> QED
        BY <3>2, <3>3
    <2> QED
      BY <1>1, <2>2 DEF IsCollect
  <1> HIDE DEF P
  <1>5. N \in Nat /\ 0 \in P /\ \A n \in 1..N : n - 1 \in P => n \in P
    BY <1>1, <1>3, <1>4
  <1>6. N \in P
    BY <1>5, AtLast
  <1> QED
    BY <1>2, <1>6 DEF P, N

(* The map once the first k tasks have been asked for. *)
AsksBy(f, tasks, S) ==
  f = [z \in SUBSET S |->
         IF z = {} THEN [id \in {} |-> {}]
         ELSE Collect(tasks)[f[z \ {Max(z)}]][tasks[Max(z)].id][{}]]

AsksAt(tasks, k) ==
  (CHOOSE f : AsksBy(f, tasks, DOMAIN tasks))[1..k]

LEMMA AsksExists ==
  ASSUME NEW tasks, NEW size \in Nat
  PROVE  \E f : AsksBy(f, tasks, 1..size)
  <1> DEFINE T == {k \in 0..size : \E f : AsksBy(f, tasks, 1..k)}
  <1>1. 0 \in T
    <2>1. AsksBy([z \in SUBSET {} |-> [id \in {} |-> {}]], tasks, {}) /\ 1..0 = {}
      BY DEF AsksBy
    <2> QED
      BY <2>1
  <1>2. ASSUME NEW k \in 1..size, k - 1 \in T PROVE k \in T
    <2>1. PICK f : AsksBy(f, tasks, 1..(k - 1))
      BY <1>2
    <2>2. k \in Nat \ {0}
      OBVIOUS
    <2> DEFINE g == [z \in SUBSET (1..k) |->
                       IF k \in z THEN Collect(tasks)[f[z \ {k}]][tasks[k].id][{}] ELSE f[z]]
    <2>3. ASSUME NEW z \in SUBSET (1..k)
          PROVE  g[z] = IF z = {} THEN [id \in {} |-> {}]
                        ELSE Collect(tasks)[g[z \ {Max(z)}]][tasks[Max(z)].id][{}]
      <3>1. CASE k \in z
        <4>1. Max(z) = k
          BY <2>2, <3>1, MaxOfPrefix
        <4>2. g[z \ {k}] = f[z \ {k}] /\ z # {}
          BY <3>1
        <4>3. g[z] = Collect(tasks)[f[z \ {k}]][tasks[k].id][{}]
          BY <3>1
        <4> QED
          BY <4>1, <4>2, <4>3
      <3>2. CASE k \notin z
        <4>1. z \in SUBSET (1..(k - 1)) /\ g[z] = f[z]
          BY <2>2, <3>2
        <4>2. g[z \ {Max(z)}] = f[z \ {Max(z)}]
          BY <3>2
        <4>3. f[z] = IF z = {} THEN [id \in {} |-> {}]
                     ELSE Collect(tasks)[f[z \ {Max(z)}]][tasks[Max(z)].id][{}]
          BY <2>1, <4>1 DEF AsksBy
        <4> QED
          BY <4>1, <4>2, <4>3
      <3> QED
        BY <3>1, <3>2
    <2>4. AsksBy(g, tasks, 1..k)
      BY <2>3 DEF AsksBy
    <2> QED
      BY <2>4
  <1> HIDE DEF T
  <1>3. 0 \in T /\ \A k \in 1..size : k - 1 \in T => k \in T
    BY <1>1, <1>2
  <1>4. size \in T
    BY <1>3, AtLast
  <1> QED
    BY <1>4 DEF T

AsksTo(tasks, n) ==
  /\ AsksAt(tasks, 0) = [id \in {} |-> {}]
  /\ \A k \in 1..n :
       AsksAt(tasks, k) = Collect(tasks)[AsksAt(tasks, k - 1)][tasks[k].id][{}]
  /\ Ancestors(tasks) = AsksAt(tasks, n)

LEMMA AsksUnfold ==
  ASSUME NEW tasks, NEW n \in Nat, DOMAIN tasks = 1..n
  PROVE  AsksTo(tasks, n)
  <1> DEFINE f == CHOOSE h : AsksBy(h, tasks, DOMAIN tasks)
  <1>1. AsksBy(f, tasks, 1..n)
    <2>1. \E h : AsksBy(h, tasks, 1..n)
      BY AsksExists
    <2> QED
      BY <2>1, Zenon
  <1>2. \A k : AsksAt(tasks, k) = f[1..k]
    BY DEF AsksAt
  <1>3. Ancestors(tasks) = AsksAt(tasks, n)
    BY DEF AsksBy, AsksAt, FoldLeft, MapThenFoldSet, Ancestors
  <1> HIDE DEF f
  <1>4. f[1..0] = [id \in {} |-> {}]
    BY <1>1 DEF AsksBy
  <1>5. ASSUME NEW k \in 1..n
        PROVE  f[1..k] = Collect(tasks)[f[1..(k - 1)]][tasks[k].id][{}]
    <2>1. 1..k \in SUBSET (1..n) /\ 1..k # {} /\ Max(1..k) = k /\ (1..k) \ {k} = 1..(k - 1)
      BY PrefixFacts
    <2> QED
      BY <1>1, <2>1 DEF AsksBy
  <1> QED
    BY <1>2, <1>3, <1>4, <1>5 DEF AsksTo

(* In a plan without cycles the ancestors of a task are all it needs,      *)
(* through others (plan-preflight.ts:453-470).                             *)
THEOREM AncestorsAreExact ==
  ASSUME NEW tasks, Ordered(tasks)
  PROVE  Ancestors(tasks) = KnownOf(tasks, IdsOf(tasks))
  <1> DEFINE N == Len(tasks)
             at(k) == AsksAt(tasks, k)
             Upto(k) == {tasks[i].id : i \in 1..k}
             P == {k \in 0..N : \E B \in SUBSET IdsOf(tasks) :
                                   Upto(k) \subseteq B /\ at(k) = KnownOf(tasks, B)}
  <1>1. N \in Nat /\ DOMAIN tasks = 1..N /\ \A i \in 1..N : tasks[i].id \in IdsOf(tasks)
    BY TasksFacts DEF Ordered
  <1>2. /\ at(0) = [id \in {} |-> {}]
        /\ \A k \in 1..N : at(k) = Collect(tasks)[at(k - 1)][tasks[k].id][{}]
        /\ Ancestors(tasks) = at(N)
    <2> HIDE DEF N
    <2>1. AsksTo(tasks, N)
      BY <1>1, AsksUnfold
    <2> QED
      BY <2>1 DEF AsksTo
  <1>3. IsCollect(tasks, N, Collect(tasks)) /\ Cardinality(IdsOf(tasks)) <= N
    BY CollectRight, IdsAreFew DEF Ordered
  <1> HIDE DEF N, at
  <1>4. 0 \in P
    <2>1. Upto(0) = {} /\ 0 \in 0..N
      BY <1>1
    <2>2. at(0) = KnownOf(tasks, {})
      BY <1>2 DEF KnownOf
    <2> HIDE DEF Upto
    <2> QED
      BY <2>1, <2>2
  <1>5. ASSUME NEW k \in 1..N, k - 1 \in P PROVE k \in P
    <2>1. PICK B \in SUBSET IdsOf(tasks) : Upto(k - 1) \subseteq B /\ at(k - 1) = KnownOf(tasks, B)
      BY <1>5
    <2> DEFINE id == tasks[k].id
    <2>2. id \in IdsOf(tasks) /\ at(k) = Collect(tasks)[KnownOf(tasks, B)][id][{}]
      BY <1>1, <1>2, <2>1
    <2> HIDE DEF id
    <2>3. MayCollect(tasks, B, id, {}, N)
      <3>1. IdsOf(tasks) \ {} = IdsOf(tasks)
        OBVIOUS
      <3> QED
        BY <1>3, <2>2, <3>1 DEF MayCollect
    <2>4. Collected(tasks, B, id, at(k))
      BY <1>3, <2>2, <2>3 DEF IsCollect
    <2>5. PICK C \in SUBSET IdsOf(tasks) : B \union {id} \subseteq C /\ at(k) = KnownOf(tasks, C)
      BY <2>4 DEF Collected
    <2>6. Upto(k) \subseteq Upto(k - 1) \union {id}
      <3>1. \A i : i \in 1..k => i \in 1..(k - 1) \/ i = k
        BY <1>1
      <3> QED
        BY <3>1 DEF id
    <2>7. Upto(k) \subseteq C /\ k \in 0..N
      <3>1. k \in 0..N
        BY <1>1
      <3> HIDE DEF Upto
      <3> QED
        BY <2>1, <2>5, <2>6, <3>1
    <2> HIDE DEF Upto
    <2> QED
      BY <2>5, <2>7
  <1>6. N \in P
    <2>1. N \in Nat /\ 0 \in P /\ \A k \in 1..N : k - 1 \in P => k \in P
      BY <1>1, <1>4, <1>5
    <2> HIDE DEF P
    <2> QED
      BY <2>1, AtLast
  <1>7. Upto(N) = IdsOf(tasks)
    BY <1>1 DEF IdsOf
  <1>8. PICK B \in SUBSET IdsOf(tasks) : Upto(N) \subseteq B /\ at(N) = KnownOf(tasks, B)
    BY <1>6
  <1> HIDE DEF Upto
  <1>9. B = IdsOf(tasks)
    BY <1>7, <1>8
  <1> QED
    BY <1>2, <1>8, <1>9

(***************************************************************************)
(* The owners of files                                                     *)
(***************************************************************************)
OneReached(at, s) ==
  IF s \in {Blank, Here} THEN at
  ELSE IF s = Up THEN SubSeq(at, 1, Len(at) - 1) ELSE Append(at, s)

ReachedFrom(segs) ==
  FoldLeft(LAMBDA at, s : IF s \in {Blank, Here} THEN at
                          ELSE IF s = Up THEN SubSeq(at, 1, Len(at) - 1)
                          ELSE Append(at, s), <<>>, segs)
(* Where the first k segments lead. *)
ReachesBy(f, segs, S) ==
  f = [z \in SUBSET S |->
         IF z = {} THEN <<>>
         ELSE OneReached(f[z \ {Max(z)}], segs[Max(z)])]

ReachesAt(segs, k) ==
  (CHOOSE f : ReachesBy(f, segs, DOMAIN segs))[1..k]

LEMMA ReachesExists ==
  ASSUME NEW segs, NEW size \in Nat
  PROVE  \E f : ReachesBy(f, segs, 1..size)
  <1> DEFINE T == {k \in 0..size : \E f : ReachesBy(f, segs, 1..k)}
  <1>1. 0 \in T
    <2>1. ReachesBy([z \in SUBSET {} |-> <<>>], segs, {}) /\ 1..0 = {}
      BY DEF ReachesBy
    <2> QED
      BY <2>1
  <1>2. ASSUME NEW k \in 1..size, k - 1 \in T PROVE k \in T
    <2>1. PICK f : ReachesBy(f, segs, 1..(k - 1))
      BY <1>2
    <2>2. k \in Nat \ {0}
      OBVIOUS
    <2> DEFINE g == [z \in SUBSET (1..k) |->
                       IF k \in z THEN OneReached(f[z \ {k}], segs[k]) ELSE f[z]]
    <2>3. ASSUME NEW z \in SUBSET (1..k)
          PROVE  g[z] = IF z = {} THEN <<>>
                        ELSE OneReached(g[z \ {Max(z)}], segs[Max(z)])
      <3>1. CASE k \in z
        <4>1. Max(z) = k
          BY <2>2, <3>1, MaxOfPrefix
        <4>2. g[z \ {k}] = f[z \ {k}] /\ z # {}
          BY <3>1
        <4>3. g[z] = OneReached(f[z \ {k}], segs[k])
          BY <3>1
        <4> QED
          BY <4>1, <4>2, <4>3
      <3>2. CASE k \notin z
        <4>1. z \in SUBSET (1..(k - 1)) /\ g[z] = f[z]
          BY <2>2, <3>2
        <4>2. g[z \ {Max(z)}] = f[z \ {Max(z)}]
          BY <3>2
        <4>3. f[z] = IF z = {} THEN <<>>
                     ELSE OneReached(f[z \ {Max(z)}], segs[Max(z)])
          BY <2>1, <4>1 DEF ReachesBy
        <4> QED
          BY <4>1, <4>2, <4>3
      <3> QED
        BY <3>1, <3>2
    <2>4. ReachesBy(g, segs, 1..k)
      BY <2>3 DEF ReachesBy
    <2> QED
      BY <2>4
  <1> HIDE DEF T
  <1>3. 0 \in T /\ \A k \in 1..size : k - 1 \in T => k \in T
    BY <1>1, <1>2
  <1>4. size \in T
    BY <1>3, AtLast
  <1> QED
    BY <1>4 DEF T

ReachesTo(segs, n) ==
  /\ ReachesAt(segs, 0) = <<>>
  /\ \A k \in 1..n :
       ReachesAt(segs, k) = OneReached(ReachesAt(segs, k - 1), segs[k])
  /\ ReachedFrom(segs) = ReachesAt(segs, n)

LEMMA ReachesUnfold ==
  ASSUME NEW segs, NEW n \in Nat, DOMAIN segs = 1..n
  PROVE  ReachesTo(segs, n)
  <1> DEFINE f == CHOOSE h : ReachesBy(h, segs, DOMAIN segs)
  <1>1. ReachesBy(f, segs, 1..n)
    <2>1. \E h : ReachesBy(h, segs, 1..n)
      BY ReachesExists
    <2> QED
      BY <2>1, Zenon
  <1>2. \A k : ReachesAt(segs, k) = f[1..k]
    BY DEF ReachesAt
  <1>3. ReachedFrom(segs) = ReachesAt(segs, n)
    BY DEF ReachesBy, ReachesAt, FoldLeft, MapThenFoldSet, ReachedFrom, OneReached
  <1> HIDE DEF f
  <1>4. f[1..0] = <<>>
    BY <1>1 DEF ReachesBy
  <1>5. ASSUME NEW k \in 1..n
        PROVE  f[1..k] = OneReached(f[1..(k - 1)], segs[k])
    <2>1. 1..k \in SUBSET (1..n) /\ 1..k # {} /\ Max(1..k) = k /\ (1..k) \ {k} = 1..(k - 1)
      BY PrefixFacts
    <2> QED
      BY <1>1, <2>1 DEF ReachesBy
  <1> QED
    BY <1>2, <1>3, <1>4, <1>5 DEF ReachesTo


(* A literal path leads where it says, so that two of them lead to the     *)
(* same file only if they are the same.                                    *)
LEMMA LiteralLeads ==
  ASSUME NEW raw \in Path, IsLiteral(raw)
  PROVE  /\ Reached(raw) = raw.segs
         /\ raw = [padded |-> FALSE, mark |-> "none", segs |-> raw.segs]
  <1> DEFINE segs == raw.segs
             n == Len(segs)
             at(k) == ReachesAt(segs, k)
             P == {k \in 0..n : /\ at(k) \in Seq(Segments) /\ Len(at(k)) = k
                                /\ \A j \in 1..k : at(k)[j] = segs[j]}
  <1>1. /\ segs \in Seq(Segments) /\ raw.padded \in BOOLEAN
        /\ raw = [padded |-> raw.padded, mark |-> raw.mark, segs |-> segs]
    BY DEF Path
  <1>2. raw.padded = FALSE /\ raw.mark = "none" /\ Range(segs) \cap {Blank, Here, Up} = {}
    BY <1>1 DEF IsLiteral
  <1> HIDE DEF segs
  <1>3. n \in Nat /\ DOMAIN segs = 1..n
    BY <1>1
  <1>4. \A k \in 1..n : segs[k] \in Segments /\ segs[k] \notin {Blank, Here, Up}
    <2>1. \A k \in 1..n : segs[k] \in Segments /\ segs[k] \in Range(segs)
      BY <1>1, <1>3 DEF Range
    <2> QED
      BY <1>2, <2>1
  <1>5. /\ at(0) = <<>> /\ \A k \in 1..n : at(k) = Append(at(k - 1), segs[k])
        /\ ReachedFrom(segs) = at(n)
    <2> HIDE DEF n
    <2>1. ReachesTo(segs, n)
      BY <1>3, ReachesUnfold
    <2>2. \A k \in 1..n : OneReached(at(k - 1), segs[k]) = Append(at(k - 1), segs[k])
      BY <1>4 DEF OneReached
    <2> QED
      BY <2>1, <2>2 DEF ReachesTo
  <1> HIDE DEF at, n
  <1>6. 0 \in P
    <2>1. <<>> \in Seq(Segments) /\ Len(<<>>) = 0 /\ 0 \in 0..n /\ 1..0 = {}
      BY <1>3
    <2>2. at(0) \in Seq(Segments) /\ Len(at(0)) = 0
      BY <1>5, <2>1
    <2> QED
      BY <2>1, <2>2
  <1>7. ASSUME NEW k \in 1..n, k - 1 \in P PROVE k \in P
    <2> DEFINE a == at(k - 1)
               r == at(k)
    <2>1. r = Append(a, segs[k]) /\ segs[k] \in Segments
      BY <1>4, <1>5
    <2>2. a \in Seq(Segments) /\ Len(a) = k - 1 /\ \A j \in 1..(k - 1) : a[j] = segs[j]
      BY <1>7
    <2>3. k - 1 \in Nat /\ (k - 1) + 1 = k /\ \A j \in 1..k : j = k \/ j \in 1..(k - 1)
      BY <1>3
    <2> HIDE DEF a, r
    <2>4. /\ r \in Seq(Segments) /\ Len(r) = (k - 1) + 1 /\ r[(k - 1) + 1] = segs[k]
          /\ \A j \in 1..(k - 1) : r[j] = a[j]
      BY <2>1, <2>2, <2>3, AppendFacts
    <2>5. Len(r) = k /\ \A j \in 1..k : r[j] = segs[j]
      BY <2>2, <2>3, <2>4
    <2>6. k \in 0..n
      BY <1>3
    <2> QED
      BY <2>4, <2>5, <2>6 DEF r
  <1>8. n \in P
    <2>1. n \in Nat /\ 0 \in P /\ \A k \in 1..n : k - 1 \in P => k \in P
      BY <1>3, <1>6, <1>7
    <2> HIDE DEF P
    <2> QED
      BY <2>1, AtLast
  <1>9. at(n) = segs
    <2> DEFINE m == at(n)
    <2>1. m \in Seq(Segments) /\ Len(m) = n /\ \A j \in 1..n : m[j] = segs[j]
      BY <1>8
    <2> HIDE DEF m
    <2>2. DOMAIN m = DOMAIN segs /\ \A j \in DOMAIN m : m[j] = segs[j]
      BY <1>3, <2>1
    <2>3. m = segs
      BY <1>1, <2>1, <2>2
    <2> QED
      BY <2>3 DEF m
  <1>10. Reached(raw) = ReachedFrom(segs)
    BY DEF Reached, ReachedFrom, segs
  <1> QED
    BY <1>1, <1>2, <1>5, <1>9, <1>10 DEF segs

(* The tasks of a document preflight lets through.                         *)
AllLiteral(tasks) ==
  \A i \in DOMAIN tasks : \A raw \in Range(tasks[i].files) : IsLiteral(raw) /\ raw \in Path

LEMMA OwnedFacts ==
  ASSUME NEW tasks, AllLiteral(tasks), NEW i \in DOMAIN tasks, NEW j \in DOMAIN tasks
  PROVE  /\ OwnedFiles(tasks[i]) = Range(tasks[i].files)
         /\ ReachedBy(tasks[i]) \cap ReachedBy(tasks[j]) # {} <=>
              Range(tasks[i].files) \cap Range(tasks[j].files) # {}
  <1> DEFINE F(k) == Range(tasks[k].files)
  <1>1. \A k \in DOMAIN tasks : \A raw \in F(k) : raw \in Path /\ IsLiteral(raw)
    BY DEF AllLiteral
  <1>2. OwnedFiles(tasks[i]) = F(i)
    <2>1. \A raw \in F(i) : CheckFileEntry(raw).kind = "ok" /\ CheckFileEntry(raw).normalized = raw
      BY <1>1, LiteralIsAccepted
    <2>2. OwnedFiles(tasks[i]) = {CheckFileEntry(raw).normalized :
                                    raw \in {f \in F(i) : CheckFileEntry(f).kind = "ok"}}
      BY DEF OwnedFiles
    <2> HIDE DEF F
    <2>3. {f \in F(i) : CheckFileEntry(f).kind = "ok"} = F(i)
      BY <2>1
    <2>4. \A y : y \in OwnedFiles(tasks[i]) <=> \E raw \in F(i) : y = CheckFileEntry(raw).normalized
      BY <2>2, <2>3
    <2>5. \A y : y \in OwnedFiles(tasks[i]) <=> y \in F(i)
      BY <2>1, <2>4
    <2> QED
      BY <2>5
  <1>3. \A k \in DOMAIN tasks : \A raw \in F(k) :
          /\ Reached(raw) = raw.segs
          /\ raw = [padded |-> FALSE, mark |-> "none", segs |-> raw.segs]
    BY <1>1, LiteralLeads
  <1>4. \A k : ReachedBy(tasks[k]) = {Reached(raw) : raw \in F(k)}
    BY DEF ReachedBy
  <1> HIDE DEF F
  <1>5. \A y \in F(i), z \in F(j) : Reached(y) = Reached(z) => y = z
    <2> SUFFICES ASSUME NEW y \in F(i), NEW z \in F(j), Reached(y) = Reached(z) PROVE y = z
      OBVIOUS
    <2>1. y.segs = z.segs
      BY <1>3
    <2>2. /\ y = [padded |-> FALSE, mark |-> "none", segs |-> y.segs]
          /\ z = [padded |-> FALSE, mark |-> "none", segs |-> z.segs]
      BY <1>3
    <2> QED
      BY <2>1, <2>2
  <1>6. ASSUME ReachedBy(tasks[i]) \cap ReachedBy(tasks[j]) # {} PROVE F(i) \cap F(j) # {}
    <2>1. PICK y \in F(i), z \in F(j) : Reached(y) = Reached(z)
      BY <1>4, <1>6
    <2> QED
      BY <1>5, <2>1
  <1>7. ASSUME F(i) \cap F(j) # {} PROVE ReachedBy(tasks[i]) \cap ReachedBy(tasks[j]) # {}
    <2>1. PICK y : y \in F(i) /\ y \in F(j)
      BY <1>7
    <2>2. Reached(y) \in ReachedBy(tasks[i]) /\ Reached(y) \in ReachedBy(tasks[j])
      BY <1>4, <2>1
    <2> QED
      BY <2>2
  <1> QED
    BY <1>2, <1>6, <1>7 DEF F

(* The pairs that are warned of: those that may run together and share.    *)
Together(tasks, i, j) ==
  /\ ~LeadsTo(tasks, tasks[i].id, tasks[j].id) /\ ~LeadsTo(tasks, tasks[j].id, tasks[i].id)
  /\ Range(tasks[i].files) \cap Range(tasks[j].files) # {}

LEMMA OverlapsAreExact ==
  ASSUME NEW tasks, Ordered(tasks), IsInjective(Order(tasks)), AllLiteral(tasks),
         NEW i \in DOMAIN tasks, NEW j \in DOMAIN tasks, i # j
  PROVE  {tasks[i].id, tasks[j].id} \in Overlaps(tasks) <=> Together(tasks, i, j)
  <1> DEFINE D == DOMAIN tasks
             id(k) == tasks[k].id
             anc == Ancestors(tasks)
             W(k, l) == /\ tasks[k].id # tasks[l].id
                        /\ tasks[l].id \notin anc[tasks[k].id] /\ tasks[k].id \notin anc[tasks[l].id]
                        /\ OwnedFiles(tasks[k]) \intersect OwnedFiles(tasks[l]) # {}
             Pairs == {q \in D \X D : q[1] < q[2] /\ W(q[1], q[2])}
  <1>1. /\ tasks \in Seq(PlanTask) /\ D = 1..Len(tasks) /\ Len(tasks) \in Nat
        /\ \A k \in D : id(k) \in IdsOf(tasks)
    BY TasksFacts DEF Ordered
  <1>2. \A k, l \in D : id(k) = id(l) => k = l
    BY DEF IsInjective, Order
  <1>3. \A x \in IdsOf(tasks) : anc[x] = Behind(tasks, x)
    BY AncestorsAreExact, KnownFacts
  <1>4. \A k, l \in D : W(k, l) <=> k # l /\ Together(tasks, k, l)
    <2> TAKE k, l \in D
    <2>1. id(k) \in IdsOf(tasks) /\ id(l) \in IdsOf(tasks)
      BY <1>1
    <2>2. /\ id(l) \in anc[id(k)] <=> LeadsTo(tasks, id(k), id(l))
          /\ id(k) \in anc[id(l)] <=> LeadsTo(tasks, id(l), id(k))
      BY <1>3, <2>1 DEF Behind
    <2>3. OwnedFiles(tasks[k]) = Range(tasks[k].files) /\ OwnedFiles(tasks[l]) = Range(tasks[l].files)
      BY OwnedFacts
    <2>4. id(k) = id(l) <=> k = l
      BY <1>2
    <2> HIDE DEF anc
    <2> QED
      BY <2>2, <2>3, <2>4 DEF Together
  <1>5. \A k, l \in D : Together(tasks, k, l) <=> Together(tasks, l, k)
    BY DEF Together
  <1>6. Overlaps(tasks) = {{tasks[p[1]].id, tasks[p[2]].id} : p \in Pairs}
    BY DEF Overlaps
  <1> HIDE DEF anc, W
  <1>7. ASSUME {id(i), id(j)} \in Overlaps(tasks) PROVE Together(tasks, i, j)
    <2>1. PICK p \in Pairs : {id(i), id(j)} = {id(p[1]), id(p[2])}
      BY <1>6, <1>7
    <2>2. p[1] \in D /\ p[2] \in D /\ W(p[1], p[2])
      OBVIOUS
    <2> DEFINE k == p[1]
               l == p[2]
    <2>3. k \in D /\ l \in D /\ k # l /\ Together(tasks, k, l) /\ {id(i), id(j)} = {id(k), id(l)}
      BY <1>4, <2>1, <2>2
    <2> HIDE DEF k, l, id, D
    <2>4. i \in D /\ j \in D
      BY DEF D
    <2>5. id(i) # id(j)
      BY <1>2, <2>4
    <2>6. (id(i) = id(k) /\ id(j) = id(l)) \/ (id(i) = id(l) /\ id(j) = id(k))
      BY <2>3, <2>5
    <2>7. (i = k /\ j = l) \/ (i = l /\ j = k)
      BY <1>2, <2>3, <2>4, <2>6
    <2> QED
      BY <1>5, <2>3, <2>7
  <1>8. ASSUME Together(tasks, i, j) PROVE {id(i), id(j)} \in Overlaps(tasks)
    <2>1. W(i, j) /\ W(j, i)
      BY <1>4, <1>5, <1>8
    <2>2. i < j \/ j < i
      BY <1>1
    <2>3. CASE i < j
      <3>1. <<i, j>> \in Pairs
        BY <2>1, <2>3
      <3> QED
        BY <1>6, <3>1
    <2>4. CASE j < i
      <3>1. <<j, i>> \in Pairs
        BY <2>1, <2>4
      <3>2. {id(j), id(i)} \in Overlaps(tasks)
        BY <1>6, <3>1
      <3>3. {id(j), id(i)} = {id(i), id(j)}
        OBVIOUS
      <3> QED
        BY <3>2, <3>3
    <2> QED
      BY <2>2, <2>3, <2>4
  <1> QED
    BY <1>7, <1>8

(* A task of which no files are expected, or whose lack of them is warned  *)
(* of.                                                                     *)
LEMMA NoFilesFacts ==
  ASSUME NEW tasks \in Seq(PlanTask), NEW i \in DOMAIN tasks, tasks[i].files = <<>>, Len(tasks) > 1
  PROVE  \/ tasks[i].type \in {"research", "review"}
         \/ [code |-> "task.files.none", task |-> tasks[i].id] \in FileWarnings(tasks)
  <1> DEFINE Norm(task) ==
               LET ok == SelectSeq(task.files, LAMBDA raw : CheckFileEntry(raw).kind = "ok")
               IN  [n \in DOMAIN ok |-> CheckFileEntry(ok[n]).normalized]
             Some(task) == When(~IsInjective(Norm(task)), "task.files.duplicate", task.id)
             Rest(task) == When(/\ task.files = <<>> /\ Len(tasks) > 1
                                /\ task.type \in {"implementation", "test", "docs"},
                                "task.files.none", task.id)
  <1>1. FileWarnings(tasks) = UNION {Some(tasks[k]) \union Rest(tasks[k]) : k \in DOMAIN tasks}
    BY DEF FileWarnings
  <1>2. tasks[i].type \in {"research", "implementation", "test", "docs", "review"}
    <2>1. tasks[i] \in PlanTask
      BY TasksFacts
    <2> QED
      BY <2>1 DEF PlanTask, Types
  <1> HIDE DEF Some
  <1>3. CASE tasks[i].type \in {"implementation", "test", "docs"}
    <2>1. [code |-> "task.files.none", task |-> tasks[i].id] \in Rest(tasks[i])
      BY <1>3 DEF When
    <2> HIDE DEF Rest
    <2> QED
      BY <1>1, <2>1
  <1> QED
    BY <1>2, <1>3

(* What an admitted document is to the check of its owners.                *)
LEMMA AdmittedTasks ==
  ASSUME NEW d \in PlanOutput, Blockers(d) = {}, NEW tasks, tasks = d.tasks
  PROVE  /\ Ordered(tasks) /\ IsInjective(Order(tasks)) /\ AllLiteral(tasks)
         /\ \A i \in DOMAIN tasks : PlanOf(d).files[tasks[i].id] = Range(tasks[i].files)
  <1> DEFINE plan == PlanOf(d)
  <1>1. /\ Schedulable(plan) /\ IsPlanOf(plan, tasks) /\ IsInjective(Order(tasks))
        /\ TasksOf(plan) = IdsOf(tasks)
        /\ \A t \in IdsOf(tasks) : plan.dependsOn[t] = Others(tasks, t)
        /\ \A i \in DOMAIN tasks : \A raw \in Range(tasks[i].files) : IsLiteral(raw)
    BY AdmittedPlan
  <1>2. tasks \in Seq(PlanTask)
    BY DocFacts
  <1> HIDE DEF plan
  <1>3. ASSUME NEW id \in IdsOf(tasks) PROVE Range(DependsOn(tasks, id)) = Others(tasks, id)
    <2>1. PICK i \in DOMAIN tasks : tasks[i].id = id
      BY DEF IdsOf
    <2>2. /\ plan.dependsOn[tasks[i].id] = Range(tasks[i].dependsOn)
          /\ DependsOn(tasks, tasks[i].id) = tasks[i].dependsOn
      BY <1>1 DEF IsPlanOf
    <2> QED
      BY <1>1, <2>1, <2>2
  <1>4. ASSUME NEW K \in SUBSET IdsOf(tasks), \A t \in K : Others(tasks, t) \cap K # {}
        PROVE  K = {}
    <2>1. Len(plan.order) \in Nat /\ Acyclic(plan) /\ K \in SUBSET TasksOf(plan)
      BY <1>1 DEF Schedulable
    <2>2. \A t \in K : plan.dependsOn[t] \cap K # {}
      BY <1>1, <1>4
    <2> QED
      BY <2>1, <2>2, NoKnot
  <1>5. AllLiteral(tasks)
    <2> SUFFICES ASSUME NEW i \in DOMAIN tasks, NEW raw \in Range(tasks[i].files)
                 PROVE  IsLiteral(raw) /\ raw \in Path
      BY DEF AllLiteral
    <2>1. tasks[i] \in PlanTask
      BY <1>2, TasksFacts
    <2>2. tasks[i].files \in Seq(Path)
      BY <2>1 DEF PlanTask
    <2>3. Range(tasks[i].files) \subseteq Path
      BY <2>2, RangeType
    <2> QED
      BY <1>1, <2>3
  <1>6. \A i \in DOMAIN tasks : plan.files[tasks[i].id] = Range(tasks[i].files)
    BY <1>1 DEF IsPlanOf
  <1> QED
    BY <1>1, <1>2, <1>3, <1>4, <1>5, <1>6 DEF Ordered, plan

(* Tasks that can both run need nothing of each other.                     *)
LEMMA RunnableApart ==
  ASSUME NEW plan, NEW s, Coherent(plan, s), NEW tasks, TasksOf(plan) = IdsOf(tasks),
         \A t \in IdsOf(tasks) : plan.dependsOn[t] = Others(tasks, t),
         NEW t \in IdsOf(tasks), NEW u \in IdsOf(tasks),
         IsRunnable(plan, s, t), IsRunnable(plan, s, u)
  PROVE  ~LeadsTo(tasks, t, u)
  <1> SUFFICES ASSUME LeadsTo(tasks, t, u) PROVE FALSE
    OBVIOUS
  <1> DEFINE S == {x \in IdsOf(tasks) : s[x] = "done"}
  <1>1. \A x \in IdsOf(tasks) : Others(tasks, x) \subseteq IdsOf(tasks)
    BY OthersFacts
  <1>2. Others(tasks, t) \subseteq S
    BY <1>1 DEF IsRunnable
  <1>3. \A x \in S : Others(tasks, x) \subseteq S
    BY <1>1 DEF Coherent
  <1>4. S \in SUBSET IdsOf(tasks)
    OBVIOUS
  <1>5. u \in S
    <2> HIDE DEF S
    <2> QED
      BY <1>2, <1>3, <1>4 DEF LeadsTo
  <1>6. s[u] = "pending"
    BY DEF IsRunnable
  <1> QED
    BY <1>5, <1>6

(* The two halves of OwnersAreKnown, for documents of any size.            *)
KeptApart(tasks, w) ==
  \A i, j \in DOMAIN tasks :
     LET t == tasks[i]
         u == tasks[j]
     IN  (i # j /\ ReachedBy(t) \intersect ReachedBy(u) # {}) =>
           /\ ~({t.id, u.id} \subseteq Range(w))
           /\ {t.id, u.id} \in Overlaps(tasks) <=>
                ~LeadsTo(tasks, t.id, u.id) /\ ~LeadsTo(tasks, u.id, t.id)

LeftOut(tasks, plan, s, w, i) ==
  /\ tasks[i].id \notin Range(w) /\ Len(w) < MaxAtOnce
  /\ IsRunnable(plan, s, tasks[i].id)

LEMMA SharersAreApart ==
  ASSUME NEW tasks, Ordered(tasks), IsInjective(Order(tasks)), AllLiteral(tasks),
         NEW plan, \A i \in DOMAIN tasks : plan.files[tasks[i].id] = Range(tasks[i].files),
         NEW s, NEW w, IsSafeWave(plan, s, MaxAtOnce, w)
  PROVE  KeptApart(tasks, w)
  <1> SUFFICES ASSUME NEW i \in DOMAIN tasks, NEW j \in DOMAIN tasks, i # j,
                      ReachedBy(tasks[i]) \intersect ReachedBy(tasks[j]) # {}
               PROVE  /\ ~({tasks[i].id, tasks[j].id} \subseteq Range(w))
                      /\ {tasks[i].id, tasks[j].id} \in Overlaps(tasks) <=>
                           /\ ~LeadsTo(tasks, tasks[i].id, tasks[j].id)
                           /\ ~LeadsTo(tasks, tasks[j].id, tasks[i].id)
    BY DEF KeptApart
  <1>1. Range(tasks[i].files) \cap Range(tasks[j].files) # {}
    BY OwnedFacts
  <1>2. {tasks[i].id, tasks[j].id} \in Overlaps(tasks) <=>
          /\ ~LeadsTo(tasks, tasks[i].id, tasks[j].id)
          /\ ~LeadsTo(tasks, tasks[j].id, tasks[i].id)
    BY <1>1, OverlapsAreExact DEF Together
  <1>3. ASSUME tasks[i].id \in Range(w), tasks[j].id \in Range(w) PROVE FALSE
    <2>1. PICK k \in DOMAIN w : w[k] = tasks[i].id
      BY <1>3 DEF Range
    <2>2. PICK l \in DOMAIN w : w[l] = tasks[j].id
      BY <1>3 DEF Range
    <2>3. tasks[i].id # tasks[j].id
      BY DEF Order, IsInjective
    <2>4. Disjoint(plan, w[k], w[l])
      BY <2>1, <2>2, <2>3 DEF IsSafeWave
    <2> QED
      BY <1>1, <2>1, <2>2, <2>4 DEF Disjoint
  <1> QED
    BY <1>2, <1>3

LEMMA LeftOutIsWarned ==
  ASSUME NEW tasks, Ordered(tasks), IsInjective(Order(tasks)), AllLiteral(tasks),
         NEW plan, \A i \in DOMAIN tasks : plan.files[tasks[i].id] = Range(tasks[i].files),
         TasksOf(plan) = IdsOf(tasks),
         \A t \in IdsOf(tasks) : plan.dependsOn[t] = Others(tasks, t),
         NEW s, Coherent(plan, s), NEW w,
         IsSafeWave(plan, s, MaxAtOnce, w), IsGreedyWave(plan, s, MaxAtOnce, w),
         NEW i \in DOMAIN tasks, LeftOut(tasks, plan, s, w, i)
  PROVE  \E j \in DOMAIN tasks : /\ tasks[j].id \in Range(w)
                                 /\ WarnedOf(tasks, Overlaps(tasks), tasks[i], tasks[j])
  <1> DEFINE t == tasks[i].id
  <1>1. /\ tasks \in Seq(PlanTask) /\ Len(tasks) \in Nat /\ DOMAIN tasks = 1..Len(tasks)
        /\ t \in IdsOf(tasks)
    BY TasksFacts DEF Ordered
  <1>2. t \notin Range(w) /\ Len(w) < MaxAtOnce /\ IsRunnable(plan, s, t)
    BY DEF LeftOut
  <1>3. IsKeptOut(plan, MaxAtOnce, w, t)
    BY <1>1, <1>2 DEF IsGreedyWave
  <1>4. Len(w) # MaxAtOnce
    BY <1>2, MaxAtOnceAssumption
  <1>5. PICK u \in Range(w) :
          ~Disjoint(plan, t, u) \/ plan.files[t] = {} \/ plan.files[u] = {}
    BY <1>3, <1>4 DEF IsKeptOut
  <1>6. u \in IdsOf(tasks) /\ IsRunnable(plan, s, u)
    BY <1>5 DEF IsSafeWave
  <1>7. PICK j \in DOMAIN tasks : tasks[j].id = u
    BY <1>6 DEF IdsOf
  <1>8. i # j /\ Len(tasks) > 1
    <2>1. i # j
      BY <1>2, <1>5, <1>7
    <2> QED
      BY <1>1, <2>1
  <1>9. plan.files[t] = Range(tasks[i].files) /\ plan.files[u] = Range(tasks[j].files)
    BY <1>7
  <1>10. CASE ~Disjoint(plan, t, u)
    <2>1. ~LeadsTo(tasks, t, u) /\ ~LeadsTo(tasks, u, t)
      BY <1>1, <1>2, <1>6, RunnableApart
    <2>2. Together(tasks, i, j)
      BY <1>7, <1>9, <1>10, <2>1 DEF Together, Disjoint
    <2>3. {tasks[i].id, tasks[j].id} \in Overlaps(tasks)
      BY <1>8, <2>2, OverlapsAreExact
    <2>4. WarnedOf(tasks, Overlaps(tasks), tasks[i], tasks[j])
      BY <2>3 DEF WarnedOf
    <2> QED
      BY <1>5, <1>7, <2>4
  <1>11. ASSUME NEW x \in {i, j}, Range(tasks[x].files) = {}
         PROVE  WarnedOf(tasks, Overlaps(tasks), tasks[i], tasks[j])
    <2>1. x \in DOMAIN tasks
      OBVIOUS
    <2>2. tasks[x].files = <<>>
      <3>1. tasks[x] \in PlanTask
        BY <1>1, <2>1
      <3>2. tasks[x].files \in Seq(Path)
        BY <3>1 DEF PlanTask
      <3> DEFINE fs == tasks[x].files
      <3> HIDE DEF fs
      <3>3. fs \in Seq(Path) /\ Range(fs) = {}
        BY <1>11, <3>2 DEF fs
      <3>4. Len(fs) = 0
        <4>1. Len(fs) \in Nat /\ DOMAIN fs = 1..Len(fs)
          BY <3>3
        <4>2. 1 \notin DOMAIN fs
          BY <3>3 DEF Range
        <4> QED
          BY <4>1, <4>2
      <3>5. fs = <<>>
        BY <3>3, <3>4
      <3> QED
        BY <3>5 DEF fs
    <2>3. \/ tasks[x].type \in {"research", "review"}
          \/ [code |-> "task.files.none", task |-> tasks[x].id] \in FileWarnings(tasks)
      BY <1>1, <1>8, <2>1, <2>2, NoFilesFacts
    <2> QED
      BY <2>2, <2>3 DEF WarnedOf
  <1>12. CASE plan.files[t] = {} \/ plan.files[u] = {}
    BY <1>5, <1>7, <1>9, <1>11, <1>12
  <1> QED
    BY <1>5, <1>10, <1>12

(* Whatever the documents, tasks that reach the same file are never in one *)
(* wave, the user was warned of each two of them that do not need each     *)
(* other, and of what keeps a task out of a wave with room                 *)
(* (plan-preflight.ts:335-338, 446-498).                                   *)
THEOREM OwnersStayKnown == ScheduleSpec => []OwnersAreKnown
  <1>1. ASSUME ScheduleInv, Admitted
        PROVE  /\ KeptApart(doc.tasks, members)
               /\ \A i \in DOMAIN doc.tasks : LeftOut(doc.tasks, DocPlan, outcome, members, i) =>
                    \E j \in DOMAIN doc.tasks :
                      /\ doc.tasks[j].id \in Range(members)
                      /\ WarnedOf(doc.tasks, Overlaps(doc.tasks), doc.tasks[i], doc.tasks[j])
    <2> DEFINE plan == DocPlan
               tasks == doc.tasks
    <2>1. /\ doc \in PlanOutput /\ Blockers(doc) = {} /\ Schedulable(plan)
          /\ Coherent(plan, outcome) /\ members = NextWave(plan, outcome, MaxAtOnce)
      BY <1>1, AdmittedFacts
    <2>2. /\ TasksOf(plan) = IdsOf(tasks)
          /\ \A t \in IdsOf(tasks) : plan.dependsOn[t] = Others(tasks, t)
      BY <2>1, AdmittedPlan DEF DocPlan
    <2>3. /\ Ordered(tasks) /\ IsInjective(Order(tasks)) /\ AllLiteral(tasks)
          /\ \A i \in DOMAIN tasks : plan.files[tasks[i].id] = Range(tasks[i].files)
      BY <2>1, AdmittedTasks DEF DocPlan
    <2> HIDE DEF plan, tasks
    <2>4. /\ IsSafeWave(plan, outcome, MaxAtOnce, members)
          /\ IsGreedyWave(plan, outcome, MaxAtOnce, members)
      BY <2>1, WaveOfDocument
    <2>5. KeptApart(tasks, members)
      BY <2>3, <2>4, SharersAreApart
    <2>6. ASSUME NEW i \in DOMAIN tasks, LeftOut(tasks, plan, outcome, members, i)
          PROVE  \E j \in DOMAIN tasks :
                   /\ tasks[j].id \in Range(members)
                   /\ WarnedOf(tasks, Overlaps(tasks), tasks[i], tasks[j])
      BY <2>1, <2>2, <2>3, <2>4, <2>6, LeftOutIsWarned
    <2> QED
      BY <2>5, <2>6 DEF plan, tasks
  <1>2. ScheduleInv => OwnersAreKnown
    BY <1>1, Zenon DEF OwnersAreKnown, KeptApart, LeftOut
  <1> QED
    BY <1>2, ScheduleInvHolds, PTL

(***************************************************************************)
(* The wave of the loop                                                    *)
(***************************************************************************)
(* An approved plan as the scheduler's lemmas take it.                     *)
LEMMA PlanFacts ==
  /\ Plan.order \in Seq(Tasks) /\ IsInjective(Plan.order)
  /\ Range(Plan.order) = Tasks /\ TasksOf(Plan) = Tasks
  /\ \A t \in Range(Plan.order) : Plan.priority[t] \in {0, 1, 2}
  /\ \A t \in Tasks : Plan.dependsOn[t] \subseteq Tasks
  /\ Len(Plan.order) \in Nat \ {0} /\ Acyclic(Plan)
  <1>1. /\ Plan.order \in Seq(Tasks) /\ TasksOf(Plan) = Tasks
        /\ Plan.priority \in [Tasks -> {0, 1, 2}]
    BY PlanAssumption
  <1>2. Range(Plan.order) = Tasks
    BY <1>1 DEF TasksOf
  <1>3. /\ Plan.order # <<>> /\ IsInjective(Plan.order) /\ Acyclic(Plan)
        /\ \A t \in Tasks : Plan.dependsOn[t] \subseteq Tasks
    BY <1>1, PlanAssumption DEF WellFormedPlan
  <1>4. Len(Plan.order) \in Nat \ {0}
    BY <1>1, <1>3
  <1> QED
    BY <1>1, <1>2, <1>3, <1>4

(* The slice of a wave by the remaining budget keeps what the scheduler    *)
(* promises of the wave.                                                   *)
LEMMA SliceFacts ==
  ASSUME NEW w \in Seq(Tasks), TypeOK, Remaining > 0
  PROVE  /\ Sliced(w) \in Seq(Tasks)
         /\ DOMAIN Sliced(w) \subseteq DOMAIN w
         /\ \A i \in DOMAIN Sliced(w) : Sliced(w)[i] = w[i]
  BY LimitsAssumption DEF Sliced, Remaining, TypeOK

(* What the loop gets as its next wave.                                    *)
LEMMA WaveFacts ==
  ASSUME TypeOK, Remaining > 0
  PROVE  /\ ThisWave \in Seq(Tasks) /\ IsInjective(ThisWave)
         /\ \A i \in DOMAIN ThisWave : IsRunnable(Plan, state, ThisWave[i])
         /\ \A i, j \in DOMAIN ThisWave : i # j =>
              /\ Disjoint(Plan, ThisWave[i], ThisWave[j])
              /\ Plan.files[ThisWave[i]] # {}
  <1> DEFINE w == NextWave(Plan, state, MaxParallel)
  <1>1. /\ w \in Seq(Tasks) /\ IsInjective(w)
        /\ \A i \in DOMAIN w : IsRunnable(Plan, state, w[i])
        /\ \A i, j \in DOMAIN w : i # j => /\ Disjoint(Plan, w[i], w[j])
                                           /\ Plan.files[w[i]] # {}
    <2>1. /\ Plan.order \in Seq(Tasks) /\ IsInjective(Plan.order)
          /\ \A t \in Range(Plan.order) : Plan.priority[t] \in {0, 1, 2}
          /\ MaxParallel \in Nat \ {0}
      BY PlanFacts, LimitsAssumption
    <2>2. /\ w \in Seq(Tasks) /\ IsInjective(w) /\ Compatible(Plan, w)
          /\ \A t \in Range(w) : IsRunnable(Plan, state, t)
      BY <2>1, NextWaveIsRight DEF IsSafeWave, Compatible
    <2> HIDE DEF w
    <2>3. \A i \in DOMAIN w : w[i] \in Range(w)
      BY DEF Range
    <2> QED
      BY <2>2, <2>3 DEF Compatible
  <1>2. ThisWave = Sliced(w)
    BY DEF ThisWave
  <1> HIDE DEF w
  <1>3. /\ Sliced(w) \in Seq(Tasks) /\ DOMAIN Sliced(w) \subseteq DOMAIN w
        /\ \A i \in DOMAIN Sliced(w) : Sliced(w)[i] = w[i]
    BY <1>1, SliceFacts
  <1> QED
    BY <1>1, <1>2, <1>3 DEF IsInjective

(***************************************************************************)
(* The initial state                                                       *)
(***************************************************************************)
(* What a run inherits is of the right kind.                               *)
LEMMA StartFacts ==
  ASSUME NEW s \in Starts
  PROVE  /\ s.done \subseteq Tasks
         /\ s.tip \in Seq(Tasks) /\ IsInjective(s.tip)
         /\ Range(s.tip) \subseteq s.done
         /\ s.dispatches \in Nat /\ s.dispatches <= MaxTasks
  <1>1. s.done \subseteq Tasks /\ s.tip \in Seq(s.done)
    BY StartsAssumption
  <1>2. s.tip \in Seq(Tasks)
    BY <1>1
  <1> QED
    BY <1>1, <1>2, StartsAssumption, RangeType

(* The invariant holds where a run starts, fresh or resumed.               *)
LEMMA InitInv == Init => RunInv
  <1> SUFFICES ASSUME Init PROVE RunInv
    OBVIOUS
  <1> USE DEF Init, Launching, Integrating
  <1>0. /\ start \in Starts /\ start.done \subseteq Tasks
        /\ start.tip \in Seq(Tasks) /\ IsInjective(start.tip)
        /\ Range(start.tip) \subseteq start.done
        /\ start.dispatches \in Nat /\ start.dispatches <= MaxTasks
    BY StartFacts
  <1>1. held \in Manifest
    BY <1>0 DEF FirstManifest, Manifest, RunStatus, RecordStatus, ReportStatus
  <1>2. TypeOK
    <2>1. state \in [Tasks -> TaskStatus]
      BY DEF Seeded, TaskStatus
    <2>2. /\ wave \in Seq(Tasks) /\ launched \in Seq(Tasks) /\ spawned \in Seq(Tasks)
          /\ branch \in Seq(Tasks) /\ base \in [Tasks -> Seq(Tasks)]
      BY <1>0
    <2>3. worker \in [Tasks -> [process: {"none", "starting", "running", "ended", "orphan"},
                               output: Report \union {NoOutput}]]
      OBVIOUS
    <2>4. pc \in Steps /\ pos \in Nat \ {0} /\ spent \in Nat /\ disk \in Manifest
      BY <1>0, <1>1 DEF Steps
    <2> QED
      BY <1>0, <1>1, <2>1, <2>2, <2>3, <2>4 DEF TypeOK
  <1>3. Range(launched) = {} /\ Range(spawned) = {}
    BY DEF Range
  <1>4. WaveInv
    BY <1>2 DEF WaveInv, IsInjective
  <1>5. WorkerInv
    BY <1>3 DEF WorkerInv, Supervised, AllSettled
  <1>6. StateInv
    BY <1>0, <1>3 DEF StateInv, Seeded
  <1>7. DoneInv
    BY DEF DoneInv, Seeded
  <1>8. SpawnInv
    BY <1>3 DEF SpawnInv, IsInjective
  <1>9. DispatchInv /\ DispatchBound
    BY <1>0, LimitsAssumption DEF DispatchInv, DispatchBound, FirstManifest
  <1>10. HandleInv /\ ManifestLag /\ ExactWhenSafe
    BY DEF HandleInv, ManifestLag, ExactWhenSafe, FirstManifest
  <1>11. RecordInv
    BY <1>0 DEF RecordInv, FirstManifest
  <1> QED
    BY <1>2, <1>4, <1>5, <1>6, <1>7, <1>8, <1>9, <1>10, <1>11 DEF RunInv

(***************************************************************************)
(* Types                                                                   *)
(***************************************************************************)
(* Consequences of the types that the steps below use.                     *)
LEMMA TypeFacts ==
  ASSUME TypeOK
  PROVE  /\ start.dispatches \in Nat /\ start.dispatches <= MaxTasks
         /\ Len(spawned) \in Nat /\ spent \in Nat
         /\ held.dispatches \in Nat /\ disk.dispatches \in Nat
         /\ Len(launched) \in Nat /\ DOMAIN launched = 1..Len(launched)
         /\ Len(wave) \in Nat /\ DOMAIN wave = 1..Len(wave)
         /\ Range(branch) \subseteq Tasks /\ Range(launched) \subseteq Tasks
         /\ \A j \in DOMAIN launched : launched[j] \in Tasks
  <1>1. start.dispatches \in Nat /\ start.dispatches <= MaxTasks
    BY StartFacts DEF TypeOK
  <1>2. Len(spawned) \in Nat
    BY DEF TypeOK
  <1>3. held.dispatches \in Nat /\ disk.dispatches \in Nat /\ spent \in Nat
    BY DEF TypeOK, Manifest
  <1>4. launched \in Seq(Tasks) /\ wave \in Seq(Tasks) /\ branch \in Seq(Tasks)
    BY DEF TypeOK
  <1>5. Range(branch) \subseteq Tasks /\ Range(launched) \subseteq Tasks
    BY <1>4, RangeType
  <1>6. /\ Len(launched) \in Nat /\ DOMAIN launched = 1..Len(launched)
        /\ Len(wave) \in Nat /\ DOMAIN wave = 1..Len(wave)
    BY <1>4
  <1>7. \A j \in DOMAIN launched : launched[j] \in Tasks
    BY <1>4
  <1> QED
    BY <1>1, <1>2, <1>3, <1>5, <1>6, <1>7

(***************************************************************************)
(* What the manifest's updates write                                       *)
(***************************************************************************)
(* A manifest with one field replaced is a manifest.                       *)
LEMMA WithFields ==
  ASSUME NEW m \in Manifest
  PROVE  /\ \A x \in Nat : [m EXCEPT !.dispatches = x] \in Manifest
         /\ \A x \in [Tasks -> RecordStatus] : [m EXCEPT !.tasks = x] \in Manifest
         /\ \A x \in Seq(Tasks) : [m EXCEPT !.tip = x] \in Manifest
         /\ \A x \in RunStatus : [m EXCEPT !.status = x] \in Manifest
         /\ \A x \in BOOLEAN : [m EXCEPT !.safe = x] \in Manifest
  <1>1. \A x \in Nat : [m EXCEPT !.dispatches = x] \in Manifest
    BY DEF Manifest
  <1>2. \A x \in [Tasks -> RecordStatus] : [m EXCEPT !.tasks = x] \in Manifest
    BY DEF Manifest
  <1>3. \A x \in Seq(Tasks) : [m EXCEPT !.tip = x] \in Manifest
    BY DEF Manifest
  <1>4. \A x \in RunStatus : [m EXCEPT !.status = x] \in Manifest
    BY DEF Manifest
  <1>5. \A x \in BOOLEAN : [m EXCEPT !.safe = x] \in Manifest
    BY DEF Manifest
  <1> QED
    BY <1>1, <1>2, <1>3, <1>4, <1>5

(* A manifest with one task's record replaced is a manifest.               *)
LEMMA WithTask ==
  ASSUME NEW m \in Manifest, NEW t \in Tasks, NEW x \in RecordStatus
  PROVE  /\ [m EXCEPT !.tasks[t] = x] \in Manifest
         /\ [m EXCEPT !.tasks[t] = x].tasks = [m.tasks EXCEPT ![t] = x]
  <1>1. [m.tasks EXCEPT ![t] = x] \in [Tasks -> RecordStatus]
    BY DEF Manifest
  <1>2. [m EXCEPT !.tasks[t] = x] = [m EXCEPT !.tasks = [m.tasks EXCEPT ![t] = x]]
    BY DEF Manifest
  <1>3. [m EXCEPT !.tasks = [m.tasks EXCEPT ![t] = x]] \in Manifest
    BY <1>1, WithFields
  <1> QED
    BY <1>2, <1>3 DEF Manifest

(* A reservation counts one dispatch and marks its task, nothing else.     *)
LEMMA ReservedFacts ==
  ASSUME NEW t \in Tasks, held \in Manifest
  PROVE  /\ Reserved(t) \in Manifest
         /\ Reserved(t).dispatches = held.dispatches + 1
         /\ Reserved(t).tip = held.tip
         /\ Reserved(t).status = held.status /\ Reserved(t).safe = held.safe
         /\ Reserved(t).tasks = [held.tasks EXCEPT ![t] = "running"]
  <1> DEFINE h == [held EXCEPT !.dispatches = held.dispatches + 1]
  <1>1. Reserved(t) = [h EXCEPT !.tasks[t] = "running"]
    BY DEF Reserved, Manifest
  <1>2. h \in Manifest
    BY WithFields DEF Manifest
  <1>3. "running" \in RecordStatus
    BY DEF RecordStatus
  <1>4. Reserved(t) \in Manifest
    <2> HIDE DEF h
    <2> QED
      BY <1>1, <1>2, <1>3, WithTask
  <1> QED
    BY <1>4 DEF Reserved, Manifest

(* A checkpoint sets the status of its task and the tip, nothing else.     *)
LEMMA CheckpointedFacts ==
  ASSUME NEW t \in Tasks, NEW status \in ReportStatus, held \in Manifest,
         branch \in Seq(Tasks)
  PROVE  /\ Checkpointed(t, status) \in Manifest
         /\ Checkpointed(t, status).dispatches = held.dispatches
         /\ Checkpointed(t, status).tip = branch
         /\ Checkpointed(t, status).status = held.status
         /\ Checkpointed(t, status).safe = held.safe
         /\ Checkpointed(t, status).tasks = [held.tasks EXCEPT ![t] = status]
  <1> DEFINE h == [held EXCEPT !.tasks[t] = status]
  <1>1. Checkpointed(t, status) = [h EXCEPT !.tip = branch]
    BY DEF Checkpointed, Manifest
  <1>2. status \in RecordStatus
    BY DEF RecordStatus
  <1>3. h \in Manifest
    BY <1>2, WithTask
  <1>4. Checkpointed(t, status) \in Manifest
    <2> HIDE DEF h
    <2> QED
      BY <1>1, <1>3, WithFields
  <1> QED
    BY <1>4 DEF Checkpointed, Manifest

(* Normalising leaves no task running and changes no other.                *)
LEMMA UnfinishedFacts ==
  ASSUME NEW tasks \in [Tasks -> RecordStatus]
  PROVE  /\ Unfinished(tasks) \in [Tasks -> RecordStatus]
         /\ \A t \in Tasks : Unfinished(tasks)[t] # "running"
         /\ \A t \in Tasks : tasks[t] # "running" => Unfinished(tasks)[t] = tasks[t]
  BY DEF Unfinished, RecordStatus

(***************************************************************************)
(* The steps: one lemma per action, one step per part of the invariant     *)
(***************************************************************************)
(* The branch is created at the tip on record: nothing else changes.       *)
LEMMA SetupInv == ASSUME RunInv, Setup PROVE RunInv'
  <1> USE DEF Setup
  <1>0. /\ TypeOK /\ WaveInv /\ WorkerInv /\ StateInv /\ DoneInv /\ SpawnInv
        /\ DispatchInv /\ HandleInv /\ RecordInv
        /\ ManifestLag /\ ExactWhenSafe /\ DispatchBound
    BY DEF RunInv
  <1>1. TypeOK'
    BY <1>0 DEF TypeOK, Steps
  <1>2. WaveInv'
    BY <1>0 DEF WaveInv, Launching, Integrating
  <1>3. WorkerInv'
    BY <1>0 DEF WorkerInv, Task, Supervised, AllSettled, IsRunnable, Launching, Integrating
  <1>4. StateInv'
    BY <1>0 DEF TypeOK, StateInv, Unsettled, IsInjective, Launching, Integrating
  <1>5. DoneInv'
    BY <1>0 DEF DoneInv, MergedOrUnchanged, Launching, Integrating
  <1>6. SpawnInv'
    BY <1>0 DEF TypeOK, SpawnInv, Range, IsInjective, Launching, Integrating
  <1>7. DispatchInv'
    BY <1>0 DEF TypeOK, DispatchInv, Launching, Integrating
  <1>8. HandleInv'
    BY <1>0 DEF HandleInv
  <1>9. RecordInv'
    BY <1>0 DEF RecordInv, Range, Task, Merging, Launching, Integrating
  <1>10. (ManifestLag /\ ExactWhenSafe /\ DispatchBound)'
    BY <1>0 DEF HandleInv, ManifestLag, ExactWhenSafe, DispatchBound, Range
  <1> QED
    BY <1>1, <1>2, <1>3, <1>4, <1>5, <1>6, <1>7, <1>8, <1>9, <1>10 DEF RunInv

(* The new wave is runnable, disjoint and empty of launches; all earlier   *)
(* workers are over.                                                       *)
LEMMA TopInv == ASSUME RunInv, Top PROVE RunInv'
  <1> USE DEF Top
  <1>0. /\ TypeOK /\ WaveInv /\ WorkerInv /\ StateInv /\ DoneInv /\ SpawnInv
        /\ DispatchInv /\ HandleInv /\ RecordInv
        /\ ManifestLag /\ ExactWhenSafe /\ DispatchBound
    BY DEF RunInv
  <1>w. \/ /\ Remaining > 0 /\ wave' = ThisWave
           /\ pos' = 1 /\ launched' = <<>>
           /\ pc' = IF wave' = <<>> THEN "finish" ELSE "prepare"
        \/ /\ pc' = "finish"
           /\ UNCHANGED <<wave, pos, launched>>
    OBVIOUS
  <1>t. wave' \in Seq(Tasks) /\ launched' \in Seq(Tasks) /\ pos' \in Nat \ {0}
    <2>1. wave \in Seq(Tasks) /\ launched \in Seq(Tasks) /\ pos \in Nat \ {0}
      BY <1>0 DEF TypeOK
    <2>2. <<>> \in Seq(Tasks) /\ 1 \in Nat \ {0}
      OBVIOUS
    <2>3. Remaining > 0 => ThisWave \in Seq(Tasks)
      BY <1>0, WaveFacts
    <2> HIDE DEF Top
    <2> QED
      BY <1>w, <2>1, <2>2, <2>3
  <1>s. /\ AllSettled
        /\ Range(branch) \subseteq {t \in Tasks : state[t] = "done"}
    BY <1>0, RangeType DEF TypeOK, WorkerInv, StateInv, Launching
  <1>r. launched' = <<>> => Range(launched') = {} /\ DOMAIN launched' = {}
    BY DEF Range
  <1>1. TypeOK'
    BY <1>0, <1>t DEF TypeOK, Steps
  <1>2. WaveInv'
    <2>1. CASE pc' = "finish"
      <3>1. IsInjective(launched') /\ \A i, j \in DOMAIN launched' : i # j =>
              Disjoint(Plan, launched'[i], launched'[j]) /\ Plan.files[launched'[i]] # {}
        <4>1. CASE launched' = <<>>
          BY <4>1, <1>r DEF IsInjective
        <4>2. CASE launched' = launched
          BY <4>2, <1>0 DEF WaveInv
        <4> QED
          BY <1>w, <4>1, <4>2
      <3> QED
        BY <2>1, <3>1 DEF WaveInv, Launching, Integrating
    <2>2. CASE pc' = "prepare"
      <3>1. wave' = ThisWave /\ pos' = 1 /\ launched' = <<>> /\ wave' # <<>> /\ Remaining > 0
        BY <1>w, <2>2
      <3>2. /\ IsInjective(wave')
            /\ \A i \in DOMAIN wave' : IsRunnable(Plan, state, wave'[i])
            /\ \A i, j \in DOMAIN wave' : i # j =>
                 Disjoint(Plan, wave'[i], wave'[j]) /\ Plan.files[wave'[i]] # {}
        BY <1>0, <3>1, WaveFacts
      <3>3. pos' \in DOMAIN wave' /\ Len(launched') = pos' - 1
        BY <1>t, <3>1
      <3>4. IsInjective(launched') /\ DOMAIN launched' = {}
        BY <1>r, <3>1 DEF IsInjective
      <3> QED
        BY <2>2, <3>2, <3>3, <3>4 DEF WaveInv, Launching, Integrating, IsRunnable
    <2> QED
      BY <1>w, <2>1, <2>2
  <1>3. WorkerInv'
    BY <1>0, <1>s, <1>w, <1>r DEF WorkerInv, AllSettled, Supervised, Launching, Integrating
  <1>4. StateInv'
    BY <1>0, <1>s, <1>w, <1>r DEF StateInv, Unsettled, Launching, Integrating
  <1>5. DoneInv'
    BY <1>0, <1>w DEF DoneInv, MergedOrUnchanged, Integrating
  <1>6. SpawnInv'
    BY <1>0, <1>w, <1>r DEF SpawnInv, Launching, Integrating
  <1>7. DispatchInv'
    BY <1>0 DEF TypeOK, DispatchInv, Launching, Integrating
  <1>8. HandleInv'
    BY <1>0 DEF HandleInv
  <1>9. RecordInv'
    BY <1>0, <1>w DEF RecordInv, Integrating
  <1>10. (ManifestLag /\ ExactWhenSafe /\ DispatchBound)'
    BY <1>0 DEF HandleInv, ManifestLag, ExactWhenSafe, DispatchBound, Range
  <1> QED
    BY <1>1, <1>2, <1>3, <1>4, <1>5, <1>6, <1>7, <1>8, <1>9, <1>10 DEF RunInv

(* Launching stops: the tasks launched so far are awaited.                 *)
LEMMA StopLaunchingInv == ASSUME RunInv, StopLaunching PROVE RunInv'
  <1> USE DEF StopLaunching
  <1>0. /\ TypeOK /\ WaveInv /\ WorkerInv /\ StateInv /\ DoneInv /\ SpawnInv
        /\ DispatchInv /\ HandleInv /\ RecordInv
        /\ ManifestLag /\ ExactWhenSafe /\ DispatchBound
    BY DEF RunInv
  <1>1. TypeOK'
    BY <1>0 DEF TypeOK, Steps
  <1>2. WaveInv'
    BY <1>0 DEF WaveInv, Launching, Integrating
  <1>3. WorkerInv'
    BY <1>0 DEF WorkerInv, Task, Supervised, AllSettled, IsRunnable, Launching, Integrating
  <1>4. StateInv'
    BY <1>0 DEF TypeOK, StateInv, Unsettled, IsInjective, Launching, Integrating
  <1>5. DoneInv'
    BY <1>0 DEF DoneInv, MergedOrUnchanged, Launching, Integrating
  <1>6. SpawnInv'
    BY <1>0 DEF TypeOK, SpawnInv, Range, IsInjective, Launching, Integrating
  <1>7. DispatchInv'
    BY <1>0 DEF TypeOK, DispatchInv, Launching, Integrating
  <1>8. HandleInv'
    BY <1>0 DEF HandleInv
  <1>9. RecordInv'
    BY <1>0 DEF RecordInv, Range, Task, Merging, Launching, Integrating
  <1>10. (ManifestLag /\ ExactWhenSafe /\ DispatchBound)'
    BY <1>0 DEF HandleInv, ManifestLag, ExactWhenSafe, DispatchBound, Range
  <1> QED
    BY <1>1, <1>2, <1>3, <1>4, <1>5, <1>6, <1>7, <1>8, <1>9, <1>10 DEF RunInv

(* The worktree of the next task starts at the branch.                     *)
LEMMA AddWorktreeInv == ASSUME RunInv, AddWorktree PROVE RunInv'
  <1> USE DEF AddWorktree, WaveBase
  <1>0. /\ TypeOK /\ WaveInv /\ WorkerInv /\ StateInv /\ DoneInv /\ SpawnInv
        /\ DispatchInv /\ HandleInv /\ RecordInv
        /\ ManifestLag /\ ExactWhenSafe /\ DispatchBound
    BY DEF RunInv
  <1>1. TypeOK'
    <2>1. Task \in Tasks
      BY <1>0, InRange DEF TypeOK, WaveInv, Task, Launching
    <2>2. base' \in [Tasks -> Seq(Tasks)]
      BY <1>0, <2>1 DEF TypeOK
    <2> QED
      BY <1>0, <2>2 DEF TypeOK, Steps
  <1>2. WaveInv'
    BY <1>0 DEF WaveInv, Launching, Integrating
  <1>3. WorkerInv'
    <2>1. Task \in Tasks /\ Task' = Task
      BY <1>0, InRange DEF TypeOK, WaveInv, Task, Launching
    <2>2. \/ base' = base /\ pc' = "unwind"
          \/ base' = [base EXCEPT ![Task] = branch] /\ pc' = "reserve"
      OBVIOUS
    <2>3. base \in [Tasks -> Seq(Tasks)]
      BY <1>0 DEF TypeOK
    <2>4. pc' = "reserve" => base'[Task] = branch
      BY <2>1, <2>2, <2>3
    <2>5. \A t \in Tasks : base'[t] \in {base[t], branch}
      BY <2>1, <2>2, <2>3
    <2> QED
      BY <1>0, <2>1, <2>2, <2>4, <2>5
         DEF WorkerInv, Supervised, IsRunnable, Launching, Integrating
  <1>4. StateInv'
    BY <1>0 DEF TypeOK, StateInv, Unsettled, IsInjective, Launching, Integrating
  <1>5. DoneInv'
    BY <1>0 DEF DoneInv, MergedOrUnchanged, Launching, Integrating
  <1>6. SpawnInv'
    BY <1>0 DEF TypeOK, SpawnInv, Range, IsInjective, Launching, Integrating
  <1>7. DispatchInv'
    BY <1>0, LimitsAssumption DEF TypeOK, DispatchInv, Launching, Integrating, Remaining
  <1>8. HandleInv'
    BY <1>0 DEF HandleInv
  <1>9. RecordInv'
    BY <1>0 DEF RecordInv, Range, Task, Merging, Launching, Integrating
  <1>10. (ManifestLag /\ ExactWhenSafe /\ DispatchBound)'
    BY <1>0 DEF HandleInv, ManifestLag, ExactWhenSafe, DispatchBound, Range
  <1> QED
    BY <1>1, <1>2, <1>3, <1>4, <1>5, <1>6, <1>7, <1>8, <1>9, <1>10 DEF RunInv

(* The reservation is written before it is counted: whether or not a       *)
(* failing write took effect, the file is at most one ahead of the         *)
(* workers.                                                                *)
LEMMA ReserveInv == ASSUME RunInv, Reserve PROVE RunInv'
  <1> USE DEF Reserve
  <1>0. /\ TypeOK /\ WaveInv /\ WorkerInv /\ StateInv /\ DoneInv /\ SpawnInv
        /\ DispatchInv /\ HandleInv /\ RecordInv
        /\ ManifestLag /\ ExactWhenSafe /\ DispatchBound
    BY DEF RunInv
  <1>a. Task \in Tasks /\ state[Task] = "pending"
    BY <1>0, InRange DEF TypeOK, WaveInv, Task, Launching, IsRunnable
  <1>b. Task \notin Range(branch)
    BY <1>0, <1>a DEF StateInv, Launching
  <1> DEFINE r == Reserved(Task)
  <1>c. r \in Manifest
        /\ r.dispatches = held.dispatches + 1 /\ r.tip = held.tip
        /\ r.status = held.status /\ r.safe = held.safe
        /\ r.tasks = [held.tasks EXCEPT ![Task] = "running"]
    BY <1>0, <1>a, ReservedFacts DEF TypeOK
  <1>d. \/ /\ held' = r /\ disk' = r /\ spent' = spent + 1 /\ pc' = "launch" /\ failure' = failure
        \/ /\ held' = held /\ disk' \in {disk, r} /\ spent' = spent /\ pc' = "unwind"
           /\ failure' = "reservation"
    BY DEF Written, WriteFails
  <1> HIDE DEF r
  <1>1. TypeOK'
    BY <1>0, <1>c, <1>d DEF TypeOK, Steps
  <1>2. WaveInv'
    BY <1>0 DEF WaveInv, Launching, Integrating
  <1>3. WorkerInv'
    BY <1>0 DEF WorkerInv, Task, Supervised, AllSettled, IsRunnable, Launching, Integrating
  <1>4. StateInv'
    BY <1>0 DEF TypeOK, StateInv, Unsettled, IsInjective, Launching, Integrating
  <1>5. DoneInv'
    BY <1>0 DEF DoneInv, MergedOrUnchanged, Launching, Integrating
  <1>6. SpawnInv'
    BY <1>0 DEF TypeOK, SpawnInv, Range, IsInjective, Launching, Integrating
  <1>7. DispatchInv'
    <2>1. /\ spent < MaxTasks /\ spent = start.dispatches + Len(spawned) /\ spent = held.dispatches
          /\ start.dispatches \in Nat /\ Len(spawned) \in Nat /\ spent \in Nat
      BY <1>0, TypeFacts DEF DispatchInv
    <2>2. UNCHANGED <<start, spawned>>
      OBVIOUS
    <2> HIDE DEF Reserve
    <2> QED
      BY <1>c, <1>d, <2>1, <2>2, LimitsAssumption DEF DispatchInv, Integrating
  <1>8. HandleInv'
    BY <1>0, <1>c, <1>d DEF HandleInv
  <1>9. RecordInv'
    <2>1. \A t \in Range(branch) : held'.tasks[t] = "completed"
      <3>1. Range(branch) \subseteq Tasks /\ held.tasks \in [Tasks -> RecordStatus]
        BY <1>0, RangeType DEF TypeOK, Manifest
      <3>2. \A t \in Range(branch) : held.tasks[t] = "completed"
        BY <1>0 DEF RecordInv
      <3> QED
        BY <1>b, <1>c, <1>d, <3>1, <3>2
    <2>2. \A t \in Tasks : held'.tasks[t] = "running" =>
            t \in Range(launched) \/ (pc' = "launch" /\ t = Task)
      <3>1. held.tasks \in [Tasks -> RecordStatus]
        BY <1>0 DEF TypeOK, Manifest
      <3>2. \A t \in Tasks : held.tasks[t] = "running" => t \in Range(launched)
        BY <1>0 DEF RecordInv
      <3> QED
        BY <1>c, <1>d, <3>1, <3>2
    <2> QED
      BY <1>d, <2>1, <2>2 DEF RecordInv, Task
  <1>10. (ManifestLag /\ ExactWhenSafe /\ DispatchBound)'
    <2>1. disk'.dispatches \in {held.dispatches, held.dispatches + 1} /\ disk'.tip = disk.tip
          /\ disk'.status = "running" /\ ~disk'.safe
      BY <1>0, <1>c, <1>d DEF HandleInv
    <2>2. spent < MaxTasks /\ spent = start.dispatches + Len(spawned) /\ spent = held.dispatches
      BY <1>0 DEF DispatchInv
    <2>3. DispatchBound'
      <3>1. /\ UNCHANGED <<start, spawned>>
            /\ start.dispatches \in Nat /\ Len(spawned) \in Nat
        BY <1>0, TypeFacts
      <3> HIDE DEF Reserve
      <3> QED
        BY <2>1, <2>2, <3>1, LimitsAssumption DEF DispatchBound
    <2> QED
      BY <1>0, <2>1, <2>3 DEF ManifestLag, ExactWhenSafe
  <1> QED
    BY <1>1, <1>2, <1>3, <1>4, <1>5, <1>6, <1>7, <1>8, <1>9, <1>10 DEF RunInv

(* A task is launched at most once: it is pending, of this wave, and not   *)
(* yet among the launched.                                                 *)
LEMMA LaunchInv == ASSUME RunInv, Launch PROVE RunInv'
  <1> USE DEF Launch
  <1>0. /\ TypeOK /\ WaveInv /\ WorkerInv /\ StateInv /\ DoneInv /\ SpawnInv
        /\ DispatchInv /\ HandleInv /\ RecordInv
        /\ ManifestLag /\ ExactWhenSafe /\ DispatchBound
    BY DEF RunInv
  <1>a. Task \in Tasks /\ Task = wave[pos] /\ pos \in DOMAIN wave /\ IsRunnable(Plan, state, Task)
    BY <1>0, InRange DEF TypeOK, WaveInv, Task, Launching
  <1>b. base[Task] = branch
    BY <1>0 DEF WorkerInv
  <1>c. \/ /\ aborted /\ pc' = "settle" /\ interrupted' = TRUE
           /\ UNCHANGED <<pos, launched, worker, spawned>>
        \/ /\ ~aborted /\ interrupted' = interrupted
           /\ worker' = [worker EXCEPT ![Task].process = "starting"]
           /\ spawned' = Append(spawned, Task)
           /\ launched' = Append(launched, Task)
           /\ pos' = pos + 1
           /\ pc' = IF pos = Len(wave) THEN "settle" ELSE "prepare"
    OBVIOUS
  <1>d. /\ spawned' \in Seq(Tasks) /\ launched' \in Seq(Tasks)
        /\ pos' \in Nat \ {0}
    <2>1. spawned \in Seq(Tasks) /\ launched \in Seq(Tasks) /\ pos \in Nat \ {0}
      BY <1>0 DEF TypeOK
    <2>2. Append(spawned, Task) \in Seq(Tasks) /\ Append(launched, Task) \in Seq(Tasks)
          /\ pos + 1 \in Nat \ {0}
      BY <1>a, <2>1
    <2> HIDE DEF Launch
    <2> QED
      BY <1>c, <2>1, <2>2
  <1>e. \A i \in DOMAIN launched : launched[i] = wave[i] /\ i \in DOMAIN wave /\ i # pos
    <2>1. /\ pos \in DOMAIN wave /\ Len(launched) = pos - 1
          /\ \A i \in DOMAIN launched : launched[i] = wave[i]
      BY <1>0 DEF WaveInv, Launching
    <2>2. /\ Len(launched) \in Nat /\ DOMAIN launched = 1..Len(launched)
          /\ Len(wave) \in Nat /\ DOMAIN wave = 1..Len(wave)
      BY <1>0, TypeFacts
    <2>3. pos \in Nat
      BY <1>0 DEF TypeOK
    <2> HIDE DEF Launch
    <2> QED
      BY <2>1, <2>2, <2>3
  <1>f. Task \notin Range(launched)
    BY <1>0, <1>a, <1>e DEF WaveInv, Launching, Range, IsInjective
  <1>g. Task \notin Range(spawned)
    BY <1>0, <1>a, <1>f DEF SpawnInv, Launching, IsRunnable
  <1>h. Task \notin start.done
    BY <1>0, <1>a DEF StateInv, IsRunnable
  <1>i. CASE aborted /\ pc' = "settle" /\ interrupted' = TRUE
             /\ UNCHANGED <<pos, launched, worker, spawned>>
    <2>1. TypeOK'
      BY <1>0, <1>i DEF TypeOK, Steps
    <2>2. WaveInv'
      BY <1>0, <1>i DEF WaveInv, Launching, Integrating
    <2>3. WorkerInv'
      BY <1>0, <1>i DEF WorkerInv, Supervised, AllSettled, Launching, Integrating
    <2>4. StateInv'
      BY <1>0, <1>i DEF StateInv, Unsettled, Launching, Integrating
    <2>5. DoneInv'
      BY <1>0, <1>i DEF DoneInv, MergedOrUnchanged, Launching, Integrating
    <2>6. SpawnInv'
      BY <1>0, <1>i DEF SpawnInv, Launching, Integrating
    <2>7. DispatchInv'
      BY <1>0, <1>i DEF DispatchInv, Launching, Integrating
    <2>8. HandleInv'
      BY <1>0, <1>i DEF HandleInv
    <2>9. RecordInv'
      BY <1>0, <1>i DEF RecordInv, Task
    <2>10. (ManifestLag /\ ExactWhenSafe /\ DispatchBound)'
      BY <1>0, <1>i DEF HandleInv, ManifestLag, ExactWhenSafe, DispatchBound
    <2> QED
      BY <2>1, <2>2, <2>3, <2>4, <2>5, <2>6, <2>7, <2>8, <2>9, <2>10 DEF RunInv
  <1>j. CASE /\ ~aborted /\ interrupted' = interrupted
             /\ worker' = [worker EXCEPT ![Task].process = "starting"]
             /\ spawned' = Append(spawned, Task)
             /\ launched' = Append(launched, Task)
             /\ pos' = pos + 1
             /\ pc' = IF pos = Len(wave) THEN "settle" ELSE "prepare"
    <2>1. TypeOK'
      <3>1. worker \in [Tasks -> [process: {"none", "starting", "running", "ended", "orphan"},
                                 output: Report \union {NoOutput}]]
        BY <1>0 DEF TypeOK
      <3>2. worker' \in [Tasks -> [process: {"none", "starting", "running", "ended", "orphan"},
                                  output: Report \union {NoOutput}]]
        BY <1>a, <1>j, <3>1
      <3>3. pc' \in {"settle", "prepare"}
        BY <1>j
      <3> QED
        BY <1>0, <1>d, <1>j, <3>2, <3>3 DEF TypeOK, Steps
    <2>2. DOMAIN launched' = 1..pos /\ Len(launched') = pos /\ \A i \in DOMAIN launched' : launched'[i] = wave[i] /\ i \in DOMAIN wave
      <3>1. Len(launched) = pos - 1 /\ launched \in Seq(Tasks) /\ wave \in Seq(Tasks) /\ pos \in Nat
        BY <1>0 DEF TypeOK, WaveInv, Launching
      <3>2. DOMAIN launched' = 1..(Len(launched) + 1) /\ Len(launched') = Len(launched) + 1
        BY <3>1, <1>a, <1>j, AppendFacts
      <3>3. \A i \in 1..Len(launched) : launched'[i] = launched[i]
        BY <3>1, <1>a, <1>j, AppendFacts
      <3>4. launched'[pos] = wave[pos]
        BY <3>1, <1>a, <1>j, AppendFacts
      <3>5. \A i \in 1..pos : i \in 1..Len(launched) \/ i = pos
        BY <3>1
      <3>6. DOMAIN launched = 1..Len(launched)
        BY <3>1
      <3> QED
        BY <3>1, <3>2, <3>3, <3>4, <3>5, <3>6, <1>a, <1>e
    <2>3. WaveInv'
      <3>1. IsInjective(launched')
        <4>1. launched \in Seq(Tasks) /\ IsInjective(launched)
          BY <1>0 DEF TypeOK, WaveInv
        <4> QED
          BY <1>a, <1>f, <1>j, <4>1, AppendStaysInjective
      <3>2. pc' = "prepare" => pos' \in DOMAIN wave /\ Len(launched') = pos' - 1
        <4>1. /\ pos \in DOMAIN wave /\ pos \in Nat /\ Len(wave) \in Nat
              /\ DOMAIN wave = 1..Len(wave)
          BY <1>0, <1>a, TypeFacts DEF TypeOK
        <4>2. pc' = "prepare" => pos # Len(wave)
          BY <1>j
        <4>3. pos' = pos + 1
          BY <1>j
        <4> HIDE DEF Launch
        <4> QED
          BY <2>2, <4>1, <4>2, <4>3
      <3>3. \A i, j \in DOMAIN launched' : i # j => /\ Disjoint(Plan, launched'[i], launched'[j])
                                                   /\ Plan.files[launched'[i]] # {}
        <4>1. \A i, j \in DOMAIN wave : i # j => /\ Disjoint(Plan, wave[i], wave[j])
                                                /\ Plan.files[wave[i]] # {}
          BY <1>0 DEF WaveInv, Launching
        <4> HIDE DEF Launch
        <4> QED
          BY <2>2, <4>1
      <3>4. pc' \in {"prepare", "settle"}
        BY <1>j
      <3> QED
        BY <1>0, <2>2, <3>1, <3>2, <3>3, <3>4 DEF WaveInv, Launching, Integrating
    <2>4. Range(launched') = Range(launched) \union {Task} /\ Range(spawned') = Range(spawned) \union {Task}
      BY <1>0, <1>a, <1>j, AppendRange DEF TypeOK
    <2>5. WorkerInv'
      <3>1. \A t \in Tasks \ {Task} : worker'[t] = worker[t]
        BY <1>0, <1>a, <1>j DEF TypeOK
      <3>2. worker'[Task].process = "starting"
        BY <1>0, <1>a, <1>j DEF TypeOK
      <3>3. \A t \in Tasks : Supervised(t)' =>
              t \in Range(launched') /\ IsRunnable(Plan, state, t) /\ base[t] = branch
        BY <1>0, <1>a, <1>b, <2>4, <3>1 DEF WorkerInv, Supervised
      <3>4. \A t \in Range(launched') : Supervised(t)' \/ worker'[t].output \in Report
        BY <1>0, <1>a, <2>4, <3>1, <3>2, RangeType DEF WorkerInv, TypeOK, Supervised, Launching
      <3>5. pc' \in {"prepare", "settle"}
        BY <1>j
      <3> QED
        BY <3>3, <3>4, <3>5 DEF WorkerInv, Launching, Integrating, IsRunnable
    <2>6. StateInv'
      BY <1>0, <1>a, <1>h, <1>j, <2>4 DEF StateInv, Unsettled, IsRunnable, Launching, Integrating
    <2>7. DoneInv'
      <3>1. \A t \in Tasks : worker'[t].output = worker[t].output
        BY <1>0, <1>a, <1>j DEF TypeOK
      <3> QED
        BY <1>0, <1>j, <3>1 DEF DoneInv, MergedOrUnchanged, Launching, Integrating
    <2>8. SpawnInv'
      <3>1. IsInjective(spawned')
        <4>1. spawned \in Seq(Tasks) /\ IsInjective(spawned)
          BY <1>0 DEF TypeOK, SpawnInv
        <4> QED
          BY <1>a, <1>g, <1>j, <4>1, AppendStaysInjective
      <3> QED
        BY <1>0, <1>a, <1>h, <1>j, <2>4, <3>1 DEF SpawnInv, Launching, Integrating
    <2>9. DispatchInv' /\ DispatchBound'
      <3>1. Len(spawned') = Len(spawned) + 1 /\ Len(spawned) \in Nat
        BY <1>0, <1>a, <1>j, AppendFacts DEF TypeOK
      <3>2. spent = start.dispatches + Len(spawned) + 1 /\ disk = held
        BY <1>0 DEF DispatchInv, HandleInv
      <3>3. start.dispatches \in Nat /\ spent \in Nat
        BY <1>0, TypeFacts
      <3>4. pc' \in {"prepare", "settle"}
        BY <1>j
      <3>5. spent' = start'.dispatches + Len(spawned')
        <4>1. spent' = spent /\ start' = start
          OBVIOUS
        <4> HIDE DEF Launch
        <4> QED
          BY <3>1, <3>2, <3>3, <4>1
      <3>6. spent' = held'.dispatches /\ spent' <= MaxTasks /\ disk'.dispatches = spent'
        BY <1>0, <3>2 DEF DispatchInv
      <3> QED
        BY <3>1, <3>3, <3>4, <3>5, <3>6, LimitsAssumption DEF DispatchInv, DispatchBound, Integrating
    <2>10. HandleInv'
      BY <1>0, <1>j DEF HandleInv
    <2>11. RecordInv'
      BY <1>0, <1>j, <2>4 DEF RecordInv, Task
    <2>12. (ManifestLag /\ ExactWhenSafe)'
      BY <1>0, <1>j DEF HandleInv, ManifestLag, ExactWhenSafe
    <2> QED
      BY <2>1, <2>2, <2>3, <2>4, <2>5, <2>6, <2>7, <2>8, <2>9, <2>10, <2>11, <2>12 DEF RunInv
  <1> QED
    BY <1>c, <1>i, <1>j

(* The sentinel is of no consequence to the loop.                          *)
LEMMA RecordWorkerInv == ASSUME NEW t \in Tasks, RunInv, RecordWorker(t) PROVE RunInv'
  <1> USE DEF RecordWorker
  <1>0. /\ TypeOK /\ WaveInv /\ WorkerInv /\ StateInv /\ DoneInv /\ SpawnInv
        /\ DispatchInv /\ HandleInv /\ RecordInv
        /\ ManifestLag /\ ExactWhenSafe /\ DispatchBound
    BY DEF RunInv
  <1>a. worker' \in [Tasks -> [process: {"none", "starting", "running", "ended", "orphan"},
                               output: Report \union {NoOutput}]]
    BY <1>0, OutputsAssumption DEF TypeOK
  <1>b. \A u \in Tasks \ {t} : worker'[u] = worker[u]
    BY <1>0 DEF TypeOK
  <1>c. \A u \in Tasks : worker'[u].output = worker[u].output /\ Supervised(u)' = Supervised(u)
    BY <1>0 DEF TypeOK, Supervised
  <1> DEFINE rest == <<pc, start, loopVars, aborted, base, branch, held, disk, spawned, removed>>
  <1>d. UNCHANGED rest /\ AllSettled' = AllSettled
    BY <1>c DEF AllSettled
  <1>e. UNCHANGED <<Task, Merging>> /\ pc' = pc /\ pc \notin {"ended", "dead"}
    BY DEF Task, Merging, loopVars
  <1> USE DEF loopVars
  <1>1. TypeOK'
    BY <1>0, <1>a DEF TypeOK, Steps, loopVars
  <1>2. WaveInv'
    BY <1>0 DEF WaveInv, Launching, Integrating
  <1>3. WorkerInv'
    <2>1. Range(launched) \subseteq Tasks
      BY <1>0, RangeType DEF TypeOK
    <2> QED
      BY <1>0, <1>c, <1>d, <1>e, <2>1 DEF WorkerInv, IsRunnable, Task
  <1>4. StateInv'
    <2>1. \A j \in DOMAIN launched : launched[j] \in Tasks
      BY <1>0, InRange DEF TypeOK
    <2>2. \A u : Unsettled(u) => Unsettled(u)'
      BY <1>c, <2>1 DEF Unsettled
    <2> QED
      BY <1>0, <2>2 DEF StateInv
  <1>5. DoneInv'
    <2>1. \A j \in DOMAIN launched : launched[j] \in Tasks
      BY <1>0, InRange DEF TypeOK
    <2> QED
      BY <1>0, <1>c, <2>1 DEF DoneInv, MergedOrUnchanged
  <1>6. SpawnInv'
    BY <1>0 DEF TypeOK, SpawnInv, Range, IsInjective, Launching, Integrating
  <1>7. DispatchInv'
    BY <1>0 DEF TypeOK, DispatchInv, Launching, Integrating
  <1>8. HandleInv'
    BY <1>0 DEF HandleInv
  <1>9. RecordInv'
    BY <1>0, <1>c, <1>e, RangeType DEF TypeOK, RecordInv, Task
  <1>10. (ManifestLag /\ ExactWhenSafe /\ DispatchBound)'
    BY <1>0 DEF HandleInv, ManifestLag, ExactWhenSafe, DispatchBound, Range
  <1> QED
    BY <1>1, <1>2, <1>3, <1>4, <1>5, <1>6, <1>7, <1>8, <1>9, <1>10 DEF RunInv

(* A worker that ends was awaited, so the loop is in its wave or gone, and *)
(* no decided task's report changes.                                       *)
LEMMA WorkerEndsInv == ASSUME NEW t \in Tasks, RunInv, WorkerEnds(t) PROVE RunInv'
  <1> USE DEF WorkerEnds
  <1>0. /\ TypeOK /\ WaveInv /\ WorkerInv /\ StateInv /\ DoneInv /\ SpawnInv
        /\ DispatchInv /\ HandleInv /\ RecordInv
        /\ ManifestLag /\ ExactWhenSafe /\ DispatchBound
    BY DEF RunInv
  <1>a. PICK o \in Outputs : worker' = [worker EXCEPT ![t] = [process |-> "ended", output |-> o]]
    OBVIOUS
  <1>b. o \in Report
    BY OutputsAssumption
  <1>c. worker' \in [Tasks -> [process: {"none", "starting", "running", "ended", "orphan"},
                               output: Report \union {NoOutput}]]
        /\ worker'[t].process = "ended" /\ worker'[t].output = o
    BY <1>0, <1>a, <1>b DEF TypeOK
  <1>d. /\ \A u \in Tasks \ {t} : worker'[u] = worker[u]
        /\ ~Supervised(t)' /\ Supervised(t)
    BY <1>0, <1>c DEF TypeOK, Supervised
  <1>e. t \in Range(launched) /\ state[t] = "pending" /\ ~AllSettled
    BY <1>0, <1>d DEF WorkerInv, IsRunnable, AllSettled
  <1>f. pc \in Launching \union {"settle", "unwind", "dead"}
    BY <1>0, <1>e DEF WorkerInv
  <1>g. /\ Range(launched) \subseteq Tasks
        /\ \A u \in Tasks : Supervised(u)' => Supervised(u) /\ u # t
    BY <1>0, <1>d, TypeFacts DEF Supervised
  <1>h. UNCHANGED <<pc, start, loopVars, aborted, base, branch, held, disk, spawned, removed>>
        /\ UNCHANGED <<Task, Merging>>
    BY DEF Task, Merging, loopVars
  <1> HIDE DEF WorkerEnds
  <1> USE DEF loopVars
  <1>1. TypeOK'
    <2>1. sentinels' \subseteq Tasks
      BY <1>0 DEF TypeOK, WorkerEnds
    <2> QED
      BY <1>0, <1>c, <1>h, <2>1 DEF TypeOK
  <1>2. WaveInv'
    BY <1>0, <1>h DEF WaveInv
  <1>3. WorkerInv'
    <2>1. \A u \in Range(launched) : Supervised(u) \/ worker[u].output \in Report =>
            Supervised(u)' \/ worker'[u].output \in Report
      BY <1>b, <1>c, <1>d, <1>g DEF Supervised
    <2> QED
      BY <1>0, <1>f, <1>g, <1>h, <2>1 DEF WorkerInv, IsRunnable, Launching, Integrating
  <1>4. StateInv'
    BY <1>0, <1>f, <1>h DEF StateInv, Launching, Integrating
  <1>5. DoneInv'
    BY <1>0, <1>d, <1>e, <1>f, <1>h DEF DoneInv, MergedOrUnchanged, Launching, Integrating
  <1>6. SpawnInv'
    BY <1>0, <1>h DEF SpawnInv
  <1>7. DispatchInv'
    BY <1>0, <1>h DEF DispatchInv
  <1>8. HandleInv'
    BY <1>0, <1>h DEF HandleInv
  <1>9. RecordInv'
    BY <1>0, <1>f, <1>h DEF RecordInv, Launching
  <1>10. (ManifestLag /\ ExactWhenSafe /\ DispatchBound)'
    BY <1>0, <1>h DEF ManifestLag, ExactWhenSafe, DispatchBound
  <1> QED
    BY <1>1, <1>2, <1>3, <1>4, <1>5, <1>6, <1>7, <1>8, <1>9, <1>10 DEF RunInv

(* A rejected launch ends the wave by an exception, or the process.        *)
LEMMA RunnerRejectsInv == ASSUME NEW t \in Tasks, RunInv, RunnerRejects(t) PROVE RunInv'
  <1> USE DEF RunnerRejects
  <1>0. /\ TypeOK /\ WaveInv /\ WorkerInv /\ StateInv /\ DoneInv /\ SpawnInv
        /\ DispatchInv /\ HandleInv /\ RecordInv
        /\ ManifestLag /\ ExactWhenSafe /\ DispatchBound
    BY DEF RunInv
  <1>a. PICK left \in {"ended", "orphan"} : worker' = [worker EXCEPT ![t].process = left]
    OBVIOUS
  <1>c. worker' \in [Tasks -> [process: {"none", "starting", "running", "ended", "orphan"},
                               output: Report \union {NoOutput}]]
        /\ worker'[t].process \in {"ended", "orphan"}
        /\ \A u \in Tasks : worker'[u].output = worker[u].output
    <2>1. worker \in [Tasks -> [process: {"none", "starting", "running", "ended", "orphan"},
                               output: Report \union {NoOutput}]]
      BY <1>0 DEF TypeOK
    <2> HIDE DEF RunnerRejects
    <2> QED
      BY <1>a, <2>1
  <1>d. /\ \A u \in Tasks \ {t} : worker'[u] = worker[u]
        /\ ~Supervised(t)' /\ Supervised(t)
    BY <1>0, <1>c DEF TypeOK, Supervised
  <1>e. t \in Range(launched) /\ state[t] = "pending" /\ ~AllSettled
    BY <1>0, <1>d DEF WorkerInv, IsRunnable, AllSettled
  <1>f. pc \in Launching \union {"settle", "unwind", "dead"}
    BY <1>0, <1>e DEF WorkerInv
  <1>g. /\ Range(launched) \subseteq Tasks
        /\ \A u \in Tasks : Supervised(u)' => Supervised(u) /\ u # t
    BY <1>0, <1>d, TypeFacts DEF Supervised
  <1>h. /\ UNCHANGED <<start, state, wave, pos, launched, spent, interrupted, exhausted,
                      aborted, base, branch, held, disk, sentinels, spawned, removed>>
        /\ UNCHANGED Task
        /\ pc \in {"prepare", "reserve", "launch", "settle", "unwind"} /\ pc' \in {"unwind", "dead"}
        /\ failure' \in {failure, "other"}
    BY DEF Task
  <1> HIDE DEF RunnerRejects
  <1>1. TypeOK'
    BY <1>0, <1>c, <1>h DEF TypeOK, Steps
  <1>2. WaveInv'
    BY <1>0, <1>h DEF WaveInv, Launching, Integrating
  <1>3. WorkerInv'
    BY <1>0, <1>f, <1>g, <1>h DEF WorkerInv, IsRunnable, Launching, Integrating
  <1>4. StateInv'
    BY <1>0, <1>f, <1>h DEF StateInv, Launching, Integrating
  <1>5. DoneInv'
    BY <1>0, <1>c, <1>h DEF DoneInv, MergedOrUnchanged, Launching, Integrating
  <1>6. SpawnInv'
    BY <1>0, <1>h DEF SpawnInv, Launching
  <1>7. DispatchInv'
    BY <1>0, <1>h DEF DispatchInv, Integrating
  <1>8. HandleInv'
    BY <1>0, <1>h DEF HandleInv
  <1>9. RecordInv'
    BY <1>0, <1>f, <1>h DEF RecordInv, Launching
  <1>10. (ManifestLag /\ ExactWhenSafe /\ DispatchBound)'
    BY <1>0, <1>h DEF ManifestLag, ExactWhenSafe, DispatchBound
  <1> QED
    BY <1>1, <1>2, <1>3, <1>4, <1>5, <1>6, <1>7, <1>8, <1>9, <1>10 DEF RunInv

(* Nothing is awaited any more: the wave integrates whole or not at all.   *)
LEMMA SettleInv == ASSUME RunInv, Settle PROVE RunInv'
  <1> USE DEF Settle
  <1>0. /\ TypeOK /\ WaveInv /\ WorkerInv /\ StateInv /\ DoneInv /\ SpawnInv
        /\ DispatchInv /\ HandleInv /\ RecordInv
        /\ ManifestLag /\ ExactWhenSafe /\ DispatchBound
    BY DEF RunInv
  <1>a. Range(launched) = {} \/ launched # <<>>
    BY DEF Range
  <1>b. launched # <<>> => 1 \in DOMAIN launched
    BY <1>0 DEF TypeOK
  <1>c. \A u \in Range(launched) : \E j \in DOMAIN launched : j >= 1 /\ u = launched[j]
    BY <1>0 DEF TypeOK, Range
  <1>d. pc' \in {"integrate", "finish"} /\ (pc' = "integrate" => ~aborted /\ launched # <<>>)
        /\ (pc' = "finish" => aborted \/ launched = <<>>)
    OBVIOUS
  <1>1. TypeOK'
    BY <1>0 DEF TypeOK, Steps
  <1>2. WaveInv'
    BY <1>0, <1>b, <1>d DEF WaveInv, Launching, Integrating
  <1>3. WorkerInv'
    BY <1>0, <1>d DEF WorkerInv, Supervised, AllSettled, IsRunnable, Launching, Integrating
  <1>4. StateInv'
    BY <1>0, <1>d DEF StateInv, Launching, Integrating
  <1>5. DoneInv'
    BY <1>0, <1>d, TypeFacts DEF DoneInv, MergedOrUnchanged, Integrating
  <1>6. SpawnInv'
    BY <1>0, <1>d DEF SpawnInv, Launching, Integrating
  <1>7. DispatchInv'
    BY <1>0, <1>d DEF DispatchInv, Integrating
  <1>8. HandleInv'
    BY <1>0 DEF HandleInv
  <1>9. RecordInv'
    BY <1>0, <1>a, <1>c, <1>d DEF RecordInv, TypeOK
  <1>10. (ManifestLag /\ ExactWhenSafe /\ DispatchBound)'
    BY <1>0 DEF HandleInv, ManifestLag, ExactWhenSafe, DispatchBound, Range
  <1> QED
    BY <1>1, <1>2, <1>3, <1>4, <1>5, <1>6, <1>7, <1>8, <1>9, <1>10 DEF RunInv

(* The exception goes on when every launched worker is over.               *)
LEMMA UnwindInv == ASSUME RunInv, Unwind PROVE RunInv'
  <1> USE DEF Unwind
  <1>0. /\ TypeOK /\ WaveInv /\ WorkerInv /\ StateInv /\ DoneInv /\ SpawnInv
        /\ DispatchInv /\ HandleInv /\ RecordInv
        /\ ManifestLag /\ ExactWhenSafe /\ DispatchBound
    BY DEF RunInv
  <1> USE DEF loopVars
  <1>1. TypeOK'
    BY <1>0 DEF TypeOK, Steps
  <1>2. WaveInv'
    BY <1>0 DEF WaveInv, Launching, Integrating
  <1>3. WorkerInv'
    BY <1>0 DEF WorkerInv, Supervised, AllSettled, IsRunnable, Launching, Integrating
  <1>4. StateInv'
    BY <1>0 DEF StateInv, Launching, Integrating
  <1>5. DoneInv'
    BY <1>0 DEF DoneInv, MergedOrUnchanged, Launching, Integrating
  <1>6. SpawnInv'
    BY <1>0 DEF SpawnInv, Launching, Integrating
  <1>7. DispatchInv'
    BY <1>0 DEF DispatchInv, Integrating
  <1>8. HandleInv'
    BY <1>0 DEF HandleInv
  <1>9. RecordInv'
    BY <1>0 DEF RecordInv
  <1>10. (ManifestLag /\ ExactWhenSafe /\ DispatchBound)'
    BY <1>0 DEF HandleInv, ManifestLag, ExactWhenSafe, DispatchBound, Range
  <1> QED
    BY <1>1, <1>2, <1>3, <1>4, <1>5, <1>6, <1>7, <1>8, <1>9, <1>10 DEF RunInv

(* A signal is only noted.                                                 *)
LEMMA SignalInv == ASSUME RunInv, Signal PROVE RunInv'
  <1> USE DEF Signal
  <1>0. /\ TypeOK /\ WaveInv /\ WorkerInv /\ StateInv /\ DoneInv /\ SpawnInv
        /\ DispatchInv /\ HandleInv /\ RecordInv
        /\ ManifestLag /\ ExactWhenSafe /\ DispatchBound
    BY DEF RunInv
  <1> USE DEF loopVars
  <1>a. UNCHANGED <<Task, Merging>>
    BY DEF Task, Merging
  <1>1. TypeOK'
    BY <1>0 DEF TypeOK
  <1>2. WaveInv'
    BY <1>0 DEF WaveInv
  <1>3. WorkerInv'
    BY <1>0, <1>a DEF WorkerInv, Supervised, AllSettled, IsRunnable
  <1>4. StateInv'
    BY <1>0 DEF StateInv, Unsettled
  <1>5. DoneInv'
    BY <1>0 DEF DoneInv, MergedOrUnchanged, Launching, Integrating
  <1>6. SpawnInv'
    BY <1>0 DEF SpawnInv
  <1>7. DispatchInv'
    BY <1>0 DEF DispatchInv
  <1>8. HandleInv'
    BY <1>0 DEF HandleInv
  <1>9. RecordInv'
    BY <1>0, <1>a DEF RecordInv
  <1>10. (ManifestLag /\ ExactWhenSafe /\ DispatchBound)'
    BY <1>0 DEF HandleInv, ManifestLag, ExactWhenSafe, DispatchBound, Range
  <1> QED
    BY <1>1, <1>2, <1>3, <1>4, <1>5, <1>6, <1>7, <1>8, <1>9, <1>10 DEF RunInv

(* A run that dies leaves the record and the branch as they are.           *)
LEMMA CrashInv == ASSUME RunInv, Crash PROVE RunInv'
  <1> USE DEF Crash
  <1>0. /\ TypeOK /\ WaveInv /\ WorkerInv /\ StateInv /\ DoneInv /\ SpawnInv
        /\ DispatchInv /\ HandleInv /\ RecordInv
        /\ ManifestLag /\ ExactWhenSafe /\ DispatchBound
    BY DEF RunInv
  <1> USE DEF loopVars
  <1>1. TypeOK'
    BY <1>0 DEF TypeOK, Steps
  <1>2. WaveInv'
    BY <1>0 DEF WaveInv, Launching, Integrating
  <1>3. WorkerInv'
    BY <1>0 DEF WorkerInv, Supervised, AllSettled, IsRunnable, Launching, Integrating
  <1>4. StateInv'
    BY <1>0 DEF StateInv, Launching, Integrating
  <1>5. DoneInv'
    BY <1>0 DEF DoneInv, MergedOrUnchanged, Launching, Integrating
  <1>6. SpawnInv'
    BY <1>0 DEF SpawnInv, Launching, Integrating
  <1>7. DispatchInv'
    BY <1>0 DEF DispatchInv, Integrating
  <1>8. HandleInv'
    BY <1>0 DEF HandleInv
  <1>9. RecordInv'
    BY <1>0 DEF RecordInv
  <1>10. (ManifestLag /\ ExactWhenSafe /\ DispatchBound)'
    BY <1>0 DEF HandleInv, ManifestLag, ExactWhenSafe, DispatchBound, Range
  <1> QED
    BY <1>1, <1>2, <1>3, <1>4, <1>5, <1>6, <1>7, <1>8, <1>9, <1>10 DEF RunInv

(* Cleaning up touches neither the record nor the branch.                  *)
LEMMA FinishInv == ASSUME RunInv, Finish PROVE RunInv'
  <1> USE DEF Finish
  <1>0. /\ TypeOK /\ WaveInv /\ WorkerInv /\ StateInv /\ DoneInv /\ SpawnInv
        /\ DispatchInv /\ HandleInv /\ RecordInv
        /\ ManifestLag /\ ExactWhenSafe /\ DispatchBound
    BY DEF RunInv
  <1> USE DEF loopVars
  <1>1. TypeOK'
    BY <1>0 DEF TypeOK, Steps
  <1>2. WaveInv'
    BY <1>0 DEF WaveInv, Launching, Integrating
  <1>3. WorkerInv'
    BY <1>0 DEF WorkerInv, Supervised, AllSettled, IsRunnable, Launching, Integrating
  <1>4. StateInv'
    BY <1>0 DEF StateInv, Launching, Integrating
  <1>5. DoneInv'
    BY <1>0 DEF DoneInv, MergedOrUnchanged, Launching, Integrating
  <1>6. SpawnInv'
    BY <1>0 DEF SpawnInv, Launching, Integrating
  <1>7. DispatchInv'
    BY <1>0 DEF DispatchInv, Integrating
  <1>8. HandleInv'
    BY <1>0 DEF HandleInv
  <1>9. RecordInv'
    BY <1>0 DEF RecordInv
  <1>10. (ManifestLag /\ ExactWhenSafe /\ DispatchBound)'
    BY <1>0 DEF HandleInv, ManifestLag, ExactWhenSafe, DispatchBound, Range
  <1> QED
    BY <1>1, <1>2, <1>3, <1>4, <1>5, <1>6, <1>7, <1>8, <1>9, <1>10 DEF RunInv

(* The merged task is pending and the tasks of the wave on the branch are  *)
(* before it, so nothing is merged twice; the handle is at the branch, so  *)
(* it is behind by this one merge.                                         *)
LEMMA IntegrateInv == ASSUME RunInv, Integrate PROVE RunInv'
  <1> USE DEF Integrate
  <1>0. /\ TypeOK /\ WaveInv /\ WorkerInv /\ StateInv /\ DoneInv /\ SpawnInv
        /\ DispatchInv /\ HandleInv /\ RecordInv
        /\ ManifestLag /\ ExactWhenSafe /\ DispatchBound
    BY DEF RunInv
  <1>a. /\ pos \in DOMAIN launched /\ Merging = launched[pos] /\ Merging \in Tasks
        /\ Merging \in Range(launched)
    BY <1>0, TypeFacts DEF WaveInv, Integrating, Merging, Range
  <1>b. AllSettled /\ worker[Merging].output \in Report
    BY <1>0, <1>a DEF WorkerInv, Launching, Integrating, AllSettled
  <1>c. worker[Merging].output.status \in ReportStatus
    BY <1>b DEF Report
  <1> DEFINE o == worker[Merging].output
  <1>d. state[Merging] = "pending" /\ Merging \notin start.done
    BY <1>0, <1>a DEF StateInv
  <1>e. Merging \notin Range(branch)
    <2> SUFFICES ASSUME Merging \in Range(branch) PROVE FALSE
      OBVIOUS
    <2>1. Unsettled(Merging)
      BY <1>0, <1>d DEF StateInv, Integrating
    <2>2. PICK j \in DOMAIN launched : Merging = launched[j] /\ j < pos
      BY <2>1 DEF Unsettled
    <2>3. j = pos
      BY <1>0, <1>a, <2>2 DEF WaveInv, IsInjective
    <2> QED
      BY <1>0, <2>2, <2>3 DEF TypeOK
  <1>f. Verdict(Merging, o) \in ReportStatus
    BY <1>c DEF Verdict, ReportStatus
  <1>g. \/ /\ branch' = Append(branch, Merging) /\ Verdicted("completed")
           /\ pc' = "checkpoint" /\ failure' = failure
        \/ /\ branch' = branch /\ pc' = "checkpoint" /\ failure' = failure
           /\ \E s \in ReportStatus : Verdicted(s) /\ (s = "completed" => o.changed = {})
        \/ /\ branch' = branch /\ worker' = worker
           /\ pc' = "throw" /\ failure' = "other"
    BY <1>f DEF ReportStatus
  <1>u. UNCHANGED <<start, state, wave, pos, launched, spent, interrupted, exhausted,
                    aborted, base, held, disk, sentinels, spawned, removed>>
        /\ Merging' = Merging /\ pc = "integrate"
    BY DEF Merging
  <1> HIDE DEF Integrate
  <1>v. ASSUME NEW s \in ReportStatus, Verdicted(s)
        PROVE  /\ worker' \in [Tasks -> [process: {"none", "starting", "running", "ended", "orphan"},
                               output: Report \union {NoOutput}]]
               /\ \A t \in Tasks : /\ worker'[t].process = worker[t].process
                                   /\ worker'[t].output.changed = worker[t].output.changed
               /\ \A t \in Tasks \ {Merging} : worker'[t] = worker[t]
               /\ worker'[Merging].output \in Report
               /\ worker'[Merging].output.status = s
    <2>1. [o EXCEPT !.status = s] \in Report /\ [o EXCEPT !.status = s].changed = o.changed
          /\ [o EXCEPT !.status = s].status = s
      BY <1>b DEF Report
    <2>2. worker \in [Tasks -> [process: {"none", "starting", "running", "ended", "orphan"},
                               output: Report \union {NoOutput}]]
      BY <1>0 DEF TypeOK
    <2>3. worker' = [worker EXCEPT ![Merging].output = [o EXCEPT !.status = s]]
      BY <1>v, <2>2, <1>a DEF Verdicted
    <2> HIDE DEF o
    <2>4. worker'[Merging].output = [o EXCEPT !.status = s]
          /\ worker'[Merging].process = worker[Merging].process
      BY <1>a, <2>2, <2>3
    <2>5. \A t \in Tasks \ {Merging} : worker'[t] = worker[t]
      BY <1>a, <2>2, <2>3
    <2>6. worker' \in [Tasks -> [process: {"none", "starting", "running", "ended", "orphan"},
                               output: Report \union {NoOutput}]]
      BY <1>a, <2>1, <2>2, <2>3
    <2> QED
      BY <2>1, <2>4, <2>5, <2>6 DEF o
  <1>w. \/ /\ branch' = Append(branch, Merging) /\ worker'[Merging].output.status = "completed"
           /\ pc' = "checkpoint" /\ failure' = failure
        \/ /\ branch' = branch /\ pc' = "checkpoint" /\ failure' = failure
           /\ worker'[Merging].output.status = "completed" => o.changed = {}
        \/ /\ branch' = branch /\ worker' = worker
           /\ pc' = "throw" /\ failure' = "other"
    <2>1. "completed" \in ReportStatus
      BY DEF ReportStatus
    <2> QED
      BY <1>g, <1>v, <2>1
  <1>x. /\ worker' \in [Tasks -> [process: {"none", "starting", "running", "ended", "orphan"},
                               output: Report \union {NoOutput}]]
        /\ \A t \in Tasks : /\ worker'[t].process = worker[t].process
                            /\ worker'[t].output.changed = worker[t].output.changed
        /\ \A t \in Tasks \ {Merging} : worker'[t] = worker[t]
        /\ worker'[Merging].output \in Report
    <2>1. "completed" \in ReportStatus
      BY DEF ReportStatus
    <2> QED
      BY <1>0, <1>b, <1>g, <1>v, <2>1 DEF TypeOK
  <1>y. /\ branch' \in Seq(Tasks) /\ IsInjective(branch')
        /\ Range(branch') \in {Range(branch), Range(branch) \union {Merging}}
        /\ branch' = branch \/ (branch' # <<>> /\ Front(branch') = branch)
    <2>1. branch \in Seq(Tasks) /\ IsInjective(branch)
      BY <1>0 DEF TypeOK, StateInv
    <2>2. /\ Append(branch, Merging) \in Seq(Tasks) /\ Append(branch, Merging) # <<>>
          /\ Range(Append(branch, Merging)) = Range(branch) \union {Merging}
          /\ Front(Append(branch, Merging)) = branch /\ IsInjective(Append(branch, Merging))
      BY <1>a, <1>e, <2>1, AppendFacts, AppendRange, AppendFront, AppendStaysInjective
    <2> QED
      BY <1>w, <2>1, <2>2
  <1>z. Range(branch) \subseteq Tasks \ {Merging} /\ Range(branch') \subseteq Tasks
        /\ (Merging \in Range(branch') => pc' = "checkpoint" /\ worker'[Merging].output.status = "completed")
    BY <1>0, <1>a, <1>e, <1>w, <1>y, TypeFacts
  <1> HIDE DEF o
  <1>1. TypeOK'
    BY <1>0, <1>u, <1>w, <1>x, <1>y DEF TypeOK, Steps
  <1>2. WaveInv'
    BY <1>0, <1>u, <1>w DEF WaveInv, Launching, Integrating
  <1>3. WorkerInv'
    <2>1. AllSettled' /\ \A t \in Tasks : ~Supervised(t)'
      BY <1>b, <1>x DEF AllSettled, Supervised
    <2>2. \A t \in Range(launched) : worker'[t].output \in Report
      BY <1>0, <1>b, <1>u, <1>x, TypeFacts DEF WorkerInv, AllSettled, Integrating
    <2> QED
      BY <1>u, <1>w, <2>1, <2>2 DEF WorkerInv
  <1>4. StateInv'
    <2>1. CASE pc' = "throw"
      BY <1>0, <1>u, <1>y, <2>1 DEF StateInv, Launching, Integrating
    <2>2. CASE pc' = "checkpoint"
      <3>1. ASSUME NEW t \in Range(branch) PROVE state[t] = "done" \/ Unsettled(t)'
        <4>1. t \in Tasks \ {Merging} /\ worker'[t] = worker[t]
          BY <1>x, <1>z
        <4>2. state[t] = "done" \/ Unsettled(t)
          BY <1>0, <1>u DEF StateInv, Integrating
        <4> QED
          BY <1>0, <1>u, <2>2, <4>1, <4>2 DEF Unsettled, TypeOK
      <3>2. Merging \in Range(branch') => Unsettled(Merging)'
        BY <1>0, <1>a, <1>u, <1>z, <2>2 DEF Unsettled, TypeOK
      <3> QED
        BY <1>0, <1>u, <1>y, <2>2, <3>1, <3>2 DEF StateInv, Launching, Integrating
    <2> QED
      BY <1>w, <2>1, <2>2
  <1>5. DoneInv'
    <2>1. \A t \in Tasks : MergedOrUnchanged(t) => MergedOrUnchanged(t)'
      BY <1>x, <1>y DEF MergedOrUnchanged
    <2>2. \A t \in Tasks : state'[t] = "done" /\ t \notin start'.done => MergedOrUnchanged(t)'
      BY <1>0, <1>u, <2>1 DEF DoneInv
    <2>3. pc' = "checkpoint" =>
            (worker'[Merging].output.status = "completed" => MergedOrUnchanged(Merging)')
      <3>1. branch' = Append(branch, Merging) => Merging \in Range(branch')
        BY <1>0, <1>a, AppendRange DEF TypeOK
      <3> QED
        BY <1>a, <1>u, <1>w, <1>x, <3>1 DEF MergedOrUnchanged, o
    <2>4. ASSUME pc' = "checkpoint", NEW j \in DOMAIN launched, j <= pos,
                 worker'[launched[j]].output.status = "completed"
          PROVE  MergedOrUnchanged(launched[j])'
      <3>1. CASE launched[j] = Merging
        BY <1>u, <2>3, <2>4, <3>1 DEF MergedOrUnchanged
      <3>2. CASE launched[j] # Merging
        <4>1. launched[j] \in Tasks \ {Merging} /\ worker'[launched[j]] = worker[launched[j]]
          BY <1>0, <1>x, <3>2, TypeFacts
        <4>2. j < pos
          BY <1>0, <1>a, <2>4, <3>2, TypeFacts DEF TypeOK
        <4> QED
          BY <1>0, <1>u, <2>1, <2>4, <4>1, <4>2 DEF DoneInv, Integrating
      <3> QED
        BY <3>1, <3>2
    <2> QED
      BY <1>u, <1>w, <2>2, <2>4 DEF DoneInv, Integrating
  <1>6. SpawnInv'
    BY <1>0, <1>u, <1>w DEF SpawnInv, Launching, Integrating
  <1>7. DispatchInv'
    BY <1>0, <1>u, <1>w DEF DispatchInv, Integrating
  <1>8. HandleInv'
    BY <1>0, <1>u, <1>w, <1>y DEF HandleInv
  <1>9. RecordInv'
    <2>1. \A t \in Range(branch) : held.tasks[t] = "completed"
      BY <1>0, <1>u DEF RecordInv
    <2> QED
      BY <1>0, <1>u, <1>w, <1>y, <1>z, <2>1 DEF RecordInv
  <1>10. (ManifestLag /\ ExactWhenSafe /\ DispatchBound)'
    <2>1. disk.tip = branch /\ ~disk.safe /\ disk.status = "running"
      BY <1>0, <1>u DEF HandleInv
    <2> QED
      BY <1>0, <1>u, <1>y, <2>1 DEF ManifestLag, ExactWhenSafe, DispatchBound
  <1> QED
    BY <1>1, <1>2, <1>3, <1>4, <1>5, <1>6, <1>7, <1>8, <1>9, <1>10 DEF RunInv

(* The checkpoint brings the record to the branch; if its write fails the  *)
(* run is on its way out with the record one merge behind at most.         *)
LEMMA CheckpointInv == ASSUME RunInv, Checkpoint PROVE RunInv'
  <1> USE DEF Checkpoint
  <1>0. /\ TypeOK /\ WaveInv /\ WorkerInv /\ StateInv /\ DoneInv /\ SpawnInv
        /\ DispatchInv /\ HandleInv /\ RecordInv
        /\ ManifestLag /\ ExactWhenSafe /\ DispatchBound
    BY DEF RunInv
  <1>a. /\ pos \in DOMAIN launched /\ Merging = launched[pos] /\ Merging \in Tasks
        /\ Merging \in Range(launched)
    BY <1>0, TypeFacts DEF WaveInv, Integrating, Merging, Range
  <1>b. AllSettled /\ worker[Merging].output \in Report
    BY <1>0, <1>a DEF WorkerInv, Launching, Integrating, AllSettled
  <1>c. worker[Merging].output.status \in ReportStatus
    BY <1>b DEF Report
  <1> DEFINE m == Checkpointed(Merging, worker[Merging].output.status)
  <1>d. /\ m \in Manifest /\ m.dispatches = held.dispatches /\ m.tip = branch
        /\ m.status = held.status /\ m.safe = held.safe
        /\ m.tasks = [held.tasks EXCEPT ![Merging] = worker[Merging].output.status]
    BY <1>0, <1>a, <1>c, CheckpointedFacts DEF TypeOK
  <1>e. \/ /\ held' = m /\ disk' = m /\ failure' = failure
           /\ \/ pos < Len(launched) /\ pc' = "integrate" /\ pos' = pos + 1
              \/ pos >= Len(launched) /\ pc' = "secondary" /\ pos' = 1
        \/ /\ held' = held /\ disk' \in {disk, m}
           /\ pc' = "throw" /\ pos' = pos /\ failure' = "checkpoint"
    <2>1. pos \in Nat /\ Len(launched) \in Nat
      BY <1>0, TypeFacts DEF TypeOK
    <2> QED
      BY <2>1 DEF Written, WriteFails, MoreToIntegrate
  <1>u. UNCHANGED <<start, state, wave, launched, spent, interrupted, exhausted, aborted,
                    worker, base, branch, sentinels, spawned, removed>>
        /\ pc = "checkpoint"
    OBVIOUS
  <1> HIDE DEF Checkpoint, m
  <1>f. /\ pos \in Nat \ {0} /\ Len(launched) \in Nat /\ DOMAIN launched = 1..Len(launched)
        /\ pos <= Len(launched)
    BY <1>0, <1>a, TypeFacts DEF TypeOK
  <1>g. Merging \in Range(branch) => worker[Merging].output.status = "completed"
    <2>1. state[Merging] = "pending"
      BY <1>0, <1>a, <1>u DEF StateInv
    <2> QED
      BY <1>0, <1>u, <2>1 DEF StateInv, Unsettled, Integrating
  <1>h. held.tasks \in [Tasks -> RecordStatus] /\ Range(branch) \subseteq Tasks
    BY <1>0, TypeFacts DEF TypeOK, Manifest
  <1>i. \A t \in Range(launched) : \E j \in DOMAIN launched : j >= 1 /\ t = launched[j]
    BY <1>f DEF Range
  <1>1. TypeOK'
    <2>1. pos \in Nat /\ pos + 1 \in Nat \ {0} /\ 1 \in Nat \ {0}
      BY <1>f
    <2>2. pos' \in Nat \ {0}
      BY <1>e, <1>f, <2>1
    <2>3. pc' \in {"integrate", "secondary", "throw"} /\ failure' \in {failure, "checkpoint"}
      BY <1>e
    <2>4. held' \in Manifest /\ disk' \in Manifest
      BY <1>0, <1>d, <1>e DEF TypeOK
    <2> QED
      BY <1>0, <1>u, <2>2, <2>3, <2>4 DEF TypeOK, Steps
  <1>2. WaveInv'
    BY <1>0, <1>e, <1>f, <1>u DEF WaveInv, Launching, Integrating
  <1>3. WorkerInv'
    BY <1>0, <1>b, <1>e, <1>u DEF WorkerInv, Supervised, AllSettled, Launching, Integrating
  <1>4. StateInv'
    <2>1. \A t : pc' # "throw" /\ Unsettled(t) => Unsettled(t)'
      BY <1>e, <1>f, <1>u DEF Unsettled
    <2>2. \A j \in DOMAIN launched : state[launched[j]] = "pending"
      BY <1>0, <1>u DEF StateInv, Range
    <2> QED
      BY <1>0, <1>e, <1>u, <2>1, <2>2 DEF StateInv, Launching, Integrating
  <1>5. DoneInv'
    BY <1>0, <1>e, <1>f, <1>u DEF DoneInv, MergedOrUnchanged, Integrating
  <1>6. SpawnInv'
    BY <1>0, <1>e, <1>i, <1>u DEF SpawnInv, Launching, Integrating
  <1>7. DispatchInv'
    BY <1>0, <1>d, <1>e, <1>u DEF DispatchInv, Integrating
  <1>8. HandleInv'
    BY <1>0, <1>d, <1>e, <1>u DEF HandleInv
  <1>9. RecordInv'
    <2>1. CASE pc' = "throw"
      BY <2>1, <1>e DEF RecordInv
    <2>2. CASE pc' # "throw"
      <3>1. held' = m
        BY <1>e, <2>2
      <3>2. \A t \in Range(branch) : m.tasks[t] = "completed"
        <4>1. \A t \in Range(branch) : t # Merging => held.tasks[t] = "completed"
          BY <1>0, <1>u DEF RecordInv
        <4> QED
          BY <1>a, <1>d, <1>g, <1>h, <4>1
      <3>3. ASSUME NEW t \in Tasks, m.tasks[t] = "running"
            PROVE  \E j \in DOMAIN launched : j >= pos + 1 /\ t = launched[j]
        <4>1. t # Merging /\ held.tasks[t] = "running"
          BY <1>a, <1>c, <1>d, <1>h, <3>3 DEF ReportStatus
        <4>2. PICK j \in DOMAIN launched : j >= pos /\ t = launched[j]
          BY <1>0, <1>u, <4>1 DEF RecordInv
        <4>3. j # pos
          BY <1>a, <4>1, <4>2
        <4> QED
          BY <1>f, <4>2, <4>3
      <3>4. CASE pc' = "integrate"
        BY <1>e, <1>u, <3>1, <3>2, <3>3, <3>4 DEF RecordInv
      <3>5. CASE pc' = "secondary"
        <4>1. \A t \in Tasks : m.tasks[t] # "running"
          BY <1>e, <1>f, <3>3, <3>5
        <4> QED
          BY <1>u, <3>1, <3>2, <3>5, <4>1 DEF RecordInv
      <3> QED
        BY <1>e, <2>2, <3>4, <3>5
    <2> QED
      BY <2>1, <2>2
  <1>10. (ManifestLag /\ ExactWhenSafe /\ DispatchBound)'
    <2>1. /\ disk.tip \in {branch, held.tip} /\ ~disk.safe /\ disk.status = "running"
          /\ disk.dispatches = held.dispatches /\ held.status = "running" /\ ~held.safe
      BY <1>0, <1>u DEF HandleInv
    <2>2. /\ disk'.tip \in {branch, disk.tip} /\ ~disk'.safe /\ disk'.status = "running"
          /\ disk'.dispatches = disk.dispatches
      BY <1>d, <1>e, <2>1
    <2> QED
      BY <1>0, <1>u, <2>2 DEF ManifestLag, ExactWhenSafe, DispatchBound
  <1> QED
    BY <1>1, <1>2, <1>3, <1>4, <1>5, <1>6, <1>7, <1>8, <1>9, <1>10 DEF RunInv

(* The loop's status catches up task by task; skipping touches only        *)
(* pending tasks, so none that is merged.                                  *)
LEMMA SecondaryInv == ASSUME RunInv, Secondary PROVE RunInv'
  <1> USE DEF Secondary
  <1>0. /\ TypeOK /\ WaveInv /\ WorkerInv /\ StateInv /\ DoneInv /\ SpawnInv
        /\ DispatchInv /\ HandleInv /\ RecordInv
        /\ ManifestLag /\ ExactWhenSafe /\ DispatchBound
    BY DEF RunInv
  <1>a. /\ pos \in DOMAIN launched /\ Merging = launched[pos] /\ Merging \in Tasks
        /\ Merging \in Range(launched) /\ Merging \notin start.done
    BY <1>0, TypeFacts DEF WaveInv, StateInv, Integrating, Merging, Range
  <1>b. AllSettled
    BY <1>0 DEF WorkerInv, Launching
  <1> DEFINE s == worker[Merging].output.status
  <1>c. /\ state' \in [Tasks -> TaskStatus]
        /\ state'[Merging] = IF s = "completed" THEN "done" ELSE "failed"
        /\ \A t \in Tasks \ {Merging} :
             /\ state[t] # "pending" => state'[t] = state[t]
             /\ state'[t] \in {state[t], "skipped"}
    BY <1>0, <1>a DEF TypeOK, StateAfter, AutoSkipDependents, TaskStatus
  <1>u. UNCHANGED <<start, wave, launched, spent, interrupted, exhausted, failure, aborted,
                    worker, base, branch, held, disk, sentinels, spawned, removed>>
        /\ pc = "secondary"
    OBVIOUS
  <1>e. \/ /\ pos = Len(launched) /\ pos' = 1
           /\ pc' = IF interrupted \/ exhausted THEN "finish" ELSE "top"
        \/ pos # Len(launched) /\ pos' = pos + 1 /\ pc' = "secondary"
    OBVIOUS
  <1> HIDE DEF Secondary
  <1>f. /\ pos \in Nat \ {0} /\ Len(launched) \in Nat /\ DOMAIN launched = 1..Len(launched)
        /\ pos <= Len(launched) /\ Range(branch) \subseteq Tasks /\ Range(spawned) \subseteq Tasks
        /\ \A j \in DOMAIN launched : launched[j] \in Tasks
    <2>1. pos \in Nat \ {0} /\ spawned \in Seq(Tasks)
      BY <1>0 DEF TypeOK
    <2>2. Range(spawned) \subseteq Tasks
      BY <2>1, RangeType
    <2>3. /\ Len(launched) \in Nat /\ DOMAIN launched = 1..Len(launched)
          /\ Range(branch) \subseteq Tasks
          /\ \A j \in DOMAIN launched : launched[j] \in Tasks
      BY <1>0, TypeFacts
    <2> QED
      BY <1>a, <2>1, <2>2, <2>3
  <1>p. pos' \in Nat \ {0} /\ (pc' = "secondary" => pos' \in DOMAIN launched)
    <2>0. pos \in Nat /\ pos # 0 /\ Len(launched) \in Nat /\ pos <= Len(launched)
      BY <1>f
    <2>1. /\ pos # Len(launched) => pos + 1 \in 1..Len(launched)
          /\ pos + 1 \in Nat \ {0} /\ 1 \in Nat \ {0}
      BY <2>0
    <2>2. pc' # "secondary" => pos' = 1
      BY <1>e
    <2>3. pc' = "secondary" => pos' = pos + 1 /\ pos # Len(launched)
      BY <1>e
    <2>4. pos' \in Nat \ {0}
      BY <1>e, <2>1
    <2>5. DOMAIN launched = 1..Len(launched)
      BY <1>f
    <2> QED
      BY <2>1, <2>3, <2>4, <2>5
  <1>q. pc' \in {"secondary", "finish", "top"}
    BY <1>e
  <1>g. \A j \in DOMAIN launched : launched[j] = Merging => j = pos
    BY <1>0, <1>a DEF WaveInv, IsInjective
  <1>h. state[Merging] # "done"
    BY <1>0, <1>a, <1>f, <1>u DEF StateInv
  <1>i. Merging \in Range(branch) => s = "completed"
    BY <1>0, <1>h, <1>u DEF StateInv, Unsettled, Integrating
  <1> HIDE DEF s
  <1>1. TypeOK'
    BY <1>0, <1>c, <1>p, <1>q, <1>u DEF TypeOK, Steps
  <1>2. WaveInv'
    BY <1>0, <1>p, <1>q, <1>u DEF WaveInv, Launching, Integrating
  <1>3. WorkerInv'
    BY <1>0, <1>b, <1>e, <1>u DEF WorkerInv, Supervised, AllSettled, Launching, Integrating
  <1>4. StateInv'
    <2>1. \A t \in start.done : state'[t] = "done"
      BY <1>0, <1>a, <1>c, StartFacts DEF StateInv, TypeOK
    <2>2. ASSUME NEW t \in Range(branch)
          PROVE  state'[t] = "done" \/ (pc' = "secondary" /\ Unsettled(t)')
      <3>1. CASE t = Merging
        BY <1>c, <1>i, <3>1
      <3>2. CASE t # Merging
        <4>1. CASE state[t] = "done"
          BY <1>c, <1>f, <3>2, <4>1
        <4>2. CASE state[t] # "done"
          <5>1. PICK j \in DOMAIN launched : /\ t = launched[j] /\ j >= pos
                                             /\ worker[t].output.status = "completed"
            BY <1>0, <1>u, <4>2 DEF StateInv, Unsettled, Integrating
          <5>2. j >= pos + 1 /\ pos # Len(launched)
            BY <1>a, <1>f, <3>2, <5>1
          <5> QED
            BY <1>e, <1>u, <5>1, <5>2 DEF Unsettled
        <4> QED
          BY <4>1, <4>2
      <3> QED
        BY <3>1, <3>2
    <2>3. ASSUME NEW j \in DOMAIN launched, j >= pos + 1
          PROVE  state'[launched[j]] # "done"
      <3>1. launched[j] \in Tasks \ {Merging}
        BY <1>f, <1>g, <2>3
      <3>2. state[launched[j]] # "done"
        BY <1>0, <1>f, <1>u, <2>3 DEF StateInv
      <3> QED
        BY <1>c, <3>1, <3>2
    <2> QED
      BY <1>0, <1>e, <1>u, <2>1, <2>2, <2>3 DEF StateInv, Launching, Integrating
  <1>5. DoneInv'
    <2>1. Merging \notin start.done /\ (s = "completed" => MergedOrUnchanged(Merging))
      BY <1>0, <1>a, <1>u DEF DoneInv, Integrating, s
    <2>2. \A t \in Tasks : state'[t] = "done" /\ t \notin start.done => MergedOrUnchanged(t)
      BY <1>0, <1>c, <2>1 DEF DoneInv
    <2> QED
      BY <1>0, <1>e, <1>u, <2>2 DEF DoneInv, MergedOrUnchanged, Integrating
  <1>6. SpawnInv'
    <2>1. ASSUME NEW t \in Range(spawned)
          PROVE  state'[t] # "pending" \/ (pc' = "secondary" /\
                   \E j \in DOMAIN launched : j >= pos' /\ t = launched[j])
      <3>1. CASE t = Merging \/ state[t] # "pending"
        BY <1>c, <1>f, <3>1
      <3>2. CASE t # Merging /\ state[t] = "pending"
        <4>1. PICK j \in DOMAIN launched : j >= pos /\ t = launched[j]
          BY <1>0, <1>u, <3>2 DEF SpawnInv
        <4>2. j >= pos + 1 /\ pos # Len(launched)
          BY <1>a, <1>f, <3>2, <4>1
        <4> QED
          BY <1>e, <4>1, <4>2
      <3> QED
        BY <3>1, <3>2
    <2> QED
      BY <1>0, <1>e, <1>u, <2>1 DEF SpawnInv, Launching
  <1>7. DispatchInv'
    BY <1>0, <1>e, <1>u DEF DispatchInv, Integrating
  <1>8. HandleInv'
    BY <1>0, <1>e, <1>u DEF HandleInv
  <1>9. RecordInv'
    BY <1>0, <1>e, <1>u DEF RecordInv
  <1>10. (ManifestLag /\ ExactWhenSafe /\ DispatchBound)'
    BY <1>0, <1>u DEF ManifestLag, ExactWhenSafe, DispatchBound
  <1> QED
    BY <1>1, <1>2, <1>3, <1>4, <1>5, <1>6, <1>7, <1>8, <1>9, <1>10 DEF RunInv

(* The final record says it is exact only with the branch as its tip and   *)
(* no task running.                                                        *)
LEMMA TerminalizeInv == ASSUME RunInv, Terminalize PROVE RunInv'
  <1> USE DEF Terminalize
  <1>0. /\ TypeOK /\ WaveInv /\ WorkerInv /\ StateInv /\ DoneInv /\ SpawnInv
        /\ DispatchInv /\ HandleInv /\ RecordInv
        /\ ManifestLag /\ ExactWhenSafe /\ DispatchBound
    BY DEF RunInv
  <1>t. held \in Manifest /\ held.tasks \in [Tasks -> RecordStatus] /\ held.dispatches \in Nat
        /\ branch \in Seq(Tasks) /\ Range(branch) \subseteq Tasks
    BY <1>0, TypeFacts DEF TypeOK, Manifest
  <1> DEFINE m == FinalManifest
  <1>d. m \in Manifest /\ m.dispatches = held.dispatches /\ m.tip = branch
        /\ (m.safe \/ m.status = "review_pending" =>
              \A t \in Tasks : m.tasks[t] # "running" /\ (held.tasks[t] # "running" => m.tasks[t] = held.tasks[t]))
    <2>0. held.tip = branch /\ ~held.safe
      BY <1>0 DEF HandleInv
    <2>1. CASE interrupted
      <3> DEFINE h == [held EXCEPT !.status = IF HasIntegration THEN "interrupted" ELSE "cancelled"]
                 k == [h EXCEPT !.safe = HasIntegration]
                 l == [k EXCEPT !.tip = IF HasIntegration THEN branch ELSE @]
      <3>1. h \in Manifest
        BY <1>t, WithFields DEF RunStatus
      <3>2. k \in Manifest
        <4>1. HasIntegration \in BOOLEAN
          BY DEF HasIntegration
        <4> HIDE DEF h
        <4> QED
          BY <3>1, <4>1, WithFields
      <3>3. l \in Manifest
        <4>1. k.tip \in Seq(Tasks)
          BY <3>2 DEF Manifest
        <4> HIDE DEF k
        <4> QED
          BY <1>t, <3>2, <4>1, WithFields
      <3>4. m = [l EXCEPT !.tasks = Unfinished(@)] /\ l.tasks = held.tasks
        BY <1>t, <2>1 DEF FinalManifest, InterruptedManifest, Manifest
      <3>5. m \in Manifest
        <4> HIDE DEF l, m
        <4> QED
          BY <1>t, <3>3, <3>4, WithFields, UnfinishedFacts
      <3>6. /\ m.dispatches = held.dispatches /\ m.tip = branch
            /\ m.tasks = Unfinished(held.tasks)
        BY <1>t, <2>0, <2>1 DEF FinalManifest, InterruptedManifest, Manifest
      <3> HIDE DEF m
      <3> QED
        BY <1>t, <3>5, <3>6, UnfinishedFacts
    <2>2. CASE ~interrupted /\ HasIntegration
      <3> DEFINE h == [held EXCEPT !.status = "review_pending"]
      <3>1. h \in Manifest
        BY <1>t, WithFields DEF RunStatus
      <3>2. m = [h EXCEPT !.tip = branch]
        BY <2>2 DEF FinalManifest
      <3>3. m \in Manifest
        <4> HIDE DEF h, m
        <4> QED
          BY <1>t, <3>1, <3>2, WithFields
      <3>4. m.dispatches = held.dispatches /\ m.tip = branch /\ m.tasks = held.tasks
        BY <1>t, <2>2 DEF FinalManifest, Manifest
      <3>5. \A t \in Tasks : held.tasks[t] # "running"
        BY <1>0, <2>2 DEF RecordInv
      <3> HIDE DEF m
      <3> QED
        BY <3>3, <3>4, <3>5
    <2>3. CASE ~interrupted /\ ~HasIntegration
      <3>1. ResultStatus \in {"completed", "partial", "failed"}
        BY DEF ResultStatus
      <3>2. m = [held EXCEPT !.status = ResultStatus]
        BY <2>3 DEF FinalManifest
      <3>3. m \in Manifest
        BY <1>t, <3>1, <3>2, WithFields DEF RunStatus
      <3> QED
        BY <1>t, <2>0, <3>1, <3>2, <3>3 DEF Manifest
    <2> QED
      BY <2>1, <2>2, <2>3
  <1>e. \/ held' = m /\ disk' = m /\ pc' = "ended" /\ failure' = failure
        \/ held' = held /\ disk' \in {disk, m} /\ pc' = "throw" /\ failure' = "other"
    BY DEF Written, WriteFails
  <1>u. UNCHANGED <<start, state, wave, pos, launched, spent, interrupted, exhausted,
                    aborted, worker, base, branch, sentinels, spawned, removed>>
        /\ pc = "terminalize"
    OBVIOUS
  <1> HIDE DEF Terminalize, m
  <1>1. TypeOK'
    BY <1>0, <1>d, <1>e, <1>u DEF TypeOK, Steps
  <1>2. WaveInv'
    BY <1>0, <1>e, <1>u DEF WaveInv, Launching, Integrating
  <1>3. WorkerInv'
    BY <1>0, <1>e, <1>u DEF WorkerInv, Supervised, AllSettled, IsRunnable, Launching, Integrating
  <1>4. StateInv'
    BY <1>0, <1>e, <1>u DEF StateInv, Launching, Integrating
  <1>5. DoneInv'
    BY <1>0, <1>e, <1>u DEF DoneInv, MergedOrUnchanged, Integrating
  <1>6. SpawnInv'
    BY <1>0, <1>e, <1>u DEF SpawnInv, Launching, Integrating
  <1>7. DispatchInv'
    BY <1>0, <1>d, <1>e, <1>u DEF DispatchInv, Integrating
  <1>8. HandleInv'
    BY <1>0, <1>d, <1>e, <1>u DEF HandleInv
  <1>9. RecordInv'
    BY <1>e DEF RecordInv
  <1>10. (ManifestLag /\ ExactWhenSafe /\ DispatchBound)'
    <2>1. disk = held /\ ~disk.safe /\ disk.status = "running"
      BY <1>0, <1>u DEF HandleInv
    <2>2. \A t \in Range(branch) : held.tasks[t] = "completed"
      BY <1>0, <1>u DEF RecordInv
    <2>3. disk' \in {disk, m}
      BY <1>e
    <2>4. ManifestLag'
      BY <1>0, <1>d, <1>u, <2>3 DEF ManifestLag
    <2>5. DispatchBound'
      BY <1>0, <1>d, <1>u, <2>1, <2>3 DEF DispatchBound
    <2>6. ExactWhenSafe'
      BY <1>d, <1>t, <1>u, <2>1, <2>2, <2>3 DEF ExactWhenSafe
    <2> QED
      BY <2>4, <2>5, <2>6
  <1> QED
    BY <1>1, <1>2, <1>3, <1>4, <1>5, <1>6, <1>7, <1>8, <1>9, <1>10 DEF RunInv

(* A run that failed never says that its record is exact.                  *)
LEMMA CatchInv == ASSUME RunInv, Catch PROVE RunInv'
  <1> USE DEF Catch
  <1>0. /\ TypeOK /\ WaveInv /\ WorkerInv /\ StateInv /\ DoneInv /\ SpawnInv
        /\ DispatchInv /\ HandleInv /\ RecordInv
        /\ ManifestLag /\ ExactWhenSafe /\ DispatchBound
    BY DEF RunInv
  <1>t. held \in Manifest /\ held.tasks \in [Tasks -> RecordStatus] /\ held.dispatches \in Nat
        /\ branch \in Seq(Tasks) /\ Range(branch) \subseteq Tasks
    BY <1>0, TypeFacts DEF TypeOK, Manifest
  <1> DEFINE m == CaughtManifest
  <1>d. m \in Manifest /\ m.dispatches = held.dispatches /\ m.tip = held.tip
        /\ ~m.safe /\ m.status \in {"failed", "interrupted"}
    <2>1. held.safe = FALSE
      BY <1>0 DEF HandleInv, TypeOK, Manifest
    <2>2. CASE failure = "other"
      <3>1. m = [held EXCEPT !.status = "failed"]
        BY <2>2 DEF CaughtManifest
      <3>2. m \in Manifest
        BY <1>t, <3>1, WithFields DEF RunStatus
      <3> QED
        BY <1>t, <2>1, <3>1, <3>2 DEF Manifest
    <2>3. CASE failure # "other"
      <3> DEFINE h == [held EXCEPT !.status = "interrupted"]
                 k == [h EXCEPT !.safe = FALSE]
      <3>1. h \in Manifest
        BY <1>t, WithFields DEF RunStatus
      <3>2. k \in Manifest
        <4> HIDE DEF h
        <4> QED
          BY <3>1, WithFields
      <3>3. m = [k EXCEPT !.tasks = Unfinished(@)] /\ k.tasks = held.tasks
        BY <1>t, <2>3 DEF CaughtManifest, Manifest
      <3>4. m \in Manifest
        <4> HIDE DEF k, m
        <4> QED
          BY <1>t, <3>2, <3>3, WithFields, UnfinishedFacts
      <3> QED
        BY <1>t, <2>3, <3>4 DEF CaughtManifest, Manifest
    <2> QED
      BY <2>2, <2>3
  <1>e. held' \in {held, m} /\ disk' \in {disk, m} /\ pc' = "ended"
    BY DEF Written, WriteFails
  <1>u. UNCHANGED <<start, loopVars, aborted, worker, base, branch, sentinels, spawned, removed>>
        /\ pc = "throw"
    OBVIOUS
  <1> HIDE DEF Catch, m
  <1> USE DEF loopVars
  <1>1. TypeOK'
    BY <1>0, <1>d, <1>e, <1>u DEF TypeOK, Steps
  <1>2. WaveInv'
    BY <1>0, <1>e, <1>u DEF WaveInv, Launching, Integrating
  <1>3. WorkerInv'
    BY <1>0, <1>e, <1>u DEF WorkerInv, Supervised, AllSettled, IsRunnable, Launching, Integrating
  <1>4. StateInv'
    BY <1>0, <1>e, <1>u DEF StateInv, Launching, Integrating
  <1>5. DoneInv'
    BY <1>0, <1>e, <1>u DEF DoneInv, MergedOrUnchanged, Integrating
  <1>6. SpawnInv'
    BY <1>0, <1>e, <1>u DEF SpawnInv, Launching, Integrating
  <1>7. DispatchInv'
    BY <1>0, <1>d, <1>e, <1>u DEF DispatchInv, Integrating
  <1>8. HandleInv'
    BY <1>0, <1>d, <1>e, <1>u DEF HandleInv
  <1>9. RecordInv'
    BY <1>e DEF RecordInv
  <1>10. (ManifestLag /\ ExactWhenSafe /\ DispatchBound)'
    <2>1. ManifestLag'
      BY <1>0, <1>d, <1>e, <1>u DEF ManifestLag, HandleInv
    <2>2. DispatchBound'
      <3>1. /\ start.dispatches + Len(spawned) <= held.dispatches
            /\ held.dispatches <= start.dispatches + Len(spawned) + 1
            /\ held.dispatches <= MaxTasks
        BY <1>0, TypeFacts, LimitsAssumption DEF DispatchInv
      <3> QED
        BY <1>0, <1>d, <1>e, <1>u, <3>1 DEF DispatchBound
    <2>3. ExactWhenSafe'
      BY <1>0, <1>d, <1>e, <1>u DEF ExactWhenSafe
    <2> QED
      BY <2>1, <2>2, <2>3
  <1> QED
    BY <1>1, <1>2, <1>3, <1>4, <1>5, <1>6, <1>7, <1>8, <1>9, <1>10 DEF RunInv

(***************************************************************************)
(* The theorems                                                            *)
(***************************************************************************)
(* Every step preserves the invariant.                                     *)
LEMMA StepInv == RunInv /\ [Next]_vars => RunInv'
  <1> SUFFICES ASSUME RunInv, [Next]_vars PROVE RunInv'
    OBVIOUS
  <1>1. CASE Loop
    BY <1>1, SetupInv, TopInv, StopLaunchingInv, AddWorktreeInv, ReserveInv, LaunchInv,
       SettleInv, UnwindInv, IntegrateInv, CheckpointInv, SecondaryInv, FinishInv,
       TerminalizeInv, CatchInv DEF Loop
  <1>2. ASSUME NEW t \in Tasks, Worker(t) PROVE RunInv'
    BY <1>2, RecordWorkerInv, WorkerEndsInv, RunnerRejectsInv DEF Worker
  <1>3. CASE Signal
    BY <1>3, SignalInv
  <1>4. CASE Crash
    BY <1>4, CrashInv
  <1>5. CASE UNCHANGED vars
    <2> USE <1>5 DEF vars, loopVars
    <2>0. /\ TypeOK /\ WaveInv /\ WorkerInv /\ StateInv /\ DoneInv /\ SpawnInv
          /\ DispatchInv /\ HandleInv /\ RecordInv
          /\ ManifestLag /\ ExactWhenSafe /\ DispatchBound
      BY DEF RunInv
    <2>1. TypeOK' /\ WaveInv' /\ DispatchInv' /\ HandleInv'
      <3>1. TypeOK'
        BY <2>0 DEF TypeOK
      <3>2. WaveInv'
        BY <2>0 DEF WaveInv
      <3>3. DispatchInv' /\ HandleInv'
        BY <2>0 DEF DispatchInv, HandleInv
      <3> QED
        BY <3>1, <3>2, <3>3
    <2>2. WorkerInv' /\ RecordInv'
      BY <2>0 DEF WorkerInv, RecordInv, Supervised, AllSettled, Task, Merging
    <2>3. StateInv' /\ DoneInv' /\ SpawnInv'
      BY <2>0 DEF StateInv, DoneInv, SpawnInv, Unsettled, MergedOrUnchanged
    <2>4. (ManifestLag /\ ExactWhenSafe /\ DispatchBound)'
      BY <2>0 DEF ManifestLag, ExactWhenSafe, DispatchBound
    <2> QED
      BY <2>1, <2>2, <2>3, <2>4 DEF RunInv
  <1> QED
    BY <1>1, <1>2, <1>3, <1>4, <1>5 DEF Next

(* The strengthening behind every theorem below: where the tasks of the    *)
(* wave, of the branch and on record stand at each await of the loop.      *)
THEOREM Invariance == Spec => []RunInv
  <1> QED
    BY InitInv, StepInv, PTL DEF Spec

(* Every variable holds a value of its kind.                               *)
THEOREM TypeCorrect == Spec => []TypeOK
  <1>1. RunInv => TypeOK
    BY DEF RunInv
  <1> QED
    BY <1>1, Invariance, PTL

(* Whatever write fails and whenever the run dies, the manifest on disk is *)
(* behind the integration branch by at most the one merge whose checkpoint *)
(* did not return.                                                         *)
THEOREM ManifestNeverFarBehind == Spec => []ManifestLag
  <1>1. RunInv => ManifestLag
    BY DEF RunInv
  <1> QED
    BY <1>1, Invariance, PTL

(* I0: a record that says it is safe to resume or to apply is exact.       *)
THEOREM SafeRecordsAreExact == Spec => []ExactWhenSafe
  <1>1. RunInv => ExactWhenSafe
    BY DEF RunInv
  <1> QED
    BY <1>1, Invariance, PTL

(* The chain's dispatch budget holds and is never undercounted on disk.    *)
THEOREM DispatchesBounded == Spec => []DispatchBound
  <1>1. RunInv => DispatchBound
    BY DEF RunInv
  <1> QED
    BY <1>1, Invariance, PTL

(* I2: no task is started twice, or again after the chain completed it, or *)
(* merged twice.                                                           *)
THEOREM EachTaskOnce == Spec => []ExactlyOnce
  <1>1. RunInv => ExactlyOnce
    BY DEF RunInv, StateInv, SpawnInv, ExactlyOnce
  <1> QED
    BY <1>1, Invariance, PTL

(* No abort boundary, exception or limit lets the run go on, or end, with  *)
(* a worker it supervises still alive.                                     *)
THEOREM WorkersSettleFirst == Spec => []NoSupervisedWorkerLeft
  <1>1. RunInv => NoSupervisedWorkerLeft
    BY DEF RunInv, WorkerInv, NoSupervisedWorkerLeft, Launching
  <1> QED
    BY <1>1, Invariance, PTL

(* Workers that run together own disjoint files.                           *)
THEOREM WorkersDoNotOverlap == Spec => []NoSharedFiles
  <1>1. ASSUME RunInv PROVE NoSharedFiles
    <2>1. /\ TypeOK
          /\ \A t \in Tasks : Supervised(t) => t \in Range(launched)
          /\ \A i, j \in DOMAIN launched : i # j => /\ Disjoint(Plan, launched[i], launched[j])
                                                  /\ Plan.files[launched[i]] # {}
      BY <1>1 DEF RunInv, WorkerInv, WaveInv
    <2> SUFFICES ASSUME NEW t \in Tasks, NEW u \in Tasks, t # u, Supervised(t), Supervised(u)
                 PROVE  Disjoint(Plan, t, u) /\ Plan.files[t] # {} /\ Plan.files[u] # {}
      BY DEF NoSharedFiles
    <2>2. PICK i \in DOMAIN launched : launched[i] = t
      BY <2>1 DEF Range
    <2>3. PICK j \in DOMAIN launched : launched[j] = u
      BY <2>1 DEF Range
    <2> QED
      BY <2>1, <2>2, <2>3
  <1> QED
    BY <1>1, Invariance, PTL

(* A worker that runs was started from a commit with the merges of all the *)
(* tasks it needs, and they are all done.                                  *)
THEOREM BasesHaveDependencies == Spec => []BaseHasDependencies
  <1>1. RunInv => BaseHasDependencies
    BY DEF RunInv, WorkerInv, BaseHasDependencies, IsRunnable
  <1> QED
    BY <1>1, Invariance, PTL

(* Between waves the branch is exactly the work of the tasks that are      *)
(* done: no wave is merged in part.                                        *)
THEOREM WavesAreWhole == Spec => []WaveIsWhole
  <1>1. RunInv => WaveIsWhole
    BY DEF RunInv, StateInv, DoneInv, MergedOrUnchanged, WaveIsWhole, Launching
  <1> QED
    BY <1>1, Invariance, PTL

(***************************************************************************)
(* Every task is decided                                                   *)
(***************************************************************************)
(* An empty wave with budget left: no task can run.                        *)
LEMMA EmptyWave ==
  ASSUME TypeOK, Remaining > 0, ThisWave = <<>>, NEW t \in Tasks
  PROVE  ~IsRunnable(Plan, state, t)
  <1> DEFINE w == NextWave(Plan, state, MaxParallel)
  <1>1. /\ w \in Seq(Tasks)
        /\ (\E u \in Tasks : IsRunnable(Plan, state, u)) => w # <<>>
    BY PlanFacts, LimitsAssumption, NextWaveIsRight
  <1>2. Sliced(w) = <<>>
    BY DEF ThisWave
  <1> HIDE DEF w
  <1>3. Remaining \in Int
    BY LimitsAssumption DEF TypeOK, Remaining
  <1>4. w = <<>>
    <2> SUFFICES ASSUME w # <<>> PROVE FALSE
      OBVIOUS
    <2> DEFINE n == IF Len(w) < Remaining THEN Len(w) ELSE Remaining
    <2>1. Len(w) \in Nat /\ Len(w) # 0
      BY <1>1
    <2>2. n \in Nat /\ n # 0 /\ n <= Len(w)
      BY <1>3, <2>1
    <2>3. Sliced(w) = SubSeq(w, 1, n)
      BY DEF Sliced
    <2> HIDE DEF n
    <2>4. Len(SubSeq(w, 1, n)) = n
      BY <1>1, <2>2
    <2> QED
      BY <1>2, <2>2, <2>3, <2>4
  <1> QED
    BY <1>1, <1>4

(* No pending task waits for one that will not be done.                    *)
NothingWaitsInVain(st) ==
  \A t \in Tasks : st[t] = "pending" =>
    \A d \in Plan.dependsOn[t] : st[d] \in {"pending", "done"}

(* If no task can run and none waits in vain, none is pending: the first   *)
(* pending task in the order of the dependencies could run.                *)
LEMMA NonePending ==
  ASSUME NEW st, NothingWaitsInVain(st), \A t \in Tasks : ~IsRunnable(Plan, st, t),
         NEW t \in Tasks
  PROVE  st[t] # "pending"
  <1> DEFINE P == {u \in Tasks : st[u] = "pending"}
  <1>1. \A u \in P : Plan.dependsOn[u] \cap P # {}
    BY PlanFacts DEF NothingWaitsInVain, IsRunnable
  <1>2. P \in SUBSET TasksOf(Plan)
    BY PlanFacts
  <1> HIDE DEF P
  <1>3. P = {}
    BY <1>1, <1>2, PlanFacts, NoKnot
  <1> QED
    BY <1>3 DEF P

(* A task that is done, or one that fails and takes its dependents with    *)
(* it, leaves none waiting in vain.                                        *)
LEMMA StateAfterFacts ==
  ASSUME TypeOK, NothingWaitsInVain(state), NEW m \in Tasks
  PROVE  NothingWaitsInVain(StateAfter(m))
  <1>1. CASE worker[m].output.status = "completed"
    BY <1>1 DEF TypeOK, StateAfter, NothingWaitsInVain
  <1>2. CASE worker[m].output.status # "completed"
    <2> DEFINE st == [state EXCEPT ![m] = "failed"]
               c == Cascade(Plan, st, m)
               new == StateAfter(m)
    <2>1. /\ c \subseteq Tasks \ {m}
          /\ \A t \in Tasks \ {m} :
               t \in c <=> st[t] = "pending" /\ Plan.dependsOn[t] \cap (c \union {m}) # {}
      <3>1. m \in TasksOf(Plan) /\ Len(Plan.order) \in Nat \ {0} /\ Acyclic(Plan)
        BY PlanFacts
      <3>2. /\ c \subseteq TasksOf(Plan) \ {m}
            /\ \A t \in TasksOf(Plan) \ {m} :
                 t \in c <=> st[t] = "pending" /\ Plan.dependsOn[t] \cap (c \union {m}) # {}
        <4> HIDE DEF st
        <4> QED
          BY <3>1, CascadeIsExact
      <3> HIDE DEF st, c
      <3> QED
        BY <3>2, PlanFacts
    <2>2. st \in [Tasks -> TaskStatus] /\ st[m] = "failed"
          /\ \A t \in Tasks \ {m} : st[t] = state[t]
      BY DEF TypeOK, TaskStatus
    <2>3. new = [t \in Tasks |-> IF st[t] = "pending" /\ t \in c THEN "skipped" ELSE st[t]]
      BY <1>2, <2>2 DEF StateAfter, AutoSkipDependents
    <2> HIDE DEF st, c, new
    <2>4. ASSUME NEW t \in Tasks, new[t] = "pending", NEW d \in Plan.dependsOn[t]
          PROVE  new[d] \in {"pending", "done"}
      <3>1. t # m /\ st[t] = "pending" /\ t \notin c
        BY <2>2, <2>3, <2>4
      <3>2. Plan.dependsOn[t] \cap (c \union {m}) = {}
        BY <2>1, <3>1
      <3>3. d \in Tasks /\ d # m /\ d \notin c
        BY <2>4, <3>2, PlanFacts
      <3>4. new[d] = state[d]
        BY <2>2, <2>3, <3>3
      <3>5. state[t] = "pending"
        BY <2>2, <3>1
      <3> QED
        BY <2>4, <3>4, <3>5 DEF NothingWaitsInVain
    <2> QED
      BY <2>4 DEF NothingWaitsInVain, new
  <1> QED
    BY <1>1, <1>2

(* What a run decides, where a run starts.                                 *)
LEMMA DecidedInit == Init => DecidedInv
  <1> SUFFICES ASSUME Init PROVE DecidedInv
    OBVIOUS
  <1>1. \A t \in Tasks : state[t] \in {"pending", "done"}
    BY DEF Init, Seeded
  <1>2. pc = "setup"
    BY DEF Init
  <1> QED
    BY <1>1, <1>2, PlanFacts DEF DecidedInv

(* And after each of its steps.                                            *)
LEMMA DecidedStep == RunInv /\ DecidedInv /\ [Next]_vars => DecidedInv'
  <1> SUFFICES ASSUME RunInv, DecidedInv, [Next]_vars PROVE DecidedInv'
    OBVIOUS
  <1>0. TypeOK /\ WaveInv
    BY DEF RunInv
  <1>1. CASE Top
    <2> USE <1>1 DEF Top
    <2>1. CASE pc' = "finish" /\ (interrupted' \/ exhausted')
      BY <2>1 DEF DecidedInv
    <2>2. CASE Remaining > 0 /\ ThisWave = <<>>
      <3>1. \A t \in Tasks : state[t] # "pending"
        <4>1. \A t \in Tasks : ~IsRunnable(Plan, state, t)
          BY <1>0, <2>2, EmptyWave
        <4>2. NothingWaitsInVain(state)
          BY DEF DecidedInv, NothingWaitsInVain
        <4> QED
          BY <4>1, <4>2, NonePending
      <3> QED
        BY <2>2, <3>1 DEF DecidedInv
    <2>3. CASE pc' = "prepare"
      BY <2>3 DEF DecidedInv
    <2> QED
      BY <2>1, <2>2, <2>3
  <1>2. CASE Secondary
    <2>1. Merging \in Tasks
      BY <1>0, <1>2, TypeFacts DEF Secondary, WaveInv, Integrating, Merging
    <2>2. NothingWaitsInVain(state')
      <3>1. NothingWaitsInVain(state)
        BY DEF DecidedInv, NothingWaitsInVain
      <3> QED
        BY <1>0, <1>2, <2>1, <3>1, StateAfterFacts DEF Secondary
    <2>3. pc' \in {"finish", "top", "secondary"}
          /\ (pc' = "finish" => interrupted' \/ exhausted')
      BY <1>2 DEF Secondary
    <2> QED
      BY <2>2, <2>3 DEF DecidedInv, NothingWaitsInVain
  <1>3. CASE Launch
    <2>1. UNCHANGED state
      BY <1>3 DEF Launch
    <2>2. /\ pc' \in {"settle", "prepare"}
          /\ pc' = "settle" => launched' # <<>> \/ interrupted'
      <3>1. launched \in Seq(Tasks) /\ Task \in Tasks
        BY <1>0, <1>3 DEF TypeOK, WaveInv, Launch, Launching, Task
      <3>2. Append(launched, Task) # <<>>
        BY <3>1, AppendFacts
      <3> QED
        BY <1>3, <3>2 DEF Launch
    <2> QED
      BY <2>1, <2>2 DEF DecidedInv
  <1>4. CASE Setup
    BY <1>4 DEF Setup, DecidedInv
  <1>5. CASE StopLaunching
    BY <1>5 DEF StopLaunching, DecidedInv
  <1>6. CASE AddWorktree
    BY <1>6 DEF AddWorktree, DecidedInv
  <1>7. CASE Reserve
    BY <1>7 DEF Reserve, DecidedInv
  <1>8. CASE Settle
    BY <1>8 DEF Settle, DecidedInv
  <1>9. CASE Unwind
    BY <1>9 DEF Unwind, DecidedInv, loopVars
  <1>10. CASE Integrate
    <2>1. UNCHANGED state /\ (pc' = "checkpoint" \/ (pc' = "throw" /\ failure' = "other"))
      BY <1>10 DEF Integrate
    <2> QED
      BY <2>1 DEF DecidedInv
  <1>11. CASE Checkpoint
    BY <1>11 DEF Checkpoint, DecidedInv
  <1>12. CASE Finish
    BY <1>12 DEF Finish, DecidedInv, loopVars
  <1>13. CASE Terminalize
    BY <1>13 DEF Terminalize, DecidedInv
  <1>14. CASE Catch
    BY <1>14 DEF Catch, DecidedInv, loopVars
  <1>15. ASSUME NEW t \in Tasks, Worker(t) PROVE DecidedInv'
    <2>1. CASE RecordWorker(t) \/ WorkerEnds(t)
      BY <2>1 DEF RecordWorker, WorkerEnds, DecidedInv, loopVars
    <2>2. CASE RunnerRejects(t)
      BY <2>2 DEF RunnerRejects, DecidedInv
    <2> QED
      BY <1>15, <2>1, <2>2 DEF Worker
  <1>16. CASE Signal \/ Crash
    BY <1>16 DEF Signal, Crash, DecidedInv, loopVars
  <1>17. CASE UNCHANGED vars
    BY <1>17 DEF vars, loopVars, DecidedInv
  <1> QED
    BY <1>1, <1>2, <1>3, <1>4, <1>5, <1>6, <1>7, <1>8, <1>9, <1>10, <1>11, <1>12,
       <1>13, <1>14, <1>15, <1>16, <1>17 DEF Next, Loop

(* A run that ends by itself has decided every task of its plan, whatever  *)
(* the order in which they failed and skipped each other.                  *)
THEOREM TasksAreDecided == Spec => []EveryTaskDecided
  <1>1. DecidedInv => EveryTaskDecided
    BY DEF DecidedInv, EveryTaskDecided
  <1>2. Spec => []DecidedInv
    BY DecidedInit, DecidedStep, Invariance, PTL DEF Spec
  <1> QED
    BY <1>1, <1>2, PTL

(***************************************************************************)
(* A run implements its ledger                                             *)
(***************************************************************************)
(* A run starts with an open ledger, up to date.                           *)
LEMMA LedgerInit == Init => FileAhead /\ Ledger!Init
  <1> SUFFICES ASSUME Init PROVE FileAhead /\ Ledger!Init
    OBVIOUS
  <1>1. /\ start \in Starts /\ start.tip \in Seq(Tasks)
        /\ start.dispatches \in Nat /\ start.dispatches <= MaxTasks
    BY StartFacts DEF Init
  <1>2. /\ disk = held /\ held.tip = start.tip /\ held.dispatches = start.dispatches
        /\ held.status = "running" /\ branch = start.tip /\ spawned = <<>>
    BY DEF Init, FirstManifest
  <1>3. Closed = "open"
    BY <1>2 DEF Closed
  <1>4. disk.dispatches \in 0..MaxTasks /\ start.dispatches + Len(spawned) = disk.dispatches
    BY <1>1, <1>2, LimitsAssumption
  <1> QED
    BY <1>1, <1>2, <1>3, <1>4 DEF FileAhead, Ledger!Init

(* The steps that neither merge, nor start a worker, nor write.            *)
LEMMA LedgerStutters ==
  ASSUME FileAhead, UNCHANGED <<start, branch, held, disk, spawned>>,
         pc \in {"ended", "dead"} => pc' \in {"ended", "dead"}
  PROVE  FileAhead' /\ UNCHANGED Ledger!vars
  <1>1. Closed' = Closed
    BY DEF Closed
  <1> QED
    BY <1>1 DEF FileAhead, Ledger!vars

(* Every step of a run is a step of the ledger or leaves it alone.         *)
LEMMA LedgerStep ==
  ASSUME RunInv, FileAhead, [Next]_vars
  PROVE  FileAhead' /\ [Ledger!Next]_(Ledger!vars)
  <1> DEFINE started == start.dispatches + Len(spawned)
  <1>0. /\ TypeOK /\ WaveInv /\ WorkerInv /\ DispatchInv /\ HandleInv
        /\ ManifestLag /\ DispatchBound
    BY DEF RunInv
  <1>1. /\ held \in Manifest /\ held.dispatches \in Nat /\ disk.dispatches \in Nat
        /\ started \in Nat /\ branch \in Seq(Tasks)
    BY <1>0, TypeFacts DEF TypeOK
  <1>2. CASE Reserve
    <2>1. Task \in Tasks
      BY <1>0, <1>2, InRange DEF TypeOK, WaveInv, Task, Launching, Reserve
    <2> DEFINE r == Reserved(Task)
    <2>2. /\ r.dispatches = held.dispatches + 1 /\ r.tip = held.tip
          /\ r.status = held.status
      BY <1>1, <2>1, ReservedFacts
    <2>3. /\ disk = held /\ held.status = "running" /\ held.tip = branch
          /\ disk.dispatches = started /\ started < MaxTasks
      BY <1>0, <1>2 DEF HandleInv, DispatchInv, Reserve
    <2>4. /\ \/ held' = r /\ disk' = r
             \/ held' = held /\ disk' \in {disk, r}
          /\ UNCHANGED <<start, branch, spawned>>
      BY <1>2 DEF Reserve, Written, WriteFails
    <2> HIDE DEF r
    <2>5. Closed = "open" /\ Closed' = "open"
      BY <2>2, <2>3, <2>4 DEF Closed
    <2>6. FileAhead'
      BY <1>1, <2>2, <2>3, <2>4, <2>5 DEF FileAhead
    <2>7. CASE disk' = disk
      BY <2>4, <2>5, <2>6, <2>7 DEF Ledger!vars
    <2>8. CASE disk' = r
      <3>1. Ledger!Reserve
        BY <2>2, <2>3, <2>4, <2>5, <2>8 DEF Ledger!Reserve
      <3> QED
        BY <2>6, <3>1 DEF Ledger!Next
    <2> QED
      BY <2>4, <2>7, <2>8
  <1>3. CASE Launch
    <2>1. Task \in Tasks
      BY <1>0, <1>3, InRange DEF TypeOK, WaveInv, Task, Launching, Launch
    <2>2. /\ spawned' \in {spawned, Append(spawned, Task)}
          /\ UNCHANGED <<start, branch, held, disk>>
          /\ pc \notin {"ended", "dead"}
      BY <1>3 DEF Launch
    <2>3. CASE spawned' = spawned
      BY <2>2, <2>3, LedgerStutters
    <2>4. CASE spawned' = Append(spawned, Task)
      <3>1. Len(spawned') = Len(spawned) + 1
        BY <1>0, <2>1, <2>4 DEF TypeOK
      <3>2. disk = held /\ held.status = "running" /\ disk.dispatches = started + 1
        BY <1>0, <1>3 DEF HandleInv, DispatchInv, Launch
      <3>3. Closed = "open" /\ Closed' = "open"
        BY <2>2, <3>2 DEF Closed
      <3>4. started' = started + 1
        <4>1. start.dispatches \in Nat /\ Len(spawned) \in Nat /\ start' = start
          BY <1>0, <2>2, TypeFacts
        <4> QED
          BY <3>1, <4>1
      <3>5. Ledger!Start
        BY <1>1, <2>2, <3>2, <3>3, <3>4 DEF Ledger!Start
      <3>6. FileAhead'
        BY <2>2, <3>3 DEF FileAhead
      <3> QED
        BY <3>5, <3>6 DEF Ledger!Next
    <2> QED
      BY <2>2, <2>3, <2>4
  <1>4. CASE Integrate
    <2>1. Merging \in Tasks
      BY <1>0, <1>4, TypeFacts DEF WaveInv, Integrating, Merging, Integrate
    <2>2. /\ branch' \in {branch, Append(branch, Merging)}
          /\ UNCHANGED <<start, held, disk, spawned>>
          /\ pc \notin {"ended", "dead"}
      BY <1>4 DEF Integrate
    <2>3. disk = held /\ held.status = "running" /\ disk.tip = branch
      BY <1>0, <1>4 DEF HandleInv, Integrate
    <2>4. Closed = "open" /\ Closed' = "open"
      BY <2>2, <2>3 DEF Closed
    <2>5. FileAhead'
      BY <1>1, <2>2, <2>3, <2>4 DEF FileAhead
    <2>6. CASE branch' = branch
      BY <2>2, <2>4, <2>5, <2>6 DEF Ledger!vars
    <2>7. CASE branch' = Append(branch, Merging)
      <3>1. Ledger!Merge(Merging)
        BY <2>2, <2>3, <2>4, <2>7 DEF Ledger!Merge
      <3> QED
        BY <2>1, <2>5, <3>1 DEF Ledger!Next
    <2> QED
      BY <2>2, <2>6, <2>7
  <1>5. CASE Checkpoint
    <2> DEFINE m == Checkpointed(Merging, worker[Merging].output.status)
    <2>1. Merging \in Tasks /\ Merging \in Range(launched)
      BY <1>0, <1>5, TypeFacts DEF WaveInv, Integrating, Merging, Checkpoint, Range
    <2>2. worker[Merging].output.status \in ReportStatus
      BY <1>0, <1>5, <2>1 DEF WorkerInv, Integrating, Launching, AllSettled, Report, Checkpoint
    <2>3. /\ m.dispatches = held.dispatches /\ m.tip = branch /\ m.status = held.status
      BY <1>1, <2>1, <2>2, CheckpointedFacts
    <2>4. /\ \/ held' = m /\ disk' = m
             \/ held' = held /\ disk' \in {disk, m}
          /\ UNCHANGED <<start, branch, spawned>>
      BY <1>5 DEF Checkpoint, Written, WriteFails
    <2>5. disk = held /\ held.status = "running"
      BY <1>0, <1>5 DEF HandleInv, Checkpoint
    <2> HIDE DEF m
    <2>6. Closed = "open" /\ Closed' = "open"
      BY <2>3, <2>4, <2>5 DEF Closed
    <2>7. FileAhead'
      BY <1>1, <2>3, <2>4, <2>5, <2>6 DEF FileAhead
    <2>8. CASE disk' = disk
      BY <2>4, <2>6, <2>7, <2>8 DEF Ledger!vars
    <2>9. CASE disk' = m
      <3>1. Ledger!Record
        BY <2>3, <2>4, <2>5, <2>6, <2>9 DEF Ledger!Record
      <3> QED
        BY <2>7, <3>1 DEF Ledger!Next
    <2> QED
      BY <2>4, <2>8, <2>9
  <1>6. CASE Terminalize
    <2> DEFINE m == FinalManifest
    <2>1. disk = held /\ held.status = "running" /\ held.tip = branch
      BY <1>0, <1>6 DEF HandleInv, Terminalize
    <2>2. m.dispatches = held.dispatches /\ m.tip = branch /\ m.status # "running"
      BY <1>1, <2>1 DEF FinalManifest, InterruptedManifest, ResultStatus, Manifest
    <2>3. /\ \/ held' = m /\ disk' = m
             \/ held' = held /\ disk' \in {disk, m}
          /\ UNCHANGED <<start, branch, spawned>>
      BY <1>6 DEF Terminalize, Written, WriteFails
    <2> HIDE DEF m
    <2>4. Closed = "open" /\ (disk' = disk => Closed' = "open")
          /\ (disk' = m => Closed' \in {"exact", "inexact"})
      BY <2>1, <2>2, <2>3 DEF Closed
    <2>5. FileAhead'
      BY <1>1, <2>1, <2>2, <2>3 DEF FileAhead
    <2>6. CASE disk' = disk
      BY <2>3, <2>4, <2>5, <2>6 DEF Ledger!vars
    <2>7. CASE disk' = m /\ Closed' = "exact"
      <3>1. Ledger!CloseExact
        BY <2>1, <2>2, <2>3, <2>4, <2>7 DEF Ledger!CloseExact
      <3> QED
        BY <2>5, <3>1 DEF Ledger!Next
    <2>8. CASE disk' = m /\ Closed' = "inexact"
      <3>1. Ledger!CloseInexact
        BY <2>1, <2>2, <2>3, <2>4, <2>8 DEF Ledger!CloseInexact
      <3> QED
        BY <2>5, <3>1 DEF Ledger!Next
    <2> QED
      BY <2>3, <2>4, <2>6, <2>7, <2>8
  <1>7. CASE Catch
    <2> DEFINE m == CaughtManifest
    <2>1. held.safe = FALSE
      BY <1>0, <1>1, <1>7 DEF HandleInv, Manifest, Catch
    <2>2. /\ m.dispatches = held.dispatches /\ m.tip = held.tip
          /\ \/ m.status = "failed"
             \/ m.status = "interrupted" /\ ~m.safe
      BY <1>1, <2>1 DEF CaughtManifest, Manifest
    <2>3. disk' \in {disk, m} /\ UNCHANGED <<start, branch, spawned>> /\ pc' = "ended"
      BY <1>7 DEF Catch, Written, WriteFails
    <2> HIDE DEF m
    <2>4. FileAhead'
      BY <2>3 DEF FileAhead
    <2>5. CASE disk' = disk
      <3>1. Closed' = Closed
        BY <2>5 DEF Closed
      <3> QED
        BY <2>3, <2>4, <2>5, <3>1 DEF Ledger!vars
    <2>6. CASE disk' = m
      <3>1. Closed' = "inexact" /\ Closed \in {"open", "exact", "inexact"}
        BY <2>2, <2>6 DEF Closed
      <3>2. /\ disk.tip \in {held.tip, branch} /\ disk.dispatches >= held.dispatches
            /\ Closed = "inexact" => disk.tip = held.tip /\ disk.dispatches = held.dispatches
        BY <1>7 DEF FileAhead, Catch
      <3>3. CASE Closed = "inexact"
        BY <2>2, <2>3, <2>4, <2>6, <3>1, <3>2, <3>3 DEF Ledger!vars
      <3>4. CASE Closed # "inexact"
        <4>1. \/ held.tip = disk.tip
              \/ branch # <<>> /\ held.tip = SubSeq(branch, 1, Len(branch) - 1)
          BY <1>0, <3>2 DEF HandleInv, Front
        <4>2. held.dispatches \in {started, disk.dispatches}
          BY <1>0, <1>1, <3>2 DEF DispatchInv, DispatchBound
        <4>3. Ledger!CloseInexact
          BY <2>2, <2>3, <2>6, <3>1, <3>4, <4>1, <4>2 DEF Ledger!CloseInexact
        <4> QED
          BY <2>4, <4>3 DEF Ledger!Next
      <3> QED
        BY <3>3, <3>4
    <2> QED
      BY <2>3, <2>5, <2>6
  <1>8. CASE \/ Setup \/ Top \/ StopLaunching \/ AddWorktree \/ Settle \/ Unwind
             \/ Secondary \/ Finish \/ Signal \/ Crash \/ UNCHANGED vars
             \/ \E t \in Tasks : Worker(t)
    <2>1. UNCHANGED <<start, branch, held, disk, spawned>>
      BY <1>8 DEF Setup, Top, StopLaunching, AddWorktree, Settle, Unwind, Secondary, Finish,
                  Signal, Crash, vars, loopVars, Worker, RecordWorker, WorkerEnds, RunnerRejects
    <2>2. pc \in {"ended", "dead"} => pc' \in {"ended", "dead"}
      BY <1>8 DEF Setup, Top, StopLaunching, AddWorktree, Settle, Unwind, Secondary, Finish,
                  Signal, Crash, vars, Worker, RecordWorker, WorkerEnds, RunnerRejects
    <2> QED
      BY <2>1, <2>2, LedgerStutters
  <1> QED
    BY <1>2, <1>3, <1>4, <1>5, <1>6, <1>7, <1>8 DEF Next, Loop

(* A run implements its ledger: nothing is merged over a merge that is not *)
(* on record, no worker is started without a dispatch on record, and only  *)
(* an exact record is closed as one.                                       *)
THEOREM RunImplementsLedger == Spec => ImplementsLedger
  <1>1. Init => FileAhead /\ Ledger!Init
    BY LedgerInit
  <1>2. RunInv /\ FileAhead /\ [Next]_vars => FileAhead' /\ [Ledger!Next]_(Ledger!vars)
    BY LedgerStep
  <1> QED
    BY <1>1, <1>2, Invariance, PTL DEF Spec, ImplementsLedger, Ledger!Spec

=============================================================================
