----------------------------- MODULE PaperProofs -----------------------------
(***************************************************************************)
(* Paper trading, for every set of markets, pairs, ladders and limits,     *)
(* every fee that is no rebate and any number of moves.                    *)
(*                                                                         *)
(* That sales never exceed the supply is not inductive: a step must know   *)
(* how much of what a venue shows now was sold already.  The ledger must   *)
(* account for every unit sold that the venue still shows, i.e. what was   *)
(* sold and is no longer in the ledger is at most what was withdrawn.      *)
(*                                                                         *)
(* That the positions, the sales and the spend agree rests on one fact of  *)
(* the quote: the fills kept of a walk take some levels y of a ladder, and *)
(* the cost of the quote is the price of y.  A fill of part of the quote   *)
(* takes the best levels of the ladder.  No other units are cheaper, so it *)
(* pays at most its share of the price of y, and the shares round against  *)
(* the book.  The lemmas on recursion and sums come first, for Walk and    *)
(* the sums of Edge and Paper are recursive functions.                     *)
(***************************************************************************)
EXTENDS Paper, FiniteSetTheorems, SequenceTheorems, NaturalsInduction,
        WellFoundedInduction, TLAPS

\* One side of one market: what is sold, in the ledger, supplied and shown.
Accounted(sale, entries, total, shown) ==
    \A p \in ValidPrices :
        /\ sale[p] <= total[p]
        /\ sale[p] + shown[p] <= total[p] + entries[p]

LevelTypes ==
    /\ truth \in PerLevel
    /\ taken \in PerLevel
    /\ supply \in PerLevel
    /\ sold \in PerLevel

LedgerIsSound ==
    \A m \in Markets :
        /\ Accounted(sold[m].bids, taken[m].bids, supply[m].bids, truth[m].bids)
        /\ Accounted(sold[m].asks, taken[m].asks, supply[m].asks, truth[m].asks)

PaperIInv == LevelTypes /\ LedgerIsSound

-----------------------------------------------------------------------------
(* Recursion, and sums over finite sets *)

\* A set of numbers that is not empty has a least one.
LEMMA LeastOf ==
    ASSUME NEW T \in SUBSET Nat, T # {}
    PROVE  \E x \in T : \A y \in T : x <= y
<1>1. PICK x \in T : \A y \in T : ~ (<<y, x>> \in OpToRel(<, Nat))
  BY NatLessThanWellFounded, WFMin
<1>2. \A y \in T : ~ (y < x)
  BY <1>1 DEF OpToRel
<1> QED BY <1>2

\* Induction on a measure mu, over sets: the library's induction theorems
\* take an operator, which the provers cannot instantiate.
LEMMA Descent ==
    ASSUME NEW D, NEW mu \in [D -> Nat], NEW G,
           \A d \in D : (\A e \in D : mu[e] < mu[d] => e \in G) => d \in G
    PROVE  D \subseteq G
<1> DEFINE Bad == {mu[d] : d \in D \ G}
<1> SUFFICES ASSUME D \ G # {} PROVE FALSE
  OBVIOUS
<1>1. Bad # {} /\ Bad \in SUBSET Nat
  OBVIOUS
<1>2. PICK n \in Bad : \A k \in Bad : ~ (<<k, n>> \in OpToRel(<, Nat))
  BY <1>1, NatLessThanWellFounded, WFMin
<1>3. \A k \in Bad : ~ (k < n)
  BY <1>1, <1>2 DEF OpToRel
<1>4. PICK d \in D \ G : n = mu[d]
  OBVIOUS
<1>5. \A e \in D : mu[e] < mu[d] => e \in G
  BY <1>3, <1>4
<1> QED BY <1>4, <1>5

\* A recursion on D that calls itself on the next element, whose measure is
\* lower, until it stops: with the value base where it stops, and elsewhere
\* with what step makes of the next element's value.
IsDescent(D, N, mu, stop, next) ==
    /\ N \in Nat /\ mu \in [D -> 0 .. N]
    /\ stop \in SUBSET D /\ next \in [D -> D]
    /\ \A d \in D \ stop : mu[next[d]] < mu[d]

\* f is what the recursion that goes from d to next[d] until stop defines.
IsRecursion(D, V, stop, next, base, step, f) ==
    /\ f \in [D -> V]
    /\ \A d \in D :
          f[d] = IF d \in stop THEN base[d] ELSE step[<<d, f[next[d]]>>]

\* A recursion that descends defines a function: the union of the partial
\* functions on what takes at most n steps.
LEMMA RecursionExists ==
    ASSUME NEW D, NEW V, NEW N, NEW mu, NEW stop, NEW next, NEW base, NEW step,
           IsDescent(D, N, mu, stop, next),
           base \in [D -> V], step \in [D \X V -> V]
    PROVE  \E f : IsRecursion(D, V, stop, next, base, step, f)
<1> USE DEF IsDescent
<1> DEFINE Rec(f, d) == f[d] = IF d \in stop THEN base[d] ELSE step[<<d, f[next[d]]>>]
           Below(n) == {d \in D : mu[d] < n}
           Upto(n) == \E f \in [D -> V] : \A d \in Below(n) : Rec(f, d)
           G == {n \in Nat : Upto(n)}
           id == [n \in Nat |-> n]
<1>1. ASSUME NEW n \in Nat, \A k \in Nat : k < n => k \in G
      PROVE  n \in G
  <2>1. CASE n = 0
    <3>1. Below(n) = {}
      BY <2>1
    <3>2. base \in [D -> V]
      OBVIOUS
    <3> QED BY <3>1, <3>2
  <2>2. CASE n # 0
    <3>1. n - 1 \in Nat /\ n - 1 \in G
      BY <1>1, <2>2
    <3>2. PICK g \in [D -> V] : \A d \in Below(n - 1) : Rec(g, d)
      BY <3>1
    <3> DEFINE h == [d \in D |-> IF d \in stop THEN base[d] ELSE step[<<d, g[next[d]]>>]]
    <3>3. h \in [D -> V]
      OBVIOUS
    <3>4. \A d \in Below(n - 1) : h[d] = g[d]
      BY <3>2
    <3>5. ASSUME NEW d \in Below(n) PROVE Rec(h, d)
      <4>1. CASE d \in stop
        BY <4>1
      <4>2. CASE d \notin stop
        <5>1. next[d] \in Below(n - 1)
          BY <4>2
        <5>2. h[next[d]] = g[next[d]]
          BY <3>4, <5>1
        <5>3. h[d] = step[<<d, g[next[d]]>>]
          BY <4>2
        <5> HIDE DEF h
        <5> QED BY <4>2, <5>2, <5>3
      <4> QED BY <4>1, <4>2
    <3> HIDE DEF h, Rec
    <3> QED BY <3>3, <3>5
  <2> QED BY <2>1, <2>2
<1>2. id \in [Nat -> Nat] /\ \A n \in Nat : id[n] = n
  OBVIOUS
<1>3. Nat \subseteq G
  <2> HIDE DEF G, id
  <2> QED BY <1>1, <1>2, Descent
<1>4. Upto(N + 1)
  <2>1. N + 1 \in Nat
    OBVIOUS
  <2> HIDE DEF Upto
  <2> QED BY <1>3, <2>1
<1>5. Below(N + 1) = D
  OBVIOUS
<1> HIDE DEF Rec, Below
<1>6. PICK f \in [D -> V] : \A d \in D : Rec(f, d)
  BY <1>4, <1>5
<1> QED BY <1>6 DEF Rec, IsRecursion

\* The function that the sum of a finite set is defined by.
IsFold(g, S, iter) ==
    iter = [s \in SUBSET S |->
              IF s = {} THEN 0
              ELSE LET x == CHOOSE x \in s : TRUE IN g[x] + iter[s \ {x}]]

Folded(g, S) == CHOOSE iter : IsFold(g, S, iter)

\* SumFunctionOnSet is the value of that function at the whole set.
LEMMA SumIsFold ==
    ASSUME NEW g, NEW S PROVE SumFunctionOnSet(g, S) = Folded(g, S)[S]
BY DEF Folded, IsFold, SumFunctionOnSet, FoldFunctionOnSet, MapThenFoldSet

\* The function exists: every set it goes through is one smaller.
LEMMA FoldExists ==
    ASSUME NEW S, IsFiniteSet(S), NEW g, \A x \in S : g[x] \in Int
    PROVE  IsFold(g, S, Folded(g, S))
<1> DEFINE D == SUBSET S
           N == Cardinality(S)
           mu == [s \in D |-> Cardinality(s)]
           x(s) == CHOOSE x \in s : TRUE
           next == [s \in D |-> s \ {x(s)}]
           base == [s \in D |-> 0]
           step == [e \in D \X Int |-> IF e[1] = {} THEN 0 ELSE g[x(e[1])] + e[2]]
<1>1. N \in Nat /\ mu \in [D -> 0 .. N]
  <2>1. \A s \in D : Cardinality(s) \in Nat /\ Cardinality(s) <= N
    BY FS_Subset, FS_CardinalityType
  <2>2. N \in Nat
    BY FS_CardinalityType
  <2> QED BY <2>1, <2>2
<1>2. \A s \in D : s # {} => x(s) \in s
  OBVIOUS
<1>3. next \in [D -> D] /\ base \in [D -> Int] /\ {{}} \in SUBSET D
  OBVIOUS
<1>4. \A s \in D \ {{}} : mu[next[s]] < mu[s]
  <2> SUFFICES ASSUME NEW s \in D \ {{}} PROVE Cardinality(s \ {x(s)}) < Cardinality(s)
    OBVIOUS
  <2>1. IsFiniteSet(s) /\ x(s) \in s
    BY <1>2, FS_Subset
  <2>2. /\ Cardinality(s \ {x(s)}) = Cardinality(s) - 1
        /\ Cardinality(s) \in Nat
    <3> HIDE DEF x
    <3> QED BY <2>1, FS_RemoveElement, FS_CardinalityType
  <2> QED BY <2>2
<1>5. step \in [D \X Int -> Int]
  <2>1. \A e \in D \X Int : e[1] # {} => g[x(e[1])] \in Int
    BY <1>2
  <2> HIDE DEF x
  <2> QED BY <2>1
<1> HIDE DEF mu, N, x, next, base, step
<1> DEFINE stop == {{}}
<1>6. IsDescent(D, N, mu, stop, next)
  BY <1>1, <1>3, <1>4 DEF IsDescent
<1> HIDE DEF D, stop
<1>7. PICK f : IsRecursion(D, Int, stop, next, base, step, f)
  BY <1>3, <1>5, <1>6, RecursionExists
<1> USE DEF D, stop
<1>8. \A s \in D : f[s] = IF s = {} THEN 0 ELSE g[x(s)] + f[s \ {x(s)}]
  <2> SUFFICES ASSUME NEW s \in D
               PROVE  f[s] = IF s = {} THEN 0 ELSE g[x(s)] + f[s \ {x(s)}]
    OBVIOUS
  <2>1. base[s] = 0 /\ next[s] = s \ {x(s)} /\ f[next[s]] \in Int
    BY <1>3, <1>7 DEF IsRecursion, base, next
  <2>2. step[<<s, f[next[s]]>>] = IF s = {} THEN 0 ELSE g[x(s)] + f[next[s]]
    BY <2>1 DEF step
  <2> QED BY <1>7, <2>1, <2>2 DEF IsRecursion
<1>9. IsFold(g, S, f)
  BY <1>7, <1>8 DEF IsFold, IsRecursion, x
<1> QED BY <1>9 DEF Folded

\* What holds of a finite set when it holds of each subset of it that it
\* holds of the proper subsets of: G is the collection of the sets it holds of.
LEMMA SetInduction ==
    ASSUME NEW S, IsFiniteSet(S), NEW G,
           \A T \in SUBSET S :
              (\A U \in SUBSET T : U # T => U \in G) => T \in G
    PROVE  S \in G
<1> DEFINE mu == [T \in SUBSET S |-> Cardinality(T)]
<1>1. ASSUME NEW T \in SUBSET S
      PROVE  /\ Cardinality(T) \in Nat
             /\ \A U \in SUBSET T : U # T => Cardinality(U) < Cardinality(T)
  <2>1. IsFiniteSet(T)
    BY FS_Subset
  <2>2. \A U \in SUBSET T : Cardinality(U) \in Nat /\ Cardinality(U) <= Cardinality(T)
                            /\ (Cardinality(U) = Cardinality(T) => U = T)
    BY <2>1, FS_Subset, FS_CardinalityType
  <2> QED BY <2>1, <2>2, FS_CardinalityType
<1>2. /\ mu \in [SUBSET S -> Nat]
      /\ \A T \in SUBSET S, U \in SUBSET S : U \subseteq T /\ U # T => mu[U] < mu[T]
  BY <1>1
<1> HIDE DEF mu
<1>3. ASSUME NEW T \in SUBSET S,
             \A U \in SUBSET S : mu[U] < mu[T] => U \in G
      PROVE  T \in G
  BY <1>2, <1>3
<1>4. SUBSET S \subseteq G
  BY <1>2, <1>3, Descent
<1> QED BY <1>4

Sum(g, S) == SumFunctionOnSet(g, S)

\* Unfolding the sum at any part of the set.
LEMMA FoldStep ==
    ASSUME NEW S, IsFiniteSet(S), NEW g, \A x \in S : g[x] \in Int,
           NEW T \in SUBSET S
    PROVE  Folded(g, S)[T] =
              IF T = {} THEN 0
              ELSE LET x == CHOOSE x \in T : TRUE
                   IN  g[x] + Folded(g, S)[T \ {x}]
<1> DEFINE f == Folded(g, S)
<1>1. IsFold(g, S, f)
  BY FoldExists
<1> HIDE DEF f
<1>2. f[T] = IF T = {} THEN 0
             ELSE LET x == CHOOSE x \in T : TRUE IN g[x] + f[T \ {x}]
  BY <1>1 DEF IsFold
<1> QED BY <1>2 DEF f

\* The sum over a part does not depend on the set it is a part of.
LEMMA FoldOfPart ==
    ASSUME NEW S, IsFiniteSet(S), NEW g, \A x \in S : g[x] \in Int,
           NEW T \in SUBSET S
    PROVE  Folded(g, S)[T] = Folded(g, T)[T]
<1> DEFINE Same(U, W) == Folded(g, U)[W] = Folded(g, W)[W]
           G == {W \in SUBSET S : \A U \in SUBSET S : W \subseteq U => Same(U, W)}
<1>0. IsFiniteSet(T)
  BY FS_Subset
<1>1. ASSUME NEW W \in SUBSET T, \A U \in SUBSET W : U # W => U \in G
      PROVE  W \in G
  <2> SUFFICES ASSUME NEW U \in SUBSET S, W \subseteq U
               PROVE  Same(U, W)
    OBVIOUS
  <2>1. IsFiniteSet(U) /\ IsFiniteSet(W)
    BY FS_Subset
  <2> DEFINE x == CHOOSE x \in W : TRUE
             V == W \ {x}
  <2>2. /\ Folded(g, U)[W] = IF W = {} THEN 0 ELSE g[x] + Folded(g, U)[V]
        /\ Folded(g, W)[W] = IF W = {} THEN 0 ELSE g[x] + Folded(g, W)[V]
    <3>1. Folded(g, U)[W] = IF W = {} THEN 0 ELSE g[x] + Folded(g, U)[V]
      BY <2>1, FoldStep
    <3>2. Folded(g, W)[W] = IF W = {} THEN 0 ELSE g[x] + Folded(g, W)[V]
      BY <2>1, FoldStep
    <3> QED BY <3>1, <3>2
  <2>3. CASE W = {}
    BY <2>2, <2>3
  <2>4. CASE W # {}
    <3>1. x \in W
      BY <2>4
    <3>2. V \in G /\ V \subseteq U /\ V \subseteq W
      BY <1>1, <3>1
    <3>3. Same(U, V) /\ Same(W, V)
      BY <3>2
    <3> HIDE DEF V, x
    <3> QED BY <2>2, <3>3
  <2> QED BY <2>3, <2>4
<1> HIDE DEF G
<1>2. T \in G
  BY <1>0, <1>1, SetInduction
<1> QED BY <1>2 DEF G

\* A sum, less an arbitrary element.
LEMMA SumLess ==
    ASSUME NEW S, IsFiniteSet(S), NEW g, \A x \in S : g[x] \in Int
    PROVE  /\ Sum(g, {}) = 0
           /\ Sum(g, S) \in Int
           /\ \A y \in S : Sum(g, S) = g[y] + Sum(g, S \ {y})
<1> DEFINE Holds(T) == /\ Sum(g, T) \in Int
                       /\ \A y \in T : Sum(g, T) = g[y] + Sum(g, T \ {y})
           G == {T \in SUBSET S : Holds(T)}
           c(T) == CHOOSE x \in T : TRUE
<1>1. ASSUME NEW T \in SUBSET S
      PROVE  Sum(g, T) = IF T = {} THEN 0 ELSE g[c(T)] + Sum(g, T \ {c(T)})
  <2>1. IsFiniteSet(T) /\ T \ {c(T)} \in SUBSET T
    BY FS_Subset
  <2>2. Folded(g, T)[T \ {c(T)}] = Folded(g, T \ {c(T)})[T \ {c(T)}]
    <3> HIDE DEF c
    <3> QED BY <2>1, FoldOfPart
  <2>3. Sum(g, T) = IF T = {} THEN 0 ELSE g[c(T)] + Folded(g, T)[T \ {c(T)}]
    BY <2>1, FoldStep, SumIsFold DEF Sum
  <2> QED BY <2>2, <2>3, SumIsFold DEF Sum
<1>2. \A T \in SUBSET S : T # {} => c(T) \in T
  OBVIOUS
<1> HIDE DEF c
<1>3. ASSUME NEW T \in SUBSET S, \A U \in SUBSET T : U # T => U \in G
      PROVE  T \in G
  <2>1. CASE T = {}
    BY <1>1, <2>1
  <2>2. CASE T # {}
    <3> DEFINE x == c(T)
    <3>1. x \in T /\ g[x] \in Int /\ Sum(g, T) = g[x] + Sum(g, T \ {x})
      BY <1>1, <1>2, <2>2
    <3> HIDE DEF x
    <3>2. Sum(g, T \ {x}) \in Int
      BY <1>3, <3>1
    <3>3. ASSUME NEW y \in T, y # x PROVE Sum(g, T) = g[y] + Sum(g, T \ {y})
      <4>1. y \in T \ {x} /\ x \in T \ {y} /\ g[y] \in Int
        BY <3>1, <3>3
      <4>2. T \ {x} \in G /\ T \ {y} \in G
        BY <1>3, <3>1
      <4>3. (T \ {x}) \ {y} = (T \ {y}) \ {x}
        OBVIOUS
      <4> DEFINE r == Sum(g, (T \ {x}) \ {y})
      <4>4. Sum(g, T \ {x}) = g[y] + r /\ Sum(g, T \ {y}) = g[x] + r
        BY <4>1, <4>2, <4>3
      <4>5. (T \ {x}) \ {y} \in G
        BY <1>3, <4>1
      <4> QED BY <3>1, <4>1, <4>4, <4>5
    <3> QED BY <3>1, <3>2, <3>3
  <2> QED BY <2>1, <2>2
<1> HIDE DEF G
<1>4. S \in G
  BY <1>3, SetInduction
<1>5. Sum(g, {}) = 0
  BY <1>1
<1> QED BY <1>4, <1>5 DEF G

Summable(g, S) == IsFiniteSet(S) /\ \A x \in S : g[x] \in Int

\* A sum of integers is an integer.
LEMMA SumType ==
    ASSUME NEW S, NEW g, Summable(g, S)
    PROVE  Sum(g, {}) = 0 /\ Sum(g, S) \in Int
BY SumLess DEF Summable

\* A sum is that of the other elements and one of them.
Unfolds(g, S) ==
    /\ Sum(g, {}) = 0
    /\ \A T \in SUBSET S, y \in S :
          y \in T => /\ Sum(g, T) = g[y] + Sum(g, T \ {y})
                     /\ g[y] \in Int /\ Sum(g, T \ {y}) \in Int

\* Any element of any part can be taken out of its sum.
LEMMA SumUnfolds ==
    ASSUME NEW S, NEW g, Summable(g, S)
    PROVE  Unfolds(g, S)
<1>1. Sum(g, {}) = 0
  BY SumType
<1>2. ASSUME NEW T \in SUBSET S, NEW y \in T
      PROVE  /\ Sum(g, T) = g[y] + Sum(g, T \ {y})
             /\ g[y] \in Int /\ Sum(g, T \ {y}) \in Int
  <2>1. IsFiniteSet(T) /\ IsFiniteSet(T \ {y})
    BY FS_Subset DEF Summable
  <2>2. \A x \in S : g[x] \in Int
    BY DEF Summable
  <2> QED BY <2>1, <2>2, SumLess
<1> QED BY <1>1, <1>2 DEF Unfolds

\* The sum of sums is the sum of the two sums.
LEMMA SumOfSums ==
    ASSUME NEW S, NEW f, NEW g, NEW h, Summable(f, S), Summable(g, S),
           \A x \in S : h[x] = f[x] + g[x]
    PROVE  Sum(h, S) = Sum(f, S) + Sum(g, S)
<1>1. Summable(h, S)
  BY DEF Summable
<1>2. Unfolds(f, S) /\ Unfolds(g, S) /\ Unfolds(h, S)
  BY <1>1, SumUnfolds
<1> DEFINE G == {T \in SUBSET S : Sum(h, T) = Sum(f, T) + Sum(g, T)}
<1>3. ASSUME NEW T \in SUBSET S, \A U \in SUBSET T : U # T => U \in G
      PROVE  T \in G
  <2>1. CASE T = {}
    BY <1>2, <2>1 DEF Unfolds
  <2>2. ASSUME NEW y \in T PROVE T \in G
    <3>1. Sum(h, T \ {y}) = Sum(f, T \ {y}) + Sum(g, T \ {y}) /\ h[y] = f[y] + g[y]
      <4>1. T \ {y} \in G
        BY <1>3, <2>2
      <4> QED BY <4>1
    <3> HIDE DEF G
    <3>2. Sum(h, T) = Sum(f, T) + Sum(g, T)
      <4>1. Sum(f, T) = f[y] + Sum(f, T \ {y}) /\ f[y] \in Int /\ Sum(f, T \ {y}) \in Int
        BY <1>2 DEF Unfolds
      <4>2. Sum(g, T) = g[y] + Sum(g, T \ {y}) /\ g[y] \in Int /\ Sum(g, T \ {y}) \in Int
        BY <1>2 DEF Unfolds
      <4>3. Sum(h, T) = h[y] + Sum(h, T \ {y}) /\ h[y] \in Int /\ Sum(h, T \ {y}) \in Int
        BY <1>2 DEF Unfolds
      <4> QED BY <3>1, <4>1, <4>2, <4>3
    <3> QED BY <3>2 DEF G
  <2> QED BY <2>1, <2>2
<1> HIDE DEF G
<1>4. S \in G
  BY <1>3, SetInduction DEF Summable
<1> QED BY <1>4 DEF G

\* A common factor comes out of a sum.
LEMMA SumOfMultiples ==
    ASSUME NEW S, NEW f, NEW h, Summable(f, S), NEW c \in Int,
           \A x \in S : h[x] = c * f[x]
    PROVE  Sum(h, S) = c * Sum(f, S)
<1>1. Summable(h, S)
  BY DEF Summable
<1>2. Unfolds(f, S) /\ Unfolds(h, S)
  BY <1>1, SumUnfolds
<1> DEFINE G == {T \in SUBSET S : Sum(h, T) = c * Sum(f, T)}
<1>3. ASSUME NEW T \in SUBSET S, \A U \in SUBSET T : U # T => U \in G
      PROVE  T \in G
  <2>1. CASE T = {}
    BY <1>2, <2>1 DEF Unfolds
  <2>2. ASSUME NEW y \in T PROVE T \in G
    <3>1. Sum(h, T \ {y}) = c * Sum(f, T \ {y}) /\ h[y] = c * f[y]
      <4>1. T \ {y} \in G
        BY <1>3, <2>2
      <4> QED BY <4>1
    <3> HIDE DEF G
    <3>2. Sum(h, T) = c * Sum(f, T)
      <4>1. Sum(f, T) = f[y] + Sum(f, T \ {y}) /\ f[y] \in Int /\ Sum(f, T \ {y}) \in Int
        BY <1>2 DEF Unfolds
      <4>2. Sum(h, T) = h[y] + Sum(h, T \ {y}) /\ h[y] \in Int /\ Sum(h, T \ {y}) \in Int
        BY <1>2 DEF Unfolds
      <4> QED BY <3>1, <4>1, <4>2
    <3> QED BY <3>2 DEF G
  <2> QED BY <2>1, <2>2
<1> HIDE DEF G
<1>4. S \in G
  BY <1>3, SetInduction DEF Summable
<1> QED BY <1>4 DEF G

\* Sums compare as their terms do.
LEMMA SumsCompare ==
    ASSUME NEW S, NEW f, NEW g, Summable(f, S), Summable(g, S),
           \A x \in S : f[x] <= g[x]
    PROVE  Sum(f, S) <= Sum(g, S)
<1>1. Unfolds(f, S) /\ Unfolds(g, S)
  BY SumUnfolds
<1> DEFINE G == {T \in SUBSET S : Sum(f, T) <= Sum(g, T)}
<1>2. ASSUME NEW T \in SUBSET S, \A U \in SUBSET T : U # T => U \in G
      PROVE  T \in G
  <2>1. CASE T = {}
    BY <1>1, <2>1 DEF Unfolds
  <2>2. ASSUME NEW y \in T PROVE T \in G
    <3>1. Sum(f, T \ {y}) <= Sum(g, T \ {y}) /\ f[y] <= g[y]
      <4>1. T \ {y} \in G
        BY <1>2, <2>2
      <4> QED BY <4>1
    <3> HIDE DEF G
    <3>2. Sum(f, T) <= Sum(g, T)
      <4>1. Sum(f, T) = f[y] + Sum(f, T \ {y}) /\ f[y] \in Int /\ Sum(f, T \ {y}) \in Int
        BY <1>1 DEF Unfolds
      <4>2. Sum(g, T) = g[y] + Sum(g, T \ {y}) /\ g[y] \in Int /\ Sum(g, T \ {y}) \in Int
        BY <1>1 DEF Unfolds
      <4> QED BY <3>1, <4>1, <4>2
    <3> QED BY <3>2 DEF G
  <2> QED BY <2>1, <2>2
<1> HIDE DEF G
<1>3. S \in G
  BY <1>2, SetInduction DEF Summable
<1> QED BY <1>3 DEF G

\* Equal terms have equal sums.
LEMMA SumsAgree ==
    ASSUME NEW S, NEW f, NEW g, Summable(f, S),
           \A x \in S : f[x] = g[x]
    PROVE  Sum(f, S) = Sum(g, S)
<1>1. Summable(g, S) /\ \A x \in S : f[x] <= g[x] /\ g[x] <= f[x]
  BY DEF Summable
<1>2. Sum(f, S) <= Sum(g, S) /\ Sum(g, S) <= Sum(f, S)
  BY <1>1, SumsCompare
<1> QED BY <1>1, <1>2, SumType

\* One element of a sum changes.
LEMMA SumOfChange ==
    ASSUME NEW S, NEW f, NEW g, Summable(f, S), NEW y \in S,
           g[y] \in Int, \A x \in S \ {y} : g[x] = f[x]
    PROVE  Sum(g, S) = Sum(f, S) + (g[y] - f[y])
<1>1. Summable(g, S) /\ Summable(f, S \ {y}) /\ IsFiniteSet(S \ {y})
  BY FS_Subset DEF Summable
<1>2. Sum(f, S \ {y}) = Sum(g, S \ {y})
  BY <1>1, SumsAgree
<1>3. Unfolds(f, S) /\ Unfolds(g, S)
  BY <1>1, SumUnfolds
<1>4. Sum(f, S) = f[y] + Sum(f, S \ {y}) /\ f[y] \in Int /\ Sum(f, S \ {y}) \in Int
  BY <1>3 DEF Unfolds
<1>5. Sum(g, S) = g[y] + Sum(g, S \ {y})
  BY <1>3 DEF Unfolds
<1> QED BY <1>2, <1>4, <1>5

\* A part of the elements, where all are naturals.
LEMMA SumOfPart ==
    ASSUME NEW S, IsFiniteSet(S), NEW g, \A x \in S : g[x] \in Nat,
           NEW T \in SUBSET S
    PROVE  Sum(g, T) \in Nat /\ Sum(g, T) <= Sum(g, S)
<1> DEFINE Holds(U, W) == Sum(g, W) \in Nat /\ Sum(g, W) <= Sum(g, U)
           G == {U \in SUBSET S : \A W \in SUBSET U : Holds(U, W)}
<1>1. Unfolds(g, S)
  BY SumUnfolds DEF Summable
<1>2. ASSUME NEW U \in SUBSET S, \A V \in SUBSET U : V # U => V \in G
      PROVE  U \in G
  <2>1. ASSUME NEW y \in U PROVE Sum(g, U) = g[y] + Sum(g, U \ {y}) /\ g[y] \in Nat
    BY <1>1 DEF Unfolds
  <2>2. ASSUME NEW y \in U PROVE U \ {y} \in G
    BY <1>2
  <2>3. ASSUME NEW y \in U PROVE Sum(g, U \ {y}) \in Nat
    BY <2>2
  <2>4. Sum(g, U) \in Nat
    <3>1. CASE U = {}
      BY <1>1, <3>1 DEF Unfolds
    <3>2. ASSUME NEW y \in U PROVE Sum(g, U) \in Nat
      <4>1. Sum(g, U) = g[y] + Sum(g, U \ {y}) /\ g[y] \in Nat
        BY <2>1
      <4>2. Sum(g, U \ {y}) \in Nat
        BY <2>3
      <4> QED BY <4>1, <4>2
    <3> QED BY <3>1, <3>2
  <2>5. ASSUME NEW W \in SUBSET U PROVE Holds(U, W)
    <3>1. CASE W = U
      BY <2>4, <3>1
    <3>2. ASSUME NEW y \in U \ W PROVE Holds(U, W)
      <4>1. W \in SUBSET (U \ {y})
        BY <3>2
      <4>2. Holds(U \ {y}, W)
        BY <2>2, <4>1
      <4>3. Sum(g, U) = g[y] + Sum(g, U \ {y}) /\ g[y] \in Nat /\ Sum(g, U \ {y}) \in Nat
        BY <2>1, <2>3
      <4> QED BY <4>2, <4>3
    <3> QED BY <3>1, <3>2
  <2> QED BY <2>5
<1> HIDE DEF G
<1>3. S \in G
  BY <1>2, SetInduction
<1> QED BY <1>3 DEF G

\* Induction up to n, over sets.
LEMMA UpTo ==
    ASSUME NEW n \in Nat, NEW G, 0 \in G,
           \A k \in 0 .. n : k # 0 /\ k - 1 \in G => k \in G
    PROVE  n \in G
<1> DEFINE D == 0 .. n
           mu == [k \in D |-> k]
<1>1. mu \in [D -> Nat] /\ \A k \in D : mu[k] = k
  OBVIOUS
<1>2. ASSUME NEW k \in D, \A j \in D : mu[j] < mu[k] => j \in G
      PROVE  k \in G
  <2>1. CASE k # 0
    <3>1. k - 1 \in D /\ mu[k - 1] < mu[k]
      BY <2>1
    <3>2. k - 1 \in G
      BY <1>2, <3>1
    <3> QED BY <2>1, <3>2
  <2> QED BY <2>1
<1>3. n \in D
  OBVIOUS
<1> HIDE DEF D, mu
<1>4. D \subseteq G
  BY <1>1, <1>2, Descent
<1> QED BY <1>3, <1>4

\* A sum over a sequence, after its first element.
LEMMA SumAfterFirst ==
    ASSUME NEW n \in Nat, NEW g, NEW h,
           \A i \in 1 .. n + 1 : g[i] \in Int,
           \A i \in 1 .. n : h[i] = g[i + 1]
    PROVE  Sum(g, 1 .. n + 1) = g[1] + Sum(h, 1 .. n)
<1>1. Summable(g, 1 .. n + 1) /\ Summable(h, 1 .. n)
  <2>1. IsFiniteSet(1 .. n + 1) /\ IsFiniteSet(1 .. n)
    BY FS_Interval
  <2>2. \A i \in 1 .. n : i + 1 \in 1 .. n + 1
    OBVIOUS
  <2> QED BY <2>1, <2>2 DEF Summable
<1>2. Unfolds(g, 1 .. n + 1) /\ Unfolds(h, 1 .. n)
  BY <1>1, SumUnfolds
<1> DEFINE G == {k \in 0 .. n : Sum(g, 1 .. k + 1) = g[1] + Sum(h, 1 .. k)}
<1>3. 0 \in G
  <2>1. 1 .. 1 \in SUBSET (1 .. n + 1) /\ 1 \in 1 .. 1 /\ (1 .. 1) \ {1} = {}
    OBVIOUS
  <2>2. Sum(g, 1 .. 1) = g[1] + Sum(g, {})
    BY <1>2, <2>1 DEF Unfolds
  <2>3. 0 + 1 = 1 /\ 1 .. 0 = {} /\ Sum(h, {}) = 0 /\ Sum(g, {}) = 0
    BY <1>2 DEF Unfolds
  <2>4. Sum(g, 1 .. 0 + 1) = g[1] + Sum(h, 1 .. 0)
    BY <2>2, <2>3
  <2> QED BY <2>4
<1>4. ASSUME NEW k \in 0 .. n, k # 0, k - 1 \in G PROVE k \in G
  <2> DEFINE A == 1 .. k + 1
             B == 1 .. (k - 1) + 1
             C == 1 .. k
             D == 1 .. k - 1
             i == k + 1
             N == 1 .. n + 1
             M == 1 .. n
  <2>1. /\ A \in SUBSET N /\ i \in A /\ i \in N /\ A \ {i} = B
        /\ C \in SUBSET M /\ k \in C /\ k \in M /\ C \ {k} = D
    BY <1>4
  <2>2. Unfolds(g, N) /\ Unfolds(h, M)
    BY <1>2
  <2> HIDE DEF A, B, C, D, i, N, M
  <2>3. Sum(g, A) = g[i] + Sum(g, B)
    BY <2>1, <2>2 DEF Unfolds
  <2>4. Sum(h, C) = h[k] + Sum(h, D) /\ h[k] \in Int /\ Sum(h, D) \in Int
    BY <2>1, <2>2 DEF Unfolds
  <2>5. h[k] = g[i] /\ g[1] \in Int
    BY <1>4 DEF i
  <2>6. Sum(g, B) = g[1] + Sum(h, D)
    BY <1>4 DEF B, D
  <2>7. Sum(g, A) = g[1] + Sum(h, C)
    BY <2>3, <2>4, <2>5, <2>6
  <2> QED BY <2>7 DEF A, C
<1> HIDE DEF G
<1>5. n \in G
  BY <1>3, <1>4, UpTo
<1> QED BY <1>5 DEF G

-----------------------------------------------------------------------------
(* Ladders and what is taken of them *)

\* The prices of a side by how good they are, the best first; it is also
\* what a contract bought there takes of the dollar.
Rank(side, p) == IF side = "ask" THEN p ELSE TicksPerDollar - p

LEMMA PricesAreFinite == IsFiniteSet(ValidPrices)
BY ScaleAssumption, FS_Interval DEF ValidPrices

\* The ranks are what PaidAt says, and order the prices as Better does.
LEMMA RankLemma ==
    ASSUME NEW side \in Sides, NEW p \in ValidPrices
    PROVE  /\ Rank(side, p) \in 1 .. TicksPerDollar - 1
           /\ PaidAt[side][p] = Rank(side, p)
           /\ \A x \in ValidPrices :
                 x \in Better(side, p) <=> Rank(side, x) < Rank(side, p)
           /\ Better(side, p) \in SUBSET ValidPrices
BY ScaleAssumption DEF Sides, Rank, PaidAt, Better, ValidPrices

\* What rests at better prices is counted before a price.
LEMMA AheadLemma ==
    ASSUME NEW l \in Ladder, NEW side \in Sides, NEW p \in ValidPrices
    PROVE  /\ Ahead(l, side, p) \in Nat
           /\ \A x \in Better(side, p) :
                 Ahead(l, side, x) + l[x] <= Ahead(l, side, p)
<1>1. IsFiniteSet(ValidPrices) /\ \A x \in ValidPrices : l[x] \in Nat
  BY PricesAreFinite DEF Ladder
<1>2. Better(side, p) \in SUBSET ValidPrices
  BY RankLemma
<1>3. Ahead(l, side, p) \in Nat
  BY <1>1, <1>2, SumOfPart DEF Ahead, Sum
<1>4. ASSUME NEW x \in Better(side, p)
      PROVE  Ahead(l, side, x) + l[x] <= Ahead(l, side, p)
  <2> DEFINE U == Better(side, x) \cup {x}
             B == Better(side, p)
  <2>1. x \in ValidPrices
    BY <1>2
  <2>2. U \in SUBSET B /\ U \ {x} = Better(side, x) /\ x \in U
    BY <1>2, <2>1, RankLemma DEF Better, ValidPrices
  <2>3. IsFiniteSet(B) /\ (\A y \in B : l[y] \in Nat) /\ Summable(l, B)
    BY <1>1, <1>2, FS_Subset DEF Summable
  <2> HIDE DEF U, B
  <2>4. Sum(l, U) <= Sum(l, B)
    BY <2>2, <2>3, SumOfPart
  <2>5. Unfolds(l, B)
    BY <2>3, SumUnfolds
  <2>6. Sum(l, U) = l[x] + Sum(l, Better(side, x)) /\ l[x] \in Int /\ Sum(l, Better(side, x)) \in Int
    BY <2>2, <2>5 DEF Unfolds
  <2> QED BY <2>4, <2>6 DEF Ahead, Sum, B
<1> QED BY <1>3, <1>4

\* consume() takes at each level at most what the trader was shown there,
\* and nothing beyond a level that is not taken whole.
LEMMA TakenByLemma ==
    ASSUME NEW l \in Ladder, NEW side \in Sides, NEW qty \in Nat
    PROVE  /\ TakenBy(l, side, qty) \in Ladder
           /\ \A p \in ValidPrices : TakenBy(l, side, qty)[p] <= l[p]
           /\ \A p, x \in ValidPrices :
                 /\ Rank(side, x) < Rank(side, p)
                 /\ TakenBy(l, side, qty)[x] # l[x]
                 => TakenBy(l, side, qty)[p] = 0
<1> DEFINE t == TakenBy(l, side, qty)
           A(p) == Ahead(l, side, p)
<1>1. ASSUME NEW p \in ValidPrices
      PROVE  /\ A(p) \in Nat /\ l[p] \in Nat
             /\ t[p] = IF qty - A(p) <= 0 THEN 0
                       ELSE IF qty - A(p) <= l[p] THEN qty - A(p) ELSE l[p]
  BY AheadLemma DEF TakenBy, Least, Ladder
<1>2. t = [p \in ValidPrices |-> t[p]]
  BY DEF TakenBy
<1>3. ASSUME NEW p \in ValidPrices, NEW x \in ValidPrices,
             Rank(side, x) < Rank(side, p), t[x] # l[x]
      PROVE  t[p] = 0
  <2>1. A(x) + l[x] <= A(p)
    BY <1>3, RankLemma, AheadLemma
  <2> HIDE DEF t, A
  <2>2. /\ A(x) \in Nat /\ l[x] \in Nat
        /\ t[x] = IF qty - A(x) <= 0 THEN 0
                  ELSE IF qty - A(x) <= l[x] THEN qty - A(x) ELSE l[x]
    BY <1>1
  <2>3. A(p) \in Nat /\ (qty - A(p) <= 0 => t[p] = 0)
    BY <1>1
  <2> QED BY <1>3, <2>1, <2>2, <2>3
<1> HIDE DEF t, A
<1>4. \A p \in ValidPrices : t[p] \in Nat /\ t[p] <= l[p]
  BY <1>1
<1> QED BY <1>2, <1>3, <1>4 DEF Ladder, t

\* consume() leaves no remainder of a quantity that the ladder shows.
LEMMA TakenBySum ==
    ASSUME NEW l \in Ladder, NEW side \in Sides, NEW qty \in Nat,
           qty <= Sum(l, ValidPrices)
    PROVE  Sum(TakenBy(l, side, qty), ValidPrices) = qty
<1> DEFINE t == TakenBy(l, side, qty)
           N == TicksPerDollar - 1
           B(n) == {p \in ValidPrices : Rank(side, p) <= n}
           At(n) == IF side = "ask" THEN n ELSE TicksPerDollar - n
           G == {n \in 0 .. N : Sum(t, B(n)) = Least(qty, Sum(l, B(n)))}
<1>1. t \in Ladder
  BY TakenByLemma
<1>2. N \in Nat /\ B(0) = {} /\ B(N) = ValidPrices
  BY ScaleAssumption, RankLemma DEF ValidPrices
<1>3. ASSUME NEW n \in 0 .. N, n # 0
      PROVE  /\ At(n) \in B(n) /\ B(n) \in SUBSET ValidPrices
             /\ B(n) \ {At(n)} = B(n - 1)
             /\ Better(side, At(n)) = B(n - 1)
  BY <1>3, ScaleAssumption DEF Rank, Better, ValidPrices, Sides
<1>4. Unfolds(t, ValidPrices) /\ Unfolds(l, ValidPrices)
  <2> HIDE DEF t
  <2>1. Summable(t, ValidPrices) /\ Summable(l, ValidPrices)
    BY <1>1, PricesAreFinite DEF Summable, Ladder
  <2> QED BY <2>1, SumUnfolds
<1>5. \A n \in 0 .. N : Sum(l, B(n)) \in Nat
  <2>1. \A p \in ValidPrices : l[p] \in Nat
    BY DEF Ladder
  <2> QED BY <2>1, PricesAreFinite, SumOfPart
<1>6. \A p \in ValidPrices :
         t[p] = IF qty - Ahead(l, side, p) <= 0 THEN 0
                ELSE Least(qty - Ahead(l, side, p), l[p])
  BY DEF TakenBy
<1> HIDE DEF t, B, At
<1>7. 0 \in G
  <2>1. Sum(t, B(0)) = 0 /\ Sum(l, B(0)) = 0
    BY <1>2, <1>4 DEF Unfolds
  <2>2. Sum(t, B(0)) = Least(qty, Sum(l, B(0))) /\ 0 \in 0 .. N
    BY <1>2, <2>1 DEF Least
  <2> QED BY <2>2
<1>8. ASSUME NEW n \in 0 .. N, n # 0, n - 1 \in G PROVE n \in G
  <2> DEFINE p == At(n)
             A == Sum(l, B(n - 1))
  <2>1. /\ p \in B(n) /\ p \in ValidPrices /\ B(n) \in SUBSET ValidPrices
        /\ B(n) \ {p} = B(n - 1) /\ Better(side, p) = B(n - 1)
    BY <1>3, <1>8
  <2> HIDE DEF p
  <2>2. Sum(t, B(n)) = t[p] + Sum(t, B(n - 1))
    BY <1>4, <2>1 DEF Unfolds
  <2>3. Sum(l, B(n)) = l[p] + A
    BY <1>4, <2>1 DEF Unfolds
  <2>4. Ahead(l, side, p) = A
    BY <2>1 DEF Ahead, Sum
  <2>5. n - 1 \in 0 .. N /\ Sum(t, B(n - 1)) = Least(qty, A)
    BY <1>8
  <2>6. A \in Nat /\ l[p] \in Nat
    BY <1>5, <2>1, <2>5 DEF Ladder
  <2> HIDE DEF A
  <2>7. t[p] = IF qty - A <= 0 THEN 0 ELSE Least(qty - A, l[p])
    BY <1>6, <2>1, <2>4
  <2>8. Sum(t, B(n)) = Least(qty, Sum(l, B(n)))
    BY <2>2, <2>3, <2>5, <2>6, <2>7 DEF Least
  <2> QED BY <2>8
<1> HIDE DEF G, N
<1>9. N \in G
  BY <1>2, <1>7, <1>8, UpTo
<1>10. Sum(t, ValidPrices) = Least(qty, Sum(l, ValidPrices))
  BY <1>2, <1>9 DEF G
<1> QED BY <1>10 DEF Least, t

\* A price that all better levels are taken whole of, and no worse one.
LEMMA Margin ==
    ASSUME NEW l \in Ladder, NEW side \in Sides, NEW qty \in Nat
    PROVE  \E c \in Nat : \A p \in ValidPrices :
              /\ Rank(side, p) < c => TakenBy(l, side, qty)[p] = l[p]
              /\ Rank(side, p) > c => TakenBy(l, side, qty)[p] = 0
<1> DEFINE t == TakenBy(l, side, qty)
           Short == {Rank(side, p) : p \in {p \in ValidPrices : t[p] # l[p]}}
<1>1. Short \in SUBSET Nat
  BY RankLemma, ScaleAssumption
<1>2. CASE Short = {}
  <2>1. \A p \in ValidPrices : t[p] = l[p] /\ ~ (Rank(side, p) > TicksPerDollar)
    BY <1>2, RankLemma, ScaleAssumption
  <2> QED BY <2>1, ScaleAssumption
<1>3. CASE Short # {}
  <2>1. PICK c \in Short : \A n \in Short : c <= n
    <3> HIDE DEF Short
    <3> QED BY <1>1, <1>3, LeastOf
  <2>2. PICK x \in ValidPrices : t[x] # l[x] /\ c = Rank(side, x)
    OBVIOUS
  <2>3. ASSUME NEW p \in ValidPrices
        PROVE  /\ Rank(side, p) < c => t[p] = l[p]
               /\ Rank(side, p) > c => t[p] = 0
    <3>1. Rank(side, p) \in Nat /\ c \in Nat
      BY <1>1, RankLemma, ScaleAssumption
    <3>2. ASSUME t[p] # l[p] PROVE ~ (Rank(side, p) < c)
      <4>1. Rank(side, p) \in Short
        BY <3>2
      <4> QED BY <2>1, <3>1, <4>1
    <3>3. ASSUME Rank(side, p) > c PROVE t[p] = 0
      <4>1. Rank(side, x) < Rank(side, p)
        BY <2>2, <3>1, <3>3
      <4> QED BY <2>2, <4>1, TakenByLemma
    <3> QED BY <3>2, <3>3
  <2>4. c \in Nat
    BY <1>1
  <2> QED BY <2>3, <2>4
<1> QED BY <1>2, <1>3

\* A ladder holds a number of units.
LEMMA UnitsLemma ==
    ASSUME NEW z \in Ladder
    PROVE  Sum(z, ValidPrices) \in Nat /\ Summable(z, ValidPrices)
<1>1. \A p \in ValidPrices : z[p] \in Nat
  BY DEF Ladder
<1>2. Sum(z, ValidPrices) \in Nat
  BY <1>1, PricesAreFinite, SumOfPart
<1> QED BY <1>1, <1>2, PricesAreFinite DEF Summable

\* The price of a ladder in excess of c per unit.
LEMMA PriceLemma ==
    ASSUME NEW side \in Sides, NEW z \in Ladder, NEW c \in Int
    PROVE  /\ Price(side, z) \in Int
           /\ Sum([p \in ValidPrices |-> (Rank(side, p) - c) * z[p]], ValidPrices)
                 = Price(side, z) - c * Sum(z, ValidPrices)
<1> DEFINE cost == [p \in ValidPrices |-> PaidAt[side][p] * z[p]]
           less == [p \in ValidPrices |-> (-c) * z[p]]
           d == [p \in ValidPrices |-> (Rank(side, p) - c) * z[p]]
<1>1. \A p \in ValidPrices : /\ z[p] \in Nat
                             /\ PaidAt[side][p] = Rank(side, p) /\ Rank(side, p) \in Int
  BY RankLemma DEF Ladder
<1>2. Summable(cost, ValidPrices) /\ Summable(less, ValidPrices)
  BY <1>1, PricesAreFinite DEF Summable
<1>3. \A p \in ValidPrices : less[p] = (-c) * z[p] /\ d[p] = cost[p] + less[p]
  BY <1>1
<1>4. Price(side, z) = Sum(cost, ValidPrices)
  BY DEF Price, SumFunction, Sum
<1> HIDE DEF cost, less, d
<1>5. Sum(less, ValidPrices) = (-c) * Sum(z, ValidPrices)
  BY <1>3, UnitsLemma, SumOfMultiples
<1>6. Sum(d, ValidPrices) = Sum(cost, ValidPrices) + Sum(less, ValidPrices)
  BY <1>2, <1>3, SumOfSums
<1>7. Sum(cost, ValidPrices) \in Int
  BY <1>2, SumType
<1>8. Sum(z, ValidPrices) \in Nat
  BY UnitsLemma
<1>9. Sum(d, ValidPrices) = Price(side, z) - c * Sum(z, ValidPrices)
  BY <1>4, <1>5, <1>6, <1>7, <1>8
<1> QED BY <1>4, <1>7, <1>9 DEF d

LEMMA PriceType ==
    ASSUME NEW side \in Sides, NEW z \in Ladder
    PROVE  Price(side, z) \in Int
<1>1. 0 \in Int
  OBVIOUS
<1> QED BY <1>1, PriceLemma

\* The best of a ladder costs no more than the same share of any other choice
\* of its levels that holds as much or more.
THEOREM BestLevelsAreCheapest ==
    ASSUME NEW l \in Ladder, NEW side \in Sides, NEW qty \in Nat,
           NEW y \in Ladder, \A p \in ValidPrices : y[p] <= l[p],
           qty <= Sum(y, ValidPrices)
    PROVE  Price(side, TakenBy(l, side, qty)) * Sum(y, ValidPrices)
              <= Price(side, y) * qty
<1> DEFINE t == TakenBy(l, side, qty)
           Q == Sum(y, ValidPrices)
<1>1. PICK c \in Nat : \A p \in ValidPrices :
         /\ Rank(side, p) < c => t[p] = l[p]
         /\ Rank(side, p) > c => t[p] = 0
  BY Margin
<1>2. t \in Ladder
  BY TakenByLemma
<1>3. Q \in Nat /\ Sum(t, ValidPrices) = qty
  <2>1. \A p \in ValidPrices : y[p] \in Int /\ l[p] \in Int
    BY DEF Ladder
  <2>2. Summable(y, ValidPrices) /\ Summable(l, ValidPrices)
    BY UnitsLemma
  <2>3. Q <= Sum(l, ValidPrices)
    BY <2>2, SumsCompare
  <2>4. Q \in Nat /\ Sum(l, ValidPrices) \in Nat
    BY UnitsLemma
  <2>5. qty <= Sum(l, ValidPrices)
    BY <2>3, <2>4
  <2> QED BY <2>4, <2>5, TakenBySum
<1> DEFINE d(z) == [p \in ValidPrices |-> (Rank(side, p) - c) * z[p]]
           e == [p \in ValidPrices |-> Q * d(t)[p]]
           f == [p \in ValidPrices |-> qty * d(y)[p]]
<1> HIDE DEF t
<1>4. /\ Sum(d(t), ValidPrices) = Price(side, t) - c * qty /\ Price(side, t) \in Int
      /\ Sum(d(y), ValidPrices) = Price(side, y) - c * Q /\ Price(side, y) \in Int
  BY <1>2, <1>3, PriceLemma
<1> HIDE DEF Q
<1>5. ASSUME NEW p \in ValidPrices
      PROVE  /\ d(t)[p] \in Int /\ d(y)[p] \in Int
             /\ Q * d(t)[p] <= qty * d(y)[p]
  <2> DEFINE r == Rank(side, p) - c
  <2>1. /\ r \in Int /\ t[p] \in Nat /\ y[p] \in Nat /\ l[p] \in Nat
        /\ y[p] <= l[p]
    BY <1>2, RankLemma DEF Ladder
  <2>2. (r < 0 => t[p] = l[p]) /\ (r > 0 => t[p] = 0)
    BY <1>1, RankLemma
  <2>3. d(t)[p] = r * t[p] /\ d(y)[p] = r * y[p]
    OBVIOUS
  <2> HIDE DEF r, d
  <2>4. qty <= Q
    BY DEF Q
  <2>5. CASE r < 0
    <3>1. qty * y[p] <= Q * t[p]
      <4>1. qty * y[p] <= Q * y[p]
        BY <1>3, <2>1, <2>4
      <4>2. Q * y[p] <= Q * t[p]
        BY <1>3, <2>1, <2>2, <2>5
      <4> QED BY <1>3, <2>1, <4>1, <4>2
    <3>2. r * (Q * t[p]) <= r * (qty * y[p])
      <4> DEFINE a == Q * t[p]
                 b == qty * y[p]
      <4>1. a \in Int /\ b \in Int /\ b <= a
        BY <1>3, <2>1, <3>1
      <4> HIDE DEF a, b
      <4>2. r * a <= r * b
        BY <2>1, <2>5, <4>1
      <4> QED BY <4>2 DEF a, b
    <3>3. Q * (r * t[p]) = r * (Q * t[p]) /\ qty * (r * y[p]) = r * (qty * y[p])
      BY <1>3, <2>1
    <3> QED BY <2>1, <2>3, <3>2, <3>3
  <2>6. CASE r = 0
    BY <1>3, <2>1, <2>3, <2>6
  <2>7. CASE r > 0
    <3>1. r * t[p] = 0 /\ Q * (r * t[p]) = 0
      BY <1>3, <2>1, <2>2, <2>7
    <3>2. r * y[p] \in Nat
      BY <2>1, <2>7
    <3>3. qty * (r * y[p]) \in Nat
      BY <3>2
    <3> QED BY <2>1, <2>3, <3>1, <3>2, <3>3
  <2> QED BY <2>1, <2>5, <2>6, <2>7
<1>6. /\ Summable(d(t), ValidPrices) /\ Summable(d(y), ValidPrices)
      /\ Summable(e, ValidPrices) /\ Summable(f, ValidPrices)
  BY <1>3, <1>5, PricesAreFinite DEF Summable
<1>7. /\ \A p \in ValidPrices : e[p] = Q * d(t)[p]
      /\ \A p \in ValidPrices : f[p] = qty * d(y)[p]
      /\ \A p \in ValidPrices : e[p] <= f[p]
  BY <1>5
<1> DEFINE dt == d(t)
           dy == d(y)
<1> HIDE DEF dt, dy, e, f
<1>8. Sum(e, ValidPrices) = Q * Sum(dt, ValidPrices)
  BY <1>3, <1>6, <1>7, SumOfMultiples DEF dt
<1>9. Sum(f, ValidPrices) = qty * Sum(dy, ValidPrices)
  BY <1>3, <1>6, <1>7, SumOfMultiples DEF dy
<1>10. Sum(e, ValidPrices) <= Sum(f, ValidPrices)
  BY <1>6, <1>7, SumsCompare
<1> DEFINE pt == Price(side, t)
           py == Price(side, y)
<1>11. Q * (pt - c * qty) <= qty * (py - c * Q)
  BY <1>4, <1>8, <1>9, <1>10 DEF dt, dy
<1>12. pt \in Int /\ py \in Int
  BY <1>4
<1> HIDE DEF pt, py
<1>13. Q * pt - Q * (c * qty) <= qty * py - qty * (c * Q)
  BY <1>3, <1>11, <1>12
<1>14. pt * Q <= py * qty
  BY <1>3, <1>12, <1>13
<1> QED BY <1>14 DEF pt, py, t, Q

-----------------------------------------------------------------------------
(* What the operators on one ladder return *)

\* The venue showing other quantities leaves every sale accounted for.
LEMMA GrownLemma ==
    ASSUME NEW s \in Ladder, NEW t \in Ladder, NEW u \in Ladder,
           NEW l \in Ladder, NEW l2 \in Ladder,
           Accounted(s, t, u, l)
    PROVE  /\ Grown(u, l, l2) \in Ladder
           /\ Accounted(s, t, Grown(u, l, l2), l2)
BY DEF Ladder, Grown, Accounted

\* net() on the ledger forgets only what the venue no longer shows.
LEMMA NettedLemma ==
    ASSUME NEW s \in Ladder, NEW t \in Ladder, NEW u \in Ladder,
           NEW l \in Ladder,
           Accounted(s, t, u, l)
    PROVE  /\ Netted(l, t) \in Ladder
           /\ Accounted(s, Netted(l, t), u, l)
BY DEF Ladder, Netted, Accounted, Least

\* What net() shows the trader of a ladder.
LEMMA LeftLemma ==
    ASSUME NEW l \in Ladder, NEW t \in Ladder
    PROVE  /\ Left(l, t) \in Ladder
           /\ \A p \in ValidPrices : Left(l, t)[p] + Least(t[p], l[p]) = l[p]
BY DEF Ladder, Left, Least

-----------------------------------------------------------------------------
(* The walk of two ladders *)

\* A fill of the walk.
Fill == [ask : ValidPrices, bid : ValidPrices, take : Nat \ {0}]

\* A side has run out.
Empty(l) == Shown(l[1]) = {} \/ Shown(l[2]) = {}

\* What a fill leaves of the asks and the bids.
After(l) ==
    LET f == BestFill(l[1], l[2])
    IN  <<Less(l[1], f.ask, f.take), Less(l[2], f.bid, f.take)>>

\* Min and Max of numbers are among them.
LEMMA MinMaxLemma ==
    ASSUME NEW S \in SUBSET Nat, S # {}
    PROVE  /\ Min(S) \in S /\ \A n \in S : Min(S) <= n
           /\ IsFiniteSet(S) => Max(S) \in S /\ \A n \in S : n <= Max(S)
<1>1. \E x \in S : \A y \in S : x <= y
  BY LeastOf
<1>2. ASSUME IsFiniteSet(S) PROVE \E x \in S : \A y \in S : x >= y
  <2> DEFINE G == {T \in SUBSET S : T # {} => \E x \in T : \A y \in T : x >= y}
  <2>1. ASSUME NEW T \in SUBSET S, \A U \in SUBSET T : U # T => U \in G
        PROVE  T \in G
    <3> SUFFICES ASSUME NEW z \in T PROVE \E x \in T : \A y \in T : x >= y
      OBVIOUS
    <3>1. T \ {z} \in G
      BY <2>1
    <3>2. CASE T \ {z} = {}
      BY <3>2
    <3>3. CASE T \ {z} # {}
      <4>1. PICK x \in T \ {z} : \A y \in T \ {z} : x >= y
        BY <3>1, <3>3
      <4>2. x \in Nat /\ z \in Nat /\ T \in SUBSET Nat
        OBVIOUS
      <4>3. CASE x >= z
        BY <4>1, <4>2, <4>3
      <4>4. CASE z >= x
        <5>1. \A y \in T : z >= y
          BY <4>1, <4>2, <4>4
        <5> QED BY <5>1
      <4> QED BY <4>2, <4>3, <4>4
    <3> QED BY <3>2, <3>3
  <2> HIDE DEF G
  <2>2. S \in G
    BY <1>2, <2>1, SetInduction
  <2> QED BY <2>2 DEF G
<1> QED BY <1>1, <1>2 DEF Min, Max

\* The best fill is within both levels and empties one of them.
LEMMA BestFillLemma ==
    ASSUME NEW asks \in Ladder, NEW bids \in Ladder,
           Shown(asks) # {}, Shown(bids) # {}
    PROVE  LET f == BestFill(asks, bids)
           IN  /\ f \in Fill
               /\ f.take <= asks[f.ask] /\ f.take <= bids[f.bid]
               /\ f.take = asks[f.ask] \/ f.take = bids[f.bid]
<1> DEFINE ask == Min(Shown(asks))
           bid == Max(Shown(bids))
           take == Min({asks[ask], bids[bid]})
<1>1. Shown(asks) \in SUBSET Nat /\ Shown(bids) \in SUBSET Nat /\ IsFiniteSet(Shown(bids))
  BY PricesAreFinite, FS_Subset, ScaleAssumption DEF Shown, ValidPrices
<1>2. ask \in Shown(asks) /\ bid \in Shown(bids)
  BY <1>1, MinMaxLemma
<1> HIDE DEF ask, bid
<1>3. /\ ask \in ValidPrices /\ asks[ask] \in Nat \ {0}
      /\ bid \in ValidPrices /\ bids[bid] \in Nat \ {0}
  BY <1>2 DEF Shown, Ladder
<1>4. take \in {asks[ask], bids[bid]} /\ take <= asks[ask] /\ take <= bids[bid]
  <2> DEFINE two == {asks[ask], bids[bid]}
  <2>1. two \in SUBSET Nat /\ two # {} /\ asks[ask] \in two /\ bids[bid] \in two
    BY <1>3
  <2> HIDE DEF two
  <2>2. Min(two) \in two /\ \A n \in two : Min(two) <= n
    BY <2>1, MinMaxLemma
  <2> QED BY <2>1, <2>2 DEF two
<1> HIDE DEF take
<1>5. BestFill(asks, bids) = [ask |-> ask, bid |-> bid, take |-> take]
  BY DEF BestFill, ask, bid, take
<1> QED BY <1>3, <1>4, <1>5 DEF Fill

\* One more fill takes the whole of one of the two levels.
LEMMA AfterLemma ==
    ASSUME NEW l \in Ladder \X Ladder, ~ Empty(l)
    PROVE  /\ After(l) \in Ladder \X Ladder
           /\ Shown(After(l)[1]) \subseteq Shown(l[1])
           /\ Shown(After(l)[2]) \subseteq Shown(l[2])
           /\ Shown(After(l)[1]) # Shown(l[1]) \/ Shown(After(l)[2]) # Shown(l[2])
<1> DEFINE f == BestFill(l[1], l[2])
<1>1. l[1] \in Ladder /\ l[2] \in Ladder
  OBVIOUS
<1>2. /\ f \in Fill
      /\ f.take <= l[1][f.ask] /\ f.take <= l[2][f.bid]
      /\ f.take = l[1][f.ask] \/ f.take = l[2][f.bid]
  BY <1>1, BestFillLemma DEF Empty
<1> HIDE DEF f
<1>3. ASSUME NEW z \in Ladder, NEW p \in ValidPrices, NEW n \in Nat \ {0}, n <= z[p]
      PROVE  /\ Less(z, p, n) \in Ladder
             /\ Shown(Less(z, p, n)) \subseteq Shown(z)
             /\ n = z[p] => p \in Shown(z) /\ p \notin Shown(Less(z, p, n))
  BY <1>3 DEF Less, Ladder, Shown
<1>4. After(l) = <<Less(l[1], f.ask, f.take), Less(l[2], f.bid, f.take)>>
  BY DEF After, f
<1>5. f.ask \in ValidPrices /\ f.bid \in ValidPrices /\ f.take \in Nat \ {0}
  BY <1>2 DEF Fill
<1>6. /\ Less(l[1], f.ask, f.take) \in Ladder /\ Less(l[2], f.bid, f.take) \in Ladder
      /\ Shown(Less(l[1], f.ask, f.take)) \subseteq Shown(l[1])
      /\ Shown(Less(l[2], f.bid, f.take)) \subseteq Shown(l[2])
      /\ \/ Shown(Less(l[1], f.ask, f.take)) # Shown(l[1])
         \/ Shown(Less(l[2], f.bid, f.take)) # Shown(l[2])
  BY <1>1, <1>2, <1>3, <1>5
<1> QED BY <1>4, <1>6

\* The recursive function inside Walk.
IsWalk(fills) ==
    fills = [l \in Ladder \X Ladder |->
                IF Shown(l[1]) = {} \/ Shown(l[2]) = {} THEN <<>>
                ELSE LET f == BestFill(l[1], l[2])
                     IN  <<f>> \o fills[<<Less(l[1], f.ask, f.take),
                                          Less(l[2], f.bid, f.take)>>]]

Fills == CHOOSE fills : IsWalk(fills)

\* The levels that are left, of both ladders: at most all.
Levels == [l \in Ladder \X Ladder |-> Cardinality(Shown(l[1])) + Cardinality(Shown(l[2]))]

\* Every fill leaves fewer levels.
LEMMA LevelsLemma ==
    /\ 2 * Cardinality(ValidPrices) \in Nat
    /\ Levels \in [Ladder \X Ladder -> 0 .. 2 * Cardinality(ValidPrices)]
    /\ \A l \in Ladder \X Ladder : ~ Empty(l) => Levels[After(l)] < Levels[l]
<1>1. ASSUME NEW z
      PROVE  /\ IsFiniteSet(Shown(z)) /\ Cardinality(Shown(z)) \in Nat
             /\ Cardinality(Shown(z)) <= Cardinality(ValidPrices)
  <2>1. Shown(z) \in SUBSET ValidPrices
    BY DEF Shown
  <2> QED BY <2>1, PricesAreFinite, FS_Subset, FS_CardinalityType
<1>2. Cardinality(ValidPrices) \in Nat
  BY PricesAreFinite, FS_CardinalityType
<1>3. ASSUME NEW l \in Ladder \X Ladder, ~ Empty(l)
      PROVE  Levels[After(l)] < Levels[l]
  <2> DEFINE A == Shown(After(l)[1])
             B == Shown(After(l)[2])
             C == Shown(l[1])
             D == Shown(l[2])
  <2>1. /\ After(l) \in Ladder \X Ladder
        /\ A \subseteq C /\ B \subseteq D /\ (A # C \/ B # D)
    BY <1>3, AfterLemma
  <2>2. /\ Levels[After(l)] = Cardinality(A) + Cardinality(B)
        /\ Levels[l] = Cardinality(C) + Cardinality(D)
    BY <2>1 DEF Levels
  <2>3. /\ IsFiniteSet(C) /\ IsFiniteSet(D)
        /\ Cardinality(A) \in Nat /\ Cardinality(B) \in Nat
        /\ Cardinality(C) \in Nat /\ Cardinality(D) \in Nat
    BY <1>1
  <2> HIDE DEF A, B, C, D
  <2>4. /\ Cardinality(A) <= Cardinality(C) /\ (Cardinality(C) = Cardinality(A) => C = A)
        /\ Cardinality(B) <= Cardinality(D) /\ (Cardinality(D) = Cardinality(B) => D = B)
    BY <2>1, <2>3, FS_Subset
  <2> QED BY <2>1, <2>2, <2>3, <2>4
<1>4. ASSUME NEW l \in Ladder \X Ladder
      PROVE  Cardinality(Shown(l[1])) + Cardinality(Shown(l[2]))
                \in 0 .. 2 * Cardinality(ValidPrices)
  <2>1. /\ Cardinality(Shown(l[1])) \in Nat /\ Cardinality(Shown(l[2])) \in Nat
        /\ Cardinality(Shown(l[1])) <= Cardinality(ValidPrices)
        /\ Cardinality(Shown(l[2])) <= Cardinality(ValidPrices)
    BY <1>1
  <2> QED BY <1>2, <2>1
<1>5. Levels \in [Ladder \X Ladder -> 0 .. 2 * Cardinality(ValidPrices)]
  BY <1>4 DEF Levels
<1> QED BY <1>2, <1>3, <1>5

\* The walk of two ladders ends, for all ladders.
LEMMA FillsAreAWalk == IsWalk(Fills) /\ Fills \in [Ladder \X Ladder -> Seq(Fill)]
<1> DEFINE D == Ladder \X Ladder
           V == Seq(Fill)
           N == 2 * Cardinality(ValidPrices)
           stop == {l \in D : Empty(l)}
           next == [l \in D |-> IF Empty(l) THEN l ELSE After(l)]
           base == [l \in D |-> <<>>]
           step == [e \in D \X V |->
                       IF Empty(e[1]) THEN <<>>
                       ELSE <<BestFill(e[1][1], e[1][2])>> \o e[2]]
<1>1. next \in [D -> D] /\ base \in [D -> V] /\ stop \in SUBSET D
  <2>1. \A l \in D : ~ Empty(l) => After(l) \in D
    BY AfterLemma
  <2> QED BY <2>1
<1>2. step \in [D \X V -> V]
  <2>1. ASSUME NEW l \in D, ~ Empty(l) PROVE BestFill(l[1], l[2]) \in Fill
    <3>1. l[1] \in Ladder /\ l[2] \in Ladder
      OBVIOUS
    <3> QED BY <2>1, <3>1, BestFillLemma DEF Empty
  <2>2. ASSUME NEW e \in D \X V
        PROVE  (IF Empty(e[1]) THEN <<>>
                ELSE <<BestFill(e[1][1], e[1][2])>> \o e[2]) \in V
    <3>1. e[1] \in D /\ e[2] \in V
      OBVIOUS
    <3>2. ~ Empty(e[1]) => BestFill(e[1][1], e[1][2]) \in Fill
      BY <2>1, <3>1
    <3> QED BY <3>1, <3>2
  <2> QED BY <2>2
<1>3. IsDescent(D, N, Levels, stop, next)
  BY <1>1, LevelsLemma DEF IsDescent
<1>4. PICK f : IsRecursion(D, V, stop, next, base, step, f)
  <2> HIDE DEF D, V, stop, next, base, step, N
  <2> QED BY <1>1, <1>2, <1>3, RecursionExists
<1>5. f \in [D -> V]
  BY <1>4 DEF IsRecursion
<1>6. ASSUME NEW l \in D
      PROVE  f[l] = IF Empty(l) THEN <<>>
                    ELSE <<BestFill(l[1], l[2])>> \o f[After(l)]
  <2>1. f[l] = IF l \in stop THEN base[l] ELSE step[<<l, f[next[l]]>>]
    BY <1>4 DEF IsRecursion
  <2>2. CASE Empty(l)
    BY <2>1, <2>2
  <2>3. CASE ~ Empty(l)
    <3>1. next[l] = After(l) /\ After(l) \in D
      BY <2>3, AfterLemma
    <3>2. f[After(l)] \in V
      BY <1>5, <3>1
    <3>3. f[l] = step[<<l, f[After(l)]>>]
      BY <2>1, <2>3, <3>1
    <3> QED BY <2>3, <3>2, <3>3
  <2> QED BY <2>2, <2>3
<1>7. IsWalk(f)
  <2> HIDE DEF V
  <2> QED BY <1>5, <1>6 DEF IsWalk, Empty, After
<1>8. IsWalk(Fills)
  BY <1>7 DEF Fills
<1> DEFINE g == Fills
<1>9. ASSUME NEW l \in D
      PROVE  g[l] = IF Empty(l) THEN <<>>
                    ELSE <<BestFill(l[1], l[2])>> \o g[After(l)]
  <2> HIDE DEF g
  <2>1. IsWalk(g)
    BY <1>8 DEF g
  <2> QED BY <2>1 DEF IsWalk, Empty, After
<1>10. D \subseteq {l \in D : g[l] = f[l]}
  <2> DEFINE G == {l \in D : g[l] = f[l]}
  <2> HIDE DEF g
  <2>1. ASSUME NEW l \in D, \A m \in D : Levels[m] < Levels[l] => m \in G
        PROVE  l \in G
    <3>1. CASE Empty(l)
      BY <1>6, <1>9, <3>1
    <3>2. CASE ~ Empty(l)
      <4>1. After(l) \in D /\ Levels[After(l)] < Levels[l]
        BY <3>2, AfterLemma, LevelsLemma
      <4>2. g[After(l)] = f[After(l)]
        BY <2>1, <4>1
      <4>3. g[l] = f[l]
        BY <1>6, <1>9, <3>2, <4>2
      <4> QED BY <4>3
    <3> QED BY <3>1, <3>2
  <2>2. Levels \in [D -> Nat]
    BY LevelsLemma
  <2> HIDE DEF D, G
  <2>3. D \subseteq G
    BY <2>1, <2>2, Descent
  <2> QED BY <2>3 DEF G
<1>11. Fills = [l \in D |-> Fills[l]]
  BY <1>8 DEF IsWalk
<1> HIDE DEF V
<1>12. \A l \in D : Fills[l] \in V
  BY <1>5, <1>10
<1> QED BY <1>8, <1>11, <1>12 DEF V

\* The walk of two ladders, and of what its first fill leaves of them.
LEMMA WalkLemma ==
    ASSUME NEW asks \in Ladder, NEW bids \in Ladder
    PROVE  LET l == <<asks, bids>>
               f == BestFill(asks, bids)
           IN  /\ Walk(asks, bids) \in Seq(Fill)
               /\ Empty(l) => Walk(asks, bids) = <<>>
               /\ ~ Empty(l) =>
                     Walk(asks, bids) =
                        <<f>> \o Walk(Less(asks, f.ask, f.take), Less(bids, f.bid, f.take))
<1> DEFINE l == <<asks, bids>>
           F == Fills
<1>1. \A a, b : Walk(a, b) = F[<<a, b>>]
  BY DEF Walk, Fills, IsWalk
<1>2. l \in Ladder \X Ladder /\ l[1] = asks /\ l[2] = bids
  OBVIOUS
<1>3. IsWalk(F) /\ F \in [Ladder \X Ladder -> Seq(Fill)]
  BY FillsAreAWalk
<1> HIDE DEF F
<1>4. F[l] = IF Empty(l) THEN <<>> ELSE <<BestFill(asks, bids)>> \o F[After(l)]
  <2> HIDE DEF l
  <2>1. F[l] = IF Empty(l) THEN <<>> ELSE <<BestFill(l[1], l[2])>> \o F[After(l)]
    BY <1>2, <1>3 DEF IsWalk, Empty, After
  <2> QED BY <1>2, <2>1
<1>5. After(l) = LET f == BestFill(asks, bids)
                 IN  <<Less(asks, f.ask, f.take), Less(bids, f.bid, f.take)>>
  BY DEF After
<1> HIDE DEF l
<1> QED BY <1>1, <1>2, <1>3, <1>4, <1>5 DEF l

\* A level gains a quantity.
LEMMA GainLemma ==
    ASSUME NEW z \in Ladder, NEW side \in Sides, NEW p \in ValidPrices, NEW k \in Nat
    PROVE  LET y == [z EXCEPT ![p] = @ + k]
           IN  /\ y \in Ladder
               /\ Sum(y, ValidPrices) = Sum(z, ValidPrices) + k
               /\ Price(side, y) = Price(side, z) + Rank(side, p) * k
<1> DEFINE y == [z EXCEPT ![p] = @ + k]
           cost(x) == [q \in ValidPrices |-> PaidAt[side][q] * x[q]]
<1>1. y \in Ladder /\ y[p] = z[p] + k /\ \A q \in ValidPrices \ {p} : y[q] = z[q]
  BY DEF Ladder
<1>2. z[p] \in Nat
  BY DEF Ladder
<1> HIDE DEF y
<1>3. Sum(y, ValidPrices) = Sum(z, ValidPrices) + k
  <2>1. Summable(z, ValidPrices) /\ Sum(z, ValidPrices) \in Nat
    BY UnitsLemma
  <2>2. y[p] \in Int
    BY <1>1, <1>2
  <2>3. Sum(y, ValidPrices) = Sum(z, ValidPrices) + (y[p] - z[p])
    BY <1>1, <2>1, <2>2, SumOfChange
  <2> QED BY <1>1, <1>2, <2>1, <2>3
<1>4. \A q \in ValidPrices : PaidAt[side][q] = Rank(side, q) /\ Rank(side, q) \in Int
  BY RankLemma
<1>5. \A x : Price(side, x) = Sum(cost(x), ValidPrices)
  BY DEF Price, SumFunction, Sum
<1>6. Price(side, y) = Price(side, z) + Rank(side, p) * k
  <2> DEFINE f == cost(z)
             g == cost(y)
             r == Rank(side, p)
  <2>1. /\ f[p] = r * z[p] /\ g[p] = r * (z[p] + k) /\ r \in Int
        /\ \A q \in ValidPrices \ {p} : g[q] = f[q]
    BY <1>1, <1>4
  <2>2. Summable(f, ValidPrices)
    <3>1. \A q \in ValidPrices : z[q] \in Int
      BY DEF Ladder
    <3>2. \A q \in ValidPrices : f[q] \in Int
      BY <1>4, <3>1
    <3> QED BY <3>2, PricesAreFinite DEF Summable
  <2>3. Price(side, z) = Sum(f, ValidPrices) /\ Price(side, y) = Sum(g, ValidPrices)
    BY <1>1, <1>5
  <2> HIDE DEF f, g, r
  <2>4. g[p] \in Int /\ g[p] - f[p] = r * k
    BY <1>2, <2>1
  <2>5. Sum(g, ValidPrices) = Sum(f, ValidPrices) + (g[p] - f[p])
    BY <2>1, <2>2, <2>4, SumOfChange
  <2> QED BY <2>3, <2>4, <2>5 DEF r
<1> QED BY <1>1, <1>3, <1>6 DEF y

\* What the fills of a walk take and pay.
TakesOf(w) == [i \in DOMAIN w |-> w[i].take]
AskCosts(w) == [i \in DOMAIN w |-> w[i].ask * w[i].take]
BidCosts(w) == [i \in DOMAIN w |-> (TicksPerDollar - w[i].bid) * w[i].take]

\* The levels that the first n fills of a walk take.
Takes(w, n, y, z) ==
    /\ Sum(y, ValidPrices) = Sum(TakesOf(w), 1 .. n)
    /\ Sum(z, ValidPrices) = Sum(TakesOf(w), 1 .. n)
    /\ Price("ask", y) = Sum(AskCosts(w), 1 .. n)
    /\ Price("bid", z) = Sum(BidCosts(w), 1 .. n)

Within(y, l) == \A p \in ValidPrices : y[p] <= l[p]

\* Every prefix of the walk takes sub-ladders y and z of the two ladders.
WalkIsSound(asks, bids) ==
    LET w == Walk(asks, bids)
    IN  /\ \A i \in 1 .. Len(w) : /\ w[i].take <= asks[w[i].ask]
                                  /\ w[i].take <= bids[w[i].bid]
        /\ \A n \in 0 .. Len(w) : \E y, z \in Ladder :
              Within(y, asks) /\ Within(z, bids) /\ Takes(w, n, y, z)

\* Before the first fill nothing is taken.
LEMMA TakesNothing ==
    ASSUME NEW w \in Seq(Fill)
    PROVE  NoLevels \in Ladder /\ Takes(w, 0, NoLevels, NoLevels)
<1>1. NoLevels \in Ladder /\ \A p \in ValidPrices : NoLevels[p] = 0 * NoLevels[p]
  BY DEF NoLevels, Ladder
<1>2. Sum(NoLevels, ValidPrices) = 0 * Sum(NoLevels, ValidPrices)
  BY <1>1, UnitsLemma, SumOfMultiples
<1>3. Sum(NoLevels, ValidPrices) = 0
  BY <1>1, <1>2, UnitsLemma
<1>4. ASSUME NEW side \in Sides PROVE Price(side, NoLevels) = 0
  <2> DEFINE cost == [p \in ValidPrices |-> PaidAt[side][p] * NoLevels[p]]
  <2>1. \A p \in ValidPrices : cost[p] = 0 * NoLevels[p]
    BY RankLemma DEF NoLevels
  <2>2. Price(side, NoLevels) = Sum(cost, ValidPrices)
    BY DEF Price, SumFunction, Sum
  <2> HIDE DEF cost
  <2>3. Sum(cost, ValidPrices) = 0 * Sum(NoLevels, ValidPrices)
    BY <1>1, <2>1, UnitsLemma, SumOfMultiples
  <2> QED BY <1>3, <2>2, <2>3
<1>5. 1 .. 0 = {}
  OBVIOUS
<1>6. ASSUME NEW g PROVE Sum(g, 1 .. 0) = 0
  <2>1. Summable(g, {})
    BY FS_EmptySet DEF Summable
  <2> QED BY <1>5, <2>1, SumType
<1>7. "ask" \in Sides /\ "bid" \in Sides
  BY DEF Sides
<1> QED BY <1>1, <1>3, <1>4, <1>6, <1>7 DEF Takes

\* A fill before the others.
LEMMA TakesOneMore ==
    ASSUME NEW f \in Fill, NEW v \in Seq(Fill), NEW n \in 1 .. Len(v) + 1,
           NEW y \in Ladder, NEW z \in Ladder, Takes(v, n - 1, y, z)
    PROVE  Takes(<<f>> \o v, n, [y EXCEPT ![f.ask] = @ + f.take],
                                [z EXCEPT ![f.bid] = @ + f.take])
<1> DEFINE w == <<f>> \o v
           m == n - 1
<1>1. m \in Nat /\ n = m + 1 /\ Len(v) \in Nat
  OBVIOUS
<1>2. /\ DOMAIN w = 1 .. Len(v) + 1 /\ DOMAIN v = 1 .. Len(v)
      /\ w[1] = f /\ \A i \in 1 .. Len(v) : w[i + 1] = v[i]
      /\ \A i \in 1 .. Len(v) + 1 : w[i] \in Fill
  OBVIOUS
<1>3. \A i \in 1 .. m : i \in 1 .. Len(v) /\ i + 1 \in 1 .. Len(v) + 1
  OBVIOUS
<1>4. 1 \in 1 .. Len(v) + 1 /\ \A i \in 1 .. m + 1 : i \in 1 .. Len(v) + 1
  OBVIOUS
<1>5. \A g \in Fill : g.ask \in Nat /\ g.take \in Nat /\ TicksPerDollar - g.bid \in Nat
  BY ScaleAssumption DEF Fill, ValidPrices
<1> HIDE DEF w, m
<1>6. Sum(TakesOf(w), 1 .. n) = f.take + Sum(TakesOf(v), 1 .. m)
  <2>1. \A i \in 1 .. m + 1 : TakesOf(w)[i] \in Int
    BY <1>2, <1>4, <1>5 DEF TakesOf
  <2>2. \A i \in 1 .. m : TakesOf(v)[i] = TakesOf(w)[i + 1]
    BY <1>2, <1>3 DEF TakesOf
  <2>3. TakesOf(w)[1] = f.take
    BY <1>2, <1>4 DEF TakesOf
  <2> QED BY <1>1, <2>1, <2>2, <2>3, SumAfterFirst
<1>7. Sum(AskCosts(w), 1 .. n) = f.ask * f.take + Sum(AskCosts(v), 1 .. m)
  <2>1. \A i \in 1 .. m + 1 : AskCosts(w)[i] \in Int
    BY <1>2, <1>4, <1>5 DEF AskCosts
  <2>2. \A i \in 1 .. m : AskCosts(v)[i] = AskCosts(w)[i + 1]
    BY <1>2, <1>3 DEF AskCosts
  <2>3. AskCosts(w)[1] = f.ask * f.take
    BY <1>2, <1>4 DEF AskCosts
  <2> QED BY <1>1, <2>1, <2>2, <2>3, SumAfterFirst
<1>8. Sum(BidCosts(w), 1 .. n) = (TicksPerDollar - f.bid) * f.take + Sum(BidCosts(v), 1 .. m)
  <2>1. \A i \in 1 .. m + 1 : BidCosts(w)[i] \in Int
    BY <1>2, <1>4, <1>5 DEF BidCosts
  <2>2. \A i \in 1 .. m : BidCosts(v)[i] = BidCosts(w)[i + 1]
    BY <1>2, <1>3 DEF BidCosts
  <2>3. BidCosts(w)[1] = (TicksPerDollar - f.bid) * f.take
    BY <1>2, <1>4 DEF BidCosts
  <2> QED BY <1>1, <2>1, <2>2, <2>3, SumAfterFirst
<1> DEFINE yy == [y EXCEPT ![f.ask] = @ + f.take]
           zz == [z EXCEPT ![f.bid] = @ + f.take]
<1>9. f.ask \in ValidPrices /\ f.bid \in ValidPrices /\ f.take \in Nat
  BY DEF Fill
<1>10. "ask" \in Sides /\ "bid" \in Sides
  BY DEF Sides
<1>11. /\ Sum(yy, ValidPrices) = Sum(y, ValidPrices) + f.take
       /\ Price("ask", yy) = Price("ask", y) + f.ask * f.take
  BY <1>9, <1>10, GainLemma DEF Rank
<1>12. /\ Sum(zz, ValidPrices) = Sum(z, ValidPrices) + f.take
       /\ Price("bid", zz) = Price("bid", z) + (TicksPerDollar - f.bid) * f.take
  BY <1>9, <1>10, GainLemma DEF Rank
<1>13. /\ Price("ask", y) \in Int /\ Price("bid", z) \in Int
       /\ Sum(y, ValidPrices) \in Nat /\ Sum(z, ValidPrices) \in Nat
  BY <1>10, PriceType, UnitsLemma
<1>14. f.ask * f.take \in Int /\ (TicksPerDollar - f.bid) * f.take \in Int
  BY <1>5
<1> HIDE DEF yy, zz
<1>15. Takes(w, n, yy, zz)
  BY <1>6, <1>7, <1>8, <1>9, <1>11, <1>12, <1>13, <1>14 DEF Takes, m
<1> QED BY <1>15 DEF w, yy, zz

\* What fits after a fill fits before it together with the fill.
LEMMA GainFits ==
    ASSUME NEW l \in Ladder, NEW p \in ValidPrices, NEW k \in Nat, k <= l[p],
           NEW z \in Ladder, Within(z, Less(l, p, k))
    PROVE  [z EXCEPT ![p] = @ + k] \in Ladder /\ Within([z EXCEPT ![p] = @ + k], l)
<1> DEFINE y == [z EXCEPT ![p] = @ + k]
<1>1. ASSUME NEW q \in ValidPrices PROVE y[q] \in Nat /\ y[q] <= l[q]
  <2>1. l[q] \in Nat /\ z[q] \in Nat
    BY DEF Ladder
  <2>2. z[q] <= IF q = p THEN l[q] - k ELSE l[q]
    BY DEF Within, Less, Ladder
  <2>3. y[q] = IF q = p THEN z[q] + k ELSE z[q]
    BY DEF Ladder
  <2> QED BY <2>1, <2>2, <2>3
<1>2. y = [q \in ValidPrices |-> y[q]]
  BY DEF Ladder
<1> HIDE DEF y
<1>3. y \in Ladder /\ Within(y, l)
  BY <1>1, <1>2 DEF Ladder, Within
<1> QED BY <1>3 DEF y

\* A walk is its first fill and the walk of what that leaves.
LEMMA FirstFillIsSound ==
    ASSUME NEW asks \in Ladder, NEW bids \in Ladder,
           Shown(asks) # {}, Shown(bids) # {},
           LET f == BestFill(asks, bids)
           IN  WalkIsSound(Less(asks, f.ask, f.take), Less(bids, f.bid, f.take))
    PROVE  WalkIsSound(asks, bids)
<1> DEFINE f == BestFill(asks, bids)
           a == Less(asks, f.ask, f.take)
           b == Less(bids, f.bid, f.take)
           w == Walk(asks, bids)
           v == Walk(a, b)
<1>1. f \in Fill /\ f.take <= asks[f.ask] /\ f.take <= bids[f.bid]
  BY BestFillLemma
<1>2. a \in Ladder /\ b \in Ladder
  <2>1. <<asks, bids>> \in Ladder \X Ladder /\ ~ Empty(<<asks, bids>>)
    BY DEF Empty
  <2>2. After(<<asks, bids>>) \in Ladder \X Ladder
    BY <2>1, AfterLemma
  <2>3. After(<<asks, bids>>) = <<a, b>>
    BY DEF After
  <2> HIDE DEF a, b
  <2> QED BY <2>2, <2>3
<1>3. w = <<f>> \o v /\ v \in Seq(Fill) /\ w \in Seq(Fill)
  <2>1. ~ Empty(<<asks, bids>>)
    BY DEF Empty
  <2>2. w = <<f>> \o v
    BY <2>1, WalkLemma
  <2> HIDE DEF a, b, f
  <2>3. v \in Seq(Fill) /\ w \in Seq(Fill)
    BY <1>2, WalkLemma
  <2> QED BY <2>2, <2>3
<1> HIDE DEF f
<1>4. f.ask \in ValidPrices /\ f.bid \in ValidPrices /\ f.take \in Nat
  BY <1>1 DEF Fill
<1>5. /\ \A p \in ValidPrices : asks[p] \in Nat /\ bids[p] \in Nat
      /\ \A p \in ValidPrices : a[p] = IF p = f.ask THEN asks[p] - f.take ELSE asks[p]
      /\ \A p \in ValidPrices : b[p] = IF p = f.bid THEN bids[p] - f.take ELSE bids[p]
  BY DEF Less, Ladder
<1>6. WalkIsSound(a, b)
  BY DEF f
<1> HIDE DEF a, b, w, v
<1>7. /\ Len(v) \in Nat /\ Len(w) = Len(v) + 1
      /\ w[1] = f /\ \A i \in 2 .. Len(v) + 1 : w[i] = v[i - 1] /\ i - 1 \in 1 .. Len(v)
      /\ \A i \in 1 .. Len(v) : v[i] \in Fill
  BY <1>3
<1>8. ASSUME NEW i \in 1 .. Len(w)
      PROVE  w[i].take <= asks[w[i].ask] /\ w[i].take <= bids[w[i].bid]
  <2>1. CASE i = 1
    BY <1>1, <1>7, <2>1
  <2>2. CASE i # 1
    <3> DEFINE g == v[i - 1]
    <3>1. w[i] = g /\ i - 1 \in 1 .. Len(v) /\ g \in Fill
      BY <1>7, <2>2
    <3>2. g.take <= a[g.ask] /\ g.take <= b[g.bid]
      BY <1>6, <3>1 DEF WalkIsSound, v
    <3> HIDE DEF g
    <3>3. g.ask \in ValidPrices /\ g.bid \in ValidPrices /\ g.take \in Nat
      BY <3>1 DEF Fill
    <3>4. /\ asks[g.ask] \in Nat /\ bids[g.bid] \in Nat
          /\ a[g.ask] = IF g.ask = f.ask THEN asks[g.ask] - f.take ELSE asks[g.ask]
          /\ b[g.bid] = IF g.bid = f.bid THEN bids[g.bid] - f.take ELSE bids[g.bid]
      BY <1>5, <3>3
    <3>5. a[g.ask] <= asks[g.ask] /\ b[g.bid] <= bids[g.bid]
          /\ a[g.ask] \in Int /\ b[g.bid] \in Int
      BY <1>4, <3>4
    <3>6. g.take <= asks[g.ask] /\ g.take <= bids[g.bid]
      BY <3>2, <3>3, <3>4, <3>5
    <3> QED BY <3>1, <3>6
  <2> QED BY <2>1, <2>2
<1>9. ASSUME NEW n \in 0 .. Len(w)
      PROVE  \E y, z \in Ladder : Within(y, asks) /\ Within(z, bids) /\ Takes(w, n, y, z)
  <2>1. CASE n = 0
    <3>1. NoLevels \in Ladder /\ Takes(w, 0, NoLevels, NoLevels)
      BY <1>3, TakesNothing
    <3>2. Within(NoLevels, asks) /\ Within(NoLevels, bids)
      BY <1>5 DEF Within, NoLevels
    <3> QED BY <2>1, <3>1, <3>2
  <2>2. CASE n # 0
    <3>1. n \in 1 .. Len(v) + 1 /\ n - 1 \in 0 .. Len(v)
      BY <1>7, <2>2
    <3>2. PICK y \in Ladder, z \in Ladder :
             Within(y, a) /\ Within(z, b) /\ Takes(v, n - 1, y, z)
      BY <1>6, <3>1 DEF WalkIsSound, v
    <3> DEFINE yy == [y EXCEPT ![f.ask] = @ + f.take]
               zz == [z EXCEPT ![f.bid] = @ + f.take]
    <3>3. Takes(w, n, yy, zz)
      BY <1>1, <1>3, <3>1, <3>2, TakesOneMore
    <3>4. yy \in Ladder /\ Within(yy, asks)
      BY <1>1, <1>4, <3>2, GainFits DEF a
    <3>5. zz \in Ladder /\ Within(zz, bids)
      BY <1>1, <1>4, <3>2, GainFits DEF b
    <3> HIDE DEF yy, zz
    <3> QED BY <3>3, <3>4, <3>5
  <2> QED BY <2>1, <2>2
<1> QED BY <1>8, <1>9 DEF WalkIsSound, w

\* Every walk is sound, by induction on the levels left.
LEMMA WalksAreSound ==
    ASSUME NEW asks \in Ladder, NEW bids \in Ladder
    PROVE  WalkIsSound(asks, bids)
<1> DEFINE D == Ladder \X Ladder
           G == {l \in D : WalkIsSound(l[1], l[2])}
<1>1. ASSUME NEW l \in D, \A m \in D : Levels[m] < Levels[l] => m \in G
      PROVE  l \in G
  <2>1. l[1] \in Ladder /\ l[2] \in Ladder /\ l = <<l[1], l[2]>>
    OBVIOUS
  <2>2. CASE Empty(l)
    <3>1. Walk(l[1], l[2]) = <<>>
      BY <2>1, <2>2, WalkLemma
    <3>2. \A n \in 0 .. Len(<<>>) : n = 0
      OBVIOUS
    <3>3. NoLevels \in Ladder /\ Takes(<<>>, 0, NoLevels, NoLevels)
      <4>1. <<>> \in Seq(Fill)
        OBVIOUS
      <4> QED BY <4>1, TakesNothing
    <3>4. Within(NoLevels, l[1]) /\ Within(NoLevels, l[2])
      BY <2>1 DEF Within, NoLevels, Ladder
    <3>5. WalkIsSound(l[1], l[2])
      BY <3>1, <3>2, <3>3, <3>4 DEF WalkIsSound
    <3> QED BY <3>5
  <2>3. CASE ~ Empty(l)
    <3>1. After(l) \in D /\ Levels[After(l)] < Levels[l]
      BY <2>3, AfterLemma, LevelsLemma
    <3>2. WalkIsSound(After(l)[1], After(l)[2])
      BY <1>1, <3>1
    <3>3. LET f == BestFill(l[1], l[2])
          IN  WalkIsSound(Less(l[1], f.ask, f.take), Less(l[2], f.bid, f.take))
      BY <3>2 DEF After
    <3>4. WalkIsSound(l[1], l[2])
      BY <2>1, <2>3, <3>3, FirstFillIsSound DEF Empty
    <3> QED BY <3>4
  <2> QED BY <2>2, <2>3
<1>2. Levels \in [D -> Nat]
  BY LevelsLemma
<1>3. D \subseteq G
  <2> HIDE DEF D, G
  <2> QED BY <1>1, <1>2, Descent
<1>4. <<asks, bids>> \in G
  BY <1>3
<1> QED BY <1>4

\* What the fees of a market's levels are known to be.
NoRebates(m, l) == \A p \in ValidPrices : \A k \in 1 .. l[p] : Fee(m, k, p) \in Nat

\* The fills that are kept are the first of the walk.
LEMMA KeptLemma ==
    ASSUME NEW w \in Seq(Fill), NEW a, NEW b
    PROVE  \E n \in 0 .. Len(w) : Kept(w, a, b) = SubSeq(w, 1, n)
<1> DEFINE bad == {i \in DOMAIN w : ~ Covers(w[i], a, b)}
<1>1. w = SubSeq(w, 1, Len(w)) /\ Len(w) \in 0 .. Len(w) /\ DOMAIN w = 1 .. Len(w)
  OBVIOUS
<1>2. CASE bad = {}
  BY <1>1, <1>2 DEF Kept
<1>3. CASE bad # {}
  <2>1. bad \in SUBSET Nat
    BY <1>1
  <2>2. Min(bad) \in bad
    <3> HIDE DEF bad
    <3> QED BY <1>3, <2>1, MinMaxLemma
  <2>3. Min(bad) \in 1 .. Len(w)
    BY <1>1, <2>2
  <2>4. Min(bad) - 1 \in 0 .. Len(w)
    BY <2>3
  <2>5. Kept(w, a, b) = SubSeq(w, 1, Min(bad) - 1)
    BY <1>3 DEF Kept
  <2> HIDE DEF bad
  <2> QED BY <2>4, <2>5
<1> QED BY <1>2, <1>3

\* What a quote promises: what it says of the size and the costs is true of
\* levels that the ladders show, and the fees come out of the profit.
THEOREM QuotesAreOfTheLevels ==
    ASSUME NEW asks \in Ladder, NEW bids \in Ladder, NEW a, NEW b,
           NoRebates(a, asks), NoRebates(b, bids)
    PROVE  LET q == ComputeDirection(asks, a, bids, b)
           IN  /\ q.fee_ticks \in Nat
               /\ q.net_tq = TicksPerDollar * q.qty - q.cost_a_tq - q.cost_b_tq
                                - q.fee_ticks * QtyPerContract
               /\ \E y, z \in Ladder :
                     /\ Within(y, asks) /\ Within(z, bids)
                     /\ q.qty = Sum(y, ValidPrices) /\ q.qty = Sum(z, ValidPrices)
                     /\ q.cost_a_tq = Price("ask", y) /\ q.cost_b_tq = Price("bid", z)
<1> DEFINE w == Walk(asks, bids)
           q == ComputeDirection(asks, a, bids, b)
<1>1. w \in Seq(Fill) /\ WalkIsSound(asks, bids)
  BY WalkLemma, WalksAreSound
<1>2. PICK n \in 0 .. Len(w) : Kept(w, a, b) = SubSeq(w, 1, n)
  <2> HIDE DEF w
  <2> QED BY <1>1, KeptLemma
<1> DEFINE v == SubSeq(w, 1, n)
           S == 1 .. n
           gross == [i \in S |-> (w[i].bid - w[i].ask) * w[i].take]
           fees == [i \in S |-> FillFees(w[i], a, b)]
<1>3. /\ q.qty = SumOver(v, LAMBDA f : f.take)
      /\ q.cost_a_tq = SumOver(v, LAMBDA f : f.ask * f.take)
      /\ q.cost_b_tq = SumOver(v, LAMBDA f : (TicksPerDollar - f.bid) * f.take)
      /\ q.fee_ticks = SumOver(v, LAMBDA f : FillFees(f, a, b))
      /\ q.net_tq = SumOver(v, LAMBDA f : (f.bid - f.ask) * f.take)
                       - q.fee_ticks * QtyPerContract
  BY <1>2 DEF ComputeDirection
<1>4. DOMAIN v = S /\ DOMAIN w = 1 .. Len(w) /\ S \subseteq DOMAIN w
      /\ \A i \in S : v[i] = w[i] /\ w[i] \in Fill
  <2> HIDE DEF w
  <2> QED BY <1>1
<1> HIDE DEF w, v, q
<1>5. /\ SumOver(v, LAMBDA f : f.take) = Sum([i \in S |-> w[i].take], S)
      /\ SumOver(v, LAMBDA f : f.ask * f.take) = Sum([i \in S |-> w[i].ask * w[i].take], S)
      /\ SumOver(v, LAMBDA f : (TicksPerDollar - f.bid) * f.take)
            = Sum([i \in S |-> (TicksPerDollar - w[i].bid) * w[i].take], S)
      /\ SumOver(v, LAMBDA f : (f.bid - f.ask) * f.take) = Sum(gross, S)
      /\ SumOver(v, LAMBDA f : FillFees(f, a, b)) = Sum(fees, S)
  <2>1. /\ [i \in DOMAIN v |-> v[i].take] = [i \in S |-> w[i].take]
        /\ [i \in DOMAIN v |-> v[i].ask * v[i].take] = [i \in S |-> w[i].ask * w[i].take]
        /\ [i \in DOMAIN v |-> (TicksPerDollar - v[i].bid) * v[i].take]
              = [i \in S |-> (TicksPerDollar - w[i].bid) * w[i].take]
        /\ [i \in DOMAIN v |-> (v[i].bid - v[i].ask) * v[i].take] = gross
        /\ [i \in DOMAIN v |-> FillFees(v[i], a, b)] = fees
    BY <1>4
  <2> QED BY <2>1 DEF SumOver, SumFunction, Sum
<1> DEFINE take == [i \in S |-> w[i].take]
           ac == [i \in S |-> w[i].ask * w[i].take]
           bc == [i \in S |-> (TicksPerDollar - w[i].bid) * w[i].take]
<1>6. \A f \in Fill : f.take \in Nat /\ f.ask \in Nat /\ f.bid \in Nat /\ TicksPerDollar \in Nat
                      /\ f.ask \in ValidPrices /\ f.bid \in ValidPrices
  BY ScaleAssumption DEF Fill, ValidPrices
<1>7. IsFiniteSet(S)
  BY FS_Interval
<1>8. /\ Summable(take, S) /\ Summable(ac, S) /\ Summable(bc, S) /\ Summable(gross, S)
      /\ Summable(TakesOf(w), S) /\ Summable(AskCosts(w), S) /\ Summable(BidCosts(w), S)
  <2>1. \A i \in S : /\ take[i] \in Int /\ ac[i] \in Int /\ bc[i] \in Int /\ gross[i] \in Int
                     /\ TakesOf(w)[i] = take[i] /\ AskCosts(w)[i] = ac[i]
                     /\ BidCosts(w)[i] = bc[i]
    BY <1>4, <1>6 DEF TakesOf, AskCosts, BidCosts
  <2> HIDE DEF take, ac, bc, gross
  <2> QED BY <1>7, <2>1 DEF Summable
<1>9. /\ Sum(take, S) = Sum(TakesOf(w), S) /\ Sum(ac, S) = Sum(AskCosts(w), S)
      /\ Sum(bc, S) = Sum(BidCosts(w), S)
  <2>1. /\ \A i \in S : take[i] = TakesOf(w)[i]
        /\ \A i \in S : ac[i] = AskCosts(w)[i]
        /\ \A i \in S : bc[i] = BidCosts(w)[i]
    BY <1>4 DEF TakesOf, AskCosts, BidCosts
  <2> HIDE DEF take, ac, bc
  <2> QED BY <1>8, <2>1, SumsAgree
<1>10. Sum(gross, S) = TicksPerDollar * Sum(take, S) - Sum(ac, S) - Sum(bc, S)
  <2> DEFINE part == [i \in S |-> gross[i] + ac[i]]
             whole == [i \in S |-> TicksPerDollar * take[i]]
  <2>1. \A i \in S : /\ part[i] = gross[i] + ac[i]
                     /\ whole[i] = part[i] + bc[i]
                     /\ whole[i] = TicksPerDollar * take[i] /\ part[i] \in Int
    <3> SUFFICES ASSUME NEW i \in S
                 PROVE  /\ gross[i] + ac[i] \in Int
                        /\ TicksPerDollar * take[i] = (gross[i] + ac[i]) + bc[i]
      OBVIOUS
    <3> DEFINE k == w[i].take
               x == w[i].ask
               y == w[i].bid
    <3>1. k \in Int /\ x \in Int /\ y \in Int /\ TicksPerDollar \in Int
      BY <1>4, <1>6
    <3>2. take[i] = k /\ ac[i] = x * k /\ bc[i] = (TicksPerDollar - y) * k
          /\ gross[i] = (y - x) * k
      OBVIOUS
    <3> HIDE DEF k, x, y, take, ac, bc, gross
    <3> QED BY <3>1, <3>2
  <2>2. Summable(part, S)
    BY <1>7, <2>1 DEF Summable
  <2> HIDE DEF take, ac, bc, gross, part, whole
  <2>3. Sum(part, S) = Sum(gross, S) + Sum(ac, S)
    BY <1>8, <2>1, SumOfSums
  <2>4. Sum(whole, S) = Sum(part, S) + Sum(bc, S)
    BY <1>8, <2>1, <2>2, SumOfSums
  <2>5. Sum(whole, S) = TicksPerDollar * Sum(take, S)
    <3>1. TicksPerDollar \in Int
      BY ScaleAssumption
    <3> QED BY <1>8, <2>1, <3>1, SumOfMultiples
  <2>6. /\ Sum(gross, S) \in Int /\ Sum(ac, S) \in Int /\ Sum(bc, S) \in Int
    BY <1>8, SumType
  <2> DEFINE all == TicksPerDollar * Sum(take, S)
  <2>7. all = Sum(gross, S) + Sum(ac, S) + Sum(bc, S)
    BY <2>3, <2>4, <2>5
  <2> HIDE DEF all
  <2>8. Sum(gross, S) = all - Sum(ac, S) - Sum(bc, S)
    BY <2>6, <2>7
  <2> QED BY <2>8 DEF all
<1>11. Sum(fees, S) \in Nat
  <2>1. ASSUME NEW i \in S PROVE fees[i] \in Nat
    <3>1. /\ w[i] \in Fill /\ w[i].take \in 1 .. asks[w[i].ask]
          /\ w[i].take \in 1 .. bids[w[i].bid]
      <4>1. w[i].take <= asks[w[i].ask] /\ w[i].take <= bids[w[i].bid]
        BY <1>1, <1>4 DEF WalkIsSound, w
      <4>2. w[i] \in Fill /\ w[i].take \in Nat \ {0}
        BY <1>4 DEF Fill
      <4>3. asks[w[i].ask] \in Nat /\ bids[w[i].bid] \in Nat
        BY <4>2, <1>6 DEF Ladder
      <4> QED BY <4>1, <4>2, <4>3
    <3>2. Fee(a, w[i].take, w[i].ask) \in Nat /\ Fee(b, w[i].take, w[i].bid) \in Nat
      BY <1>6, <3>1 DEF NoRebates
    <3> QED BY <3>2 DEF FillFees
  <2> HIDE DEF fees
  <2> QED BY <1>7, <2>1, SumOfPart
<1>12. PICK y \in Ladder, z \in Ladder :
          Within(y, asks) /\ Within(z, bids) /\ Takes(w, n, y, z)
  BY <1>1 DEF WalkIsSound, w
<1>13. /\ q.qty = Sum(take, S) /\ q.cost_a_tq = Sum(ac, S) /\ q.cost_b_tq = Sum(bc, S)
       /\ q.fee_ticks = Sum(fees, S)
       /\ q.net_tq = Sum(gross, S) - q.fee_ticks * QtyPerContract
  BY <1>3, <1>5
<1> HIDE DEF take, ac, bc, gross, fees
<1>14. q.fee_ticks \in Nat
  BY <1>11, <1>13
<1>15. q.net_tq = TicksPerDollar * q.qty - q.cost_a_tq - q.cost_b_tq
                     - q.fee_ticks * QtyPerContract
  BY <1>10, <1>13
<1>16. /\ q.qty = Sum(y, ValidPrices) /\ q.qty = Sum(z, ValidPrices)
       /\ q.cost_a_tq = Price("ask", y) /\ q.cost_b_tq = Price("bid", z)
  BY <1>9, <1>12, <1>13 DEF Takes
<1> QED BY <1>12, <1>14, <1>15, <1>16 DEF q

-----------------------------------------------------------------------------
(* The size and the price of a trade *)

\* Division, rounded down and up.
LEMMA DivLemma ==
    ASSUME NEW n \in Int, NEW d \in Nat \ {0}
    PROVE  /\ n \div d \in Int
           /\ (n \div d) * d <= n
           /\ n < (n \div d + 1) * d
OBVIOUS

LEMMA CeilDivLemma ==
    ASSUME NEW n \in Int, NEW d \in Nat \ {0}
    PROVE  /\ CeilDiv(n, d) \in Int
           /\ n <= CeilDiv(n, d) * d
           /\ (CeilDiv(n, d) - 1) * d < n
<1> DEFINE k == (-n) \div d
<1>1. k \in Int /\ k * d <= -n /\ -n < (k + 1) * d
  BY DivLemma
<1>2. CeilDiv(n, d) = -k
  BY DEF CeilDiv
<1> HIDE DEF k
<1> QED BY <1>1, <1>2

\* Products compare as their factors do.
LEMMA Cancel ==
    ASSUME NEW a \in Int, NEW b \in Int, NEW d \in Nat \ {0}
    PROVE  /\ a * d <= b * d => a <= b
           /\ a * d < b * d => a < b
OBVIOUS

LEMMA Product ==
    ASSUME NEW a \in Nat \ {0}, NEW b \in Nat \ {0}
    PROVE  a * b \in Nat \ {0}
OBVIOUS

\* A quote, as far as its size and costs go.
SoundQuote(q) ==
    /\ q.qty \in Nat /\ q.cost_a_tq \in Int /\ q.cost_b_tq \in Int
    /\ q.fee_ticks \in Nat
    /\ q.net_tq = TicksPerDollar * q.qty - CostTq(q) - q.fee_ticks * QtyPerContract

\* What the size of a fill is sure to be.
LEMMA FillSizeLemma ==
    ASSUME NEW r \in Pairs, positions[r].qty \in Nat, notional \in Int,
           limits \in LimitChoices,
           NEW q, SoundQuote(q), NEW qty \in 1 .. q.qty, qty = FillSize(r, q)
    PROVE  /\ positions[r].qty + qty <= limits.max_qty
           /\ limits.max_notional - notional \in Nat \ {0}
           /\ CostTq(q) \in Nat \ {0}
           /\ qty <= Affordable(q, limits.max_notional - notional)
<1> DEFINE roomPair == limits.max_qty - positions[r].qty
           room == limits.max_notional - notional
           A == Affordable(q, room)
           three == {q.qty, roomPair, A}
<1>1. limits.max_qty \in Nat /\ limits.max_notional \in Nat /\ roomPair \in Int /\ room \in Int
  BY PaperAssumption
<1>2. CostTq(q) \in Int /\ q.qty \in Nat \ {0}
  BY DEF SoundQuote, CostTq
<1>3. /\ ~ (roomPair <= 0) /\ ~ (room <= 0) /\ ~ (CostTq(q) <= 0)
      /\ qty = Min(three)
  BY DEF FillSize
<1>4. CostTq(q) \in Nat \ {0} /\ room \in Nat \ {0} /\ roomPair \in Nat
  BY <1>1, <1>2, <1>3
<1>5. A \in Nat
  <2> DEFINE n == room * QtyPerContract * q.qty
  <2>1. n \in Nat
    BY <1>2, <1>4, ScaleAssumption
  <2>2. A = n \div CostTq(q)
    BY DEF Affordable
  <2> HIDE DEF n, A
  <2>3. n \div CostTq(q) \in Nat
    BY <1>4, <2>1
  <2> QED BY <2>2, <2>3
<1> HIDE DEF A
<1>6. three \in SUBSET Nat /\ three # {} /\ roomPair \in three /\ A \in three
  BY <1>2, <1>4, <1>5
<1>7. Min(three) <= roomPair /\ Min(three) <= A
  <2> HIDE DEF three
  <2> QED BY <1>6, MinMaxLemma
<1>8. qty <= roomPair /\ qty <= A
  BY <1>3, <1>7
<1>9. positions[r].qty + qty <= limits.max_qty
  BY <1>1, <1>8
<1> QED BY <1>4, <1>8, <1>9 DEF A

\* A trade costs something, and no more than the budget has room for.
LEMMA CostLemma ==
    ASSUME NEW q, SoundQuote(q), NEW qty \in 1 .. q.qty, CostTq(q) \in Nat \ {0},
           NEW room \in Nat, qty <= Affordable(q, room)
    PROVE  /\ TradeCost(q, qty) \in Nat \ {0}
           /\ TradeCost(q, qty) <= room
<1> DEFINE C == CostTq(q)
           d == QtyPerContract * q.qty
           n == C * qty
           A == Affordable(q, room)
           m == room * QtyPerContract * q.qty
           cost == TradeCost(q, qty)
<1>1. q.qty \in Nat \ {0} /\ QtyPerContract \in Nat \ {0} /\ qty \in Nat \ {0}
  BY ScaleAssumption DEF SoundQuote
<1>2. d \in Nat \ {0} /\ n \in Nat \ {0} /\ m = room * d
  BY <1>1, Product
<1>3. A = m \div C /\ cost = CeilDiv(n, d)
  BY DEF Affordable, TradeCost
<1> HIDE DEF C, d, n, A, cost, m
<1>4. m \in Int /\ C \in Nat \ {0} /\ qty <= A
  BY <1>2 DEF C, A
<1>5. A * C <= m /\ A \in Int
  BY <1>3, <1>4, DivLemma
<1>6. cost \in Int /\ n <= cost * d /\ (cost - 1) * d < n
  BY <1>2, <1>3, CeilDivLemma
<1>7. n <= A * C
  <2>1. n = qty * C
    BY <1>1, <1>4 DEF n, C
  <2> QED BY <1>1, <1>4, <1>5, <2>1
<1>8. (cost - 1) * d < room * d
  <2>1. n <= m
    BY <1>2, <1>4, <1>5, <1>7
  <2>2. (cost - 1) * d \in Int
    BY <1>2, <1>6
  <2> QED BY <1>2, <1>4, <1>6, <2>1, <2>2
<1>9. cost - 1 < room
  BY <1>2, <1>6, <1>8, Cancel
<1>10. 0 * d < cost * d
  BY <1>2, <1>6
<1>11. 0 < cost
  BY <1>2, <1>6, <1>10, Cancel
<1>12. cost \in Nat \ {0} /\ cost <= room
  BY <1>6, <1>9, <1>11
<1> QED BY <1>12 DEF cost

\* A trade is charged no less than the levels that it takes, and is credited
\* no more than they leave of the dollar.
LEMMA ShareLemma ==
    ASSUME NEW q, SoundQuote(q), NEW qty \in 1 .. q.qty,
           NEW pa \in Int, NEW pb \in Int,
           pa * q.qty <= q.cost_a_tq * qty, pb * q.qty <= q.cost_b_tq * qty
    PROVE  /\ TradeCost(q, qty) \in Int /\ TradeFee(q, qty) \in Int
           /\ TradeNet(q, qty) \in Int
           /\ pa + pb <= TradeCost(q, qty) * QtyPerContract
           /\ TradeNet(q, qty) * QtyPerContract <= TicksPerDollar * qty - (pa + pb)
<1> DEFINE Q == q.qty
           K == QtyPerContract
           C == CostTq(q)
           d == K * Q
           cost == TradeCost(q, qty)
           net == TradeNet(q, qty)
           T == TicksPerDollar
           F == q.fee_ticks
           N == q.net_tq
<1>1. /\ Q \in Nat \ {0} /\ K \in Nat \ {0} /\ qty \in Nat \ {0} /\ d \in Nat \ {0}
      /\ C \in Int /\ T \in Nat /\ F \in Nat /\ N = T * Q - C - F * K
      /\ q.cost_a_tq \in Int /\ q.cost_b_tq \in Int /\ C = q.cost_a_tq + q.cost_b_tq
  BY ScaleAssumption, Product DEF SoundQuote, CostTq
<1>2. /\ cost = CeilDiv(C * qty, d) /\ net = (N * qty) \div d
      /\ TradeFee(q, qty) = CeilDiv(F * qty, Q)
  BY DEF TradeCost, TradeFee, TradeNet
<1>3. (pa + pb) * Q <= C * qty
  <2>1. (pa + pb) * Q = pa * Q + pb * Q /\ C * qty = q.cost_a_tq * qty + q.cost_b_tq * qty
    BY <1>1
  <2>2. /\ pa * Q \in Int /\ pb * Q \in Int
        /\ q.cost_a_tq * qty \in Int /\ q.cost_b_tq * qty \in Int
    BY <1>1
  <2> QED BY <2>1, <2>2
<1> HIDE DEF Q, K, C, d, cost, net, T, F, N
<1>4. TradeFee(q, qty) \in Int
  BY <1>1, <1>2, CeilDivLemma
<1>5. cost \in Int /\ C * qty <= cost * d
  BY <1>1, <1>2, CeilDivLemma
<1>6. N \in Int /\ net \in Int /\ net * d <= N * qty
  <2>1. N \in Int
    BY <1>1
  <2> QED BY <1>1, <1>2, <2>1, DivLemma
<1>7. cost * d = (cost * K) * Q /\ net * d = (net * K) * Q
  BY <1>1, <1>5, <1>6 DEF d
<1>8. pa + pb <= cost * K
  <2>1. (pa + pb) * Q <= (cost * K) * Q
    BY <1>1, <1>3, <1>5, <1>7
  <2>2. cost * K \in Int /\ pa + pb \in Int
    BY <1>1, <1>5
  <2> QED BY <1>1, <2>1, <2>2, Cancel
<1>9. N * qty <= (T * qty - (pa + pb)) * Q
  <2>1. N * qty = (T * qty) * Q - C * qty - (F * K) * qty
    BY <1>1
  <2>2. (F * K) * qty \in Nat /\ (T * qty) * Q \in Int /\ C * qty \in Int
    BY <1>1
  <2>3. (T * qty - (pa + pb)) * Q = (T * qty) * Q - (pa + pb) * Q
    BY <1>1
  <2>4. (pa + pb) * Q \in Int
    BY <1>1
  <2> QED BY <1>3, <2>1, <2>2, <2>3, <2>4
<1>10. net * K <= T * qty - (pa + pb)
  <2>1. net * K \in Int /\ T * qty - (pa + pb) \in Int
    BY <1>1, <1>6
  <2>2. (net * K) * Q <= (T * qty - (pa + pb)) * Q
    <3>1. (net * K) * Q \in Int /\ N * qty \in Int /\ (T * qty - (pa + pb)) * Q \in Int
      BY <1>1, <1>6, <2>1
    <3> QED BY <1>6, <1>7, <1>9, <3>1
  <2> QED BY <1>1, <2>1, <2>2, Cancel
<1> QED BY <1>4, <1>5, <1>6, <1>8, <1>10 DEF cost, net, K, T

-----------------------------------------------------------------------------
\* A fill sized off the netted ladder, recorded both as sold and as taken.
LEMMA FillLemma ==
    ASSUME NEW s \in Ladder, NEW t \in Ladder, NEW u \in Ladder,
           NEW l \in Ladder, NEW x \in Ladder,
           Accounted(s, t, u, l),
           \A p \in ValidPrices : x[p] <= Left(l, t)[p]
    PROVE  /\ Plus(s, x) \in Ladder
           /\ Plus(Netted(l, t), x) \in Ladder
           /\ Accounted(Plus(s, x), Plus(Netted(l, t), x), u, l)
<1>1. Netted(l, t) \in Ladder
  BY NettedLemma
<1>2. Plus(s, x) \in Ladder /\ Plus(Netted(l, t), x) \in Ladder
  BY <1>1 DEF Plus, Ladder
<1>3. ASSUME NEW p \in ValidPrices
      PROVE  /\ Plus(s, x)[p] <= u[p]
             /\ Plus(s, x)[p] + l[p] <= u[p] + Plus(Netted(l, t), x)[p]
  <2>1. /\ s[p] \in Nat /\ t[p] \in Nat /\ u[p] \in Nat /\ l[p] \in Nat
        /\ x[p] \in Nat
    BY DEF Ladder
  <2>2. /\ s[p] <= u[p]
        /\ s[p] + l[p] <= u[p] + t[p]
        /\ x[p] <= l[p] - Least(t[p], l[p])
    BY DEF Accounted, Left
  <2>3. s[p] + x[p] <= u[p]
    BY <2>1, <2>2 DEF Least
  <2>4. s[p] + l[p] <= u[p] + Netted(l, t)[p] /\ Netted(l, t)[p] \in Nat
    BY NettedLemma, <1>1 DEF Accounted, Ladder
  <2>5. /\ Plus(s, x)[p] = s[p] + x[p]
        /\ Plus(Netted(l, t), x)[p] = Netted(l, t)[p] + x[p]
    BY DEF Plus
  <2> QED BY <2>1, <2>3, <2>4, <2>5
<1> QED BY <1>2, <1>3 DEF Accounted

-----------------------------------------------------------------------------
(* The invariant *)

\* Before the first trade the ledger and the sales are empty.
LEMMA PaperInitInv == PaperInit => PaperIInv
<1> SUFFICES ASSUME PaperInit PROVE PaperIInv
  OBVIOUS
<1>1. NoLevels \in Ladder /\ \A p \in ValidPrices : NoLevels[p] = 0
  BY DEF NoLevels, Ladder
<1>2. truth \in PerLevel
  BY PaperAssumption DEF PaperInit, PerLevel
<1>3. LevelTypes
  BY <1>1, <1>2 DEF PaperInit, LevelTypes, NoSize, PerLevel
<1>4. ASSUME NEW m \in Markets, NEW l \in Ladder
      PROVE  Accounted(NoLevels, NoLevels, l, l)
  BY <1>1, <1>4 DEF Accounted, Ladder
<1>5. LedgerIsSound
  BY <1>2, <1>4 DEF PaperInit, LedgerIsSound, NoSize, PerLevel
<1> QED BY <1>3, <1>5 DEF PaperIInv

\* The venue's ladders move, and the supply with them.
LEMMA VenueMovesInv ==
    ASSUME PaperIInv, NEW m \in Markets, VenueMoves(m)
    PROVE  PaperIInv'
<1> PICK l \in VenueLadders[m] :
       /\ truth' = [truth EXCEPT ![m] = l]
       /\ supply' = [supply EXCEPT
             ![m] = [bids |-> Grown(@.bids, truth[m].bids, l.bids),
                     asks |-> Grown(@.asks, truth[m].asks, l.asks)]]
  BY DEF VenueMoves
<1>1. taken' = taken /\ sold' = sold
  BY DEF VenueMoves, tradeVars
<1>2. l \in [bids : Ladder, asks : Ladder]
  BY PaperAssumption
<1>3. /\ truth[m] \in [bids : Ladder, asks : Ladder]
      /\ taken[m] \in [bids : Ladder, asks : Ladder]
      /\ supply[m] \in [bids : Ladder, asks : Ladder]
      /\ sold[m] \in [bids : Ladder, asks : Ladder]
  BY DEF PaperIInv, LevelTypes, PerLevel
<1>4. /\ Accounted(sold[m].bids, taken[m].bids, supply[m].bids, truth[m].bids)
      /\ Accounted(sold[m].asks, taken[m].asks, supply[m].asks, truth[m].asks)
  BY DEF PaperIInv, LedgerIsSound
<1> DEFINE gb == Grown(supply[m].bids, truth[m].bids, l.bids)
           ga == Grown(supply[m].asks, truth[m].asks, l.asks)
<1>5. /\ gb \in Ladder
      /\ Accounted(sold[m].bids, taken[m].bids, gb, l.bids)
  BY <1>2, <1>3, <1>4, GrownLemma
<1>6. /\ ga \in Ladder
      /\ Accounted(sold[m].asks, taken[m].asks, ga, l.asks)
  BY <1>2, <1>3, <1>4, GrownLemma
<1>7. LevelTypes'
  BY <1>1, <1>2, <1>5, <1>6 DEF PaperIInv, LevelTypes, PerLevel
<1>8. /\ truth'[m] = l
      /\ supply'[m] = [bids |-> gb, asks |-> ga]
      /\ \A n \in Markets \ {m} : truth'[n] = truth[n] /\ supply'[n] = supply[n]
  BY DEF PaperIInv, LevelTypes, PerLevel
<1> HIDE DEF ga, gb
<1>9. LedgerIsSound'
  BY <1>1, <1>5, <1>6, <1>8 DEF PaperIInv, LedgerIsSound
<1> QED BY <1>7, <1>9 DEF PaperIInv

\* What netting one pair's books does to the ledger: nothing to the others'.
LEMMA NettingLemma ==
    ASSUME PaperIInv, NEW r \in Pairs
    PROVE  /\ Netting(r) \in PerLevel
           /\ \A m \in Markets :
                 /\ Accounted(sold[m].bids, Netting(r)[m].bids,
                              supply[m].bids, truth[m].bids)
                 /\ Accounted(sold[m].asks, Netting(r)[m].asks,
                              supply[m].asks, truth[m].asks)
<1> SUFFICES ASSUME NEW m \in Markets
             PROVE  /\ Netting(r)[m] \in [bids : Ladder, asks : Ladder]
                    /\ Accounted(sold[m].bids, Netting(r)[m].bids,
                                 supply[m].bids, truth[m].bids)
                    /\ Accounted(sold[m].asks, Netting(r)[m].asks,
                                 supply[m].asks, truth[m].asks)
  BY DEF Netting, PerLevel
<1>1. /\ truth[m] \in [bids : Ladder, asks : Ladder]
      /\ taken[m] \in [bids : Ladder, asks : Ladder]
      /\ supply[m] \in [bids : Ladder, asks : Ladder]
      /\ sold[m] \in [bids : Ladder, asks : Ladder]
  BY DEF PaperIInv, LevelTypes, PerLevel
<1>2. /\ Accounted(sold[m].bids, taken[m].bids, supply[m].bids, truth[m].bids)
      /\ Accounted(sold[m].asks, taken[m].asks, supply[m].asks, truth[m].asks)
  BY DEF PaperIInv, LedgerIsSound
<1>3. CASE m \in {KalshiOf[r], PolyOf[r]}
  <2>1. Netting(r)[m] = [bids |-> Netted(truth[m].bids, taken[m].bids),
                         asks |-> Netted(truth[m].asks, taken[m].asks)]
    BY <1>3 DEF Netting, NettedBook
  <2>2. /\ Netted(truth[m].bids, taken[m].bids) \in Ladder
        /\ Accounted(sold[m].bids, Netted(truth[m].bids, taken[m].bids),
                     supply[m].bids, truth[m].bids)
    BY <1>1, <1>2, NettedLemma
  <2>3. /\ Netted(truth[m].asks, taken[m].asks) \in Ladder
        /\ Accounted(sold[m].asks, Netted(truth[m].asks, taken[m].asks),
                     supply[m].asks, truth[m].asks)
    BY <1>1, <1>2, NettedLemma
  <2> QED BY <2>1, <2>2, <2>3
<1>4. CASE m \notin {KalshiOf[r], PolyOf[r]}
  BY <1>1, <1>2, <1>4 DEF Netting
<1> QED BY <1>3, <1>4

\* A fill lifts the asks of one market of the pair and hits the bids of the
\* other: the sales and the ledger grow by the same, level by level.
LEMMA FillKeepsLedger ==
    ASSUME PaperIInv, NEW r \in Pairs,
           NEW lift \in {KalshiOf[r], PolyOf[r]},
           NEW hit \in {KalshiOf[r], PolyOf[r]},
           lift # hit,
           NEW qty \in Nat,
           taken' = WithFill(Netting(r), lift, hit, qty),
           sold' = WithFill(sold, lift, hit, qty),
           UNCHANGED <<truth, supply>>
    PROVE  PaperIInv'
<1> DEFINE N == Netting(r)
           x == TakenBy(Shows(lift).asks, "ask", qty)
           y == TakenBy(Shows(hit).bids, "bid", qty)
<1>1. lift \in Markets /\ hit \in Markets
  BY PaperAssumption
<1>2. /\ N \in PerLevel
      /\ sold \in PerLevel /\ supply \in PerLevel
      /\ truth \in PerLevel /\ taken \in PerLevel
  BY NettingLemma DEF PaperIInv, LevelTypes
<1>3. /\ N[lift].asks = Netted(truth[lift].asks, taken[lift].asks)
      /\ N[hit].bids = Netted(truth[hit].bids, taken[hit].bids)
  BY <1>1 DEF Netting, NettedBook
<1>4. /\ truth[lift].asks \in Ladder /\ taken[lift].asks \in Ladder
      /\ sold[lift].asks \in Ladder /\ supply[lift].asks \in Ladder
      /\ truth[hit].bids \in Ladder /\ taken[hit].bids \in Ladder
      /\ sold[hit].bids \in Ladder /\ supply[hit].bids \in Ladder
  BY <1>1, <1>2 DEF PerLevel
<1>5. /\ Shows(lift).asks = Left(truth[lift].asks, taken[lift].asks)
      /\ Shows(hit).bids = Left(truth[hit].bids, taken[hit].bids)
  BY DEF Shows, LeftOf
<1>6. /\ x \in Ladder
      /\ \A p \in ValidPrices :
            x[p] <= Left(truth[lift].asks, taken[lift].asks)[p]
  BY <1>4, <1>5, LeftLemma, TakenByLemma DEF Sides
<1>7. /\ y \in Ladder
      /\ \A p \in ValidPrices :
            y[p] <= Left(truth[hit].bids, taken[hit].bids)[p]
  BY <1>4, <1>5, LeftLemma, TakenByLemma DEF Sides
<1> HIDE DEF x, y, N
<1>8. /\ Plus(sold[lift].asks, x) \in Ladder
      /\ Plus(N[lift].asks, x) \in Ladder
      /\ Accounted(Plus(sold[lift].asks, x), Plus(N[lift].asks, x),
                   supply[lift].asks, truth[lift].asks)
  BY <1>1, <1>3, <1>4, <1>6, FillLemma DEF PaperIInv, LedgerIsSound
<1>9. /\ Plus(sold[hit].bids, y) \in Ladder
      /\ Plus(N[hit].bids, y) \in Ladder
      /\ Accounted(Plus(sold[hit].bids, y), Plus(N[hit].bids, y),
                   supply[hit].bids, truth[hit].bids)
  BY <1>1, <1>3, <1>4, <1>7, FillLemma DEF PaperIInv, LedgerIsSound
\* Each of the two markets is changed on one side.
<1>10. /\ taken' = [m \in Markets |->
                     [bids |-> IF m = hit THEN Plus(N[m].bids, y) ELSE N[m].bids,
                      asks |-> IF m = lift THEN Plus(N[m].asks, x) ELSE N[m].asks]]
       /\ sold' = [m \in Markets |->
                     [bids |-> IF m = hit THEN Plus(sold[m].bids, y)
                                          ELSE sold[m].bids,
                      asks |-> IF m = lift THEN Plus(sold[m].asks, x)
                                           ELSE sold[m].asks]]
  BY DEF WithFill, x, y, N
<1>11. LevelTypes'
  BY <1>2, <1>8, <1>9, <1>10 DEF LevelTypes, PerLevel
<1>12. ASSUME NEW m \in Markets
       PROVE  /\ Accounted(sold'[m].bids, taken'[m].bids,
                           supply[m].bids, truth[m].bids)
              /\ Accounted(sold'[m].asks, taken'[m].asks,
                           supply[m].asks, truth[m].asks)
  BY <1>8, <1>9, <1>10, NettingLemma DEF N
<1> QED BY <1>11, <1>12 DEF PaperIInv, LedgerIsSound

\* A trade keeps the ledger, whether it fills or only nets.
LEMMA TradePairInv ==
    ASSUME PaperIInv, NEW r \in Pairs, TradePair(r)
    PROVE  PaperIInv'
<1>1. UNCHANGED <<truth, supply>>
  BY DEF TradePair, venueVars
<1>2. CASE taken' = Netting(r) /\ sold' = sold
  <2>1. LevelTypes'
    BY <1>1, <1>2, NettingLemma DEF PaperIInv, LevelTypes
  <2>2. LedgerIsSound'
    BY <1>1, <1>2, NettingLemma DEF LedgerIsSound
  <2> QED BY <2>1, <2>2 DEF PaperIInv
<1>3. ASSUME NEW qty \in 1 .. Best(r).quote.qty,
             taken' = WithFill(Netting(r), Best(r).lift, Best(r).hit, qty),
             sold' = WithFill(sold, Best(r).lift, Best(r).hit, qty)
      PROVE  PaperIInv'
  <2>1. qty \in Nat
    OBVIOUS
  <2>2. /\ Best(r).lift \in {KalshiOf[r], PolyOf[r]}
        /\ Best(r).hit \in {KalshiOf[r], PolyOf[r]}
        /\ Best(r).lift # Best(r).hit
    BY PaperAssumption DEF Best
  <2> QED BY <1>1, <1>3, <2>1, <2>2, FillKeepsLedger
<1> QED BY <1>2, <1>3 DEF TradePair

\* Every step keeps the ledger.
LEMMA PaperNextInv == PaperIInv /\ [PaperNext]_paperVars => PaperIInv'
<1> SUFFICES ASSUME PaperIInv, [PaperNext]_paperVars PROVE PaperIInv'
  OBVIOUS
\* The steps that touch no ladder and no ledger.
<1>1. ASSUME UNCHANGED <<truth, taken, supply, sold>>
      PROVE  PaperIInv'
  BY <1>1 DEF PaperIInv, LevelTypes, LedgerIsSound
<1>2. ASSUME NEW m \in Markets, VenueMoves(m) PROVE PaperIInv'
  BY <1>2, VenueMovesInv
<1>3. ASSUME NEW m \in Markets, NEW s \in {"ok", "invalid", "missing"},
             BookChanges(m, s)
      PROVE  PaperIInv'
  BY <1>1, <1>3 DEF BookChanges, tradeVars
<1>4. ASSUME NEW new \in LimitChoices, SetLimits(new) PROVE PaperIInv'
  BY <1>1, <1>4 DEF SetLimits, tradeVars, venueVars
<1>5. ASSUME NEW on \in BOOLEAN, SetSuspended(on) PROVE PaperIInv'
  BY <1>1, <1>5 DEF SetSuspended, tradeVars, venueVars
<1>6. ASSUME NEW r \in Pairs, TradePair(r) PROVE PaperIInv'
  BY <1>6, TradePairInv
<1>7. CASE UNCHANGED paperVars
  BY <1>1, <1>7 DEF paperVars, tradeVars, venueVars
<1> QED BY <1>2, <1>3, <1>4, <1>5, <1>6, <1>7 DEF PaperNext

\* The ledger accounts for every unit sold that a venue still shows.
THEOREM LedgerInvariant == PaperSpec => []PaperIInv
BY PaperInitInv, PaperNextInv, PTL DEF PaperSpec

\* No level is ever sold beyond the size the venue showed there, by any
\* number of pairs and trades.
THEOREM NoLevelIsOversold == PaperSpec => []NoPhantomFills
<1>1. PaperIInv => NoPhantomFills
  BY DEF PaperIInv, LedgerIsSound, Accounted, NoPhantomFills
<1> QED BY <1>1, LedgerInvariant, PTL

-----------------------------------------------------------------------------
(* What a trade takes, and what it is charged *)

\* Adding to a ladder adds to its units and to their price.
LEMMA PlusLemma ==
    ASSUME NEW f \in Ladder, NEW x \in Ladder, NEW side \in Sides
    PROVE  /\ Plus(f, x) \in Ladder
           /\ SumFunction(Plus(f, x)) = SumFunction(f) + Sum(x, ValidPrices)
           /\ SumFunction(f) \in Nat
           /\ Price(side, Plus(f, x)) = Price(side, f) + Price(side, x)
           /\ Price(side, f) \in Int
<1> DEFINE g == Plus(f, x)
           paid(z) == [p \in ValidPrices |-> PaidAt[side][p] * z[p]]
<1>1. /\ g \in Ladder /\ \A p \in ValidPrices : g[p] = f[p] + x[p]
      /\ DOMAIN g = ValidPrices /\ DOMAIN f = ValidPrices
      /\ \A p \in ValidPrices : f[p] \in Nat /\ x[p] \in Nat
  BY DEF Plus, Ladder
<1>2. \A p \in ValidPrices : PaidAt[side][p] \in Int
  BY RankLemma
<1> HIDE DEF g
<1>3. /\ SumFunction(g) = Sum(g, ValidPrices) /\ SumFunction(f) = Sum(f, ValidPrices)
      /\ Price(side, g) = Sum(paid(g), ValidPrices)
      /\ Price(side, f) = Sum(paid(f), ValidPrices)
      /\ Price(side, x) = Sum(paid(x), ValidPrices)
  BY <1>1 DEF Price, SumFunction, Sum
<1>4. /\ Summable(f, ValidPrices) /\ Summable(x, ValidPrices)
      /\ Sum(f, ValidPrices) \in Nat
  BY UnitsLemma
<1>5. Sum(g, ValidPrices) = Sum(f, ValidPrices) + Sum(x, ValidPrices)
  BY <1>1, <1>4, SumOfSums
<1>6. /\ \A p \in ValidPrices : paid(f)[p] \in Int /\ paid(x)[p] \in Int
      /\ \A p \in ValidPrices : paid(g)[p] = paid(f)[p] + paid(x)[p]
  <2> SUFFICES ASSUME NEW p \in ValidPrices
               PROVE  /\ paid(f)[p] \in Int /\ paid(x)[p] \in Int
                      /\ paid(g)[p] = paid(f)[p] + paid(x)[p]
    OBVIOUS
  <2> DEFINE c == PaidAt[side][p]
  <2>1. paid(f)[p] = c * f[p] /\ paid(x)[p] = c * x[p] /\ paid(g)[p] = c * (f[p] + x[p])
    BY <1>1
  <2>2. c \in Int /\ f[p] \in Int /\ x[p] \in Int
    BY <1>1, <1>2
  <2> HIDE DEF c, paid
  <2> QED BY <2>1, <2>2
<1> DEFINE pf == paid(f)
           px == paid(x)
           pg == paid(g)
<1>7. /\ \A p \in ValidPrices : pf[p] \in Int /\ px[p] \in Int
      /\ \A p \in ValidPrices : pg[p] = pf[p] + px[p]
  BY <1>6
<1> HIDE DEF pf, px, pg
<1>8. Summable(pf, ValidPrices) /\ Summable(px, ValidPrices)
  BY <1>7, PricesAreFinite DEF Summable
<1>9. Sum(pg, ValidPrices) = Sum(pf, ValidPrices) + Sum(px, ValidPrices)
  BY <1>7, <1>8, SumOfSums
<1>10. Price(side, f) \in Int
  BY PriceType
<1> QED BY <1>1, <1>3, <1>4, <1>5, <1>9, <1>10 DEF g, pf, px, pg

\* A table of which one entry grows by d.
Grows(S, f, g, y, d) ==
    /\ f \in [S -> Int] /\ g \in [S -> Int]
    /\ y \in S /\ d \in Int /\ g[y] = f[y] + d
    /\ \A x \in S \ {y} : g[x] = f[x]

\* The total grows with it.
LEMMA TotalGrows ==
    ASSUME NEW S, IsFiniteSet(S), NEW f, NEW g, NEW y, NEW d, Grows(S, f, g, y, d)
    PROVE  /\ SumFunction(f) \in Int
           /\ SumFunction(g) = SumFunction(f) + d
<1>1. /\ Summable(f, S) /\ y \in S /\ g[y] \in Int /\ f[y] \in Int
      /\ d \in Int /\ g[y] = f[y] + d /\ \A x \in S \ {y} : g[x] = f[x]
      /\ DOMAIN f = S /\ DOMAIN g = S
  BY DEF Summable, Grows
<1>2. Sum(g, S) = Sum(f, S) + (g[y] - f[y])
  BY <1>1, SumOfChange
<1>3. Sum(f, S) \in Int
  BY <1>1, SumType
<1>4. SumFunction(f) = Sum(f, S) /\ SumFunction(g) = Sum(g, S)
  BY <1>1 DEF SumFunction, Sum
<1> QED BY <1>1, <1>2, <1>3, <1>4

\* Nothing that the trader is shown carries a rebate.
LEMMA ShownLemma ==
    ASSUME PaperTypeOK, NEW m \in Markets
    PROVE  /\ Shows(m).asks \in Ladder /\ NoRebates(m, Shows(m).asks)
           /\ Shows(m).bids \in Ladder /\ NoRebates(m, Shows(m).bids)
<1> DEFINE l == truth[m]
           t == taken[m]
<1>1. /\ l \in VenueLadders[m]
      /\ l.asks \in Ladder /\ l.bids \in Ladder
      /\ t.asks \in Ladder /\ t.bids \in Ladder
  BY DEF PaperTypeOK, PerLevel
<1>2. Shows(m).asks = Left(l.asks, t.asks) /\ Shows(m).bids = Left(l.bids, t.bids)
  BY DEF Shows, LeftOf
<1> HIDE DEF l, t
<1>3. ASSUME NEW p \in ValidPrices
      PROVE  /\ l.asks[p] \in Nat /\ l.bids[p] \in Nat
             /\ Left(l.asks, t.asks)[p] <= l.asks[p]
             /\ Left(l.bids, t.bids)[p] <= l.bids[p]
             /\ Left(l.asks, t.asks)[p] \in Nat /\ Left(l.bids, t.bids)[p] \in Nat
  BY <1>1, <1>3 DEF Left, Least, Ladder
<1>4. ASSUME NEW p \in ValidPrices, NEW k \in Nat \ {0},
             k <= l.asks[p] \/ k <= l.bids[p]
      PROVE  Fee(m, k, p) \in Nat
  <2> DEFINE both == {l.bids[p], l.asks[p]}
  <2>1. l.bids[p] \in Nat /\ l.asks[p] \in Nat
    BY <1>3
  <2>2. \E x \in both : \A y \in both : x >= y
    BY <2>1
  <2>3. Max(both) \in both /\ \A y \in both : Max(both) >= y
    BY <2>2 DEF Max
  <2>4. k \in 1 .. Max(both)
    BY <1>4, <2>1, <2>3
  <2> QED BY <1>1, <2>4, FeeAssumption
<1>5. Left(l.asks, t.asks) \in Ladder /\ Left(l.bids, t.bids) \in Ladder
  BY <1>1, LeftLemma
<1>6. NoRebates(m, Left(l.asks, t.asks)) /\ NoRebates(m, Left(l.bids, t.bids))
  BY <1>3, <1>4 DEF NoRebates
<1> QED BY <1>2, <1>5, <1>6

\* The better direction is one of the two quotes of what the trader is shown.
LEMMA BestLemma ==
    ASSUME NEW r \in Pairs
    PROVE  LET best == Best(r)
           IN  /\ best.lift \in {KalshiOf[r], PolyOf[r]}
               /\ best.hit \in {KalshiOf[r], PolyOf[r]}
               /\ best.lift # best.hit
               /\ best.lift \in Markets /\ best.hit \in Markets
               /\ best.quote = ComputeDirection(Shows(best.lift).asks, best.lift,
                                                Shows(best.hit).bids, best.hit)
BY PaperAssumption DEF Best, Quotes, BestEdge

\* A quote of Q at the cost given takes levels that the ladder has.
IsPaid(side, l, Q, cost) ==
    \E y \in Ladder : /\ Within(y, l)
                       /\ Q = Sum(y, ValidPrices)
                       /\ cost = Price(side, y)

\* A fill of part of the quote finds all its contracts at the best levels
\* shown, at no more than its share of what the quote pays for all its own.
LEMMA LegLemma ==
    ASSUME NEW l \in Ladder, NEW side \in Sides, NEW Q \in Nat, NEW cost,
           IsPaid(side, l, Q, cost), NEW qty \in 1 .. Q
    PROVE  LET x == TakenBy(l, side, qty)
           IN  /\ x \in Ladder
               /\ Sum(x, ValidPrices) = qty
               /\ Price(side, x) \in Int
               /\ Price(side, x) * Q <= cost * qty
<1> PICK y \in Ladder : /\ Within(y, l)
                        /\ Q = Sum(y, ValidPrices)
                        /\ cost = Price(side, y)
  BY DEF IsPaid
<1>1. qty \in Nat /\ qty <= Sum(y, ValidPrices)
  OBVIOUS
<1>2. Sum(y, ValidPrices) <= Sum(l, ValidPrices)
  <2>1. Summable(y, ValidPrices) /\ Summable(l, ValidPrices)
    BY UnitsLemma
  <2> QED BY <2>1, SumsCompare DEF Within
<1>3. Sum(l, ValidPrices) \in Nat /\ Sum(y, ValidPrices) \in Nat
  BY UnitsLemma
<1>4. Sum(TakenBy(l, side, qty), ValidPrices) = qty
  BY <1>1, <1>2, <1>3, TakenBySum
<1>5. TakenBy(l, side, qty) \in Ladder
  BY <1>1, TakenByLemma
<1>6. Price(side, TakenBy(l, side, qty)) \in Int
  BY <1>5, PriceType
<1>7. Price(side, TakenBy(l, side, qty)) * Sum(y, ValidPrices) <= Price(side, y) * qty
  BY <1>1, BestLevelsAreCheapest DEF Within
<1> QED BY <1>4, <1>5, <1>6, <1>7

\* Both legs of a trade that is made of the pair's quote.
LEMMA TradeLemma ==
    ASSUME PaperTypeOK, NEW r \in Pairs, NEW qty \in 1 .. Best(r).quote.qty
    PROVE  LET best == Best(r)
               q == best.quote
               x == TakenBy(Shows(best.lift).asks, "ask", qty)
               y == TakenBy(Shows(best.hit).bids, "bid", qty)
               price == Price("ask", x) + Price("bid", y)
           IN  /\ SoundQuote(q)
               /\ x \in Ladder /\ y \in Ladder
               /\ Sum(x, ValidPrices) = qty /\ Sum(y, ValidPrices) = qty
               /\ Price("ask", x) \in Int /\ Price("bid", y) \in Int
               /\ TradeCost(q, qty) \in Int /\ TradeFee(q, qty) \in Int
               /\ TradeNet(q, qty) \in Int
               /\ price <= TradeCost(q, qty) * QtyPerContract
               /\ TradeNet(q, qty) * QtyPerContract <= TicksPerDollar * qty - price
<1> DEFINE best == Best(r)
           q == best.quote
           la == Shows(best.lift).asks
           lb == Shows(best.hit).bids
           x == TakenBy(la, "ask", qty)
           y == TakenBy(lb, "bid", qty)
<1>1. /\ best.lift \in Markets /\ best.hit \in Markets
      /\ q = ComputeDirection(la, best.lift, lb, best.hit)
  BY BestLemma
<1>2. la \in Ladder /\ NoRebates(best.lift, la) /\ lb \in Ladder /\ NoRebates(best.hit, lb)
  BY <1>1, ShownLemma
<1>3. "ask" \in Sides /\ "bid" \in Sides
  BY DEF Sides
<1> HIDE DEF la, lb, best, q
<1>4. /\ q.fee_ticks \in Nat
      /\ q.net_tq = TicksPerDollar * q.qty - q.cost_a_tq - q.cost_b_tq
                       - q.fee_ticks * QtyPerContract
      /\ \E u, v \in Ladder :
            /\ Within(u, la) /\ Within(v, lb)
            /\ q.qty = Sum(u, ValidPrices) /\ q.qty = Sum(v, ValidPrices)
            /\ q.cost_a_tq = Price("ask", u) /\ q.cost_b_tq = Price("bid", v)
  BY <1>1, <1>2, QuotesAreOfTheLevels
<1>5. PICK u \in Ladder, v \in Ladder :
            /\ Within(u, la) /\ Within(v, lb)
            /\ q.qty = Sum(u, ValidPrices) /\ q.qty = Sum(v, ValidPrices)
            /\ q.cost_a_tq = Price("ask", u) /\ q.cost_b_tq = Price("bid", v)
  BY <1>4
<1> DEFINE Q == q.qty
           ca == q.cost_a_tq
           cb == q.cost_b_tq
<1>6. q.qty \in Nat /\ q.cost_a_tq \in Int /\ q.cost_b_tq \in Int
  BY <1>3, <1>5, UnitsLemma, PriceType
<1>7. SoundQuote(q)
  <2>1. CostTq(q) = q.cost_a_tq + q.cost_b_tq
    BY DEF CostTq
  <2> DEFINE T == TicksPerDollar * q.qty
             F == q.fee_ticks * QtyPerContract
  <2>2. T \in Int /\ F \in Int
    BY <1>4, <1>6, ScaleAssumption
  <2>3. q.net_tq = T - q.cost_a_tq - q.cost_b_tq - F
    BY <1>4
  <2> HIDE DEF T, F
  <2>4. q.net_tq = T - CostTq(q) - F
    BY <1>6, <2>1, <2>2, <2>3
  <2> QED BY <1>4, <1>6, <2>4 DEF SoundQuote, T, F
<1>8. qty \in 1 .. q.qty
  BY DEF q, best
<1>9. /\ x \in Ladder /\ Sum(x, ValidPrices) = qty
      /\ Price("ask", x) \in Int /\ Price("ask", x) * q.qty <= q.cost_a_tq * qty
  <2>1. IsPaid("ask", la, Q, ca)
    BY <1>5 DEF IsPaid
  <2>2. Q \in Nat /\ qty \in 1 .. Q
    BY <1>6, <1>8
  <2> HIDE DEF Q, ca
  <2>3. /\ x \in Ladder /\ Sum(x, ValidPrices) = qty
        /\ Price("ask", x) \in Int /\ Price("ask", x) * Q <= ca * qty
    BY <1>2, <1>3, <2>1, <2>2, LegLemma
  <2> QED BY <2>3 DEF Q, ca
<1>10. /\ y \in Ladder /\ Sum(y, ValidPrices) = qty
       /\ Price("bid", y) \in Int /\ Price("bid", y) * q.qty <= q.cost_b_tq * qty
  <2>1. IsPaid("bid", lb, Q, cb)
    BY <1>5 DEF IsPaid
  <2>2. Q \in Nat /\ qty \in 1 .. Q
    BY <1>6, <1>8
  <2> HIDE DEF Q, cb
  <2>3. /\ y \in Ladder /\ Sum(y, ValidPrices) = qty
        /\ Price("bid", y) \in Int /\ Price("bid", y) * Q <= cb * qty
    BY <1>2, <1>3, <2>1, <2>2, LegLemma
  <2> QED BY <2>3 DEF Q, cb
<1> HIDE DEF x, y
<1>11. /\ TradeCost(q, qty) \in Int /\ TradeFee(q, qty) \in Int
       /\ TradeNet(q, qty) \in Int
       /\ Price("ask", x) + Price("bid", y) <= TradeCost(q, qty) * QtyPerContract
       /\ TradeNet(q, qty) * QtyPerContract
             <= TicksPerDollar * qty - (Price("ask", x) + Price("bid", y))
  BY <1>7, <1>8, <1>9, <1>10, ShareLemma
<1> QED BY <1>7, <1>9, <1>10, <1>11 DEF x, y, la, lb, q, best

-----------------------------------------------------------------------------
(* The totals that the fills add up to *)

\* The sales with one more fill: x of the asks of one market, y of the bids
\* of the other.
SoldWith(lift, hit, x, y) ==
    [m \in Markets |->
        [bids |-> IF m = hit THEN Plus(sold[m].bids, y) ELSE sold[m].bids,
         asks |-> IF m = lift THEN Plus(sold[m].asks, x) ELSE sold[m].asks]]

\* What a fill adds to the sales, in units and in money.
LEMMA SalesGrow ==
    ASSUME sold \in PerLevel, NEW lift \in Markets, NEW hit \in Markets,
           NEW x \in Ladder, NEW y \in Ladder,
           sold' = SoldWith(lift, hit, x, y)
    PROVE  /\ AsksSold \in Int /\ AsksSold' = AsksSold + Sum(x, ValidPrices)
           /\ BidsSold \in Int /\ BidsSold' = BidsSold + Sum(y, ValidPrices)
           /\ PriceOfSold \in Int
           /\ PriceOfSold' = PriceOfSold + (Price("ask", x) + Price("bid", y))
<1> DEFINE asks == [m \in Markets |-> SumFunction(sold[m].asks)]
           bids == [m \in Markets |-> SumFunction(sold[m].bids)]
           askPrice == [m \in Markets |-> Price("ask", sold[m].asks)]
           bidPrice == [m \in Markets |-> Price("bid", sold[m].bids)]
           asks2 == [m \in Markets |-> SumFunction(sold'[m].asks)]
           bids2 == [m \in Markets |-> SumFunction(sold'[m].bids)]
           askPrice2 == [m \in Markets |-> Price("ask", sold'[m].asks)]
           bidPrice2 == [m \in Markets |-> Price("bid", sold'[m].bids)]
<1>1. /\ AsksSold = SumFunction(asks) /\ AsksSold' = SumFunction(asks2)
      /\ BidsSold = SumFunction(bids) /\ BidsSold' = SumFunction(bids2)
      /\ PriceOfSold = SumFunction(askPrice) + SumFunction(bidPrice)
      /\ PriceOfSold' = SumFunction(askPrice2) + SumFunction(bidPrice2)
  BY DEF AsksSold, BidsSold, PriceOfSold
<1>2. "ask" \in Sides /\ "bid" \in Sides /\ IsFiniteSet(Markets)
  BY PaperAssumption DEF Sides
<1>3. \A m \in Markets : sold[m].asks \in Ladder /\ sold[m].bids \in Ladder
  BY DEF PerLevel
<1>4. /\ \A m \in Markets : sold'[m].asks = IF m = lift THEN Plus(sold[m].asks, x)
                                                       ELSE sold[m].asks
      /\ \A m \in Markets : sold'[m].bids = IF m = hit THEN Plus(sold[m].bids, y)
                                                       ELSE sold[m].bids
  BY DEF SoldWith
<1>5. \A m \in Markets : /\ sold'[m].asks \in Ladder /\ sold'[m].bids \in Ladder
                         /\ Plus(sold[m].asks, x) \in Ladder
                         /\ Plus(sold[m].bids, y) \in Ladder
  BY <1>2, <1>3, <1>4, PlusLemma
<1>6. /\ Sum(x, ValidPrices) \in Int /\ Sum(y, ValidPrices) \in Int
      /\ Price("ask", x) \in Int /\ Price("bid", y) \in Int
  BY <1>2, UnitsLemma, PriceType
<1>7. \A f \in Ladder : /\ SumFunction(f) \in Int
                        /\ Price("ask", f) \in Int /\ Price("bid", f) \in Int
  BY <1>2, PlusLemma, PriceType
<1>8. /\ asks \in [Markets -> Int] /\ asks2 \in [Markets -> Int]
      /\ bids \in [Markets -> Int] /\ bids2 \in [Markets -> Int]
      /\ askPrice \in [Markets -> Int] /\ askPrice2 \in [Markets -> Int]
      /\ bidPrice \in [Markets -> Int] /\ bidPrice2 \in [Markets -> Int]
  BY <1>3, <1>5, <1>7
<1>9. /\ asks2[lift] = asks[lift] + Sum(x, ValidPrices)
      /\ askPrice2[lift] = askPrice[lift] + Price("ask", x)
      /\ bids2[hit] = bids[hit] + Sum(y, ValidPrices)
      /\ bidPrice2[hit] = bidPrice[hit] + Price("bid", y)
  <2>1. /\ SumFunction(Plus(sold[lift].asks, x))
              = SumFunction(sold[lift].asks) + Sum(x, ValidPrices)
        /\ Price("ask", Plus(sold[lift].asks, x))
              = Price("ask", sold[lift].asks) + Price("ask", x)
    BY <1>2, <1>3, PlusLemma
  <2>2. /\ SumFunction(Plus(sold[hit].bids, y))
              = SumFunction(sold[hit].bids) + Sum(y, ValidPrices)
        /\ Price("bid", Plus(sold[hit].bids, y))
              = Price("bid", sold[hit].bids) + Price("bid", y)
    BY <1>2, <1>3, PlusLemma
  <2>3. sold'[lift].asks = Plus(sold[lift].asks, x) /\ sold'[hit].bids = Plus(sold[hit].bids, y)
    BY <1>4
  <2> QED BY <2>1, <2>2, <2>3
<1>10. /\ \A m \in Markets \ {lift} : asks2[m] = asks[m] /\ askPrice2[m] = askPrice[m]
       /\ \A m \in Markets \ {hit} : bids2[m] = bids[m] /\ bidPrice2[m] = bidPrice[m]
  <2>1. /\ \A m \in Markets \ {lift} : sold'[m].asks = sold[m].asks
        /\ \A m \in Markets \ {hit} : sold'[m].bids = sold[m].bids
    BY <1>4
  <2> QED BY <2>1
<1> HIDE DEF asks, bids, askPrice, bidPrice, asks2, bids2, askPrice2, bidPrice2
<1>11. /\ Grows(Markets, asks, asks2, lift, Sum(x, ValidPrices))
       /\ Grows(Markets, bids, bids2, hit, Sum(y, ValidPrices))
       /\ Grows(Markets, askPrice, askPrice2, lift, Price("ask", x))
       /\ Grows(Markets, bidPrice, bidPrice2, hit, Price("bid", y))
  BY <1>6, <1>8, <1>9, <1>10 DEF Grows
<1>12. /\ SumFunction(asks) \in Int
       /\ SumFunction(asks2) = SumFunction(asks) + Sum(x, ValidPrices)
       /\ SumFunction(bids) \in Int
       /\ SumFunction(bids2) = SumFunction(bids) + Sum(y, ValidPrices)
  BY <1>2, <1>11, TotalGrows
<1>13. /\ SumFunction(askPrice) \in Int
       /\ SumFunction(askPrice2) = SumFunction(askPrice) + Price("ask", x)
       /\ SumFunction(bidPrice) \in Int
       /\ SumFunction(bidPrice2) = SumFunction(bidPrice) + Price("bid", y)
  BY <1>2, <1>11, TotalGrows
<1> QED BY <1>1, <1>6, <1>12, <1>13

\* What a pair's position counts, summed over all pairs.
Nets == SumFunction([r \in Pairs |-> positions[r].net])
Costs == SumFunction([r \in Pairs |-> positions[r].cost])

PositionsWith(r, q, qty) == [positions EXCEPT ![r] = AddTrade(@, q, qty)]

\* What a trade adds to the positions.
LEMMA PositionsGrow ==
    ASSUME positions \in [Pairs -> Position], NEW r \in Pairs, NEW q, NEW qty \in Nat,
           TradeCost(q, qty) \in Int, TradeFee(q, qty) \in Int, TradeNet(q, qty) \in Int,
           positions' = PositionsWith(r, q, qty)
    PROVE  /\ positions' \in [Pairs -> Position]
           /\ positions'[r].qty = positions[r].qty + qty
           /\ \A s \in Pairs \ {r} : positions'[s] = positions[s]
           /\ Contracts \in Int /\ Contracts' = Contracts + qty
           /\ Nets \in Int /\ Nets' = Nets + TradeNet(q, qty)
           /\ Costs \in Int /\ Costs' = Costs + TradeCost(q, qty)
<1> DEFINE qtys == [s \in Pairs |-> positions[s].qty]
           nets == [s \in Pairs |-> positions[s].net]
           costs == [s \in Pairs |-> positions[s].cost]
           qtys2 == [s \in Pairs |-> positions'[s].qty]
           nets2 == [s \in Pairs |-> positions'[s].net]
           costs2 == [s \in Pairs |-> positions'[s].cost]
<1>1. /\ Contracts = SumFunction(qtys) /\ Contracts' = SumFunction(qtys2)
      /\ Nets = SumFunction(nets) /\ Nets' = SumFunction(nets2)
      /\ Costs = SumFunction(costs) /\ Costs' = SumFunction(costs2)
  BY DEF Contracts, Nets, Costs
<1>2. positions[r] \in Position
  OBVIOUS
<1>3. /\ positions'[r] = AddTrade(positions[r], q, qty)
      /\ \A s \in Pairs \ {r} : positions'[s] = positions[s]
  BY DEF PositionsWith
<1>4. /\ AddTrade(positions[r], q, qty) \in Position
      /\ AddTrade(positions[r], q, qty).qty = positions[r].qty + qty
      /\ AddTrade(positions[r], q, qty).net = positions[r].net + TradeNet(q, qty)
      /\ AddTrade(positions[r], q, qty).cost = positions[r].cost + TradeCost(q, qty)
  BY <1>2 DEF AddTrade, Position
<1>5. positions' \in [Pairs -> Position]
  BY <1>4 DEF PositionsWith
<1>6. /\ qtys \in [Pairs -> Int] /\ qtys2 \in [Pairs -> Int]
      /\ nets \in [Pairs -> Int] /\ nets2 \in [Pairs -> Int]
      /\ costs \in [Pairs -> Int] /\ costs2 \in [Pairs -> Int]
  BY <1>5 DEF Position
<1>7. /\ qtys2[r] = qtys[r] + qty /\ nets2[r] = nets[r] + TradeNet(q, qty)
      /\ costs2[r] = costs[r] + TradeCost(q, qty)
  BY <1>3, <1>4
<1>8. \A s \in Pairs \ {r} : /\ qtys2[s] = qtys[s] /\ nets2[s] = nets[s]
                             /\ costs2[s] = costs[s]
  BY <1>3
<1>9. IsFiniteSet(Pairs)
  BY PaperAssumption
<1> HIDE DEF qtys, nets, costs, qtys2, nets2, costs2
<1>10. /\ Grows(Pairs, qtys, qtys2, r, qty)
       /\ Grows(Pairs, nets, nets2, r, TradeNet(q, qty))
       /\ Grows(Pairs, costs, costs2, r, TradeCost(q, qty))
  <2>1. qty \in Int
    OBVIOUS
  <2>2. Grows(Pairs, qtys, qtys2, r, qty)
    BY <1>6, <1>7, <1>8, <2>1 DEF Grows
  <2>3. Grows(Pairs, nets, nets2, r, TradeNet(q, qty))
    BY <1>6, <1>7, <1>8 DEF Grows
  <2>4. Grows(Pairs, costs, costs2, r, TradeCost(q, qty))
    BY <1>6, <1>7, <1>8 DEF Grows
  <2> QED BY <2>2, <2>3, <2>4
<1>11. /\ SumFunction(qtys) \in Int /\ SumFunction(qtys2) = SumFunction(qtys) + qty
       /\ SumFunction(nets) \in Int
       /\ SumFunction(nets2) = SumFunction(nets) + TradeNet(q, qty)
       /\ SumFunction(costs) \in Int
       /\ SumFunction(costs2) = SumFunction(costs) + TradeCost(q, qty)
  BY <1>9, <1>10, TotalGrows
<1> QED BY <1>1, <1>3, <1>4, <1>5, <1>11

-----------------------------------------------------------------------------
(* The books balance *)

\* The inductive invariant: the ledger and the totals.
PaperInv == PaperIInv /\ EveryFillIsPlaced /\ FillsArePaidFor

\* What EveryFillIsPlaced and FillsArePaidFor say of the totals.
Balanced ==
    /\ Contracts = AsksSold /\ Contracts = BidsSold
    /\ notional * QtyPerContract >= PriceOfSold
    /\ Nets * QtyPerContract <= TicksPerDollar * Contracts - PriceOfSold
    /\ notional = Costs

\* The invariant as the steps change it.
LEMMA InvIsBalance == PaperInv <=> PaperIInv /\ PaperTypeOK /\ Balanced
BY DEF PaperInv, Balanced, EveryFillIsPlaced, FillsArePaidFor, Nets, Costs

\* A table of zeros adds up to zero.
LEMMA TotalOfNothing ==
    ASSUME NEW S, IsFiniteSet(S), NEW f \in [S -> {0}]
    PROVE  SumFunction(f) = 0
<1>1. Summable(f, S) /\ \A x \in S : f[x] = 0 * f[x]
  BY DEF Summable
<1>2. Sum(f, S) = 0 * Sum(f, S) /\ Sum(f, S) \in Int
  BY <1>1, SumOfMultiples, SumType
<1>3. Sum(f, S) = 0
  BY <1>2
<1>4. SumFunction(f) = Sum(f, S)
  BY DEF SumFunction, Sum
<1> QED BY <1>3, <1>4

\* Before the first trade all totals are zero.
LEMMA PaperInitBalanced == PaperInit => PaperInv
<1> SUFFICES ASSUME PaperInit PROVE PaperInv
  OBVIOUS
<1>1. IsFiniteSet(Markets) /\ IsFiniteSet(Pairs) /\ IsFiniteSet(ValidPrices)
  BY PaperAssumption, PricesAreFinite
<1>2. NoLevels \in [ValidPrices -> {0}] /\ NoLevels \in Ladder
  BY DEF NoLevels, Ladder
<1>3. SumFunction(NoLevels) = 0
  BY <1>1, <1>2, TotalOfNothing
<1>4. ASSUME NEW side \in Sides PROVE Price(side, NoLevels) = 0
  <2> DEFINE f == [p \in ValidPrices |-> PaidAt[side][p] * NoLevels[p]]
  <2>1. \A p \in ValidPrices : PaidAt[side][p] \in Int
    BY RankLemma
  <2>2. f \in [ValidPrices -> {0}]
    BY <1>2, <2>1
  <2> HIDE DEF f
  <2>3. SumFunction(f) = 0
    BY <1>1, <2>2, TotalOfNothing
  <2> QED BY <2>3 DEF f, Price
<1>5. Price("ask", NoLevels) = 0 /\ Price("bid", NoLevels) = 0
  BY <1>4 DEF Sides
<1>6. \A m \in Markets : sold[m].asks = NoLevels /\ sold[m].bids = NoLevels
  BY DEF PaperInit, NoSize
<1>7. AsksSold = 0 /\ BidsSold = 0 /\ PriceOfSold = 0
  <2>1. /\ [m \in Markets |-> SumFunction(sold[m].asks)] \in [Markets -> {0}]
        /\ [m \in Markets |-> SumFunction(sold[m].bids)] \in [Markets -> {0}]
        /\ [m \in Markets |-> Price("ask", sold[m].asks)] \in [Markets -> {0}]
        /\ [m \in Markets |-> Price("bid", sold[m].bids)] \in [Markets -> {0}]
    BY <1>3, <1>5, <1>6
  <2>2. /\ AsksSold = 0 /\ BidsSold = 0
        /\ SumFunction([m \in Markets |-> Price("ask", sold[m].asks)]) = 0
        /\ SumFunction([m \in Markets |-> Price("bid", sold[m].bids)]) = 0
    BY <1>1, <2>1, TotalOfNothing DEF AsksSold, BidsSold
  <2> QED BY <2>2 DEF PriceOfSold
<1>8. Contracts = 0 /\ Nets = 0 /\ Costs = 0
  <2>1. /\ [r \in Pairs |-> positions[r].qty] \in [Pairs -> {0}]
        /\ [r \in Pairs |-> positions[r].net] \in [Pairs -> {0}]
        /\ [r \in Pairs |-> positions[r].cost] \in [Pairs -> {0}]
    BY DEF PaperInit
  <2> QED BY <1>1, <2>1, TotalOfNothing DEF Contracts, Nets, Costs
<1>9. Balanced
  BY <1>7, <1>8, ScaleAssumption DEF Balanced, PaperInit
<1>10. PaperIInv
  BY PaperInitInv
<1>11. PaperTypeOK
  <2>1. positions \in [Pairs -> Position]
    BY DEF PaperInit, Position
  <2>2. /\ truth \in PerLevel /\ taken \in PerLevel /\ supply \in PerLevel
        /\ sold \in PerLevel
    BY <1>10 DEF PaperIInv, LevelTypes
  <2>3. \A m \in Markets : truth[m] \in VenueLadders[m]
    BY DEF PaperInit
  <2>4. /\ status \in [Markets -> {"ok", "invalid", "missing"}]
        /\ limits \in LimitChoices /\ suspended \in BOOLEAN
    BY DEF PaperInit
  <2>5. moves \in 0 .. MaxMoves /\ notional \in Int
    BY PaperAssumption DEF PaperInit
  <2> QED BY <2>1, <2>2, <2>3, <2>4, <2>5 DEF PaperTypeOK
<1> QED BY <1>9, <1>10, <1>11, InvIsBalance

\* No step but a trade changes what the totals add up.
LEMMA BalanceRests ==
    ASSUME Balanced, UNCHANGED <<positions, notional, sold>>
    PROVE  Balanced'
BY DEF Balanced, Contracts, AsksSold, BidsSold, PriceOfSold, Nets, Costs

\* A fill adds as many contracts as it takes units on either leg, at least
\* their price to the spend, and at most the rest of the dollar to the profit.
LEMMA FillBalances ==
    ASSUME PaperTypeOK, Balanced, NEW r \in Pairs,
           NEW qty \in 1 .. Best(r).quote.qty,
           positions' = PositionsWith(r, Best(r).quote, qty),
           notional' = notional + TradeCost(Best(r).quote, qty),
           sold' = WithFill(sold, Best(r).lift, Best(r).hit, qty)
    PROVE  Balanced' /\ positions' \in [Pairs -> Position] /\ notional' \in Int
<1> DEFINE best == Best(r)
           q == best.quote
           x == TakenBy(Shows(best.lift).asks, "ask", qty)
           y == TakenBy(Shows(best.hit).bids, "bid", qty)
           price == Price("ask", x) + Price("bid", y)
           cost == TradeCost(q, qty)
           net == TradeNet(q, qty)
           K == QtyPerContract
           T == TicksPerDollar
<1>1. /\ x \in Ladder /\ y \in Ladder
      /\ Sum(x, ValidPrices) = qty /\ Sum(y, ValidPrices) = qty
      /\ Price("ask", x) \in Int /\ Price("bid", y) \in Int
      /\ cost \in Int /\ TradeFee(q, qty) \in Int /\ net \in Int
      /\ price <= cost * K
      /\ net * K <= T * qty - price
  BY TradeLemma
<1>2. best.lift \in Markets /\ best.hit \in Markets
  BY BestLemma
<1>3. /\ positions' = PositionsWith(r, q, qty)
      /\ notional' = notional + cost
      /\ sold' = SoldWith(best.lift, best.hit, x, y)
  BY DEF WithFill, SoldWith
<1>4. /\ sold \in PerLevel /\ positions \in [Pairs -> Position] /\ notional \in Int
      /\ qty \in Nat
  BY DEF PaperTypeOK
<1> HIDE DEF best, q, x, y, cost, net
<1>5. /\ AsksSold \in Int /\ AsksSold' = AsksSold + qty
      /\ BidsSold \in Int /\ BidsSold' = BidsSold + qty
      /\ PriceOfSold \in Int /\ PriceOfSold' = PriceOfSold + price
  BY <1>1, <1>2, <1>3, <1>4, SalesGrow
<1>6. /\ positions' \in [Pairs -> Position]
      /\ Contracts \in Int /\ Contracts' = Contracts + qty
      /\ Nets \in Int /\ Nets' = Nets + net
      /\ Costs \in Int /\ Costs' = Costs + cost
  <2>1. /\ TradeCost(q, qty) \in Int /\ TradeFee(q, qty) \in Int
        /\ TradeNet(q, qty) \in Int
    BY <1>1 DEF cost, net
  <2>2. /\ positions' \in [Pairs -> Position]
        /\ Contracts \in Int /\ Contracts' = Contracts + qty
        /\ Nets \in Int /\ Nets' = Nets + TradeNet(q, qty)
        /\ Costs \in Int /\ Costs' = Costs + TradeCost(q, qty)
    BY <1>3, <1>4, <2>1, PositionsGrow
  <2> QED BY <2>2 DEF cost, net
<1>7. /\ Contracts = AsksSold /\ Contracts = BidsSold
      /\ notional * K >= PriceOfSold
      /\ Nets * K <= T * Contracts - PriceOfSold
      /\ notional = Costs
  BY DEF Balanced
<1>8. K \in Nat /\ T \in Nat /\ price \in Int
  BY <1>1, ScaleAssumption
<1> HIDE DEF K, T, price
<1>9. notional' * K >= PriceOfSold'
  <2>1. (notional + cost) * K = notional * K + cost * K
    BY <1>1, <1>4, <1>8
  <2>2. notional * K \in Int /\ cost * K \in Int
    BY <1>1, <1>4, <1>8
  <2> QED BY <1>1, <1>3, <1>5, <1>7, <1>8, <2>1, <2>2
<1>10. Nets' * K <= T * Contracts' - PriceOfSold'
  <2>1. (Nets + net) * K = Nets * K + net * K
    BY <1>1, <1>6, <1>8
  <2>2. T * (Contracts + qty) = T * Contracts + T * qty
    BY <1>4, <1>6, <1>8
  <2>3. /\ Nets * K \in Int /\ net * K \in Int
        /\ T * Contracts \in Int /\ T * qty \in Int
    BY <1>1, <1>4, <1>6, <1>8
  <2> QED BY <1>1, <1>5, <1>6, <1>7, <1>8, <2>1, <2>2, <2>3
<1>11. Contracts' = AsksSold' /\ Contracts' = BidsSold' /\ notional' = Costs'
  BY <1>3, <1>5, <1>6, <1>7
<1>12. Balanced'
  BY <1>9, <1>10, <1>11 DEF Balanced, K, T
<1> QED BY <1>1, <1>3, <1>4, <1>6, <1>12

\* A trade keeps the totals in balance.
LEMMA TradePairBalanced ==
    ASSUME PaperInv, NEW r \in Pairs, TradePair(r)
    PROVE  PaperInv'
<1>1. PaperIInv /\ PaperTypeOK /\ Balanced
  BY InvIsBalance
<1>2. PaperIInv'
  BY <1>1, TradePairInv
<1>3. UNCHANGED <<truth, status, supply, limits, suspended, moves>>
  BY DEF TradePair, venueVars, operatorVars
<1>4. taken' \in PerLevel /\ sold' \in PerLevel
  BY <1>2 DEF PaperIInv, LevelTypes
<1>5. CASE UNCHANGED <<positions, notional, sold>>
  <2>1. Balanced'
    BY <1>1, <1>5, BalanceRests
  <2>2. PaperTypeOK'
    BY <1>1, <1>3, <1>4, <1>5 DEF PaperTypeOK
  <2> QED BY <1>2, <2>1, <2>2, InvIsBalance, PTL
<1>6. ASSUME NEW qty \in 1 .. Best(r).quote.qty,
             positions' = [positions EXCEPT ![r] = AddTrade(@, Best(r).quote, qty)],
             notional' = notional + TradeCost(Best(r).quote, qty),
             sold' = WithFill(sold, Best(r).lift, Best(r).hit, qty)
      PROVE  PaperInv'
  <2>1. Balanced' /\ positions' \in [Pairs -> Position] /\ notional' \in Int
    BY <1>1, <1>6, FillBalances DEF PositionsWith
  <2>2. PaperTypeOK'
    BY <1>1, <1>3, <1>4, <2>1 DEF PaperTypeOK
  <2> QED BY <1>2, <2>1, <2>2, InvIsBalance, PTL
<1> QED BY <1>5, <1>6 DEF TradePair

\* Every step keeps the invariant.
LEMMA PaperNextBalanced == PaperInv /\ [PaperNext]_paperVars => PaperInv'
<1> SUFFICES ASSUME PaperInv, [PaperNext]_paperVars PROVE PaperInv'
  OBVIOUS
<1>1. PaperIInv /\ PaperTypeOK /\ Balanced
  BY InvIsBalance
<1>2. PaperIInv'
  BY <1>1, PaperNextInv
<1>3. /\ truth' \in PerLevel /\ taken' \in PerLevel
      /\ supply' \in PerLevel /\ sold' \in PerLevel
  BY <1>2 DEF PaperIInv, LevelTypes
\* The steps that are no trade.
<1>4. ASSUME UNCHANGED tradeVars, PaperTypeOK'
      PROVE  PaperInv'
  <2>1. Balanced'
    BY <1>1, <1>4, BalanceRests DEF tradeVars
  <2> QED BY <1>2, <1>4, <2>1, InvIsBalance, PTL
<1>5. MaxMoves \in Nat
  BY PaperAssumption
<1>6. ASSUME NEW m \in Markets, VenueMoves(m) PROVE PaperInv'
  <2>1. \A n \in Markets : truth'[n] \in VenueLadders[n]
    <3>1. PICK l \in VenueLadders[m] : truth' = [truth EXCEPT ![m] = l]
      BY <1>6 DEF VenueMoves
    <3> QED BY <1>1, <3>1 DEF PaperTypeOK, PerLevel
  <2>2. moves' \in 0 .. MaxMoves
    BY <1>1, <1>5, <1>6 DEF VenueMoves, PaperTypeOK
  <2>3. PaperTypeOK' /\ UNCHANGED tradeVars
    BY <1>1, <1>3, <1>6, <2>1, <2>2 DEF VenueMoves, PaperTypeOK, tradeVars, operatorVars
  <2> QED BY <1>4, <2>3
<1>7. ASSUME NEW m \in Markets, NEW s \in {"ok", "invalid", "missing"},
             BookChanges(m, s)
      PROVE  PaperInv'
  <2>1. moves' \in 0 .. MaxMoves
    BY <1>1, <1>5, <1>7 DEF BookChanges, PaperTypeOK
  <2>2. PaperTypeOK' /\ UNCHANGED tradeVars
    BY <1>1, <1>3, <1>7, <2>1 DEF BookChanges, PaperTypeOK, tradeVars, operatorVars
  <2> QED BY <1>4, <2>2
<1>8. ASSUME NEW new \in LimitChoices, SetLimits(new) PROVE PaperInv'
  <2>1. moves' \in 0 .. MaxMoves
    BY <1>1, <1>5, <1>8 DEF SetLimits, PaperTypeOK
  <2>2. PaperTypeOK' /\ UNCHANGED tradeVars
    BY <1>1, <1>3, <1>8, <2>1 DEF SetLimits, PaperTypeOK, tradeVars, venueVars
  <2> QED BY <1>4, <2>2
<1>9. ASSUME NEW on \in BOOLEAN, SetSuspended(on) PROVE PaperInv'
  <2>1. moves' \in 0 .. MaxMoves
    BY <1>1, <1>5, <1>9 DEF SetSuspended, PaperTypeOK
  <2>2. PaperTypeOK' /\ UNCHANGED tradeVars
    BY <1>1, <1>3, <1>9, <2>1 DEF SetSuspended, PaperTypeOK, tradeVars, venueVars
  <2> QED BY <1>4, <2>2
<1>10. ASSUME NEW r \in Pairs, TradePair(r) PROVE PaperInv'
  BY <1>10, TradePairBalanced
<1>11. CASE UNCHANGED paperVars
  <2>1. PaperTypeOK' /\ UNCHANGED tradeVars
    BY <1>1, <1>11 DEF PaperTypeOK, paperVars, tradeVars, operatorVars, venueVars
  <2> QED BY <1>4, <2>1
<1> QED BY <1>6, <1>7, <1>8, <1>9, <1>10, <1>11 DEF PaperNext

\* The types, the ledger and the totals, whatever is traded.
THEOREM PaperInvariant == PaperSpec => []PaperInv
BY PaperInitBalanced, PaperNextBalanced, PTL DEF PaperSpec

\* Every contract of a position was placed against a resting level, on both
\* legs: the walk that sized the fill and the ledger that consumes it find
\* the same contracts.
THEOREM EveryFillFindsItsLevels == PaperSpec => []EveryFillIsPlaced
<1>1. PaperInv => EveryFillIsPlaced
  BY DEF PaperInv
<1> QED BY <1>1, PaperInvariant, PTL

\* The spend covers the price of every level consumed and the recorded
\* profit is within what they leave of the dollar, however the fills split
\* the quotes and whatever the roundings.
THEOREM FillsPayTheirLevels == PaperSpec => []FillsArePaidFor
<1>1. PaperInv => FillsArePaidFor
  BY DEF PaperInv
<1> QED BY <1>1, PaperInvariant, PTL

\* A fill fits both limits as they are, and costs something.
LEMMA TradeFits ==
    ASSUME PaperTypeOK, NEW r \in Pairs,
           NEW qty \in 1 .. Best(r).quote.qty, qty = FillSize(r, Best(r).quote),
           positions' = [positions EXCEPT ![r] = AddTrade(@, Best(r).quote, qty)],
           notional' = notional + TradeCost(Best(r).quote, qty)
    PROVE  /\ notional' <= limits.max_notional
           /\ notional' > notional
           /\ positions'[r].qty <= limits.max_qty
           /\ \A s \in Pairs \ {r} : positions'[s] = positions[s]
<1> DEFINE q == Best(r).quote
           room == limits.max_notional - notional
<1>1. SoundQuote(q)
  BY TradeLemma
<1>2. /\ positions[r].qty \in Nat /\ notional \in Int /\ limits \in LimitChoices
      /\ positions \in [Pairs -> Position] /\ limits.max_notional \in Nat
  BY PaperAssumption DEF PaperTypeOK, Position
<1> HIDE DEF q
<1>3. /\ positions[r].qty + qty <= limits.max_qty
      /\ room \in Nat \ {0}
      /\ CostTq(q) \in Nat \ {0}
      /\ qty <= Affordable(q, room)
  BY <1>1, <1>2, FillSizeLemma DEF q
<1>4. TradeCost(q, qty) \in Nat \ {0} /\ TradeCost(q, qty) <= room
  <2>1. qty \in 1 .. q.qty /\ room \in Nat
    BY <1>3 DEF q
  <2> QED BY <1>1, <1>3, <2>1, CostLemma
<1>5. /\ positions'[r].qty = positions[r].qty + qty
      /\ \A s \in Pairs \ {r} : positions'[s] = positions[s]
  BY <1>2 DEF AddTrade
<1>6. notional' <= limits.max_notional /\ notional' > notional
  BY <1>2, <1>4 DEF q
<1> QED BY <1>3, <1>5, <1>6

\* No trade takes the spend over the budget, or a position over its cap, as
\* they are set at that moment; after a tightening, nothing trades.
THEOREM LimitsHold == PaperSpec => LimitsHoldAtEveryTrade
<1> DEFINE Step == /\ notional' # notional => notional' <= limits.max_notional
                   /\ \A r \in Pairs :
                         positions'[r] # positions[r] =>
                            /\ positions'[r].qty <= limits.max_qty
                            /\ notional' > notional
<1>1. ASSUME PaperInv, [PaperNext]_paperVars PROVE Step
  <2>1. PaperTypeOK
    BY <1>1, InvIsBalance
  <2>2. CASE UNCHANGED <<positions, notional>>
    BY <2>2
  <2>3. ASSUME NEW r \in Pairs, TradePair(r) PROVE Step
    <3>1. ASSUME NEW qty \in 1 .. Best(r).quote.qty,
                 qty = FillSize(r, Best(r).quote),
                 positions' = [positions EXCEPT ![r] = AddTrade(@, Best(r).quote, qty)],
                 notional' = notional + TradeCost(Best(r).quote, qty)
          PROVE  Step
      <4>1. /\ notional' <= limits.max_notional /\ notional' > notional
            /\ positions'[r].qty <= limits.max_qty
            /\ \A s \in Pairs \ {r} : positions'[s] = positions[s]
        BY <2>1, <3>1, TradeFits
      <4> QED BY <4>1
    <3> QED BY <2>2, <2>3, <3>1 DEF TradePair
  <2>4. PaperNext \/ UNCHANGED paperVars
    BY <1>1
  <2> QED BY <2>2, <2>3, <2>4
          DEF PaperNext, VenueMoves, BookChanges, SetLimits, SetSuspended,
              paperVars, tradeVars
<1> QED BY <1>1, PaperInvariant, PTL DEF PaperSpec, LimitsHoldAtEveryTrade

=============================================================================
