-------------------------- MODULE AlgorithmsProofs --------------------------
(***************************************************************************)
(* The pure algorithms, for every scale, rate, fee, book, event, course    *)
(* and table.                                                              *)
(*                                                                         *)
(* Each is compared with what it is for, over the inputs of MCAlgorithms:  *)
(* the fees with the fraction they round (TwoRoundings, HalfEvenLemma),    *)
(* the clock check with the courses that were in time (QueriedInv), the    *)
(* dealing with the spread of the open pairs (PlacesLemma, SpreadLemma),   *)
(* the matcher with stability and the best twin (MatchedInv, SeenLemma),   *)
(* and the walk of two ladders with their units one by one (RunsLemma,     *)
(* WorthLemma).  What the code sorts is the order of a finite set          *)
(* (InOrderLemma), and what it folds is followed element by element.       *)
(***************************************************************************)
EXTENDS MCAlgorithms, PaperProofs

-----------------------------------------------------------------------------
(* The fees *)

\* A quotient rounded down, and what is left.
LEMMA RemainderLemma ==
    ASSUME NEW n \in Int, NEW d \in Nat \ {0}
    PROVE  /\ n % d \in 0 .. d - 1
           /\ n = (n \div d) * d + (n % d)
OBVIOUS

\* Half to even is the nearest integer, and the even one of two.
LEMMA HalfEvenLemma ==
    ASSUME NEW n \in Int, NEW d \in Nat \ {0}
    PROVE  LET h == HalfEvenDiv(n, d)
               off == 2 * (h * d - n)
           IN  /\ h \in Int
               /\ -d <= off /\ off <= d
               /\ off \in {-d, d} => h % 2 = 0
               /\ n <= 0 => h <= 0
<1> DEFINE low == n \div d
           left == n % d
           rest == 2 * left
           h == HalfEvenDiv(n, d)
           k == low * d
<1>1. /\ low \in Int /\ left \in 0 .. d - 1 /\ n = k + left /\ k \in Int
      /\ low % 2 \in {0, 1}
  BY RemainderLemma
<1>2. h = IF rest < d \/ (rest = d /\ low % 2 = 0) THEN low ELSE low + 1
  BY DEF HalfEvenDiv
<1>3. (low + 1) * d = k + d
  BY <1>1
<1>4. n <= 0 => low <= 0 /\ (low = 0 => left = 0)
  BY <1>1
<1>5. low % 2 # 0 => (low + 1) % 2 = 0
  BY <1>1
<1> SUFFICES /\ h \in Int
             /\ -d <= 2 * (h * d - n) /\ 2 * (h * d - n) <= d
             /\ 2 * (h * d - n) \in {-d, d} => h % 2 = 0
             /\ n <= 0 => h <= 0
  OBVIOUS
<1> HIDE DEF low, left, h
<1>6. CASE h = low
  <2>1. h * d = k /\ (rest = d => h % 2 = 0) /\ rest <= d
    BY <1>1, <1>2, <1>6
  <2> HIDE DEF k
  <2> QED BY <1>1, <1>4, <1>6, <2>1
<1>7. CASE h = low + 1 /\ h # low
  <2>1. h * d = k + d /\ (rest = d => h % 2 = 0) /\ rest >= d
    BY <1>1, <1>2, <1>3, <1>5, <1>7
  <2> HIDE DEF k
  <2> QED BY <1>1, <1>4, <1>7, <2>1
<1> QED BY <1>2, <1>6, <1>7

\* A fraction of at least zero is at least zero rounded up.  A share of it is no
\* more, and a greater numerator no less.
LEMMA CeilDivGrows ==
    ASSUME NEW n \in Nat, NEW m \in Nat, NEW d \in Nat \ {0}, NEW e \in Nat \ {0},
           m * d <= n * e
    PROVE  CeilDiv(m, e) \in Nat /\ CeilDiv(m, e) <= CeilDiv(n, d)
<1> DEFINE x == CeilDiv(m, e)
           y == CeilDiv(n, d)
<1>1. /\ x \in Int /\ m <= x * e /\ (x - 1) * e < m
      /\ y \in Int /\ n <= y * d /\ (y - 1) * d < n
  BY CeilDivLemma
<1> HIDE DEF x, y
<1>2. 0 <= x
  <2>1. (-1) * e < x * e
    BY <1>1
  <2>2. -1 < x
    BY <1>1, <2>1, Cancel
  <2> QED BY <1>1, <2>2
<1>3. x - 1 < y
  <2> DEFINE de == d * e
             t == (x - 1) * e
  <2>1. de \in Nat \ {0}
    BY Product
  <2>2. t * d < m * d
    <3>1. t \in Int /\ t < m
      BY <1>1
    <3> HIDE DEF t
    <3> QED BY <3>1
  <2>3. n * e <= (y * d) * e
    <3> DEFINE u == y * d
    <3>1. u \in Int /\ n <= u
      BY <1>1
    <3> HIDE DEF u
    <3>2. n * e <= u * e
      BY <3>1
    <3> QED BY <3>2 DEF u
  <2>4. t * d = (x - 1) * de /\ (y * d) * e = y * de
    BY <1>1
  <2>5. (x - 1) * de < y * de
    <3> DEFINE a == (x - 1) * de
               b == y * de
               c == m * d
               f == n * e
    <3>1. a \in Int /\ b \in Int /\ c \in Int /\ f \in Int
      BY <1>1, <2>1
    <3>2. a < c /\ c <= f /\ f <= b
      BY <2>2, <2>3, <2>4
    <3> HIDE DEF a, b, c, f
    <3>3. a < b
      BY <3>1, <3>2
    <3> QED BY <3>3 DEF a, b
  <2> HIDE DEF de
  <2>6. x - 1 \in Int
    BY <1>1
  <2> QED BY <1>1, <2>1, <2>5, <2>6, Cancel
<1>4. x \in Nat /\ x <= y
  BY <1>1, <1>2, <1>3
<1> QED BY <1>4 DEF x, y

\* Rounding a fraction up twice, to 1/m first: the result is tight.
LEMMA TwoRoundings ==
    ASSUME NEW n \in Nat, NEW d \in Nat \ {0}, NEW m \in Nat \ {0}
    PROVE  LET fee == CeilDiv(CeilDiv(n * m, d), m)
           IN  fee \in Nat /\ n <= fee * d /\ fee * d < n + d
<1> DEFINE nm == n * m
           x == CeilDiv(nm, d)
           fee == CeilDiv(x, m)
<1>1. nm \in Nat /\ 0 * d <= nm * d
  OBVIOUS
<1>2. x \in Nat /\ nm <= x * d /\ (x - 1) * d < nm
  <2>1. CeilDiv(nm, d) \in Nat
    <3> HIDE DEF nm
    <3> QED BY <1>1, CeilDivGrows
  <2> HIDE DEF nm
  <2> QED BY <1>1, <2>1, CeilDivLemma
<1> HIDE DEF x
<1>3. /\ fee \in Int /\ x <= fee * m /\ (fee - 1) * m < x
  BY <1>2, CeilDivLemma
<1>4. fee \in Nat
  BY <1>2, <1>3, CeilDivGrows
<1> HIDE DEF fee
<1>5. n * m <= (fee * d) * m
  <2> DEFINE u == fee * m
  <2>1. u \in Int /\ x <= u /\ u * d = (fee * d) * m
    BY <1>3
  <2> HIDE DEF u
  <2>2. x * d <= u * d
    BY <1>2, <2>1
  <2>3. nm \in Int /\ x * d \in Int /\ u * d \in Int
    BY <1>1, <1>2, <2>1
  <2> QED BY <1>2, <2>1, <2>2, <2>3
<1>6. ((fee - 1) * d) * m < n * m
  <2> DEFINE u == (fee - 1) * m
  <2>1. u \in Int /\ u <= x - 1 /\ u * d = ((fee - 1) * d) * m
    BY <1>2, <1>3
  <2> HIDE DEF u
  <2>2. u * d <= (x - 1) * d
    BY <1>2, <2>1
  <2>3. nm \in Int /\ (x - 1) * d \in Int /\ u * d \in Int
    BY <1>1, <1>2, <2>1
  <2> QED BY <1>2, <2>1, <2>2, <2>3
<1>7. n <= fee * d /\ (fee - 1) * d < n
  <2>1. fee * d \in Int /\ (fee - 1) * d \in Int
    BY <1>3
  <2> QED BY <1>5, <1>6, <2>1, Cancel
<1>8. fee * d = (fee - 1) * d + d
  BY <1>3
<1>9. fee * d < n + d
  <2>1. fee * d \in Int /\ (fee - 1) * d \in Int
    BY <1>3
  <2> QED BY <1>7, <1>8, <2>1
<1> QED BY <1>4, <1>7, <1>9 DEF fee, x
\* The rates that a series or a market may have.
Rate == [num : Nat, den : Nat \ {0}]

\* What the formulas of both venues multiply.
LEMMA ModelLemma ==
    ASSUME NEW qty \in Nat, NEW price \in 0 .. TicksPerDollar
    PROVE  CP1MP(qty, price) \in Nat /\ ModelDen \in Nat \ {0}
<1>1. TicksPerDollar \in Nat \ {0} /\ QtyPerContract \in Nat \ {0}
  BY ScaleAssumption
<1>2. price \in Nat /\ TicksPerDollar - price \in Nat
  BY <1>1
<1>3. qty * price \in Nat
  BY <1>2
<1> QED BY <1>1, <1>2, <1>3, Product DEF CP1MP, ModelDen

LEMMA KalshiFeeLemma ==
    ASSUME NEW qty \in Nat, NEW price \in 0 .. TicksPerDollar, NEW feeType, NEW r \in Rate
    PROVE  LET fee == KalshiFee(qty, price, TRUE, feeType, r)
               num == 7 * r.num * CP1MP(qty, price)
               den == 100 * r.den * ModelDen
           IN  /\ fee \in Nat
               /\ num <= fee * den /\ fee * den < num + den
               /\ KalshiFee(qty, price, FALSE, feeType, r) \in 0 .. fee
<1> DEFINE cp == CP1MP(qty, price)
           M == MicrosPerTick
           a == r.num
           b == r.den
           num == 7 * a * cp
           den == 100 * b * ModelDen
           s == MakerMult(feeType)
           micros == CeilDiv(num * M, den)
           share == CeilDiv((7 * a * s.num) * cp * M, (100 * b * s.den) * QtyPerContract * TicksPerDollar)
<1>1. /\ cp \in Nat /\ M \in Nat \ {0} /\ a \in Nat /\ b \in Nat \ {0}
      /\ ModelDen \in Nat \ {0} /\ ModelDen = QtyPerContract * TicksPerDollar
      /\ QtyPerContract \in Nat \ {0} /\ TicksPerDollar \in Nat \ {0}
  BY ModelLemma, FeesAssumption, ScaleAssumption DEF Rate, ModelDen
<1>2. s.num \in Nat /\ s.den \in Nat \ {0} /\ s.num <= s.den
  BY DEF MakerMult
<1>3. num \in Nat /\ den \in Nat \ {0}
  <2>1. 7 * a \in Nat /\ 100 * b \in Nat \ {0}
    BY <1>1
  <2> HIDE DEF cp, a, b
  <2> QED BY <1>1, <2>1, Product
<1>4. KalshiFee(qty, price, TRUE, feeType, r) = CeilDiv(micros, M)
  <2>1. (100 * b) * QtyPerContract * TicksPerDollar = den
    BY <1>1
  <2> HIDE DEF den
  <2> QED BY <2>1 DEF KalshiFee, Times, KalshiTakerCoeff
<1>5. KalshiFee(qty, price, FALSE, feeType, r) = CeilDiv(share, M)
  <2> HIDE DEF s
  <2> QED BY DEF KalshiFee, Times, KalshiTakerCoeff, s
<1>6. share \in Nat /\ share <= micros
  <2> DEFINE n == num * M
             e == (100 * b * s.den) * QtyPerContract * TicksPerDollar
             m == (7 * a * s.num) * cp * M
  <2>1. n \in Nat
    <3> HIDE DEF num
    <3> QED BY <1>1, <1>3
  <2>2. m = n * s.num /\ e = den * s.den
    <3> HIDE DEF cp, a, b, s
    <3>1. m = n * s.num
      BY <1>1, <1>2
    <3>2. e = (100 * b * s.den) * ModelDen
      BY <1>1, <1>2
    <3>3. (100 * b * s.den) * ModelDen = den * s.den
      BY <1>1, <1>2
    <3> QED BY <3>1, <3>2, <3>3
  <2> HIDE DEF n, e, m, den, s
  <2>3. m \in Nat /\ e \in Nat \ {0}
    BY <1>2, <1>3, <2>1, <2>2, Product
  <2>4. m * den <= n * e
    <3> DEFINE x == n * den
    <3>1. x \in Nat
      BY <1>3, <2>1
    <3>2. m * den = x * s.num /\ n * e = x * s.den
      BY <1>2, <1>3, <2>1, <2>2
    <3> HIDE DEF x
    <3>3. x * s.num <= x * s.den
      BY <1>2, <3>1
    <3> QED BY <3>2, <3>3
  <2>5. CeilDiv(m, e) \in Nat /\ CeilDiv(m, e) <= CeilDiv(n, den)
    BY <1>3, <2>1, <2>3, <2>4, CeilDivGrows
  <2> QED BY <2>5 DEF n, e, m
<1> HIDE DEF num, den, share
<1>7. LET fee == CeilDiv(micros, M)
      IN  fee \in Nat /\ num <= fee * den /\ fee * den < num + den
  BY <1>1, <1>3, TwoRoundings
<1>8. micros \in Nat
  BY <1>1, <1>3, CeilDivGrows
<1>9. CeilDiv(share, M) \in Nat /\ CeilDiv(share, M) <= CeilDiv(micros, M)
  <2> HIDE DEF micros
  <2>1. share * M <= micros * M
    BY <1>1, <1>6, <1>8
  <2> QED BY <1>1, <1>6, <1>8, <2>1, CeilDivGrows
<1> HIDE DEF micros
<1> DEFINE fee == KalshiFee(qty, price, TRUE, feeType, r)
           makerFee == KalshiFee(qty, price, FALSE, feeType, r)
<1>10. /\ fee \in Nat /\ num <= fee * den /\ fee * den < num + den
       /\ makerFee \in Nat /\ makerFee <= fee
  BY <1>4, <1>5, <1>7, <1>9
<1> HIDE DEF fee, makerFee
<1>11. makerFee \in 0 .. fee
  BY <1>10
<1> QED BY <1>10, <1>11 DEF num, den, fee, makerFee
LEMMA PolymarketFeeLemma ==
    ASSUME NEW qty \in Nat, NEW price \in 0 .. TicksPerDollar, NEW r \in Rate
    PROVE  LET fee == PolymarketFee(qty, price, TRUE, r)
               cents == fee \div TicksPerCent
               num == r.num * CP1MP(qty, price)
               den == r.den * ModelDen * TicksPerCent
               off == 2 * (cents * den - num)
           IN  /\ fee \in Nat
               /\ fee = cents * TicksPerCent
               /\ -den <= off /\ off <= den
               /\ off \in {-den, den} => cents % 2 = 0
               /\ PolymarketFee(qty, price, FALSE, r) <= 0
<1> DEFINE cp == CP1MP(qty, price)
           T == TicksPerCent
           num == r.num * cp
           den == r.den * ModelDen * T
           h == HalfEvenDiv(num, den)
           mnum == (-125) * cp
           mden == 10000 * ModelDen * T
           m == HalfEvenDiv(mnum, mden)
           fee == PolymarketFee(qty, price, TRUE, r)
           makerFee == PolymarketFee(qty, price, FALSE, r)
           cents == fee \div T
<1>1. /\ cp \in Nat /\ T \in Nat \ {0} /\ r.num \in Nat /\ r.den \in Nat \ {0}
      /\ ModelDen \in Nat \ {0} /\ ModelDen = QtyPerContract * TicksPerDollar
      /\ QtyPerContract \in Nat \ {0} /\ TicksPerDollar \in Nat \ {0}
  BY ModelLemma, FeesAssumption, ScaleAssumption DEF Rate, ModelDen
<1>2. num \in Nat /\ den \in Nat \ {0} /\ mnum \in Int /\ mnum <= 0 /\ mden \in Nat \ {0}
  <2> HIDE DEF cp
  <2>1. r.den * ModelDen \in Nat \ {0} /\ 10000 * ModelDen \in Nat \ {0}
    BY <1>1, Product
  <2>2. den \in Nat \ {0} /\ mden \in Nat \ {0}
    BY <1>1, <2>1, Product
  <2> QED BY <1>1, <2>2
<1>3. fee = T * h
  <2>1. r.den * QtyPerContract * TicksPerDollar * T = den
    BY <1>1
  <2> HIDE DEF den
  <2> QED BY <2>1 DEF PolymarketFee
<1>4. makerFee = T * m
  <2>1. 10000 * QtyPerContract * TicksPerDollar * T = mden
    BY <1>1
  <2> HIDE DEF mden
  <2> QED BY <2>1 DEF PolymarketFee, PolymarketMakerCoeff
<1> HIDE DEF num, den, mnum, mden, fee, makerFee
<1>5. /\ h \in Int /\ -den <= 2 * (h * den - num) /\ 2 * (h * den - num) <= den
      /\ 2 * (h * den - num) \in {-den, den} => h % 2 = 0
      /\ m \in Int /\ m <= 0
  BY <1>2, HalfEvenLemma
<1> HIDE DEF h, m
<1>6. h \in Nat
  <2>1. CASE h < 0
    <3>1. h * den <= (-1) * den
      BY <1>2, <1>5, <2>1
    <3>2. h * den \in Int
      BY <1>2, <1>5
    <3>3. 2 * (h * den - num) <= - 2 * den
      BY <1>2, <3>1, <3>2
    <3> QED BY <1>2, <1>5, <3>3
  <2> QED BY <1>5, <2>1
<1>7. fee \in Nat /\ cents = h /\ makerFee <= 0
  <2>1. (T * h) \div T = h
    BY <1>1, <1>6
  <2>2. T * h \in Nat /\ T * m <= 0
    BY <1>1, <1>5, <1>6
  <2> QED BY <1>3, <1>4, <2>1, <2>2
<1>8. fee = cents * T
  BY <1>1, <1>3, <1>6, <1>7
<1> HIDE DEF cents
<1>9. /\ -den <= 2 * (cents * den - num) /\ 2 * (cents * den - num) <= den
      /\ 2 * (cents * den - num) \in {-den, den} => cents % 2 = 0
  BY <1>5, <1>7
<1> QED BY <1>7, <1>8, <1>9 DEF num, den, fee, makerFee, cents

-----------------------------------------------------------------------------
(* Folds over a sequence of known length *)

\* The greatest of two, and of an interval.
LEMMA MaxLemma ==
    /\ \A x, y \in Int : Max({x, y}) = IF x >= y THEN x ELSE y
    /\ \A k \in Nat \ {0} : Max(1 .. k) = k
<1>1. ASSUME NEW S \in SUBSET Int, NEW x \in S, \A y \in S : x >= y PROVE Max(S) = x
  <2>1. \A z \in S : (\A y \in S : z >= y) => z = x
    BY <1>1
  <2> QED BY <1>1, <2>1 DEF Max
<1>2. ASSUME NEW x \in Int, NEW y \in Int PROVE Max({x, y}) = IF x >= y THEN x ELSE y
  <2>1. CASE x >= y
    BY <1>1, <2>1
  <2>2. CASE ~ (x >= y)
    BY <1>1, <2>2
  <2> QED BY <2>1, <2>2
<1>3. ASSUME NEW k \in Nat \ {0} PROVE Max(1 .. k) = k
  <2> DEFINE S == 1 .. k
  <2>1. S \in SUBSET Int /\ k \in S /\ \A y \in S : k >= y
    OBVIOUS
  <2> HIDE DEF S
  <2>2. Max(S) = k
    BY <1>1, <2>1
  <2> QED BY <2>2 DEF S
<1> QED BY <1>2, <1>3

\* A set of indices.
LEMMA PartLemma ==
    ASSUME NEW n \in Nat, NEW s \in SUBSET (1 .. n)
    PROVE  /\ IsFiniteSet(s) /\ Cardinality(s) \in 0 .. n
           /\ s # {} => Max(s) \in s
<1> DEFINE N == 1 .. n
<1>1. s \in SUBSET N /\ IsFiniteSet(N) /\ Cardinality(N) = n /\ s \in SUBSET Nat
  <2>1. IsFiniteSet(1 .. n) /\ Cardinality(1 .. n) = n
    BY FS_Interval
  <2> QED BY <2>1
<1> HIDE DEF N
<1>2. IsFiniteSet(s) /\ Cardinality(s) <= n
  BY <1>1, FS_Subset
<1> QED BY <1>1, <1>2, FS_CardinalityType, MinMaxLemma

\* What a fold from the left goes through, if step is what it does to a value of V
\* and the index of the next element.
IsLeftFold(iter, n, base, step) ==
    iter = [s \in SUBSET (1 .. n) |->
              IF s = {} THEN base ELSE step[<<iter[s \ {Max(s)}], Max(s)>>]]

LEMMA LeftFoldExists ==
    ASSUME NEW n \in Nat, NEW V, NEW base \in V, NEW step \in [V \X (1 .. n) -> V]
    PROVE  \E iter : /\ IsLeftFold(iter, n, base, step)
                     /\ iter \in [SUBSET (1 .. n) -> V]
<1> DEFINE D == SUBSET (1 .. n)
           mu == [s \in D |-> Cardinality(s)]
           next == [s \in D |-> s \ {Max(s)}]
           first == [s \in D |-> base]
           again == [e \in D \X V |-> IF e[1] = {} THEN base ELSE step[<<e[2], Max(e[1])>>]]
           stop == {{}}
<1>1. ASSUME NEW s \in D
      PROVE  /\ IsFiniteSet(s) /\ Cardinality(s) \in 0 .. n
             /\ s # {} => Max(s) \in s
  BY PartLemma
<1>2. IsDescent(D, n, mu, stop, next)
  <2>1. mu \in [D -> 0 .. n] /\ stop \in SUBSET D /\ next \in [D -> D]
    BY <1>1
  <2>2. ASSUME NEW s \in D \ stop PROVE mu[next[s]] < mu[s]
    <3>1. Max(s) \in s /\ IsFiniteSet(s)
      BY <1>1
    <3>2. Cardinality(s \ {Max(s)}) = Cardinality(s) - 1 /\ Cardinality(s) \in Nat
      BY <3>1, FS_RemoveElement, FS_CardinalityType
    <3>3. next[s] = s \ {Max(s)} /\ next[s] \in D /\ s \in D
      OBVIOUS
    <3>4. mu[next[s]] = Cardinality(s \ {Max(s)}) /\ mu[s] = Cardinality(s)
      <4> HIDE DEF next, D
      <4> QED BY <3>3
    <3> HIDE DEF mu, next, D
    <3> QED BY <3>2, <3>4
  <2> HIDE DEF mu, stop, next, D
  <2> QED BY <2>1, <2>2 DEF IsDescent
<1>3. first \in [D -> V] /\ again \in [D \X V -> V]
  BY <1>1
<1> HIDE DEF D, mu, stop, next, first, again
<1>4. PICK f : IsRecursion(D, V, stop, next, first, again, f)
  BY <1>2, <1>3, RecursionExists
<1>5. f \in [D -> V]
  BY <1>4 DEF IsRecursion
<1>6. ASSUME NEW s \in D
      PROVE  f[s] = IF s = {} THEN base ELSE step[<<f[s \ {Max(s)}], Max(s)>>]
  <2>1. f[s] = IF s \in stop THEN first[s] ELSE again[<<s, f[next[s]]>>]
    BY <1>4 DEF IsRecursion
  <2>2. next[s] = s \ {Max(s)} /\ first[s] = base /\ next[s] \in D
    BY DEF next, first, D
  <2>3. again[<<s, f[next[s]]>>] = IF s = {} THEN base ELSE step[<<f[next[s]], Max(s)>>]
    BY <1>5, <2>2 DEF again
  <2> QED BY <2>1, <2>2, <2>3 DEF stop
<1>7. IsLeftFold(f, n, base, step)
  BY <1>5, <1>6 DEF IsLeftFold, D
<1> QED BY <1>5, <1>7 DEF D

\* The first elements of a sequence, as sets of their indices.
LEMMA Staircase ==
    ASSUME NEW n \in Nat, NEW k \in 1 .. n
    PROVE  /\ 1 .. k \in SUBSET (1 .. n) /\ 1 .. k # {} /\ Max(1 .. k) = k
           /\ (1 .. k) \ {k} = 1 .. k - 1
BY MaxLemma

-----------------------------------------------------------------------------
(* The clock check *)

Course == [up : Nat, down : Nat, kind : {"answered", "lost", "useless"}]

ReplyRecord == [origin : Nat, t2 : Int, t3 : Int, at : Nat, usable : BOOLEAN]

\* Between two exchanges: the time, what waits in the socket, the samples.
Querying == [now : Nat, socket : SUBSET ReplyRecord, collected : Seq([skew2 : Int, delay : Int])]

NotAsked == [now |-> 0, socket |-> {}, collected |-> <<>>]

\* An exchange whose answer comes before its read gives up.
InTime(x) == x.kind = "answered" /\ x.up + x.down <= Timeout

\* What is measured of an exchange: half of the delay bounds the error.
Measures(c, x, ahead) ==
    /\ InTime(x)
    /\ c.delay = x.up + x.down
    /\ c.skew2 + 2 * ahead \in - c.delay .. c.delay

\* Everything in the socket was asked for earlier.
Waiting(s) == \A r \in s.socket : r.origin < s.now

\* One exchange: it reads an answer to itself, which is in time, or to another, or none.
LEMMA ExchangeLemma ==
    ASSUME NEW s \in Querying, Waiting(s), NEW x \in Course, NEW ahead \in Int
    PROVE  LET t == Exchange(s, x, ahead)
           IN  /\ t \in Querying /\ Waiting(t)
               /\ \/ t.collected = s.collected
                  \/ \E c \in [skew2 : Int, delay : Int] :
                        t.collected = Append(s.collected, c) /\ Measures(c, x, ahead)
               /\ InTime(x) /\ s.socket = {} =>
                     t.socket = {} /\ Len(t.collected) = Len(s.collected) + 1
<1> DEFINE r == Reply(x, s.now, ahead)
           socket == s.socket \cup Replies(x, s.now, ahead)
           there == {q \in socket : q.at <= s.now + Timeout}
           first == CHOOSE q \in there : \A p \in there : q.at <= p.at
           t4 == Max({s.now, first.at})
           t == Exchange(s, x, ahead)
           c == SampleOf(first.origin, first.t2, first.t3, t4)
<1>1. /\ s.now \in Nat /\ s.socket \in SUBSET ReplyRecord
      /\ s.collected \in Seq([skew2 : Int, delay : Int])
      /\ x.up \in Nat /\ x.down \in Nat /\ Timeout \in Nat \ {0}
  BY ClockAssumption DEF Querying, Course
<1>2. /\ r \in ReplyRecord
      /\ r.origin = s.now /\ r.t2 = s.now + x.up + ahead /\ r.t3 = s.now + x.up + ahead
      /\ r.at = s.now + x.up + x.down /\ r.usable = (x.kind = "answered")
  BY <1>1 DEF Reply, ReplyRecord
<1> HIDE DEF r
<1>3. socket \in SUBSET ReplyRecord /\ socket \subseteq s.socket \cup {r}
      /\ (x.kind # "lost" => r \in socket)
  BY <1>1, <1>2 DEF Replies, r
<1>4. \A q \in socket : q.origin <= s.now /\ (q.origin = s.now => q = r)
  BY <1>1, <1>2, <1>3 DEF Waiting, ReplyRecord
<1> HIDE DEF socket
<1>5. CASE there = {}
  <2>1. t = [s EXCEPT !.socket = socket, !.now = @ + Timeout]
    BY <1>5 DEF Exchange, socket
  <2>5. t = [now |-> s.now + Timeout, socket |-> socket, collected |-> s.collected]
    BY <2>1 DEF Querying
  <2> HIDE DEF t
  <2>2. t.socket = socket /\ t.now = s.now + Timeout /\ t.collected = s.collected
        /\ t \in Querying
    BY <1>1, <1>3, <2>5 DEF Querying
  <2>3. Waiting(t)
    BY <1>1, <1>3, <1>4, <2>2 DEF Waiting, ReplyRecord
  <2>4. ~ InTime(x)
    <3>1. InTime(x) => r \in there
      BY <1>1, <1>2, <1>3 DEF InTime
    <3> QED BY <1>5, <3>1
  <2> QED BY <2>2, <2>3, <2>4 DEF t
<1>6. CASE there # {}
  <2>1. first \in there /\ \A p \in there : first.at <= p.at
    <3>1. there \in SUBSET ReplyRecord
      BY <1>3
    <3> DEFINE ats == {q.at : q \in there}
    <3>2. ats \in SUBSET Nat /\ ats # {}
      BY <1>6, <3>1 DEF ReplyRecord
    <3>3. \E q \in there : \A p \in there : q.at <= p.at
      <4>1. PICK a \in ats : \A b \in ats : a <= b
        <5> HIDE DEF ats
        <5> QED BY <3>2, LeastOf
      <4> QED BY <4>1
    <3> HIDE DEF there
    <3> QED BY <3>3
  <2> DEFINE had == Accepted(first, s.now)
  <2>2. t = [now |-> t4 + 1, socket |-> socket \ {first},
             collected |-> IF had THEN Append(s.collected, c) ELSE s.collected]
    BY <1>6 DEF Exchange, socket
  <2>3. /\ first \in socket /\ first.at \in Nat /\ first.at <= s.now + Timeout
        /\ first.t2 \in Int /\ first.t3 \in Int /\ first.origin \in Nat
    BY <1>3, <2>1 DEF ReplyRecord
  <2> HIDE DEF first
  <2>4. t4 \in Nat /\ t4 >= s.now /\ (first.at >= s.now => t4 = first.at)
    <3>1. s.now \in Int /\ first.at \in Int
      BY <1>1, <2>3
    <3>2. t4 = IF s.now >= first.at THEN s.now ELSE first.at
      BY <3>1, MaxLemma
    <3> HIDE DEF t4
    <3> QED BY <1>1, <2>3, <3>2
  <2> HIDE DEF t4
  <2>5. c \in [skew2 : Int, delay : Int]
    BY <2>3, <2>4 DEF SampleOf
  <2>6. had => first = r /\ x.kind = "answered" /\ Measures(c, x, ahead)
    <3> SUFFICES ASSUME had PROVE first = r /\ x.kind = "answered" /\ Measures(c, x, ahead)
      OBVIOUS
    <3>1. first = r
      BY <1>4, <2>3 DEF Accepted
    <3>2. x.kind = "answered"
      BY <1>2, <3>1 DEF Accepted
    <3>3. t4 = r.at
      BY <1>1, <1>2, <2>4, <3>1
    <3>4. c.delay = x.up + x.down /\ c.skew2 = x.down - x.up - 2 * ahead
      BY <1>1, <1>2, <3>1, <3>3 DEF SampleOf
    <3> HIDE DEF c
    <3>5. x.up + x.down <= Timeout
      BY <1>1, <1>2, <2>3, <3>1
    <3>6. c.skew2 + 2 * ahead \in - c.delay .. c.delay
      BY <1>1, <3>4
    <3> QED BY <3>1, <3>2, <3>4, <3>5, <3>6 DEF Measures, InTime
  <2> HIDE DEF c, had
  <2>7. /\ t.now = t4 + 1 /\ t.socket = socket \ {first}
        /\ t.collected = IF had THEN Append(s.collected, c) ELSE s.collected
    BY <2>2
  <2>8. t.collected \in Seq([skew2 : Int, delay : Int])
    <3> DEFINE Sample == [skew2 : Int, delay : Int]
    <3>1. s.collected \in Seq(Sample) /\ c \in Sample
      BY <1>1, <2>5
    <3> HIDE DEF Sample
    <3>2. Append(s.collected, c) \in Seq(Sample)
      BY <3>1
    <3>3. t.collected \in Seq(Sample)
      BY <2>7, <3>1, <3>2
    <3> QED BY <3>3 DEF Sample
  <2>9. t \in Querying
    BY <1>3, <2>2, <2>4, <2>8 DEF Querying
  <2> HIDE DEF t
  <2>10. Waiting(t)
    BY <1>1, <1>3, <1>4, <2>4, <2>7 DEF Waiting, ReplyRecord
  <2>11. ASSUME InTime(x), s.socket = {}
         PROVE  t.socket = {} /\ Len(t.collected) = Len(s.collected) + 1
    <3>1. socket = {r} /\ first = r
      BY <1>3, <2>3, <2>11 DEF InTime
    <3>2. had
      BY <1>2, <2>11, <3>1 DEF had, Accepted, InTime
    <3>3. Len(Append(s.collected, c)) = Len(s.collected) + 1
      BY <1>1, <2>5
    <3> QED BY <2>7, <3>1, <3>2, <3>3
  <2> QED BY <2>5, <2>6, <2>7, <2>9, <2>10, <2>11 DEF t
<1> QED BY <1>5, <1>6

\* The function that the fold of the exchanges is defined by.
QueryFold(iter, xs, ahead) ==
    iter = [s \in SUBSET DOMAIN xs |->
              IF s = {} THEN NotAsked
              ELSE LET i == Max(s) IN Exchange(iter[s \ {i}], xs[i], ahead)]

QueryIter(xs, ahead) == CHOOSE iter : QueryFold(iter, xs, ahead)

LEMMA QueryIsFold ==
    ASSUME NEW xs, NEW ahead
    PROVE  QuerySync(xs, ahead) = QueryIter(xs, ahead)[DOMAIN xs].collected
BY DEF QuerySync, FoldLeft, MapThenFoldSet, QueryIter, QueryFold, NotAsked

\* Exchange by exchange.
LEMMA QuerySteps ==
    ASSUME NEW n \in Nat, NEW xs \in [1 .. n -> Course], NEW ahead \in Int
    PROVE  \E g : /\ g[0] = NotAsked
                  /\ \A k \in 1 .. n : g[k] = Exchange(g[k - 1], xs[k], ahead)
                  /\ QuerySync(xs, ahead) = g[n].collected
<1> DEFINE D == {s \in Querying : Waiting(s)}
           step == [e \in D \X (1 .. n) |-> Exchange(e[1], xs[e[2]], ahead)]
           it == QueryIter(xs, ahead)
           g == [k \in 0 .. n |-> it[1 .. k]]
<1>1. NotAsked \in D
  BY DEF NotAsked, Querying, Waiting
<1>2. step \in [D \X (1 .. n) -> D]
  <2>1. ASSUME NEW e \in D \X (1 .. n) PROVE Exchange(e[1], xs[e[2]], ahead) \in D
    <3>1. e[1] \in Querying /\ Waiting(e[1]) /\ xs[e[2]] \in Course
      OBVIOUS
    <3> QED BY <3>1, ExchangeLemma
  <2> HIDE DEF D
  <2> QED BY <2>1
<1> HIDE DEF D
<1>3. PICK f : IsLeftFold(f, n, NotAsked, step) /\ f \in [SUBSET (1 .. n) -> D]
  <2> HIDE DEF step
  <2> QED BY <1>1, <1>2, LeftFoldExists
<1>4. QueryFold(f, xs, ahead)
  <2>1. ASSUME NEW s \in SUBSET (1 .. n), s # {}
        PROVE  step[<<f[s \ {Max(s)}], Max(s)>>]
                  = Exchange(f[s \ {Max(s)}], xs[Max(s)], ahead)
    <3>1. Max(s) \in s
      BY <2>1, PartLemma
    <3>2. f[s \ {Max(s)}] \in D /\ Max(s) \in 1 .. n
      BY <1>3, <3>1
    <3> QED BY <3>2
  <2>2. DOMAIN xs = 1 .. n
    OBVIOUS
  <2> HIDE DEF step
  <2> QED BY <1>3, <2>1, <2>2 DEF QueryFold, IsLeftFold
<1>5. QueryFold(it, xs, ahead)
  BY <1>4 DEF QueryIter
<1> HIDE DEF it, step
<1>6. \A s \in SUBSET (1 .. n) :
         it[s] = IF s = {} THEN NotAsked ELSE Exchange(it[s \ {Max(s)}], xs[Max(s)], ahead)
  BY <1>5 DEF QueryFold
<1>7. g[0] = NotAsked
  <2>1. 1 .. 0 = {} /\ 0 \in 0 .. n
    OBVIOUS
  <2> QED BY <1>6, <2>1
<1>8. ASSUME NEW k \in 1 .. n PROVE g[k] = Exchange(g[k - 1], xs[k], ahead)
  <2>1. g[k] = it[1 .. k] /\ g[k - 1] = it[1 .. k - 1]
    OBVIOUS
  <2> HIDE DEF g
  <2>2. it[1 .. k] = Exchange(it[1 .. k - 1], xs[k], ahead)
    BY <1>6, Staircase
  <2> QED BY <2>1, <2>2
<1>9. QuerySync(xs, ahead) = g[n].collected
  BY QueryIsFold DEF it
<1> HIDE DEF g
<1> QED BY <1>7, <1>8, <1>9

\* What holds after k exchanges.
Queried(s, k, xs, ahead) ==
    /\ s \in Querying /\ Waiting(s)
    /\ \A i \in 1 .. Len(s.collected) : \E n \in 1 .. k : Measures(s.collected[i], xs[n], ahead)
    /\ (\A n \in 1 .. k : InTime(xs[n])) => s.socket = {}
    /\ \A n \in 1 .. k : (\A o \in 1 .. n : InTime(xs[o])) => Len(s.collected) >= n

LEMMA QueriedInv ==
    ASSUME NEW n \in Nat, NEW xs \in [1 .. n -> Course], NEW ahead \in Int
    PROVE  \E s : QuerySync(xs, ahead) = s.collected /\ Queried(s, n, xs, ahead)
<1>1. PICK g : /\ g[0] = NotAsked
               /\ \A k \in 1 .. n : g[k] = Exchange(g[k - 1], xs[k], ahead)
               /\ QuerySync(xs, ahead) = g[n].collected
  BY QuerySteps
<1> DEFINE G == {k \in 0 .. n : Queried(g[k], k, xs, ahead)}
<1>2. 0 \in G
  <2>1. NotAsked \in Querying /\ Waiting(NotAsked) /\ Len(NotAsked.collected) = 0
        /\ NotAsked.socket = {}
    BY DEF NotAsked, Querying, Waiting
  <2>2. Queried(NotAsked, 0, xs, ahead)
    BY <2>1 DEF Queried
  <2> QED BY <1>1, <2>2
<1>3. ASSUME NEW k \in 0 .. n, k # 0, k - 1 \in G PROVE k \in G
  <2> DEFINE s == g[k - 1]
             t == g[k]
             x == xs[k]
  <2>1. k \in 1 .. n /\ x \in Course /\ t = Exchange(s, x, ahead) /\ Queried(s, k - 1, xs, ahead)
    BY <1>1, <1>3
  <2>2. /\ t \in Querying /\ Waiting(t)
        /\ \/ t.collected = s.collected
           \/ \E c \in [skew2 : Int, delay : Int] :
                 t.collected = Append(s.collected, c) /\ Measures(c, x, ahead)
        /\ InTime(x) /\ s.socket = {} =>
              t.socket = {} /\ Len(t.collected) = Len(s.collected) + 1
    <3>1. s \in Querying /\ Waiting(s)
      BY <2>1 DEF Queried
    <3> HIDE DEF s, t, x
    <3> QED BY <2>1, <3>1, ExchangeLemma
  <2>3. s.collected \in Seq([skew2 : Int, delay : Int]) /\ Len(s.collected) \in Nat
    BY <2>1 DEF Queried, Querying
  <2> HIDE DEF s, t
  <2>4. /\ Len(t.collected) >= Len(s.collected) /\ Len(t.collected) \in Nat
        /\ \A i \in 1 .. Len(t.collected) : \E m \in 1 .. k : Measures(t.collected[i], xs[m], ahead)
    <3>1. \A i \in 1 .. Len(s.collected) : \E m \in 1 .. k : Measures(s.collected[i], xs[m], ahead)
      BY <2>1 DEF Queried
    <3>2. CASE t.collected = s.collected
      <4>1. Len(t.collected) = Len(s.collected)
        BY <3>2
      <4>2. \A i \in 1 .. Len(t.collected) :
               \E m \in 1 .. k : Measures(t.collected[i], xs[m], ahead)
        BY <3>1, <3>2
      <4>3. Len(t.collected) >= Len(s.collected) /\ Len(t.collected) \in Nat
        <5> DEFINE p == Len(t.collected)
                   q == Len(s.collected)
        <5>1. p = q /\ q \in Nat
          BY <2>3, <4>1
        <5> HIDE DEF p, q
        <5>2. p >= q /\ p \in Nat
          BY <5>1
        <5> QED BY <5>2 DEF p, q
      <4> QED BY <4>2, <4>3
    <3>3. ASSUME NEW c \in [skew2 : Int, delay : Int],
                 t.collected = Append(s.collected, c), Measures(c, x, ahead)
          PROVE  <2>4!:
      <4> DEFINE Sample == [skew2 : Int, delay : Int]
      <4>1. s.collected \in Seq(Sample) /\ c \in Sample
        BY <2>3
      <4> HIDE DEF Sample
      <4>2. /\ Len(t.collected) = Len(s.collected) + 1
            /\ \A i \in 1 .. Len(s.collected) : t.collected[i] = s.collected[i]
            /\ t.collected[Len(s.collected) + 1] = c
        BY <3>3, <4>1, AppendProperties
      <4>3. k \in 1 .. k
        BY <1>3
      <4>4. ASSUME NEW i \in 1 .. Len(t.collected)
            PROVE  \E m \in 1 .. k : Measures(t.collected[i], xs[m], ahead)
        <5>1. CASE i = Len(s.collected) + 1
          BY <3>3, <4>2, <4>3, <5>1
        <5>2. CASE i # Len(s.collected) + 1
          <6>1. i \in 1 .. Len(s.collected)
            BY <2>3, <4>2, <5>2
          <6> QED BY <3>1, <4>2, <6>1
        <5> QED BY <5>1, <5>2
      <4> QED BY <2>3, <4>2, <4>4
    <3> QED BY <2>2, <3>2, <3>3
  <2>5. ASSUME \A m \in 1 .. k : InTime(xs[m])
        PROVE  t.socket = {} /\ Len(t.collected) >= k
    <3>1. s.socket = {} /\ InTime(x)
      BY <1>3, <2>1, <2>5 DEF Queried
    <3>2. Len(s.collected) >= k - 1
      <4>1. CASE k = 1
        BY <2>3, <4>1
      <4>2. CASE k # 1
        <5>1. k - 1 \in 1 .. k - 1
          BY <1>3, <4>2
        <5> QED BY <1>3, <2>1, <2>5, <5>1 DEF Queried
      <4> QED BY <4>1, <4>2
    <3> QED BY <1>3, <2>2, <2>3, <3>1, <3>2
  <2>6. ASSUME NEW m \in 1 .. k, \A o \in 1 .. m : InTime(xs[o])
        PROVE  Len(t.collected) >= m
    <3>1. CASE m = k
      BY <2>5, <2>6, <3>1
    <3>2. CASE m # k
      <4>1. m \in 1 .. k - 1
        BY <3>2
      <4>2. Len(s.collected) >= m
        BY <2>1, <2>6, <4>1 DEF Queried
      <4> QED BY <2>3, <2>4, <4>2
    <3> QED BY <3>1, <3>2
  <2>7. Queried(t, k, xs, ahead)
    BY <2>2, <2>4, <2>5, <2>6 DEF Queried
  <2> QED BY <2>7 DEF t
<1> HIDE DEF G
<1>4. n \in G
  BY <1>2, <1>3, UpTo
<1> QED BY <1>1, <1>4 DEF G

\* The best sample is the first of the fastest.
LEMMA BestSampleLemma ==
    ASSUME NEW samples \in Seq([skew2 : Int, delay : Int]), samples # <<>>,
           \A i \in 1 .. Len(samples) : samples[i].delay \in Nat
    PROVE  \E i \in 1 .. Len(samples) :
              /\ BestSample(samples) = samples[i]
              /\ \A j \in 1 .. Len(samples) : samples[i].delay <= samples[j].delay
<1> DEFINE I == 1 .. Len(samples)
           best == {i \in I : \A j \in I : samples[i].delay <= samples[j].delay}
           delays == {samples[i].delay : i \in I}
<1>1. I # {} /\ DOMAIN samples = I
  OBVIOUS
<1>2. delays \in SUBSET Nat /\ delays # {}
  BY <1>1
<1>3. PICK x \in delays : \A y \in delays : x <= y
  <2> HIDE DEF delays
  <2> QED BY <1>2, LeastOf
<1>4. best # {} /\ best \in SUBSET Nat
  <2>1. PICK i \in I : x = samples[i].delay
    BY <1>3
  <2>2. \A j \in I : samples[j].delay \in delays
    OBVIOUS
  <2> HIDE DEF delays
  <2>3. \A j \in I : samples[i].delay <= samples[j].delay
    BY <1>3, <2>1, <2>2
  <2>4. i \in best
    BY <2>1, <2>3
  <2>5. best \in SUBSET Nat
    OBVIOUS
  <2> QED BY <2>4, <2>5
<1>5. Min(best) \in best
  <2> HIDE DEF best
  <2> QED BY <1>4, MinMaxLemma
<1>6. BestSample(samples) = samples[Min(best)]
  BY <1>1 DEF BestSample
<1> QED BY <1>5, <1>6

-----------------------------------------------------------------------------
(* Orders *)

\* A strict total order of the elements of S.
IsOrder(S, R) ==
    /\ \A x \in S : ~ (<<x, x>> \in R)
    /\ \A x, y \in S : x # y => <<x, y>> \in R \/ <<y, x>> \in R
    /\ \A x, y, z \in S : <<x, y>> \in R /\ <<y, z>> \in R => <<x, z>> \in R

\* A sequence s lists S in the order R.
Lists(s, S, R) ==
    LET N == 1 .. Cardinality(S)
    IN  /\ Cardinality(S) \in Nat
        /\ s \in [N -> S]
        /\ \A x \in S : \E k \in N : s[k] = x
        /\ \A j, k \in N : j < k <=> <<s[j], s[k]>> \in R
        /\ \A j, k \in N : s[j] = s[k] => j = k

\* Every finite set can be listed: an element's rank, the number of those before
\* it, tells it from every other, so each rank there can be is taken.
LEMMA InOrderLemma ==
    ASSUME NEW S, IsFiniteSet(S), NEW R, IsOrder(S, R)
    PROVE  Lists(InOrder(S, R), S, R)
<1> DEFINE n == Cardinality(S)
           Ranks == 0 .. n - 1
           below(x) == {y \in S : <<y, x>> \in R}
           rank == [x \in S |-> Cardinality(below(x))]
           s == InOrder(S, R)
           N == 1 .. n
<1>1. n \in Nat
  BY FS_CardinalityType
<1>2. ASSUME NEW x \in S
      PROVE  IsFiniteSet(below(x)) /\ rank[x] = Cardinality(below(x)) /\ rank[x] \in Ranks
  <2>1. below(x) \in SUBSET (S \ {x})
    BY DEF IsOrder
  <2>2. IsFiniteSet(S \ {x}) /\ Cardinality(S \ {x}) = n - 1
    BY FS_RemoveElement
  <2> DEFINE b == below(x)
  <2> HIDE DEF below
  <2>3. IsFiniteSet(b) /\ Cardinality(b) <= n - 1
    BY <2>1, <2>2, FS_Subset
  <2>4. Cardinality(b) \in Nat
    BY <2>3, FS_CardinalityType
  <2> HIDE DEF n
  <2> QED BY <1>1, <2>3, <2>4
<1>3. ASSUME NEW x \in S, NEW y \in S, <<x, y>> \in R
      PROVE  rank[x] < rank[y]
  <2> DEFINE b == below(x) \cup {x}
  <2>1. b \in SUBSET below(y) /\ ~ (x \in below(x))
    BY <1>3 DEF IsOrder
  <2>2. IsFiniteSet(below(x)) /\ IsFiniteSet(below(y))
        /\ rank[x] = Cardinality(below(x)) /\ rank[y] = Cardinality(below(y))
        /\ rank[x] \in Ranks /\ rank[y] \in Ranks
    BY <1>2
  <2> HIDE DEF below, rank
  <2>3. Cardinality(b) = Cardinality(below(x)) + 1
    BY <2>1, <2>2, FS_AddElement
  <2>4. Cardinality(b) <= Cardinality(below(y))
    BY <2>1, <2>2, FS_Subset
  <2> HIDE DEF n, b
  <2> QED BY <1>1, <2>2, <2>3, <2>4
<1>4. \A x, y \in S : rank[x] = rank[y] => x = y
  <2> SUFFICES ASSUME NEW x \in S, NEW y \in S, x # y PROVE rank[x] # rank[y]
    OBVIOUS
  <2>1. <<x, y>> \in R \/ <<y, x>> \in R
    BY DEF IsOrder
  <2>2. rank[x] \in Int /\ rank[y] \in Int /\ (rank[x] < rank[y] \/ rank[y] < rank[x])
    <3>1. rank[x] \in Ranks /\ rank[y] \in Ranks
      <4> HIDE DEF rank, Ranks
      <4> QED BY <1>2
    <3>2. Ranks \subseteq Int
      BY <1>1
    <3> HIDE DEF rank, n, Ranks
    <3> QED BY <1>3, <2>1, <3>1, <3>2
  <2> HIDE DEF rank
  <2> QED BY <2>2
<1>5. \A r \in Ranks : \E x \in S : rank[x] = r
  <2>1. rank \in [S -> Ranks]
    <3> HIDE DEF below, Ranks
    <3>1. DOMAIN rank = S /\ \A x \in S : rank[x] \in Ranks
      BY <1>2
    <3> QED BY <3>1
  <2>2. rank \in Injection(S, Ranks)
    <3> HIDE DEF rank, Ranks
    <3> QED BY <1>4, <2>1 DEF Injection, IsInjective
  <2>3. IsFiniteSet(Ranks) /\ Cardinality(Ranks) = n
    <3> HIDE DEF n
    <3>1. IsFiniteSet(0 .. n - 1) /\ Cardinality(0 .. n - 1) = IF 0 > n - 1 THEN 0 ELSE n - 1 - 0 + 1
      BY <1>1, FS_Interval
    <3> QED BY <1>1, <3>1
  <2> HIDE DEF rank, Ranks
  <2>4. rank \in Surjection(S, Ranks)
    BY <2>2, <2>3, FS_Injection
  <2> QED BY <2>4 DEF Surjection
<1>6. ASSUME NEW k \in N
      PROVE  s[k] \in S /\ rank[s[k]] = k - 1
  <2>1. s[k] = CHOOSE x \in S : Cardinality(below(x)) = k - 1
    BY DEF InOrder
  <2>2. k - 1 \in Ranks
    <3> HIDE DEF n
    <3> QED BY <1>1
  <2>3. PICK x \in S : rank[x] = k - 1
    BY <1>5, <2>2
  <2>4. Cardinality(below(x)) = k - 1
    BY <1>2, <2>3
  <2> HIDE DEF below
  <2>5. s[k] \in S /\ Cardinality(below(s[k])) = k - 1
    <3> HIDE DEF s
    <3> QED BY <2>1, <2>4
  <2>6. rank[s[k]] = Cardinality(below(s[k]))
    <3> HIDE DEF s
    <3> QED BY <1>2, <2>5
  <2> QED BY <2>5, <2>6
<1>7. s \in [N -> S]
  <2> DEFINE e(k) == CHOOSE x \in S : Cardinality(below(x)) = k - 1
  <2>1. s = [k \in N |-> e(k)]
    BY DEF InOrder
  <2> HIDE DEF s, N, e
  <2> QED BY <1>6, <2>1
<1> HIDE DEF s, rank, below
<1>8. ASSUME NEW x \in S PROVE \E k \in N : s[k] = x
  <2>1. rank[x] \in Int /\ rank[x] + 1 \in N
    <3> HIDE DEF n
    <3> QED BY <1>1, <1>2
  <2> HIDE DEF N
  <2>2. PICK k \in N : k = rank[x] + 1
    BY <2>1
  <2>3. s[k] \in S /\ rank[s[k]] = k - 1
    BY <1>6
  <2>4. s[k] = x
    BY <1>4, <2>1, <2>2, <2>3
  <2> QED BY <2>4
<1>9. ASSUME NEW j \in N, NEW k \in N PROVE j < k <=> <<s[j], s[k]>> \in R
  <2>1. /\ s[j] \in S /\ rank[s[j]] = j - 1 /\ s[k] \in S /\ rank[s[k]] = k - 1
    BY <1>6
  <2>2. j \in Int /\ k \in Int
    <3> HIDE DEF n
    <3> QED BY <1>1
  <2>3. CASE <<s[j], s[k]>> \in R
    <3>1. rank[s[j]] < rank[s[k]]
      BY <1>3, <2>1, <2>3
    <3> QED BY <2>1, <2>2, <2>3, <3>1
  <2>4. CASE <<s[k], s[j]>> \in R
    <3>1. rank[s[k]] < rank[s[j]]
      BY <1>3, <2>1, <2>4
    <3>2. ~ (<<s[j], s[k]>> \in R)
      <4>1. ~ (<<s[j], s[j]>> \in R)
        BY <2>1 DEF IsOrder
      <4> QED BY <2>1, <2>4, <4>1 DEF IsOrder
    <3> QED BY <2>1, <2>2, <3>1, <3>2
  <2>5. CASE s[j] = s[k]
    <3>1. ~ (<<s[j], s[k]>> \in R)
      BY <2>1, <2>5 DEF IsOrder
    <3> QED BY <2>1, <2>2, <2>5, <3>1
  <2> QED BY <2>1, <2>3, <2>4, <2>5 DEF IsOrder
<1>10. ASSUME NEW j \in N, NEW k \in N, s[j] = s[k] PROVE j = k
  <2>1. rank[s[j]] = j - 1 /\ rank[s[k]] = k - 1
    BY <1>6
  <2>2. j \in Int /\ k \in Int
    <3> HIDE DEF n
    <3> QED BY <1>1
  <2> QED BY <1>10, <2>1, <2>2
<1> QED BY <1>1, <1>7, <1>8, <1>9, <1>10 DEF Lists, s

-----------------------------------------------------------------------------
(* The dealing *)

\* The pairs that are open, best first.
LEMMA FlagsLemma ==
    ASSUME NEW rows \in Tables
    PROVE  LET open == OpenPairs(rows)
               flags == Flags(rows)
               D == 1 .. Cardinality(open)
           IN  /\ IsFiniteSet(open) /\ Cardinality(open) \in Nat
               /\ open \in SUBSET DOMAIN rows
               /\ flags \in [D -> open]
               /\ \A x \in open : \E k \in D : flags[k] = x
               /\ \A j, k \in D : j < k <=> ScoresBefore(rows, flags[j], flags[k])
               /\ \A j, k \in D : flags[j] = flags[k] => j = k
<1> DEFINE open == OpenPairs(rows)
           R == {p \in open \X open : ScoresBefore(rows, p[1], p[2])}
           D == 1 .. Cardinality(open)
           flags == Flags(rows)
<1>1. /\ Len(rows) \in Nat /\ DOMAIN rows = 1 .. Len(rows)
      /\ \A i \in DOMAIN rows : rows[i].score \in Int
  BY TableAssumption
<1>2. open \in SUBSET DOMAIN rows
  BY DEF OpenPairs
<1>3. IsFiniteSet(open)
  BY <1>1, <1>2, PartLemma
<1>4. flags = InOrder(open, R)
  BY DEF Flags
<1>5. IsOrder(open, R)
  <2>1. \A x, y \in open : <<x, y>> \in R <=> ScoresBefore(rows, x, y)
    OBVIOUS
  <2>2. \A x \in open : rows[x].score \in Int /\ x \in Int
    BY <1>1, <1>2
  <2> HIDE DEF open, R
  <2> QED BY <2>1, <2>2 DEF IsOrder, ScoresBefore
<1> HIDE DEF flags
<1>6. Lists(flags, open, R)
  <2> HIDE DEF open, R
  <2> QED BY <1>3, <1>4, <1>5, InOrderLemma
<1>7. \A j, k \in D : j < k <=> ScoresBefore(rows, flags[j], flags[k])
  <2>1. \A j \in D : flags[j] \in open
    <3> HIDE DEF open, R
    <3> QED BY <1>6 DEF Lists
  <2>2. \A j, k \in D : j < k <=> <<flags[j], flags[k]>> \in R
    <3> HIDE DEF open, R
    <3> QED BY <1>6 DEF Lists
  <2> HIDE DEF open
  <2> QED BY <2>1, <2>2
<1> HIDE DEF open, R
<1>8. /\ Cardinality(open) \in Nat
      /\ flags \in [D -> open]
      /\ \A x \in open : \E k \in D : flags[k] = x
      /\ \A j, k \in D : flags[j] = flags[k] => j = k
  BY <1>6 DEF Lists
<1> QED BY <1>2, <1>3, <1>7, <1>8 DEF open, D, flags

\* Each place of an event's pairs has its depth, and the first is the event's.
Placed(rows, flags, m) ==
    LET D == 1 .. m
        ev(i) == rows[flags[i]].event
        depth(i) == DepthOf(rows, flags, i)
        first(i) == FirstSeen(rows, flags, i)
    IN  /\ \A i \in D : /\ depth(i) \in Nat /\ first(i) \in D
                        /\ ev(i) = ev(first(i)) /\ \A j \in D : ev(i) = ev(j) => first(i) <= j
        /\ \A i, j \in D : ev(i) = ev(j) => first(i) = first(j) /\ (i < j => depth(i) < depth(j))
        /\ IsOrder(D, {p \in D \X D : DealtBefore(rows, flags, p[1], p[2])})

LEMMA PlacesLemma ==
    ASSUME NEW m \in Nat, NEW rows, NEW flags, DOMAIN flags = 1 .. m
    PROVE  Placed(rows, flags, m)
<1> DEFINE D == 1 .. m
           ev(i) == rows[flags[i]].event
           bucket(i) == Bucket(rows, flags, i)
           depth(i) == DepthOf(rows, flags, i)
           first(i) == FirstSeen(rows, flags, i)
           R == {p \in D \X D : DealtBefore(rows, flags, p[1], p[2])}
<1>1. \A i \in D : bucket(i) = {j \in D : ev(j) = ev(i)}
  BY DEF Bucket
<1>2. \A i \in D : bucket(i) \in SUBSET D /\ i \in bucket(i)
  BY <1>1
<1>3. \A i \in D : depth(i) = Cardinality({j \in bucket(i) : j < i})
  BY DEF DepthOf
<1>4. \A i \in D : first(i) = Min(bucket(i))
  BY DEF FirstSeen
<1> HIDE DEF bucket, depth, first
<1>5. ASSUME NEW i \in D
      PROVE  IsFiniteSet({j \in bucket(i) : j < i}) /\ depth(i) \in Nat
  <2>1. {j \in bucket(i) : j < i} \in SUBSET (1 .. m)
    BY <1>2
  <2>2. IsFiniteSet({j \in bucket(i) : j < i}) /\ Cardinality({j \in bucket(i) : j < i}) \in 0 .. m
    BY <2>1, PartLemma
  <2> QED BY <1>3, <2>2
<1>6. ASSUME NEW i \in D
      PROVE  /\ first(i) \in bucket(i) /\ first(i) \in D /\ ev(first(i)) = ev(i)
             /\ \A j \in D : ev(j) = ev(i) => first(i) <= j
  <2>1. bucket(i) \in SUBSET Nat /\ bucket(i) # {}
    BY <1>2
  <2>2. first(i) \in bucket(i) /\ \A j \in bucket(i) : first(i) <= j
    BY <1>4, <2>1, MinMaxLemma
  <2> HIDE DEF D
  <2> QED BY <1>1, <2>2
<1>7. ASSUME NEW i \in D, NEW j \in D, ev(i) = ev(j) PROVE first(i) = first(j)
  <2>1. bucket(i) = bucket(j)
    <3> HIDE DEF D
    <3> QED BY <1>1, <1>7
  <2> QED BY <1>4, <2>1
<1>8. ASSUME NEW i \in D, NEW j \in D, ev(i) = ev(j), i < j PROVE depth(i) < depth(j)
  <2> DEFINE bi == {k \in bucket(i) : k < i}
             bj == {k \in bucket(j) : k < j}
  <2>1. bucket(i) = bucket(j) /\ i \in bucket(i) /\ bucket(i) \subseteq Int /\ i \in Int /\ j \in Int
    <3>1. bucket(i) = bucket(j)
      <4> HIDE DEF D
      <4> QED BY <1>1, <1>8
    <3> QED BY <1>2, <3>1
  <2>2. bi \cup {i} \in SUBSET bj /\ ~ (i \in bi)
    BY <1>8, <2>1
  <2>3. /\ IsFiniteSet(bi) /\ IsFiniteSet(bj) /\ depth(i) = Cardinality(bi)
        /\ depth(j) = Cardinality(bj) /\ depth(i) \in Nat /\ depth(j) \in Nat
    BY <1>3, <1>5
  <2> HIDE DEF bi, bj
  <2>4. Cardinality(bi \cup {i}) = Cardinality(bi) + 1
    BY <2>2, <2>3, FS_AddElement
  <2>5. Cardinality(bi \cup {i}) <= Cardinality(bj)
    BY <2>2, <2>3, FS_Subset
  <2> QED BY <2>3, <2>4, <2>5
<1>9. IsOrder(D, R)
  <2>1. \A x, y \in D : <<x, y>> \in R <=> depth(x) < depth(y) \/ (depth(x) = depth(y) /\ first(x) < first(y))
    BY DEF DealtBefore, depth, first
  <2>2. \A x \in D : depth(x) \in Int /\ first(x) \in Int /\ x \in Int
    <3> SUFFICES ASSUME NEW x \in D PROVE depth(x) \in Int /\ first(x) \in Int /\ x \in Int
      OBVIOUS
    <3>1. depth(x) \in Nat
      BY <1>5
    <3>2. first(x) \in D
      BY <1>6
    <3> QED BY <3>1, <3>2
  <2>3. ASSUME NEW x \in D, NEW y \in D, x # y, depth(x) = depth(y)
        PROVE  first(x) # first(y)
    <3>1. CASE first(x) = first(y)
      <4>1. ev(x) = ev(y)
        <5> HIDE DEF D, ev
        <5> QED BY <1>6, <3>1
      <4>2. x < y \/ y < x
        BY <2>2, <2>3
      <4>3. depth(x) < depth(y) \/ depth(y) < depth(x)
        <5> HIDE DEF D, ev
        <5> QED BY <1>8, <4>1, <4>2
      <4> QED BY <2>2, <2>3, <4>3
    <3> QED BY <3>1
  <2> HIDE DEF R, D
  <2> QED BY <2>1, <2>2, <2>3 DEF IsOrder
<1> HIDE DEF R
<1>10. /\ \A i \in D : /\ depth(i) \in Nat /\ first(i) \in D
                       /\ ev(i) = ev(first(i)) /\ \A j \in D : ev(i) = ev(j) => first(i) <= j
       /\ \A i, j \in D : ev(i) = ev(j) => first(i) = first(j) /\ (i < j => depth(i) < depth(j))
  <2> HIDE DEF D, ev
  <2> QED BY <1>5, <1>6, <1>7, <1>8
<1> QED BY <1>9, <1>10 DEF Placed, R, depth, first

\* The dealing of n pairs of a table.
IsSpread(rows, n) ==
    LET picks == Deal(rows, n)
        picked == Range(picks)
        open == OpenPairs(rows)
        of(e, S) == {i \in S : rows[i].event = e}
        best(e) == CHOOSE i \in of(e, open) :
                      \A j \in of(e, open) \ {i} : ScoresBefore(rows, i, j)
    IN  /\ IsInjective(picks) /\ picked \subseteq open
        /\ Len(picks) = Min({n, Cardinality(open)})
        /\ \A i \in open \ picked :
              LET e == rows[i].event
              IN  /\ \A j \in of(e, picked) : ScoresBefore(rows, j, i)
                  /\ \A f \in {rows[j].event : j \in picked} \ {e} :
                        LET more == Cardinality(of(f, picked)) - Cardinality(of(e, picked))
                        IN  more <= 0 \/ (more = 1 /\ ScoresBefore(rows, best(f), best(e)))

\* Who is picked is picked in the order dealt: the last one picked of an event is no
\* deeper than the first one left of another.
LEMMA SpreadLemma ==
    ASSUME NEW rows \in Tables, NEW n \in Nat
    PROVE  IsSpread(rows, n)
<1> DEFINE open == OpenPairs(rows)
           flags == Flags(rows)
           m == Cardinality(open)
           D == 1 .. m
           places == DOMAIN flags
           R == {p \in places \X places : DealtBefore(rows, flags, p[1], p[2])}
           dealt == InOrder(places, R)
           q == Min({n, m})
           T == {dealt[k] : k \in 1 .. q}
           picks == Deal(rows, n)
           picked == Range(picks)
           of(e, S) == {i \in S : rows[i].event = e}
           best(e) == CHOOSE i \in of(e, open) :
                         \A j \in of(e, open) \ {i} : ScoresBefore(rows, i, j)
           ev(i) == rows[flags[i]].event
           depth(i) == DepthOf(rows, flags, i)
           first(i) == FirstSeen(rows, flags, i)
<1>1. /\ IsFiniteSet(open) /\ m \in Nat
      /\ flags \in [D -> open]
      /\ \A x \in open : \E k \in D : flags[k] = x
      /\ \A j, k \in D : j < k <=> ScoresBefore(rows, flags[j], flags[k])
      /\ \A j, k \in D : flags[j] = flags[k] => j = k
  <2> HIDE DEF flags, open
  <2> QED BY FlagsLemma DEF flags, open
<1> HIDE DEF open, flags, m
<1>2. places = D /\ IsFiniteSet(places) /\ Cardinality(places) = m
  BY <1>1, FS_Interval
<1>3. /\ \A i \in D : /\ depth(i) \in Nat /\ first(i) \in D
                      /\ ev(i) = ev(first(i)) /\ \A j \in D : ev(i) = ev(j) => first(i) <= j
      /\ \A i, j \in D : ev(i) = ev(j) => first(i) = first(j) /\ (i < j => depth(i) < depth(j))
      /\ IsOrder(places, R)
  <2> DEFINE RD == {p \in D \X D : DealtBefore(rows, flags, p[1], p[2])}
  <2>1. R = RD /\ DOMAIN flags = 1 .. m
    BY <1>2
  <2>2. /\ \A i \in D : /\ depth(i) \in Nat /\ first(i) \in D
                        /\ ev(i) = ev(first(i)) /\ \A j \in D : ev(i) = ev(j) => first(i) <= j
        /\ \A i, j \in D : ev(i) = ev(j) => first(i) = first(j) /\ (i < j => depth(i) < depth(j))
        /\ IsOrder(D, RD)
    <3>1. Placed(rows, flags, m)
      BY <1>1, <2>1, PlacesLemma
    <3> QED BY <3>1 DEF Placed
  <2> HIDE DEF R, RD, D, places, depth, first, ev
  <2> QED BY <1>2, <2>1, <2>2
<1>4. \A i, j \in D : <<i, j>> \in R <=> depth(i) < depth(j) \/ (depth(i) = depth(j) /\ first(i) < first(j))
  BY <1>2 DEF DealtBefore
<1> HIDE DEF depth, first, R
<1>5. Lists(dealt, places, R)
  BY <1>2, <1>3, InOrderLemma
<1> HIDE DEF places
<1>6. /\ dealt \in [D -> D]
      /\ \A x \in D : \E k \in D : dealt[k] = x
      /\ \A j, k \in D : j < k <=> <<dealt[j], dealt[k]>> \in R
      /\ \A j, k \in D : dealt[j] = dealt[k] => j = k
  BY <1>2, <1>5 DEF Lists
<1>7. picks = [k \in 1 .. q |-> flags[dealt[k]]]
  BY <1>2 DEF Deal, places, R, flags
<1> HIDE DEF dealt, picks
<1>8. q \in Nat /\ q <= m /\ 1 .. q \subseteq D
  <2>1. {n, m} \in SUBSET Nat /\ {n, m} # {}
    BY <1>1
  <2>2. q \in {n, m} /\ q <= m
    BY <2>1, MinMaxLemma
  <2> HIDE DEF q
  <2> QED BY <1>1, <2>1, <2>2
<1>9. Len(picks) = q
  <2> HIDE DEF q
  <2> QED BY <1>7, <1>8
<1> HIDE DEF q, D
<1>10. IsInjective(picks) /\ DOMAIN picks = 1 .. q
  BY <1>1, <1>6, <1>7, <1>8 DEF IsInjective
<1>11. T \subseteq D /\ picked = {flags[t] : t \in T}
  <2>1. T \subseteq D
    BY <1>6, <1>8
  <2>2. picked = {flags[dealt[k]] : k \in 1 .. q}
    BY <1>7 DEF Range
  <2> QED BY <2>1, <2>2
<1>12. picked \subseteq open
  BY <1>1, <1>11
\* Whoever is dealt before a picked one is picked.
<1>13. ASSUME NEW t \in T, NEW u \in D, <<u, t>> \in R PROVE u \in T
  <2>1. PICK k \in 1 .. q : t = dealt[k]
    OBVIOUS
  <2>2. PICK j \in D : dealt[j] = u
    BY <1>6
  <2>3. j < k
    BY <1>6, <1>8, <1>13, <2>1, <2>2
  <2>4. j \in 1 .. q
    BY <1>1, <1>8, <2>3 DEF D
  <2> QED BY <2>2, <2>4
<1> HIDE DEF T, picked
<1> D \subseteq Nat
  BY <1>1 DEF D
<1>14. ASSUME NEW t \in T, NEW u \in D, ev(u) = ev(t), u < t PROVE u \in T
  BY <1>3, <1>4, <1>11, <1>13, <1>14
<1>15. ASSUME NEW u \in D, flags[u] \in picked PROVE u \in T
  BY <1>1, <1>11, <1>15
\* As many are picked of an event as places of its are.
<1>16. ASSUME NEW e
       PROVE  LET Q == {t \in T : ev(t) = e}
              IN  /\ IsFiniteSet(Q) /\ Cardinality(Q) \in Nat
                  /\ Cardinality(of(e, picked)) = Cardinality(Q)
  <2> DEFINE Q == {t \in T : ev(t) = e}
             g == [t \in Q |-> flags[t]]
             O == of(e, picked)
  <2>1. IsFiniteSet(Q) /\ Cardinality(Q) \in Nat
    <3>1. Q \in SUBSET (1 .. m)
      <4>1. Q \subseteq D
        BY <1>11
      <4> QED BY <4>1 DEF D
    <3>2. m \in Nat
      BY <1>1
    <3> HIDE DEF Q
    <3>3. IsFiniteSet(Q) /\ Cardinality(Q) \in 0 .. m
      BY <3>1, <3>2, PartLemma
    <3> QED BY <3>2, <3>3
  <2>2. g \in [Q -> O]
    BY <1>11
  <2>3. \A s, t \in Q : g[s] = g[t] => s = t
    BY <1>1, <1>11
  <2>4. \A o \in O : \E t \in Q : g[t] = o
    BY <1>11
  <2> HIDE DEF g, Q, O
  <2>5. g \in Bijection(Q, O)
    BY <2>2, <2>3, <2>4 DEF Bijection, Injection, Surjection, IsInjective
  <2>6. Cardinality(O) = Cardinality(Q)
    BY <2>1, <2>5, FS_Bijection DEF ExistsBijection
  <2> QED BY <2>1, <2>6 DEF Q, O
\* The first of an event is its best.
<1>17. ASSUME NEW u \in D PROVE best(ev(u)) = flags[first(u)]
  <2> DEFINE S == of(ev(u), open)
             b == flags[first(u)]
  <2>1. b \in S
    BY <1>1, <1>3
  <2>2. ASSUME NEW j \in S, j # b PROVE ScoresBefore(rows, b, j) /\ ~ ScoresBefore(rows, j, b)
    <3>1. PICK k \in D : flags[k] = j
      BY <1>1
    <3>2. ev(k) = ev(u)
      BY <3>1
    <3>3. first(u) <= k /\ first(u) # k /\ first(u) \in D
      BY <1>3, <2>2, <3>1, <3>2
    <3>4. first(u) < k /\ ~ (k < first(u))
      <4>1. first(u) \in Nat /\ k \in Nat
        BY <3>3
      <4> QED BY <3>3, <4>1
    <3> QED BY <1>1, <3>1, <3>3, <3>4
  <2> HIDE DEF S, b
  <2>3. \A i \in S : (\A j \in S \ {i} : ScoresBefore(rows, i, j)) <=> i = b
    BY <2>1, <2>2
  <2>4. (CHOOSE i \in S : \A j \in S \ {i} : ScoresBefore(rows, i, j)) = b
    BY <2>1, <2>3
  <2> QED BY <2>4 DEF S, b
<1> HIDE DEF best
<1>18. ASSUME NEW i \in open \ picked
       PROVE  LET e == rows[i].event
              IN  /\ \A j \in of(e, picked) : ScoresBefore(rows, j, i)
                  /\ \A f \in {rows[j].event : j \in picked} \ {e} :
                        LET more == Cardinality(of(f, picked)) - Cardinality(of(e, picked))
                        IN  more <= 0 \/ (more = 1 /\ ScoresBefore(rows, best(f), best(e)))
  <2> DEFINE e == rows[i].event
             Qe == {t \in T : ev(t) = e}
  <2>1. PICK a \in D : flags[a] = i
    BY <1>1
  <2>2. a \in D \ T /\ ev(a) = e
    BY <1>11, <2>1
  <2>3. ASSUME NEW j \in of(e, picked) PROVE ScoresBefore(rows, j, i)
    <3>1. PICK t \in T : flags[t] = j
      BY <1>11
    <3>2. ev(t) = ev(a) /\ t \in D
      BY <1>11, <2>2, <3>1
    <3>3. ~ (a < t) /\ a # t
      BY <1>14, <2>2, <3>2
    <3>4. t < a
      BY <2>2, <3>2, <3>3
    <3> QED BY <1>1, <2>1, <2>2, <3>1, <3>2, <3>4
  \* The first place that is left of it: all before it are picked.
  <2>4. PICK c \in D \ T : ev(c) = e /\ \A u \in D \ T : ev(u) = e => c <= u
    <3> DEFINE L == {u \in D \ T : ev(u) = e}
    <3>1. L \in SUBSET Nat /\ L # {}
      BY <2>2
    <3> HIDE DEF L
    <3>2. PICK c \in L : \A u \in L : c <= u
      BY <3>1, LeastOf
    <3> QED BY <3>2 DEF L
  <2>5. Qe = {j \in Bucket(rows, flags, c) : j < c}
    <3>1. ASSUME NEW j \in Qe PROVE j < c /\ j \in Bucket(rows, flags, c)
      <4>1. j \in T /\ j \in D /\ ev(j) = ev(c)
        BY <1>11, <2>4
      <4>2. ~ (c < j) /\ c # j
        BY <1>14, <2>4, <4>1
      <4>3. j < c
        <5>1. j \in Nat /\ c \in Nat
          BY <2>4, <4>1
        <5> QED BY <4>2, <5>1
      <4> QED BY <1>2, <4>1, <4>3 DEF Bucket, places
    <3>2. ASSUME NEW j \in Bucket(rows, flags, c), j < c PROVE j \in Qe
      <4>1. j \in D /\ ev(j) = e
        BY <1>2, <2>4 DEF Bucket, places
      <4>2. j \in T
        <5>1. j \in Nat /\ c \in Nat /\ ~ (c <= j)
          BY <2>4, <3>2, <4>1
        <5> QED BY <2>4, <4>1, <5>1
      <4> QED BY <4>1, <4>2
    <3> QED BY <3>1, <3>2
  <2>6. depth(c) = Cardinality(Qe)
    BY <2>5 DEF depth, DepthOf
  <2> HIDE DEF Qe
  <2>7. ASSUME NEW f \in {rows[j].event : j \in picked} \ {e}
        PROVE  LET more == Cardinality(of(f, picked)) - Cardinality(of(e, picked))
               IN  more <= 0 \/ (more = 1 /\ ScoresBefore(rows, best(f), best(e)))
    <3> DEFINE Qf == {t \in T : ev(t) = f}
    <3>1. PICK x \in picked : f = rows[x].event
      OBVIOUS
    <3>2. PICK t \in T : flags[t] = x
      BY <1>11
    <3>3. Qf # {} /\ IsFiniteSet(Qf) /\ Cardinality(Qf) \in Nat
          /\ Cardinality(of(f, picked)) = Cardinality(Qf)
      <4>1. IsFiniteSet(Qf) /\ Cardinality(Qf) \in Nat
            /\ Cardinality(of(f, picked)) = Cardinality(Qf)
        BY <1>16
      <4>2. t \in Qf
        BY <3>1, <3>2
      <4> QED BY <4>1, <4>2
    <3>4. Qf \in SUBSET Nat
      BY <1>11
    \* The last of the other event that is picked.
    <3>5. PICK b \in Qf : \A u \in Qf : u <= b
      <4> HIDE DEF Qf
      <4> QED BY <3>3, <3>4, MinMaxLemma
    <3>6. Qf \ {b} = {u \in Bucket(rows, flags, b) : u < b}
      <4>1. ASSUME NEW u \in Qf \ {b} PROVE u < b /\ u \in Bucket(rows, flags, b)
        <5>1. u \in D /\ b \in D /\ ev(u) = ev(b)
          BY <1>11
        <5>2. u <= b /\ u # b
          BY <3>5
        <5> QED BY <1>2, <5>1, <5>2 DEF Bucket, places
      <4>2. ASSUME NEW u \in Bucket(rows, flags, b), u < b PROVE u \in Qf \ {b}
        <5>1. u \in D /\ ev(u) = ev(b) /\ b \in T /\ b \in D
          BY <1>2, <1>11 DEF Bucket, places
        <5>2. u # b
          <6>1. u \in Nat /\ b \in Nat
            BY <5>1
          <6> QED BY <4>2, <6>1
        <5>3. u \in T
          BY <1>14, <4>2, <5>1
        <5> QED BY <5>1, <5>2, <5>3
      <4> QED BY <4>1, <4>2
    <3>7. depth(b) = Cardinality(Qf) - 1
      <4>1. Cardinality(Qf \ {b}) = Cardinality(Qf) - 1
        <5> HIDE DEF Qf
        <5> QED BY <3>3, <3>5, FS_RemoveElement
      <4> QED BY <3>6, <4>1 DEF depth, DepthOf
    <3>8. b \in T /\ b \in D /\ ev(b) = f /\ c \in D /\ b # c
      BY <1>11, <2>4
    <3>9. <<b, c>> \in R
      <4>1. ~ (<<c, b>> \in R)
        BY <1>13, <2>4, <3>8
      <4> QED BY <1>2, <1>3, <3>8, <4>1 DEF IsOrder
    <3>10. depth(b) < depth(c) \/ (depth(b) = depth(c) /\ first(b) < first(c))
      BY <1>4, <3>8, <3>9
    <3>11. best(f) = flags[first(b)] /\ best(e) = flags[first(c)] /\ first(b) \in D /\ first(c) \in D
      BY <1>3, <1>17, <2>4, <3>8
    <3>12. first(b) < first(c) => ScoresBefore(rows, best(f), best(e))
      <4>1. \A j, k \in D : j < k => ScoresBefore(rows, flags[j], flags[k])
        BY <1>1
      <4> HIDE DEF first, best
      <4> QED BY <3>11, <4>1
    <3>13. Cardinality(of(e, picked)) = Cardinality(Qe) /\ Cardinality(Qe) \in Nat
      BY <1>16 DEF Qe
    <3> DEFINE cf == Cardinality(of(f, picked))
               ce == Cardinality(of(e, picked))
    <3>14. cf \in Nat /\ ce \in Nat /\ depth(b) = cf - 1 /\ depth(c) = ce
      BY <2>6, <3>3, <3>7, <3>13
    <3>15. cf - ce <= 0 \/ (cf - ce = 1 /\ ScoresBefore(rows, best(f), best(e)))
      <4> HIDE DEF cf, ce
      <4> QED BY <3>10, <3>12, <3>14
    <3> QED BY <3>15
  <2> HIDE DEF e
  <2>8. /\ \A j \in of(e, picked) : ScoresBefore(rows, j, i)
        /\ \A f \in {rows[j].event : j \in picked} \ {e} :
              LET more == Cardinality(of(f, picked)) - Cardinality(of(e, picked))
              IN  more <= 0 \/ (more = 1 /\ ScoresBefore(rows, best(f), best(e)))
    BY <2>3, <2>7
  <2> QED BY <2>8 DEF e
<1> QED BY <1>9, <1>10, <1>12, <1>18 DEF IsSpread, picks, picked, open, q, m, best

-----------------------------------------------------------------------------
(* The outcomes of two events *)

\* The markets of an event.
AreOutcomes(A) ==
    /\ Len(A) \in Nat /\ DOMAIN A = 1 .. Len(A)
    /\ \A i \in DOMAIN A : IsFiniteSet(A[i].name)

LEMMA DivNat ==
    ASSUME NEW n \in Nat, NEW d \in Nat \ {0}
    PROVE  n \div d \in Nat
<1> DEFINE y == n \div d
<1>1. y \in Int /\ n < (y + 1) * d
  BY DivLemma
<1> HIDE DEF y
<1>2. 0 * d < (y + 1) * d
  BY <1>1
<1>3. 0 < y + 1
  BY <1>1, <1>2, Cancel
<1> QED BY <1>1, <1>3 DEF y

\* A share of a number is a number.
LEMMA ShareType ==
    ASSUME NEW part \in Nat, NEW of \in Nat
    PROVE  Share(part, of) \in Nat
<1>1. CASE of = 0
  BY <1>1 DEF Share
<1>2. CASE of # 0
  <2> DEFINE x == Unit * part
  <2>1. x \in Nat /\ of \in Nat \ {0}
    BY <1>2, MatchingAssumption
  <2>2. Share(part, of) = x \div of
    BY <1>2 DEF Share
  <2> HIDE DEF x
  <2>3. x \div of \in Nat
    BY <2>1, DivNat
  <2> QED BY <2>2, <2>3
<1> QED BY <1>1, <1>2

LEMMA NameSimilarityType ==
    ASSUME NEW a, NEW b, IsFiniteSet(a), IsFiniteSet(b)
    PROVE  NameSimilarity(a, b) \in Nat
<1> DEFINE shared == Cardinality(a \cap b)
           all == Cardinality(a \cup b)
           smaller == Smaller(a, b)
           jaccard == Share(shared, all)
           contained == Share(shared, smaller)
<1>1. shared \in Nat /\ all \in Nat
  BY FS_Intersection, FS_Union, FS_CardinalityType
<1>2. smaller \in Nat
  <2>1. {Cardinality(a), Cardinality(b)} \in SUBSET Nat /\ {Cardinality(a), Cardinality(b)} # {}
    BY FS_CardinalityType
  <2>2. smaller \in {Cardinality(a), Cardinality(b)}
    BY <2>1, MinMaxLemma DEF Smaller
  <2> QED BY <2>1, <2>2
<1> HIDE DEF shared, all, smaller
<1>3. jaccard \in Nat /\ contained \in Nat
  BY <1>1, <1>2, ShareType
<1> HIDE DEF jaccard, contained
<1>4. Max({contained, jaccard}) \in Nat
  BY <1>3, MaxLemma
<1>5. NameSimilarity(a, b) \in {0, jaccard, Max({contained, jaccard})}
  BY DEF NameSimilarity, contained, jaccard, shared, all, smaller
<1> QED BY <1>3, <1>4, <1>5

\* Who is before whom in the list of similar outcomes.
RankOrder(S) ==
    {p \in S \X S : p[1].sim > p[2].sim \/ (p[1].sim = p[2].sim /\ RowOrder(p[1], p[2]))}

LEMMA SimilarLemma ==
    ASSUME NEW A, NEW B, AreOutcomes(A), AreOutcomes(B)
    PROVE  /\ IsFiniteSet(Similar(A, B))
           /\ \A x \in Similar(A, B) : x.i \in Nat /\ x.j \in Nat /\ x.sim \in Nat
           /\ IsOrder(Similar(A, B), RankOrder(Similar(A, B)))
<1> DEFINE m == Len(A)
           n == Len(B)
           M == 1 .. m
           N == 1 .. n
           pair(i, j) == [i |-> i, j |-> j, sim |-> NameSimilarity(A[i].name, B[j].name)]
           f == [p \in M \X N |-> pair(p[1], p[2])]
           All == {pair(i, j) : i \in M, j \in N}
           S == Similar(A, B)
           R == RankOrder(S)
<1>1. m \in Nat /\ n \in Nat /\ DOMAIN A = M /\ DOMAIN B = N
  BY DEF AreOutcomes
<1>2. S \in SUBSET All
  BY <1>1 DEF Similar
<1>3. IsFiniteSet(M) /\ IsFiniteSet(N)
  BY <1>1, FS_Interval
<1>4. \A i \in M, j \in N : NameSimilarity(A[i].name, B[j].name) \in Nat
  BY <1>1, NameSimilarityType DEF AreOutcomes
<1>5. \A x \in All : x.i \in M /\ x.j \in N /\ x = pair(x.i, x.j) /\ x.sim \in Nat
  BY <1>4
<1>6. IsFiniteSet(S)
  <2>1. IsFiniteSet(M \X N)
    <3> HIDE DEF M, N
    <3> QED BY <1>3, FS_Product
  <2>2. f \in [M \X N -> All]
    <3> HIDE DEF M, N
    <3> QED OBVIOUS
  <2>3. \A x \in All : \E p \in M \X N : f[p] = x
    <3> SUFFICES ASSUME NEW x \in All PROVE \E p \in M \X N : f[p] = x
      OBVIOUS
    <3> HIDE DEF M, N
    <3>1. PICK i \in M, j \in N : x = pair(i, j)
      OBVIOUS
    <3>2. <<i, j>> \in M \X N /\ f[<<i, j>>] = x
      BY <3>1
    <3> QED BY <3>2
  <2> HIDE DEF f, M, N, All
  <2>4. f \in Surjection(M \X N, All)
    BY <2>2, <2>3 DEF Surjection
  <2>5. IsFiniteSet(All)
    BY <2>1, <2>4, FS_Surjection
  <2> HIDE DEF S
  <2> QED BY <1>2, <2>5, FS_Subset
<1>7. \A x, y \in S : x.i = y.i /\ x.j = y.j => x = y
  <2> HIDE DEF S, M, N, pair, All
  <2> QED BY <1>2, <1>5
<1>8. \A x \in S : x.i \in Nat /\ x.j \in Nat /\ x.sim \in Nat
  <2>1. M \subseteq Nat /\ N \subseteq Nat
    OBVIOUS
  <2> HIDE DEF S, M, N, pair, All
  <2> QED BY <1>2, <1>5, <2>1
<1> HIDE DEF S
<1>9. \A x, y \in S : <<x, y>> \in R <=> x.sim > y.sim \/ (x.sim = y.sim /\ RowOrder(x, y))
  BY DEF RankOrder
<1> HIDE DEF R
<1>10. IsOrder(S, R)
  <2>1. \A x \in S : ~ (<<x, x>> \in R)
    BY <1>8, <1>9 DEF RowOrder
  <2>2. ASSUME NEW x \in S, NEW y \in S, x # y PROVE <<x, y>> \in R \/ <<y, x>> \in R
    <3>1. x.i # y.i \/ x.j # y.j
      BY <1>7, <2>2
    <3>2. x.i \in Nat /\ x.j \in Nat /\ x.sim \in Nat /\ y.i \in Nat /\ y.j \in Nat /\ y.sim \in Nat
      BY <1>8
    <3> QED BY <1>9, <3>1, <3>2 DEF RowOrder
  <2>3. ASSUME NEW x \in S, NEW y \in S, NEW z \in S, <<x, y>> \in R, <<y, z>> \in R
        PROVE  <<x, z>> \in R
    <3>1. /\ x.i \in Nat /\ x.j \in Nat /\ x.sim \in Nat /\ y.i \in Nat /\ y.j \in Nat /\ y.sim \in Nat
          /\ z.i \in Nat /\ z.j \in Nat /\ z.sim \in Nat
      BY <1>8
    <3> QED BY <1>9, <2>3, <3>1 DEF RowOrder
  <2> QED BY <2>1, <2>2, <2>3 DEF IsOrder
<1> QED BY <1>6, <1>8, <1>10 DEF S, R

SameOutcome(x, y) == y.i = x.i \/ y.j = x.j

\* One outcome after the other: who is free on both sides is matched.
MatchOne(out, x) ==
    IF \E y \in Range(out) : SameOutcome(x, y) THEN out ELSE Append(out, x)

MatchFold(iter, s) ==
    iter = [d \in SUBSET DOMAIN s |->
              IF d = {} THEN <<>>
              ELSE LET i == Max(d) IN MatchOne(iter[d \ {i}], s[i])]

MatchIter(s) == CHOOSE iter : MatchFold(iter, s)

LEMMA MatchesAreFold ==
    ASSUME NEW A, NEW B
    PROVE  OutcomeMatches(A, B)
              = MatchIter(Ranked(Similar(A, B)))[DOMAIN Ranked(Similar(A, B))]
BY DEF OutcomeMatches, FoldLeft, MapThenFoldSet, MatchIter, MatchFold, MatchOne, SameOutcome

LEMMA MatchSteps ==
    ASSUME NEW n \in Nat, NEW S, NEW s \in [1 .. n -> S]
    PROVE  \E g : /\ g[0] = <<>>
                  /\ \A k \in 1 .. n : g[k] = MatchOne(g[k - 1], s[k])
                  /\ MatchIter(s)[1 .. n] = g[n]
<1> DEFINE V == Seq(S)
           step == [e \in V \X (1 .. n) |-> MatchOne(e[1], s[e[2]])]
           it == MatchIter(s)
           g == [k \in 0 .. n |-> it[1 .. k]]
<1>1. <<>> \in V
  OBVIOUS
<1>2. step \in [V \X (1 .. n) -> V]
  <2>1. ASSUME NEW out \in V, NEW x \in S PROVE MatchOne(out, x) \in V
    BY DEF MatchOne
  <2>2. ASSUME NEW e \in V \X (1 .. n) PROVE MatchOne(e[1], s[e[2]]) \in V
    <3>1. e[1] \in V /\ s[e[2]] \in S
      OBVIOUS
    <3> HIDE DEF V
    <3> QED BY <2>1, <3>1
  <2> HIDE DEF V
  <2> QED BY <2>2
<1> HIDE DEF V
<1>3. PICK f : IsLeftFold(f, n, <<>>, step) /\ f \in [SUBSET (1 .. n) -> V]
  <2> HIDE DEF step
  <2> QED BY <1>1, <1>2, LeftFoldExists
<1>4. MatchFold(f, s)
  <2>1. ASSUME NEW d \in SUBSET (1 .. n), d # {}
        PROVE  step[<<f[d \ {Max(d)}], Max(d)>>] = MatchOne(f[d \ {Max(d)}], s[Max(d)])
    <3>1. Max(d) \in d
      BY <2>1, PartLemma
    <3>2. f[d \ {Max(d)}] \in V /\ Max(d) \in 1 .. n
      BY <1>3, <3>1
    <3> QED BY <3>2
  <2>2. DOMAIN s = 1 .. n
    OBVIOUS
  <2> HIDE DEF step
  <2> QED BY <1>3, <2>1, <2>2 DEF MatchFold, IsLeftFold
<1>5. MatchFold(it, s)
  BY <1>4 DEF MatchIter
<1> HIDE DEF it, step
<1>6. \A d \in SUBSET (1 .. n) :
         it[d] = IF d = {} THEN <<>> ELSE MatchOne(it[d \ {Max(d)}], s[Max(d)])
  BY <1>5 DEF MatchFold
<1>7. g[0] = <<>>
  <2>1. 1 .. 0 = {} /\ 0 \in 0 .. n
    OBVIOUS
  <2> QED BY <1>6, <2>1
<1>8. ASSUME NEW k \in 1 .. n PROVE g[k] = MatchOne(g[k - 1], s[k])
  <2>1. g[k] = it[1 .. k] /\ g[k - 1] = it[1 .. k - 1]
    OBVIOUS
  <2> HIDE DEF g
  <2>2. it[1 .. k] = MatchOne(it[1 .. k - 1], s[k])
    BY <1>6, Staircase
  <2> QED BY <2>1, <2>2
<1>9. it[1 .. n] = g[n]
  OBVIOUS
<1> HIDE DEF g
<1> QED BY <1>7, <1>8, <1>9 DEF it

\* What is appended is added to the range.
LEMMA AppendLemma ==
    ASSUME NEW S, NEW s \in Seq(S), NEW x \in S
    PROVE  Range(Append(s, x)) = Range(s) \cup {x} /\ Append(s, x) \in Seq(S)
<1> DEFINE n == Len(s)
           t == Append(s, x)
<1>1. n \in Nat /\ DOMAIN s = 1 .. n /\ t \in Seq(S) /\ DOMAIN t = 1 .. n + 1
  OBVIOUS
<1>2. t[n + 1] = x /\ \A i \in 1 .. n : t[i] = s[i]
  OBVIOUS
<1>3. \A i \in 1 .. n + 1 : i \in 1 .. n \/ i = n + 1
  BY <1>1
<1>4. n + 1 \in 1 .. n + 1 /\ \A i \in 1 .. n : i \in 1 .. n + 1
  BY <1>1
<1> HIDE DEF n, t
<1>5. Range(t) = {t[i] : i \in 1 .. n + 1} /\ Range(s) = {s[i] : i \in 1 .. n}
  BY <1>1 DEF Range
<1>6. Range(t) = Range(s) \cup {x}
  BY <1>2, <1>3, <1>4, <1>5
<1> QED BY <1>1, <1>6 DEF t

\* After the first k of the list: whoever was not matched lost to one before.
Matched(out, k, s, S) ==
    /\ out \in Seq(S)
    /\ \A y \in Range(out) : \E j \in 1 .. k : y = s[j]
    /\ \A x, y \in Range(out) : SameOutcome(x, y) => x = y
    /\ \A j \in 1 .. k : \E y \in Range(out) : SameOutcome(s[j], y) /\ y.sim >= s[j].sim

LEMMA MatchedInv ==
    ASSUME NEW A, NEW B, AreOutcomes(A), AreOutcomes(B)
    PROVE  LET S == Similar(A, B)
               s == Ranked(S)
               n == Cardinality(S)
           IN  /\ n \in Nat /\ \A x \in S : \E k \in 1 .. n : s[k] = x
               /\ \A k \in 1 .. n : s[k] \in S
               /\ Matched(OutcomeMatches(A, B), n, s, S)
<1> DEFINE S == Similar(A, B)
           R == RankOrder(S)
           s == Ranked(S)
           n == Cardinality(S)
<1>1. /\ IsFiniteSet(S) /\ IsOrder(S, R)
      /\ \A x \in S : x.i \in Nat /\ x.j \in Nat /\ x.sim \in Nat
  BY SimilarLemma
<1> HIDE DEF S
<1>2. Lists(s, S, R)
  <2>1. s = InOrder(S, R)
    BY DEF Ranked, RankOrder
  <2> HIDE DEF s, R
  <2> QED BY <1>1, <2>1, InOrderLemma
<1>3. /\ n \in Nat
      /\ s \in [1 .. n -> S] /\ DOMAIN s = 1 .. n
      /\ \A x \in S : \E k \in 1 .. n : s[k] = x
      /\ \A j, k \in 1 .. n : j < k <=> <<s[j], s[k]>> \in R
  <2> HIDE DEF s, R
  <2> QED BY <1>2 DEF Lists
<1>4. \A x, y \in S : <<x, y>> \in R => x.sim >= y.sim
  BY <1>1 DEF RankOrder
<1>5. OutcomeMatches(A, B) = MatchIter(s)[1 .. n]
  BY <1>3, MatchesAreFold DEF S
<1> HIDE DEF s, n, R
<1>6. PICK g : /\ g[0] = <<>>
               /\ \A k \in 1 .. n : g[k] = MatchOne(g[k - 1], s[k])
               /\ MatchIter(s)[1 .. n] = g[n]
  BY <1>3, MatchSteps
<1> DEFINE G == {k \in 0 .. n : Matched(g[k], k, s, S)}
<1>7. 0 \in G
  <2>1. g[0] \in Seq(S) /\ Range(g[0]) = {} /\ 1 .. 0 = {} /\ 0 \in 0 .. n
    BY <1>3, <1>6 DEF Range
  <2> QED BY <2>1 DEF Matched
<1>8. ASSUME NEW k \in 0 .. n, k # 0, k - 1 \in G PROVE k \in G
  <2> DEFINE out == g[k - 1]
             x == s[k]
  <2>1. Matched(out, k - 1, s, S) /\ k \in 1 .. n /\ g[k] = MatchOne(out, x) /\ x \in S
    BY <1>3, <1>6, <1>8
  <2> HIDE DEF out
  <2>2. out \in Seq(S)
    BY <2>1 DEF Matched
  <2>3. Range(Append(out, x)) = Range(out) \cup {x} /\ Append(out, x) \in Seq(S)
    BY <2>1, <2>2, AppendLemma
  <2>4. ASSUME NEW y \in Range(out) PROVE y \in S /\ y.sim >= x.sim
    <3>1. PICK j \in 1 .. k - 1 : y = s[j]
      BY <2>1 DEF Matched
    <3>2. j \in 1 .. n /\ j < k
      BY <1>3, <2>1
    <3>3. <<y, x>> \in R
      BY <1>3, <2>1, <3>1, <3>2
    <3> QED BY <1>3, <1>4, <2>1, <3>1, <3>2, <3>3
  <2>5. \A j \in 1 .. k : j \in 1 .. k - 1 \/ j = k
    BY <1>3
  <2> HIDE DEF x
  <2>6. CASE \E y \in Range(out) : SameOutcome(x, y)
    <3>1. g[k] = out
      BY <2>1, <2>6 DEF MatchOne
    <3>2. \A y \in Range(out) : \E j \in 1 .. k : y = s[j]
      BY <2>1 DEF Matched
    <3>3. \A j \in 1 .. k : \E y \in Range(out) : SameOutcome(s[j], y) /\ y.sim >= s[j].sim
      BY <2>1, <2>4, <2>5, <2>6 DEF Matched, x
    <3> QED BY <2>1, <3>1, <3>2, <3>3 DEF Matched
  <2>7. CASE ~ \E y \in Range(out) : SameOutcome(x, y)
    <3>1. g[k] = Append(out, x)
      BY <2>1, <2>7 DEF MatchOne
    <3>2. \A y \in Range(g[k]) : y \in Range(out) \/ y = x
      BY <2>3, <3>1
    <3>3. \A y \in Range(g[k]) : \E j \in 1 .. k : y = s[j]
      BY <2>1, <3>2 DEF Matched, x
    <3>4. \A y, z \in Range(g[k]) : SameOutcome(y, z) => y = z
      <4>1. \A y, z : SameOutcome(y, z) => SameOutcome(z, y)
        BY DEF SameOutcome
      <4> QED BY <2>1, <2>7, <3>2, <4>1 DEF Matched
    <3>5. \A j \in 1 .. k : \E y \in Range(g[k]) : SameOutcome(s[j], y) /\ y.sim >= s[j].sim
      <4>1. x \in Range(g[k]) /\ SameOutcome(x, x) /\ x.sim >= x.sim
        BY <1>1, <2>1, <2>3, <3>1 DEF SameOutcome
      <4>2. \A y \in Range(out) : y \in Range(g[k])
        BY <2>3, <3>1
      <4> QED BY <2>1, <2>5, <4>1, <4>2 DEF Matched, x
    <3> QED BY <2>3, <3>1, <3>3, <3>4, <3>5 DEF Matched
  <2> QED BY <2>6, <2>7
<1> HIDE DEF G
<1>9. n \in G
  BY <1>3, <1>7, <1>8, UpTo
<1>10. Matched(g[n], n, s, S)
  BY <1>9 DEF G
<1> QED BY <1>3, <1>5, <1>6, <1>10 DEF S, s, n

\* Nobody is matched twice, and no two would both rather have each other.
LEMMA StableLemma ==
    ASSUME NEW A, NEW B, AreOutcomes(A), AreOutcomes(B)
    PROVE  /\ Stable(A, B)
           /\ OutcomeMatches(A, B) \in Seq(Similar(A, B))
<1> DEFINE S == Similar(A, B)
           s == Ranked(S)
           n == Cardinality(S)
           out == OutcomeMatches(A, B)
<1>1. /\ n \in Nat /\ \A x \in S : \E k \in 1 .. n : s[k] = x
      /\ Matched(out, n, s, S)
  BY MatchedInv
<1> HIDE DEF S, s, n, out
<1>2. \A x, y \in Range(out) : x.i = y.i \/ x.j = y.j => x = y
  BY <1>1 DEF Matched, SameOutcome
<1>3. \A x \in S : \E y \in Range(out) : (y.i = x.i \/ y.j = x.j) /\ y.sim >= x.sim
  <2> SUFFICES ASSUME NEW x \in S
               PROVE  \E y \in Range(out) : (y.i = x.i \/ y.j = x.j) /\ y.sim >= x.sim
    OBVIOUS
  <2>1. PICK k \in 1 .. n : s[k] = x
    BY <1>1
  <2>2. PICK y \in Range(out) : SameOutcome(s[k], y) /\ y.sim >= s[k].sim
    BY <1>1 DEF Matched
  <2> QED BY <2>1, <2>2 DEF SameOutcome
<1>4. out \in Seq(S)
  BY <1>1 DEF Matched
<1> QED BY <1>2, <1>3, <1>4 DEF Stable, S, out

-----------------------------------------------------------------------------
(* The candidates of all events *)

\* The events of a venue.
AreEvents(kalshi) ==
    /\ Len(kalshi) \in Nat /\ DOMAIN kalshi = 1 .. Len(kalshi)
    /\ \A n \in DOMAIN kalshi : /\ IsFiniteSet(kalshi[n].title) /\ kalshi[n].day \in Int
                           /\ AreOutcomes(kalshi[n].markets)

\* Both venues' events, and what their tokens weigh.
AreVenues(kalshi, polymarket) ==
    /\ AreEvents(kalshi) /\ AreEvents(polymarket)
    /\ \A df \in 0 .. Titles(kalshi, polymarket) : Idf(df, Titles(kalshi, polymarket)) \in Nat

MarketIds(kalshi) == UNION {{kalshi[n].markets[i].id : i \in DOMAIN kalshi[n].markets} : n \in DOMAIN kalshi}

CandidateSet(kalshi, polymarket) == [kalshi : MarketIds(kalshi), polymarket : MarketIds(polymarket), score : Int]

LEMMA DfType ==
    ASSUME NEW kalshi, NEW polymarket, AreEvents(kalshi), AreEvents(polymarket), NEW t
    PROVE  Titles(kalshi, polymarket) \in Nat /\ Df(kalshi, polymarket, t) \in 0 .. Titles(kalshi, polymarket)
<1> DEFINE m == Len(kalshi)
           n == Len(polymarket)
           a == {i \in DOMAIN kalshi : t \in kalshi[i].title}
           b == {i \in DOMAIN polymarket : t \in polymarket[i].title}
<1>1. m \in Nat /\ n \in Nat /\ DOMAIN kalshi = 1 .. m /\ DOMAIN polymarket = 1 .. n
  BY DEF AreEvents
<1>2. a \in SUBSET (1 .. m) /\ b \in SUBSET (1 .. n)
  BY <1>1
<1>3. Df(kalshi, polymarket, t) = Cardinality(a) + Cardinality(b) /\ Titles(kalshi, polymarket) = m + n
  BY DEF Df, Titles
<1> HIDE DEF a, b, m, n
<1>4. Cardinality(a) \in 0 .. m /\ Cardinality(b) \in 0 .. n
  BY <1>1, <1>2, PartLemma
<1> QED BY <1>1, <1>3, <1>4

LEMMA WeightType ==
    ASSUME NEW kalshi, NEW polymarket, AreVenues(kalshi, polymarket), NEW tokens, IsFiniteSet(tokens)
    PROVE  Weight(kalshi, polymarket, tokens) \in Nat
<1> DEFINE g == [t \in tokens |-> Idf(Df(kalshi, polymarket, t), Titles(kalshi, polymarket))]
<1>1. \A t \in tokens : g[t] \in Nat
  BY DfType DEF AreVenues
<1>2. Weight(kalshi, polymarket, tokens) = Sum(g, tokens)
  BY DEF Weight, SumFunction, Sum
<1> HIDE DEF g
<1>3. tokens \in SUBSET tokens
  OBVIOUS
<1>4. Sum(g, tokens) \in Nat
  BY <1>1, <1>3, SumOfPart
<1> QED BY <1>2, <1>4

LEMMA ScoreType ==
    ASSUME NEW kalshi, NEW polymarket, AreVenues(kalshi, polymarket), NEW k \in Range(kalshi), NEW p \in Range(polymarket),
           NEW matches, Len(matches) \in Nat
    PROVE  EventScore(kalshi, polymarket, k, p, matches) \in Int
<1>1. /\ IsFiniteSet(k.title) /\ k.day \in Int /\ AreOutcomes(k.markets)
      /\ IsFiniteSet(p.title) /\ p.day \in Int /\ AreOutcomes(p.markets)
  BY DEF Range, AreVenues, AreEvents
<1> DEFINE common == Weight(kalshi, polymarket, k.title \cap p.title)
           all == Weight(kalshi, polymarket, k.title \cup p.title)
           fewer == Min({Len(k.markets), Len(p.markets)})
           apart == Max({k.day - p.day, p.day - k.day})
           title == TitleSimilarity(kalshi, polymarket, k, p)
           count == Share(Len(matches), fewer)
           date == DateFeature(k, p)
<1>2. title \in Int
  <2>1. IsFiniteSet(k.title \cap p.title) /\ IsFiniteSet(k.title \cup p.title)
    BY <1>1, FS_Intersection, FS_Union
  <2>2. common \in Nat /\ all \in Nat
    BY <2>1, WeightType
  <2> HIDE DEF common, all
  <2> DEFINE sim == Share(common, all)
  <2>3. sim \in Nat
    BY <2>2, ShareType
  <2> HIDE DEF sim
  <2>4. sim \div 2 \in Int
    BY <2>3
  <2> QED BY <2>3, <2>4 DEF TitleSimilarity, sim, common, all
<1>3. count \in Nat
  <2>1. Len(k.markets) \in Nat /\ Len(p.markets) \in Nat
    BY <1>1 DEF AreOutcomes
  <2>2. {Len(k.markets), Len(p.markets)} \in SUBSET Nat /\ {Len(k.markets), Len(p.markets)} # {}
    BY <2>1
  <2>3. fewer \in {Len(k.markets), Len(p.markets)}
    BY <2>2, MinMaxLemma
  <2>4. fewer \in Nat
    BY <2>1, <2>3
  <2> HIDE DEF fewer
  <2> QED BY <2>4, ShareType
<1>4. date \in Int
  <2>1. k.day - p.day \in Int /\ p.day - k.day \in Int
    BY <1>1
  <2>2. apart = IF k.day - p.day >= p.day - k.day THEN k.day - p.day ELSE p.day - k.day
    BY <2>1, MaxLemma
  <2>3. apart \in Nat
    BY <1>1, <2>2
  <2> HIDE DEF apart
  <2> DEFINE near == Unit - Share(apart, DateSlack)
  <2>4. near \in Int
    <3>1. DateSlack \in Nat /\ Unit \in Nat
      BY MatchingAssumption
    <3> DEFINE far == Share(apart, DateSlack)
    <3>2. far \in Nat
      BY <2>3, <3>1, ShareType
    <3> HIDE DEF far
    <3>3. Unit - far \in Int
      BY <3>1, <3>2
    <3> QED BY <3>3 DEF far
  <2> HIDE DEF near
  <2>5. Max({0, near}) \in Int
    BY <2>4, MaxLemma
  <2>6. Unit \div 2 \in Int
    BY MatchingAssumption
  <2> QED BY <2>5, <2>6 DEF DateFeature, near, apart
<1>5. EventScore(kalshi, polymarket, k, p, matches) = (55 * title + 35 * count + 10 * date) \div 100
  BY DEF EventScore
<1> HIDE DEF title, count, date
<1> QED BY <1>2, <1>3, <1>4, <1>5

\* A sequence of length n, by its elements.
LEMMA SequenceOf ==
    ASSUME NEW X, NEW n \in Nat, NEW s \in [1 .. n -> X]
    PROVE  s \in Seq(X) /\ Len(s) = n
OBVIOUS

LEMMA CandidatesOfType ==
    ASSUME NEW kalshi, NEW polymarket, AreVenues(kalshi, polymarket), NEW a \in DOMAIN kalshi, NEW b \in DOMAIN polymarket
    PROVE  CandidatesOf(kalshi, polymarket, kalshi[a], polymarket[b]) \in Seq(CandidateSet(kalshi, polymarket))
<1> DEFINE k == kalshi[a]
           p == polymarket[b]
           matches == OutcomeMatches(k.markets, p.markets)
           S == Similar(k.markets, p.markets)
           event == EventScore(kalshi, polymarket, k, p, matches)
           item(n) == [kalshi |-> k.markets[matches[n].i].id,
                       polymarket |-> p.markets[matches[n].j].id,
                       score |-> (6 * event + 4 * matches[n].sim) \div 10]
           scored == [n \in DOMAIN matches |-> item(n)]
           high == {n \in DOMAIN scored : scored[n].score >= MinScore}
           order == InOrder(high, Ascending(high))
           out == [n \in 1 .. Cardinality(high) |-> scored[order[n]]]
           X == CandidateSet(kalshi, polymarket)
<1>1. AreOutcomes(k.markets) /\ AreOutcomes(p.markets)
  BY DEF AreVenues, AreEvents
<1>2. matches \in Seq(S) /\ Len(matches) \in Nat /\ DOMAIN matches = 1 .. Len(matches)
      /\ \A n \in DOMAIN matches : matches[n] \in S
  <2>1. matches \in Seq(S)
    BY <1>1, StableLemma
  <2> HIDE DEF matches, S
  <2> QED BY <2>1
<1>3. \A x \in S : /\ x.i \in DOMAIN k.markets /\ x.j \in DOMAIN p.markets /\ x.sim \in Nat
  <2>1. \A x \in S : x.sim \in Nat
    BY <1>1, SimilarLemma
  <2>2. \A x \in S : x.i \in DOMAIN k.markets /\ x.j \in DOMAIN p.markets
    BY DEF Similar
  <2> QED BY <2>1, <2>2
<1>4. event \in Int
  <2>1. k \in Range(kalshi) /\ p \in Range(polymarket)
    BY DEF Range
  <2> HIDE DEF k, p, matches
  <2> QED BY <1>2, <2>1, ScoreType
<1> HIDE DEF event, matches, S
<1>5. ASSUME NEW n \in DOMAIN matches PROVE item(n) \in X
  <2>1. matches[n].i \in DOMAIN k.markets /\ matches[n].j \in DOMAIN p.markets /\ matches[n].sim \in Nat
    BY <1>2, <1>3
  <2>2. k.markets[matches[n].i].id \in MarketIds(kalshi) /\ p.markets[matches[n].j].id \in MarketIds(polymarket)
    BY <2>1 DEF MarketIds
  <2>3. (6 * event + 4 * matches[n].sim) \div 10 \in Int
    BY <1>4, <2>1
  <2> HIDE DEF k, p
  <2> QED BY <2>2, <2>3 DEF CandidateSet
<1> HIDE DEF item, X
<1>6. scored \in [1 .. Len(matches) -> X] /\ DOMAIN scored = 1 .. Len(matches)
  BY <1>2, <1>5
<1> HIDE DEF scored
<1>7. high \in SUBSET (1 .. Len(matches))
  BY <1>6
<1>8. Cardinality(high) \in Nat /\ order \in [1 .. Cardinality(high) -> high]
  <2>1. IsFiniteSet(high) /\ Cardinality(high) \in 0 .. Len(matches)
    BY <1>2, <1>7, PartLemma
  <2>2. IsOrder(high, Ascending(high))
    <3>1. \A x \in high : x \in Int
      BY <1>7
    <3> HIDE DEF high
    <3> QED BY <3>1 DEF IsOrder, Ascending
  <2> HIDE DEF high, order
  <2>3. Lists(InOrder(high, Ascending(high)), high, Ascending(high))
    BY <2>1, <2>2, InOrderLemma
  <2> QED BY <2>3 DEF Lists, order
<1>9. out \in Seq(X)
  <2> HIDE DEF order, high
  <2>1. out \in [1 .. Cardinality(high) -> X]
    BY <1>6, <1>7, <1>8
  <2> HIDE DEF out
  <2> QED BY <1>8, <2>1, SequenceOf
<1>10. <<>> \in Seq(X)
  OBVIOUS
<1>11. CandidatesOf(kalshi, polymarket, k, p)
         = IF matches = <<>> \/ event < MinEventScore THEN <<>> ELSE out
  BY DEF CandidatesOf, out, order, high, scored, item, matches, event
<1> HIDE DEF out, k, p
<1>12. CandidatesOf(kalshi, polymarket, k, p) \in Seq(X)
  BY <1>9, <1>10, <1>11
<1> QED BY <1>12 DEF k, p, X

\* A sequence of sequences of X is flattened to one.
FlattenFold(flatten, seqs) ==
    flatten = [i \in 1 .. Len(seqs) |->
                 IF i = 1 THEN seqs[i] ELSE flatten[i - 1] \o seqs[i]]

LEMMA FlattenType ==
    ASSUME NEW X, NEW seqs \in Seq(Seq(X))
    PROVE  FlattenSeq(seqs) \in Seq(X)
<1> DEFINE n == Len(seqs)
           D == 1 .. n
           V == Seq(X)
           mu == [i \in D |-> i]
           stop == D \cap {1}
           next == [i \in D |-> IF i = 1 THEN 1 ELSE i - 1]
           base == [i \in D |-> seqs[i]]
           step == [e \in D \X V |-> e[2] \o seqs[e[1]]]
           flat == CHOOSE f : FlattenFold(f, seqs)
<1>1. n \in Nat /\ \A i \in D : seqs[i] \in V
  OBVIOUS
<1>2. CASE n = 0
  <2>1. FlattenSeq(seqs) = seqs
    BY <1>2 DEF FlattenSeq
  <2>2. seqs = <<>>
    BY <1>2
  <2> QED BY <2>1, <2>2
<1>3. CASE n # 0
  <2>1. IsDescent(D, n, mu, stop, next)
    BY <1>1 DEF IsDescent
  <2>2. base \in [D -> V] /\ step \in [D \X V -> V]
    <3>1. \A s, t \in V : s \o t \in V
      BY ConcatProperties
    <3>2. \A e \in D \X V : e[1] \in D /\ e[2] \in V
      OBVIOUS
    <3> HIDE DEF V, D
    <3> QED BY <1>1, <3>1, <3>2
  <2> HIDE DEF V
  <2>3. PICK f : IsRecursion(D, V, stop, next, base, step, f)
    <3> HIDE DEF D, mu, stop, next, base, step
    <3> QED BY <2>1, <2>2, RecursionExists
  <2>4. f \in [D -> V] /\ \A i \in D : f[i] = IF i \in stop THEN base[i] ELSE step[<<i, f[next[i]]>>]
    <3> HIDE DEF D, stop, next, base, step
    <3> QED BY <2>3 DEF IsRecursion
  <2>5. ASSUME NEW i \in D PROVE f[i] = IF i = 1 THEN seqs[i] ELSE f[i - 1] \o seqs[i]
    <3>1. CASE i = 1
      BY <2>4, <3>1
    <3>2. CASE i # 1
      <4>1. ~ (i \in stop) /\ next[i] = i - 1 /\ i - 1 \in D
        BY <1>1, <3>2
      <4>2. f[i] = step[<<i, f[i - 1]>>] /\ f[i - 1] \in V
        <5> HIDE DEF D, stop, next, base, step
        <5> QED BY <2>4, <4>1
      <4> QED BY <3>2, <4>2
    <3> QED BY <3>1, <3>2
  <2>6. FlattenFold(f, seqs)
    <3>1. f = [i \in D |-> f[i]]
      BY <2>4
    <3>2. f = [i \in D |-> IF i = 1 THEN seqs[i] ELSE f[i - 1] \o seqs[i]]
      <4> HIDE DEF D
      <4> QED BY <3>1, <2>5
    <3> QED BY <3>2 DEF FlattenFold
  <2>7. FlattenFold(flat, seqs)
    BY <2>6
  <2>8. FlattenSeq(seqs) = flat[n]
    BY <1>3 DEF FlattenSeq, FlattenFold
  <2> HIDE DEF flat
  <2>9. \A i \in D : flat[i] = IF i = 1 THEN seqs[i] ELSE flat[i - 1] \o seqs[i]
    BY <2>7 DEF FlattenFold
  <2> DEFINE G == {i \in 0 .. n : i = 0 \/ flat[i] \in V}
  <2>10. 0 \in G
    BY <1>1
  <2>11. ASSUME NEW i \in 0 .. n, i # 0, i - 1 \in G PROVE i \in G
    <3>1. i \in D
      BY <1>1, <2>11
    <3>2. seqs[i] \in V
      BY <1>1, <3>1
    <3>3. CASE i = 1
      BY <2>9, <3>1, <3>2, <3>3
    <3>4. CASE i # 1
      <4>1. flat[i] = flat[i - 1] \o seqs[i]
        BY <2>9, <3>1, <3>4
      <4>2. i - 1 # 0
        BY <1>1, <3>1, <3>4
      <4>3. flat[i - 1] \in V
        BY <2>11, <4>2
      <4>4. flat[i - 1] \o seqs[i] \in V
        BY <3>2, <4>3, ConcatProperties DEF V
      <4> QED BY <4>1, <4>4
    <3> QED BY <3>3, <3>4
  <2> HIDE DEF G
  <2>12. n \in G
    BY <1>1, <2>10, <2>11, UpTo
  <2> QED BY <1>3, <2>8, <2>12 DEF G, V
<1> QED BY <1>2, <1>3

LEMMA CandidatesType ==
    ASSUME NEW kalshi, NEW polymarket, AreVenues(kalshi, polymarket)
    PROVE  Candidates(kalshi, polymarket) \in Seq(CandidateSet(kalshi, polymarket))
<1> DEFINE X == CandidateSet(kalshi, polymarket)
           block(q) == Block(kalshi, polymarket, polymarket[q])
           of(q, n) == CandidatesOf(kalshi, polymarket, kalshi[block(q)[n]], polymarket[q])
           row(q) == [n \in DOMAIN block(q) |-> of(q, n)]
           rows == [q \in DOMAIN polymarket |-> FlattenSeq(row(q))]
<1>1. /\ Len(polymarket) \in Nat /\ DOMAIN polymarket = 1 .. Len(polymarket)
      /\ Len(kalshi) \in Nat /\ DOMAIN kalshi = 1 .. Len(kalshi)
  BY DEF AreVenues, AreEvents
<1>2. ASSUME NEW q \in DOMAIN polymarket
      PROVE  \E n \in Nat : block(q) \in [1 .. n -> DOMAIN kalshi]
  <2> DEFINE S == {i \in DOMAIN kalshi : \E t \in kalshi[i].title \cap polymarket[q].title : Df(kalshi, polymarket, t) <= MaxTokenDf}
  <2>1. S \in SUBSET (1 .. Len(kalshi)) /\ S \in SUBSET DOMAIN kalshi
    BY <1>1
  <2>2. block(q) = InOrder(S, Ascending(S))
    BY DEF Block
  <2> HIDE DEF S, block
  <2>3. IsFiniteSet(S)
    BY <1>1, <2>1, PartLemma
  <2>4. IsOrder(S, Ascending(S))
    <3>1. \A x \in S : x \in Int
      BY <2>1
    <3> QED BY <3>1 DEF IsOrder, Ascending
  <2>5. Lists(block(q), S, Ascending(S))
    BY <2>2, <2>3, <2>4, InOrderLemma
  <2>6. Cardinality(S) \in Nat /\ block(q) \in [1 .. Cardinality(S) -> S]
    BY <2>5 DEF Lists
  <2> QED BY <2>1, <2>6
<1> HIDE DEF block
<1>3. ASSUME NEW q \in DOMAIN polymarket PROVE FlattenSeq(row(q)) \in Seq(X)
  <2>1. PICK n \in Nat : block(q) \in [1 .. n -> DOMAIN kalshi]
    BY <1>2
  <2>2. \A i \in 1 .. n : of(q, i) \in Seq(X)
    BY <2>1, CandidatesOfType
  <2>3. DOMAIN block(q) = 1 .. n
    BY <2>1
  <2> HIDE DEF of, X
  <2>4. row(q) \in [1 .. n -> Seq(X)]
    BY <2>2, <2>3
  <2> HIDE DEF row
  <2>5. row(q) \in Seq(Seq(X))
    BY <2>4, SequenceOf
  <2> QED BY <2>5, FlattenType
<1>4. rows \in [1 .. Len(polymarket) -> Seq(X)]
  <2> HIDE DEF row, X
  <2> QED BY <1>1, <1>3
<1>5. Candidates(kalshi, polymarket) = FlattenSeq(rows)
  BY DEF Candidates, block
<1> HIDE DEF rows, X
<1>6. rows \in Seq(Seq(X))
  BY <1>1, <1>4, SequenceOf
<1>7. Candidates(kalshi, polymarket) \in Seq(X)
  BY <1>5, <1>6, FlattenType
<1> QED BY <1>7 DEF X

-----------------------------------------------------------------------------
(* One proposal for each market *)

\* The functions of some elements of S to T.
Partial(S, T) == UNION {[M -> T] : M \in SUBSET S}

\* What is known of each market: its best candidate, and the score it has to beat.
Standings(kalshi, polymarket) ==
    [best : Partial(MarketIds(polymarket), CandidateSet(kalshi, polymarket)), runnerUp : Partial(MarketIds(polymarket), Int)]

\* g is f but for x, which it takes to y.
IsPut(f, x, y, g) ==
    /\ DOMAIN g = DOMAIN f \cup {x} /\ g[x] = y
    /\ \A z \in DOMAIN f \ {x} : g[z] = f[z]

LEMMA PutLemma ==
    ASSUME NEW S, NEW T, NEW f \in Partial(S, T), NEW x \in S, NEW y \in T
    PROVE  Put(f, x, y) \in Partial(S, T) /\ IsPut(f, x, y, Put(f, x, y))
<1>1. PICK M \in SUBSET S : f \in [M -> T]
  BY DEF Partial
<1> DEFINE g == Put(f, x, y)
<1>2. g = [z \in M \cup {x} |-> IF z = x THEN y ELSE f[z]]
  BY <1>1 DEF Put
<1> HIDE DEF g
<1>3. g \in [M \cup {x} -> T]
  BY <1>1, <1>2
<1>4. g \in Partial(S, T)
  BY <1>3 DEF Partial
<1>5. IsPut(f, x, y, g)
  BY <1>1, <1>2 DEF IsPut
<1> QED BY <1>4, <1>5 DEF g

LEMMA PartialLemma ==
    ASSUME NEW S, NEW T, NEW f \in Partial(S, T)
    PROVE  DOMAIN f \subseteq S /\ \A x \in DOMAIN f : f[x] \in T
<1>1. PICK M \in SUBSET S : f \in [M -> T]
  BY DEF Partial
<1> QED BY <1>1

\* The score to beat after one that does not win.
LEMMA RunnerUpLemma ==
    ASSUME NEW S, NEW f \in Partial(S, Int), NEW m, NEW c \in Int
    PROVE  LET top == Max({c} \cup {f[x] : x \in {m} \cap DOMAIN f})
           IN  IF m \in DOMAIN f THEN top = (IF f[m] >= c THEN f[m] ELSE c) ELSE top = c
<1>1. CASE m \in DOMAIN f
  <2>1. {c} \cup {f[x] : x \in {m} \cap DOMAIN f} = {f[m], c}
    BY <1>1
  <2>2. f[m] \in Int
    BY <1>1, PartialLemma
  <2>3. Max({f[m], c}) = IF f[m] >= c THEN f[m] ELSE c
    BY <2>2, MaxLemma
  <2> QED BY <1>1, <2>1, <2>3
<1>2. CASE ~ (m \in DOMAIN f)
  <2>1. {c} \cup {f[x] : x \in {m} \cap DOMAIN f} = {c, c}
    BY <1>2
  <2>2. Max({c, c}) = c
    BY MaxLemma
  <2> QED BY <1>2, <2>1, <2>2
<1> QED BY <1>1, <1>2

\* What one more candidate changes: nothing of another market; its own is new, or
\* has a new best, or a new runner-up.
SeenChange(s, c, t) ==
    LET m == c.polymarket
    IN  /\ DOMAIN t.best = DOMAIN s.best \cup {m}
        /\ \A z \in DOMAIN s.best \ {m} : t.best[z] = s.best[z]
        /\ \A z : z # m => (z \in DOMAIN t.runnerUp <=> z \in DOMAIN s.runnerUp)
        /\ \A z \in DOMAIN s.runnerUp \ {m} : t.runnerUp[z] = s.runnerUp[z]
        /\ ~ (m \in DOMAIN s.best) =>
              t.best[m] = c /\ (m \in DOMAIN t.runnerUp <=> m \in DOMAIN s.runnerUp)
        /\ m \in DOMAIN s.best /\ c.score > s.best[m].score =>
              t.best[m] = c /\ m \in DOMAIN t.runnerUp /\ t.runnerUp[m] = s.best[m].score
        /\ m \in DOMAIN s.best /\ ~ (c.score > s.best[m].score) =>
              /\ t.best[m] = s.best[m] /\ m \in DOMAIN t.runnerUp
              /\ m \in DOMAIN s.runnerUp =>
                    t.runnerUp[m] = IF s.runnerUp[m] >= c.score THEN s.runnerUp[m] ELSE c.score
              /\ ~ (m \in DOMAIN s.runnerUp) => t.runnerUp[m] = c.score

LEMMA SeenLemma ==
    ASSUME NEW kalshi, NEW polymarket, NEW s \in Standings(kalshi, polymarket), NEW c \in CandidateSet(kalshi, polymarket)
    PROVE  Seen(s, c) \in Standings(kalshi, polymarket) /\ SeenChange(s, c, Seen(s, c))
<1> DEFINE m == c.polymarket
           t == Seen(s, c)
           S == MarketIds(polymarket)
           X == CandidateSet(kalshi, polymarket)
           ups == {s.runnerUp[x] : x \in {m} \cap DOMAIN s.runnerUp}
           top == Max({c.score} \cup ups)
<1>1. /\ s.best \in Partial(S, X) /\ s.runnerUp \in Partial(S, Int)
      /\ s = [best |-> s.best, runnerUp |-> s.runnerUp]
  BY DEF Standings
<1>2. m \in S /\ c \in X /\ c.score \in Int
  BY DEF CandidateSet
<1> HIDE DEF S, X
<1>3. m \in DOMAIN s.best => s.best[m] \in X /\ s.best[m].score \in Int
  <2>1. m \in DOMAIN s.best => s.best[m] \in X
    BY <1>1, PartialLemma
  <2>2. \A x \in X : x.score \in Int
    BY DEF X, CandidateSet
  <2> QED BY <2>1, <2>2
<1>4. IF m \in DOMAIN s.runnerUp
      THEN top = (IF s.runnerUp[m] >= c.score THEN s.runnerUp[m] ELSE c.score)
      ELSE top = c.score
  BY <1>1, <1>2, RunnerUpLemma
<1>5. top \in Int
  <2>1. m \in DOMAIN s.runnerUp => s.runnerUp[m] \in Int
    BY <1>1, PartialLemma
  <2> HIDE DEF top
  <2> QED BY <1>2, <1>4, <2>1
<1> HIDE DEF top
<1>6. CASE ~ (m \in DOMAIN s.best)
  <2> DEFINE b == Put(s.best, m, c)
  <2>1. t = [best |-> b, runnerUp |-> s.runnerUp]
    BY <1>1, <1>6 DEF Seen
  <2>2. b \in Partial(S, X) /\ IsPut(s.best, m, c, b)
    BY <1>1, <1>2, PutLemma
  <2> HIDE DEF b, t
  <2>3. t.best = b /\ t.runnerUp = s.runnerUp
    BY <2>1
  <2>4. t \in Standings(kalshi, polymarket)
    BY <1>1, <2>1, <2>2 DEF Standings, S, X
  <2> HIDE DEF m
  <2>5. SeenChange(s, c, t)
    BY <1>6, <2>2, <2>3 DEF SeenChange, IsPut, m
  <2> QED BY <2>4, <2>5 DEF t
<1>7. CASE m \in DOMAIN s.best /\ c.score > s.best[m].score
  <2> DEFINE b == Put(s.best, m, c)
             r == Put(s.runnerUp, m, s.best[m].score)
  <2>1. t = [best |-> b, runnerUp |-> r]
    BY <1>7 DEF Seen
  <2>2. b \in Partial(S, X) /\ IsPut(s.best, m, c, b)
    BY <1>1, <1>2, PutLemma
  <2>3. r \in Partial(S, Int) /\ IsPut(s.runnerUp, m, s.best[m].score, r)
    BY <1>1, <1>2, <1>3, <1>7, PutLemma
  <2> HIDE DEF b, r, t
  <2>4. t.best = b /\ t.runnerUp = r
    BY <2>1
  <2>5. t \in Standings(kalshi, polymarket)
    BY <2>1, <2>2, <2>3 DEF Standings, S, X
  <2> HIDE DEF m
  <2>6. SeenChange(s, c, t)
    BY <1>7, <2>2, <2>3, <2>4 DEF SeenChange, IsPut, m
  <2> QED BY <2>5, <2>6 DEF t
<1>8. CASE m \in DOMAIN s.best /\ ~ (c.score > s.best[m].score)
  <2> DEFINE r == Put(s.runnerUp, m, top)
  <2>1. t = [best |-> s.best, runnerUp |-> r]
    BY <1>1, <1>8 DEF Seen, top
  <2>2. r \in Partial(S, Int) /\ IsPut(s.runnerUp, m, top, r)
    BY <1>1, <1>2, <1>5, PutLemma
  <2> HIDE DEF r, t
  <2>3. t.best = s.best /\ t.runnerUp = r
    BY <2>1
  <2>4. t \in Standings(kalshi, polymarket)
    BY <1>1, <2>1, <2>2 DEF Standings, S, X
  <2> HIDE DEF m
  <2>5. SeenChange(s, c, t)
    BY <1>4, <1>8, <2>2, <2>3 DEF SeenChange, IsPut, m
  <2> QED BY <2>4, <2>5 DEF t
<1> QED BY <1>6, <1>7, <1>8

SeenFold(iter, all) ==
    iter = [d \in SUBSET DOMAIN all |->
              IF d = {} THEN NoneYet
              ELSE LET i == Max(d) IN Seen(iter[d \ {i}], all[i])]

SeenIter(all) == CHOOSE iter : SeenFold(iter, all)

\* What all candidates come to.
Outcome(all) == FoldLeft(Seen, NoneYet, all)

LEMMA SeenAreFold ==
    ASSUME NEW all
    PROVE  Outcome(all) = SeenIter(all)[DOMAIN all]
BY DEF Outcome, FoldLeft, MapThenFoldSet, SeenIter, SeenFold

\* Candidate by candidate.
LEMMA SeenSteps ==
    ASSUME NEW kalshi, NEW polymarket, NEW n \in Nat, NEW all \in [1 .. n -> CandidateSet(kalshi, polymarket)]
    PROVE  \E g : /\ g[0] = NoneYet
                  /\ \A k \in 1 .. n : g[k] = Seen(g[k - 1], all[k])
                  /\ Outcome(all) = g[n]
<1> DEFINE V == Standings(kalshi, polymarket)
           step == [e \in V \X (1 .. n) |-> Seen(e[1], all[e[2]])]
           it == SeenIter(all)
           g == [k \in 0 .. n |-> it[1 .. k]]
<1>1. NoneYet \in V
  <2>1. <<>> \in [{} -> CandidateSet(kalshi, polymarket)] /\ <<>> \in [{} -> Int]
    OBVIOUS
  <2>2. <<>> \in Partial(MarketIds(polymarket), CandidateSet(kalshi, polymarket)) /\ <<>> \in Partial(MarketIds(polymarket), Int)
    BY <2>1 DEF Partial
  <2> QED BY <2>2 DEF NoneYet, Standings
<1>2. step \in [V \X (1 .. n) -> V]
  <2>1. ASSUME NEW e \in V \X (1 .. n) PROVE Seen(e[1], all[e[2]]) \in V
    <3>1. e[1] \in V /\ all[e[2]] \in CandidateSet(kalshi, polymarket)
      OBVIOUS
    <3> QED BY <3>1, SeenLemma
  <2> HIDE DEF V
  <2> QED BY <2>1
<1> HIDE DEF V
<1>3. PICK f : IsLeftFold(f, n, NoneYet, step) /\ f \in [SUBSET (1 .. n) -> V]
  <2> HIDE DEF step
  <2> QED BY <1>1, <1>2, LeftFoldExists
<1>4. SeenFold(f, all)
  <2>1. ASSUME NEW d \in SUBSET (1 .. n), d # {}
        PROVE  step[<<f[d \ {Max(d)}], Max(d)>>] = Seen(f[d \ {Max(d)}], all[Max(d)])
    <3>1. Max(d) \in d
      BY <2>1, PartLemma
    <3>2. f[d \ {Max(d)}] \in V /\ Max(d) \in 1 .. n
      BY <1>3, <3>1
    <3> QED BY <3>2
  <2>2. DOMAIN all = 1 .. n
    OBVIOUS
  <2> HIDE DEF step
  <2> QED BY <1>3, <2>1, <2>2 DEF SeenFold, IsLeftFold
<1>5. SeenFold(it, all)
  BY <1>4 DEF SeenIter
<1>6. Outcome(all) = it[1 .. n]
  <2>1. DOMAIN all = 1 .. n
    OBVIOUS
  <2>2. Outcome(all) = it[DOMAIN all]
    BY SeenAreFold
  <2> QED BY <2>1, <2>2
<1> HIDE DEF it, step
<1>7. \A d \in SUBSET (1 .. n) :
         it[d] = IF d = {} THEN NoneYet ELSE Seen(it[d \ {Max(d)}], all[Max(d)])
  BY <1>5 DEF SeenFold
<1>8. g[0] = NoneYet
  <2>1. 1 .. 0 = {} /\ 0 \in 0 .. n
    OBVIOUS
  <2> QED BY <1>7, <2>1
<1>9. ASSUME NEW k \in 1 .. n PROVE g[k] = Seen(g[k - 1], all[k])
  <2>1. g[k] = it[1 .. k] /\ g[k - 1] = it[1 .. k - 1]
    OBVIOUS
  <2> HIDE DEF g
  <2>2. it[1 .. k] = Seen(it[1 .. k - 1], all[k])
    BY <1>7, Staircase
  <2> QED BY <2>1, <2>2
<1>10. it[1 .. n] = g[n]
  OBVIOUS
<1> HIDE DEF g
<1> QED BY <1>6, <1>8, <1>9, <1>10

\* Whoever proposes a market among the first k.
Rivals(all, k, m) == {j \in 1 .. k : all[j].polymarket = m}

\* The n-th candidate leads a market, and the best of the others is its runner-up.
IsLedBy(s, m, n, k, all) ==
    LET others == Rivals(all, k, m) \ {n}
    IN  /\ n \in Rivals(all, k, m) /\ s.best[m] = all[n]
        /\ \A j \in others : all[j].score <= all[n].score
        /\ m \in DOMAIN s.runnerUp <=> others # {}
        /\ m \in DOMAIN s.runnerUp =>
              /\ \E j \in others : s.runnerUp[m] = all[j].score
              /\ \A j \in others : all[j].score <= s.runnerUp[m]

AreSeen(s, k, all) ==
    /\ DOMAIN s.best = {all[j].polymarket : j \in 1 .. k}
    /\ DOMAIN s.runnerUp \subseteq DOMAIN s.best
    /\ \A m \in DOMAIN s.best : \E n \in 1 .. k : IsLedBy(s, m, n, k, all)

\* One more candidate.
LEMMA SeenStep ==
    ASSUME NEW N \in Nat, NEW all, \A j \in 1 .. N : all[j].score \in Int,
           NEW k \in 1 .. N, NEW s, NEW t, AreSeen(s, k - 1, all), SeenChange(s, all[k], t)
    PROVE  AreSeen(t, k, all)
<1> DEFINE c == all[k]
           m == c.polymarket
<1>1. /\ k \in Nat /\ \A j \in 1 .. k - 1 : j \in 1 .. k /\ j # k
      /\ k \in 1 .. k /\ \A j \in 1 .. k : j \in 1 .. k - 1 \/ j = k
      /\ \A j \in 1 .. k : all[j].score \in Int
  OBVIOUS
<1>2. /\ DOMAIN t.best = DOMAIN s.best \cup {m}
      /\ \A z \in DOMAIN s.best \ {m} : t.best[z] = s.best[z]
      /\ \A z : z # m => (z \in DOMAIN t.runnerUp <=> z \in DOMAIN s.runnerUp)
      /\ \A z \in DOMAIN s.runnerUp \ {m} : t.runnerUp[z] = s.runnerUp[z]
  BY DEF SeenChange
<1>3. /\ DOMAIN s.best = {all[j].polymarket : j \in 1 .. k - 1}
      /\ DOMAIN s.runnerUp \subseteq DOMAIN s.best
      /\ \A z \in DOMAIN s.best : \E n \in 1 .. k - 1 : IsLedBy(s, z, n, k - 1, all)
  BY DEF AreSeen
<1>4. /\ ~ (m \in DOMAIN s.best) =>
            t.best[m] = c /\ (m \in DOMAIN t.runnerUp <=> m \in DOMAIN s.runnerUp)
      /\ m \in DOMAIN s.best /\ c.score > s.best[m].score =>
            t.best[m] = c /\ m \in DOMAIN t.runnerUp /\ t.runnerUp[m] = s.best[m].score
      /\ m \in DOMAIN s.best /\ ~ (c.score > s.best[m].score) =>
            /\ t.best[m] = s.best[m] /\ m \in DOMAIN t.runnerUp
            /\ m \in DOMAIN s.runnerUp =>
                  t.runnerUp[m] = IF s.runnerUp[m] >= c.score THEN s.runnerUp[m] ELSE c.score
            /\ ~ (m \in DOMAIN s.runnerUp) => t.runnerUp[m] = c.score
  BY DEF SeenChange
<1>5. \A z : Rivals(all, k, z) = Rivals(all, k - 1, z) \cup (IF z = m THEN {k} ELSE {})
  BY <1>1 DEF Rivals
<1>6. \A z : \A j \in Rivals(all, k - 1, z) : j # k /\ all[j].score \in Int
  BY <1>1 DEF Rivals
<1>7. c.score \in Int
  BY <1>1
<1> HIDE DEF c
<1>8. DOMAIN t.best = {all[j].polymarket : j \in 1 .. k}
  BY <1>1, <1>2, <1>3 DEF c
<1> HIDE DEF m
<1>9. DOMAIN t.runnerUp \subseteq DOMAIN t.best
  BY <1>2, <1>3
<1>10. ASSUME NEW z \in DOMAIN t.best, z # m
       PROVE  \E n \in 1 .. k : IsLedBy(t, z, n, k, all)
  <2>1. z \in DOMAIN s.best /\ t.best[z] = s.best[z] /\ Rivals(all, k, z) = Rivals(all, k - 1, z)
    BY <1>2, <1>5, <1>10
  <2>2. PICK n \in 1 .. k - 1 : IsLedBy(s, z, n, k - 1, all)
    BY <1>3, <2>1
  <2>3. z \in DOMAIN s.runnerUp => t.runnerUp[z] = s.runnerUp[z]
    BY <1>2, <1>10
  <2>4. IsLedBy(t, z, n, k, all)
    BY <1>2, <1>10, <2>1, <2>2, <2>3 DEF IsLedBy
  <2> QED BY <1>1, <2>4
<1>11. \E n \in 1 .. k : IsLedBy(t, m, n, k, all)
  <2>1. CASE ~ (m \in DOMAIN s.best)
    <3>1. Rivals(all, k - 1, m) = {}
      BY <1>3, <2>1 DEF Rivals
    <3>2. Rivals(all, k, m) = {k} /\ ~ (m \in DOMAIN t.runnerUp)
      BY <1>3, <1>4, <1>5, <2>1, <3>1
    <3>3. IsLedBy(t, m, k, k, all)
      BY <1>4, <2>1, <3>2 DEF IsLedBy, c
    <3> QED BY <1>1, <3>3
  <2>2. CASE m \in DOMAIN s.best
    <3> DEFINE Before == Rivals(all, k - 1, m)
    <3>1. PICK n \in 1 .. k - 1 : IsLedBy(s, m, n, k - 1, all)
      BY <1>3, <2>2
    <3>2. /\ n \in Before /\ s.best[m] = all[n]
          /\ \A j \in Before \ {n} : all[j].score <= all[n].score
          /\ m \in DOMAIN s.runnerUp <=> Before \ {n} # {}
          /\ m \in DOMAIN s.runnerUp =>
                /\ \E j \in Before \ {n} : s.runnerUp[m] = all[j].score
                /\ \A j \in Before \ {n} : all[j].score <= s.runnerUp[m]
      BY <3>1 DEF IsLedBy
    <3>3. Rivals(all, k, m) = Before \cup {k} /\ \A j \in Before : j # k /\ all[j].score \in Int
      BY <1>5, <1>6
    <3> HIDE DEF Before
    <3>4. CASE c.score > all[n].score
      <4>1. t.best[m] = c /\ m \in DOMAIN t.runnerUp /\ t.runnerUp[m] = all[n].score
        BY <1>4, <2>2, <3>2, <3>4
      <4>2. Rivals(all, k, m) \ {k} = Before
        BY <3>3
      <4>3. \A j \in Before : all[j].score <= all[n].score /\ all[j].score <= c.score
        <5> SUFFICES ASSUME NEW j \in Before
                     PROVE  all[j].score <= all[n].score /\ all[j].score <= c.score
          OBVIOUS
        <5>1. all[j].score \in Int /\ all[n].score \in Int
          BY <3>2, <3>3
        <5>2. all[j].score <= all[n].score
          BY <3>2, <5>1
        <5> QED BY <1>7, <3>4, <5>1, <5>2
      <4>4. IsLedBy(t, m, k, k, all)
        BY <3>2, <3>3, <4>1, <4>2, <4>3 DEF IsLedBy, c
      <4> QED BY <1>1, <4>4
    <3>5. CASE ~ (c.score > all[n].score)
      <4>1. /\ t.best[m] = all[n] /\ m \in DOMAIN t.runnerUp
            /\ m \in DOMAIN s.runnerUp =>
                  t.runnerUp[m] = IF s.runnerUp[m] >= c.score THEN s.runnerUp[m] ELSE c.score
            /\ ~ (m \in DOMAIN s.runnerUp) => t.runnerUp[m] = c.score
        BY <1>4, <2>2, <3>2, <3>5
      <4>2. /\ Rivals(all, k, m) \ {n} = (Before \ {n}) \cup {k}
            /\ n \in Rivals(all, k, m) /\ n # k
        BY <3>2, <3>3
      <4>3. c.score <= all[n].score /\ c.score <= c.score
        BY <1>7, <3>2, <3>3, <3>5
      <4>4. ASSUME m \in DOMAIN s.runnerUp
            PROVE  /\ \E j \in Rivals(all, k, m) \ {n} : t.runnerUp[m] = all[j].score
                   /\ \A j \in Rivals(all, k, m) \ {n} : all[j].score <= t.runnerUp[m]
        <5> DEFINE u == s.runnerUp[m]
                   v == t.runnerUp[m]
        <5>1. PICK j \in Before \ {n} : u = all[j].score
          BY <3>2, <4>4
        <5>2. u \in Int /\ v = IF u >= c.score THEN u ELSE c.score
          BY <3>3, <4>1, <4>4, <5>1
        <5>3. \A i \in Before \ {n} : all[i].score <= u /\ all[i].score \in Int
          BY <3>2, <3>3, <4>4
        <5> HIDE DEF u, v
        <5>4. u <= v /\ c.score <= v /\ v \in Int /\ (v = u \/ v = c.score)
          BY <1>7, <5>2
        <5>5. \A i \in Before \ {n} : all[i].score <= v
          BY <5>2, <5>3, <5>4
        <5>6. \A i \in Rivals(all, k, m) \ {n} : all[i].score <= v
          BY <4>2, <5>4, <5>5 DEF c
        <5>7. \E i \in Rivals(all, k, m) \ {n} : v = all[i].score
          BY <4>2, <5>1, <5>4 DEF c
        <5> QED BY <5>6, <5>7 DEF v
      <4>5. ASSUME ~ (m \in DOMAIN s.runnerUp)
            PROVE  /\ \E j \in Rivals(all, k, m) \ {n} : t.runnerUp[m] = all[j].score
                   /\ \A j \in Rivals(all, k, m) \ {n} : all[j].score <= t.runnerUp[m]
        <5>1. Rivals(all, k, m) \ {n} = {k}
          BY <3>2, <4>2, <4>5
        <5> QED BY <4>1, <4>3, <4>5, <5>1 DEF c
      <4>6. \A j \in Rivals(all, k, m) \ {n} : all[j].score <= all[n].score
        BY <3>2, <4>2, <4>3 DEF c
      <4>7. IsLedBy(t, m, n, k, all)
        BY <4>1, <4>2, <4>4, <4>5, <4>6 DEF IsLedBy
      <4> QED BY <1>1, <4>7
    <3> QED BY <3>4, <3>5
  <2> QED BY <2>1, <2>2
<1> QED BY <1>8, <1>9, <1>10, <1>11 DEF AreSeen

LEMMA AllSeen ==
    ASSUME NEW kalshi, NEW polymarket, NEW N \in Nat, NEW all \in [1 .. N -> CandidateSet(kalshi, polymarket)]
    PROVE  LET s == Outcome(all)
           IN  s \in Standings(kalshi, polymarket) /\ AreSeen(s, N, all)
<1>1. PICK g : /\ g[0] = NoneYet
               /\ \A k \in 1 .. N : g[k] = Seen(g[k - 1], all[k])
               /\ Outcome(all) = g[N]
  BY SeenSteps
<1> DEFINE G == {k \in 0 .. N : g[k] \in Standings(kalshi, polymarket) /\ AreSeen(g[k], k, all)}
<1>2. 0 \in G
  <2>1. <<>> \in [{} -> CandidateSet(kalshi, polymarket)] /\ <<>> \in [{} -> Int]
    OBVIOUS
  <2>2. <<>> \in Partial(MarketIds(polymarket), CandidateSet(kalshi, polymarket)) /\ <<>> \in Partial(MarketIds(polymarket), Int)
    BY <2>1 DEF Partial
  <2>3. g[0] \in Standings(kalshi, polymarket)
    BY <1>1, <2>2 DEF NoneYet, Standings
  <2>4. g[0].best = <<>> /\ g[0].runnerUp = <<>> /\ 1 .. 0 = {} /\ DOMAIN <<>> = {}
    BY <1>1 DEF NoneYet
  <2>5. AreSeen(g[0], 0, all)
    BY <2>4 DEF AreSeen
  <2> QED BY <2>3, <2>5
<1>3. ASSUME NEW k \in 0 .. N, k # 0, k - 1 \in G PROVE k \in G
  <2>1. k \in 1 .. N /\ all[k] \in CandidateSet(kalshi, polymarket) /\ g[k] = Seen(g[k - 1], all[k])
    BY <1>1, <1>3
  <2>2. g[k] \in Standings(kalshi, polymarket) /\ SeenChange(g[k - 1], all[k], g[k])
    BY <1>3, <2>1, SeenLemma
  <2>3. \A j \in 1 .. N : all[j].score \in Int
    BY DEF CandidateSet
  <2>4. AreSeen(g[k - 1], k - 1, all)
    BY <1>3
  <2>5. AreSeen(g[k], k, all)
    BY <2>1, <2>2, <2>3, <2>4, SeenStep
  <2> QED BY <2>2, <2>5
<1> HIDE DEF G
<1>4. N \in G
  BY <1>2, <1>3, UpTo
<1>5. g[N] \in Standings(kalshi, polymarket) /\ AreSeen(g[N], N, all)
  BY <1>4 DEF G
<1> QED BY <1>1, <1>5

\* A proposal of a market is its best candidate, and its margin is over the others.
Won(all, r, m) ==
    LET rivals == {n \in DOMAIN all : all[n].polymarket = m}
    IN  \E n \in rivals :
           LET others == {all[x].score : x \in rivals \ {n}}
           IN  /\ r.c = all[n] /\ \A x \in others : x <= r.c.score
               /\ r.margin = IF others = {} THEN -1 ELSE r.c.score - Max(others)

\* What is proposed of all candidates.
AreTheBest(all, proposals) ==
    /\ {r.c.polymarket : r \in proposals} = {c.polymarket : c \in Range(all)}
    /\ \A r \in proposals : Won(all, r, r.c.polymarket)
    /\ \A r, o \in proposals : r.c.polymarket = o.c.polymarket => r = o

LEMMA ProposedLemma ==
    ASSUME NEW kalshi, NEW polymarket, AreVenues(kalshi, polymarket)
    PROVE  AreTheBest(Candidates(kalshi, polymarket), ProposePairs(kalshi, polymarket))
<1> DEFINE all == Candidates(kalshi, polymarket)
           N == Len(all)
           s == Outcome(all)
           proposal(m) == [c |-> s.best[m],
                           margin |-> IF m \in DOMAIN s.runnerUp
                                      THEN s.best[m].score - s.runnerUp[m] ELSE -1]
           proposals == ProposePairs(kalshi, polymarket)
           rivals(m) == {n \in DOMAIN all : all[n].polymarket = m}
<1>1. all \in Seq(CandidateSet(kalshi, polymarket))
  BY CandidatesType
<1>2. proposals = {proposal(m) : m \in DOMAIN s.best}
  BY DEF ProposePairs, Outcome
<1> HIDE DEF all
<1>3. N \in Nat /\ all \in [1 .. N -> CandidateSet(kalshi, polymarket)] /\ DOMAIN all = 1 .. N
  BY <1>1
<1> HIDE DEF N
<1>4. AreSeen(s, N, all)
  BY <1>3, AllSeen
<1> HIDE DEF s, proposals
<1>5. \A n \in 1 .. N : all[n].score \in Int
  BY <1>3 DEF CandidateSet
<1>6. \A m : Rivals(all, N, m) = rivals(m)
  BY <1>3 DEF Rivals
<1>7. ASSUME NEW m \in DOMAIN s.best
      PROVE  proposal(m).c.polymarket = m /\ Won(all, proposal(m), m)
  <2>1. PICK n \in 1 .. N : IsLedBy(s, m, n, N, all)
    BY <1>4 DEF AreSeen
  <2> DEFINE rest == rivals(m) \ {n}
             others == {all[x].score : x \in rest}
  <2>2. /\ n \in rivals(m) /\ s.best[m] = all[n]
        /\ \A j \in rest : all[j].score <= all[n].score
        /\ m \in DOMAIN s.runnerUp <=> rest # {}
        /\ m \in DOMAIN s.runnerUp =>
              /\ \E j \in rest : s.runnerUp[m] = all[j].score
              /\ \A j \in rest : all[j].score <= s.runnerUp[m]
    BY <1>6, <2>1 DEF IsLedBy
  <2>3. proposal(m).c = all[n] /\ all[n].polymarket = m
    BY <2>2
  <2>4. others # {} <=> m \in DOMAIN s.runnerUp
    <3> HIDE DEF rest
    <3> QED BY <2>2
  <2>5. m \in DOMAIN s.runnerUp => Max(others) = s.runnerUp[m]
    <3> SUFFICES ASSUME m \in DOMAIN s.runnerUp PROVE Max(others) = s.runnerUp[m]
      OBVIOUS
    <3> DEFINE u == s.runnerUp[m]
    <3>1. \A x \in others : x \in Int
      BY <1>3, <1>5
    <3>2. u \in others /\ \A x \in others : u >= x
      <4> HIDE DEF rest
      <4>1. u \in others /\ \A x \in others : x <= u
        BY <2>2
      <4> HIDE DEF u, others
      <4> QED BY <3>1, <4>1
    <3> HIDE DEF u, others
    <3>3. \A z \in others : (\A y \in others : z >= y) => z = u
      BY <3>1, <3>2
    <3>4. Max(others) = u
      BY <3>2, <3>3 DEF Max
    <3> QED BY <3>4 DEF u
  <2>6. proposal(m).margin = IF m \in DOMAIN s.runnerUp
                             THEN s.best[m].score - s.runnerUp[m] ELSE -1
    OBVIOUS
  <2> HIDE DEF proposal
  <2>7. \A x \in others : x <= proposal(m).c.score
    <3> HIDE DEF rest
    <3> QED BY <2>2, <2>3
  <2>8. proposal(m).margin = IF others = {} THEN -1 ELSE proposal(m).c.score - Max(others)
    <3> HIDE DEF others
    <3> QED BY <2>2, <2>3, <2>4, <2>5, <2>6
  <2>9. Won(all, proposal(m), m)
    BY <2>2, <2>3, <2>7, <2>8 DEF Won
  <2> QED BY <2>3, <2>9
<1> HIDE DEF proposal
<1>8. {r.c.polymarket : r \in proposals} = {c.polymarket : c \in Range(all)}
  <2>1. {r.c.polymarket : r \in proposals} = DOMAIN s.best
    <3> HIDE DEF rivals
    <3> QED BY <1>2, <1>7
  <2>2. DOMAIN s.best = {all[j].polymarket : j \in 1 .. N}
    BY <1>4 DEF AreSeen
  <2>3. {c.polymarket : c \in Range(all)} = {all[j].polymarket : j \in 1 .. N}
    BY <1>3 DEF Range
  <2> QED BY <2>1, <2>2, <2>3
<1>9. ASSUME NEW r \in proposals
      PROVE  Won(all, r, r.c.polymarket)
  <2>1. PICK m \in DOMAIN s.best : r = proposal(m)
    BY <1>2
  <2>2. r.c.polymarket = m
    BY <1>7, <2>1
  <2> QED BY <1>7, <2>1, <2>2
<1>10. ASSUME NEW r \in proposals, NEW o \in proposals, r.c.polymarket = o.c.polymarket
       PROVE  r = o
  <2>1. PICK m \in DOMAIN s.best : r = proposal(m)
    BY <1>2
  <2>2. PICK z \in DOMAIN s.best : o = proposal(z)
    BY <1>2
  <2>3. r.c.polymarket = m /\ o.c.polymarket = z
    BY <1>7, <2>1, <2>2
  <2> QED BY <1>10, <2>1, <2>2, <2>3
<1> QED BY <1>8, <1>9, <1>10 DEF AreTheBest, proposals, all

\* A venue's events, their markets numbered.
LEMMA NumberedLemma ==
    ASSUME NEW n \in Nat, NEW E \in SUBSET (KalshiEvents \cup PolymarketEvents),
           NEW events \in [1 .. n -> E]
    PROVE  AreEvents(Numbered(events)) /\ Len(Numbered(events)) = n
<1> DEFINE all == Numbered(events)
           market(k, i) == [id |-> <<k, i>>, name |-> events[k].markets[i]]
           markets(k) == [i \in DOMAIN events[k].markets |-> market(k, i)]
<1>1. ASSUME NEW k \in 1 .. n
      PROVE  /\ DOMAIN events[k] = {"title", "day", "markets"}
             /\ IsFiniteSet(events[k].title) /\ events[k].day \in Nat
             /\ Len(events[k].markets) \in Nat
             /\ DOMAIN events[k].markets = 1 .. Len(events[k].markets)
             /\ \A i \in DOMAIN events[k].markets : IsFiniteSet(events[k].markets[i])
  <2>1. events[k] \in KalshiEvents \cup PolymarketEvents
    OBVIOUS
  <2> QED BY <2>1, EventAssumption
<1>2. DOMAIN all = 1 .. n /\ \A k \in 1 .. n : all[k] = [events[k] EXCEPT !.markets = markets(k)]
  BY DEF Numbered
<1>3. all \in [1 .. n -> {all[k] : k \in 1 .. n}]
  BY DEF Numbered
<1>4. Len(all) = n
  <2> HIDE DEF all
  <2> QED BY <1>3, SequenceOf
<1> HIDE DEF all
<1>5. ASSUME NEW k \in 1 .. n
      PROVE  /\ IsFiniteSet(all[k].title) /\ all[k].day \in Int
             /\ AreOutcomes(all[k].markets)
  <2> DEFINE A == markets(k)
             L == Len(events[k].markets)
  <2>1. L \in Nat /\ DOMAIN events[k].markets = 1 .. L
    BY <1>1
  <2> HIDE DEF L
  <2>2. DOMAIN A = 1 .. L /\ \A i \in 1 .. L : A[i].name = events[k].markets[i]
    BY <2>1
  <2>3. A \in [1 .. L -> {A[i] : i \in 1 .. L}]
    BY <2>1
  <2> HIDE DEF markets
  <2>4. Len(A) = L
    BY <2>1, <2>3, SequenceOf
  <2>5. AreOutcomes(A)
    <3>1. \A i \in 1 .. L : IsFiniteSet(A[i].name)
      BY <1>1, <2>1, <2>2
    <3> QED BY <2>1, <2>2, <2>4, <3>1 DEF AreOutcomes
  <2>6. all[k].title = events[k].title /\ all[k].day = events[k].day /\ all[k].markets = A
    BY <1>1, <1>2
  <2> QED BY <1>1, <2>5, <2>6
<1>6. AreEvents(all)
  BY <1>2, <1>4, <1>5 DEF AreEvents
<1> QED BY <1>4, <1>6 DEF all

-----------------------------------------------------------------------------
(* The quotes *)

\* The prices that are as good as p, and those that n units reach.
Reach(side, p) == {x \in ValidPrices : Rank(side, x) <= Rank(side, p)}
Reached(side, l, n) == {p \in ValidPrices : Sum(l, Reach(side, p)) >= n}

\* The price of the n-th unit of a side.
At(side, l, n) == IF side = "ask" THEN AskAt(l, n) ELSE BidAt(l, n)

\* The asks are reached from below, the bids from above.
LEMMA ReachLemma ==
    ASSUME NEW l, NEW n
    PROVE  /\ AskAt(l, n) = Min(Reached("ask", l, n))
           /\ BidAt(l, n) = Max(Reached("bid", l, n))
           /\ \A side \in Sides, p \in ValidPrices :
                 Reach(side, p) \in SUBSET ValidPrices /\ IsFiniteSet(Reach(side, p))
<1>1. ASSUME NEW p \in ValidPrices
      PROVE  Reach("ask", p) = 1 .. p /\ Reach("bid", p) = p .. TicksPerDollar - 1
  BY ScaleAssumption DEF Reach, Rank, ValidPrices
<1>2. Reached("ask", l, n) = {p \in ValidPrices : SumFunctionOnSet(l, 1 .. p) >= n}
  BY <1>1 DEF Reached, Sum
<1>3. Reached("bid", l, n) = {p \in ValidPrices :
                                SumFunctionOnSet(l, p .. TicksPerDollar - 1) >= n}
  BY <1>1 DEF Reached, Sum
<1>4. \A side \in Sides, p \in ValidPrices : Reach(side, p) \in SUBSET ValidPrices
  BY DEF Reach
<1> QED BY <1>2, <1>3, <1>4, PricesAreFinite, FS_Subset DEF AskAt, BidAt

\* The n-th unit is at the best price that n units reach.
LEMMA AtLemma ==
    ASSUME NEW side \in Sides, NEW l, NEW n, Reached(side, l, n) # {}
    PROVE  /\ At(side, l, n) \in Reached(side, l, n)
           /\ \A p \in Reached(side, l, n) : Rank(side, At(side, l, n)) <= Rank(side, p)
<1> DEFINE S == Reached(side, l, n)
<1>1. S \in SUBSET ValidPrices /\ ValidPrices \in SUBSET Nat
  BY ScaleAssumption DEF Reached, ValidPrices
<1>2. IsFiniteSet(S)
  BY <1>1, PricesAreFinite, FS_Subset
<1>3. At(side, l, n) = IF side = "ask" THEN Min(S) ELSE Max(S)
  BY ReachLemma DEF At, Sides
<1>4. S # {} /\ side \in {"bid", "ask"} /\ TicksPerDollar \in Nat
  BY ScaleAssumption DEF Sides
<1> HIDE DEF S
<1>5. /\ Min(S) \in S /\ \A p \in S : Min(S) <= p
      /\ Max(S) \in S /\ \A p \in S : p <= Max(S)
  BY <1>1, <1>2, <1>4, MinMaxLemma
<1>6. S \in SUBSET Nat /\ Min(S) \in Nat /\ Max(S) \in Nat
  BY <1>1, <1>5
<1>7. /\ At(side, l, n) \in S
      /\ \A p \in S : Rank(side, At(side, l, n)) <= Rank(side, p)
  BY <1>3, <1>4, <1>5, <1>6 DEF Rank
<1> QED BY <1>7 DEF S

\* A unit that a side has is at a price of the ladder.
LEMMA UnitIsSomewhere ==
    ASSUME NEW side \in Sides, NEW l \in Ladder, NEW n \in Nat,
           n <= Sum(l, ValidPrices), ValidPrices # {}
    PROVE  Reached(side, l, n) # {} /\ At(side, l, n) \in ValidPrices
<1> DEFINE last == IF side = "ask" THEN TicksPerDollar - 1 ELSE 1
<1>1. last \in ValidPrices /\ Reach(side, last) = ValidPrices
  BY ScaleAssumption DEF ValidPrices, Reach, Rank, Sides
<1>2. last \in Reached(side, l, n)
  <2>1. Sum(l, ValidPrices) \in Nat
    BY UnitsLemma
  <2> HIDE DEF last
  <2> QED BY <1>1, <2>1 DEF Reached
<1>3. At(side, l, n) \in Reached(side, l, n)
  BY <1>2, AtLemma
<1> QED BY <1>2, <1>3 DEF Reached

\* Nothing sums to nothing.
LEMMA SumOfNothing ==
    ASSUME NEW S, NEW g, IsFiniteSet(S), \A x \in S : g[x] = 0
    PROVE  Sum(g, S) = 0
<1>1. Summable(g, S) /\ \A x \in S : g[x] = 0 * g[x]
  BY DEF Summable
<1>2. Sum(g, S) = 0 * Sum(g, S) /\ Sum(g, S) \in Int
  BY <1>1, SumOfMultiples, SumType
<1> QED BY <1>2

\* What is reached of a ladder, with and without k units of its best level.
LEMMA ReachAfter ==
    ASSUME NEW side \in Sides, NEW l \in Ladder, NEW best \in ValidPrices,
           NEW k \in 1 .. l[best],
           \A x \in ValidPrices : Rank(side, x) < Rank(side, best) => l[x] = 0,
           NEW p \in ValidPrices
    PROVE  LET m == Less(l, best, k)
               r == Sum(l, Reach(side, p))
               s == Sum(m, Reach(side, p))
           IN  /\ m \in Ladder /\ r \in Nat /\ s \in Nat
               /\ Rank(side, p) < Rank(side, best) => r = 0 /\ s = 0
               /\ Rank(side, best) <= Rank(side, p) => r = s + k
               /\ p = best => r = l[best]
<1> DEFINE m == Less(l, best, k)
           S == Reach(side, p)
           r == Sum(l, S)
           s == Sum(m, S)
<1>1. \A x \in ValidPrices : /\ l[x] \in Nat
                             /\ m[x] = IF x = best THEN l[x] - k ELSE l[x]
                             /\ m[x] \in Nat
  BY DEF Less, Ladder
<1>2. m \in Ladder
  <2>1. m = [x \in ValidPrices |-> m[x]]
    BY DEF Less, Ladder
  <2> HIDE DEF m
  <2> QED BY <1>1, <2>1 DEF Ladder
<1>3. \A x \in ValidPrices : Rank(side, x) \in Int
  BY RankLemma
<1>4. S \in SUBSET ValidPrices /\ IsFiniteSet(S)
  BY ReachLemma
<1>5. \A x \in S : Rank(side, x) <= Rank(side, p)
  BY DEF Reach
<1>6. \A x \in ValidPrices : Rank(side, x) <= Rank(side, p) => x \in S
  BY DEF Reach
<1> HIDE DEF m, S
<1>7. Summable(l, S) /\ Summable(m, S)
  BY <1>1, <1>4 DEF Summable
<1>8. r \in Nat /\ s \in Nat
  BY <1>1, <1>4, SumOfPart
<1>9. ASSUME Rank(side, p) < Rank(side, best) PROVE r = 0 /\ s = 0
  <2>1. \A x \in S : Rank(side, x) < Rank(side, best) /\ x # best
    BY <1>3, <1>4, <1>5, <1>9
  <2>2. \A x \in S : l[x] = 0 /\ m[x] = 0
    BY <1>1, <1>4, <2>1
  <2> QED BY <1>4, <2>2, SumOfNothing
<1>10. ASSUME Rank(side, best) <= Rank(side, p) PROVE r = s + k
  <2>1. best \in S /\ m[best] \in Int /\ \A x \in S \ {best} : m[x] = l[x]
    BY <1>1, <1>4, <1>6, <1>10
  <2>2. s = r + (m[best] - l[best])
    BY <1>7, <2>1, SumOfChange
  <2>3. m[best] = l[best] - k /\ l[best] \in Nat /\ k \in Nat
    BY <1>1
  <2> QED BY <1>8, <2>2, <2>3
<1>11. ASSUME p = best PROVE r = l[best]
  <2>1. best \in S
    BY <1>3, <1>6, <1>11
  <2>2. ASSUME NEW x \in S \ {best} PROVE l[x] = 0
    <3>1. Rank(side, x) # Rank(side, best)
      BY <1>4, <2>2, ScaleAssumption DEF Rank, ValidPrices
    <3>2. Rank(side, x) < Rank(side, best)
      BY <1>3, <1>4, <1>5, <1>11, <3>1
    <3> QED BY <1>4, <3>2
  <2>3. Sum(l, S) = l[best] + Sum(l, S \ {best})
    BY <1>7, <2>1, SumUnfolds DEF Unfolds
  <2>4. Sum(l, S \ {best}) = 0
    <3>1. IsFiniteSet(S \ {best})
      BY <1>4, FS_Subset
    <3> QED BY <2>2, <3>1, SumOfNothing
  <2> QED BY <1>1, <2>3, <2>4
<1> QED BY <1>2, <1>8, <1>9, <1>10, <1>11 DEF m, S

\* m is what k units of the best level leave of the ladder l.
IsRest(side, l, best, k, m) ==
    /\ m \in Ladder /\ Sum(m, ValidPrices) \in Nat
    /\ Sum(l, ValidPrices) = Sum(m, ValidPrices) + k
    /\ \A n \in 1 .. k : At(side, l, n) = best
    /\ \A n \in Nat \ {0} : At(side, l, n + k) = At(side, m, n)
    /\ k = l[best] => \A n \in Nat : k < n /\ n <= Sum(l, ValidPrices) =>
                                       At(side, l, n) # best

\* The first k units are at the best price, the others where the rest has them.
LEMMA RestLemma ==
    ASSUME NEW side \in Sides, NEW l \in Ladder, NEW best \in ValidPrices,
           NEW k \in 1 .. l[best],
           \A x \in ValidPrices : Rank(side, x) < Rank(side, best) => l[x] = 0
    PROVE  IsRest(side, l, best, k, Less(l, best, k))
<1> DEFINE m == Less(l, best, k)
           R(p) == Sum(l, Reach(side, p))
           Q(p) == Sum(m, Reach(side, p))
           b == Rank(side, best)
<1>1. ASSUME NEW p \in ValidPrices
      PROVE  /\ m \in Ladder /\ R(p) \in Nat /\ Q(p) \in Nat
             /\ Rank(side, p) < b => R(p) = 0 /\ Q(p) = 0
             /\ b <= Rank(side, p) => R(p) = Q(p) + k
             /\ p = best => R(p) = l[best]
  BY ReachAfter
<1>2. \A p \in ValidPrices : Rank(side, p) \in Int /\ b \in Int
  BY RankLemma
<1>3. m \in Ladder /\ k \in Nat \ {0} /\ l[best] \in Nat
  BY <1>1 DEF Ladder
<1>4. Sum(l, ValidPrices) = Sum(m, ValidPrices) + k /\ Sum(m, ValidPrices) \in Nat
  <2>1. Sum(l, ValidPrices) \in Nat /\ Sum(m, ValidPrices) \in Nat
        /\ Summable(l, ValidPrices)
    BY <1>3, UnitsLemma
  <2>2. /\ m[best] = l[best] - k /\ \A x \in ValidPrices \ {best} : m[x] = l[x]
    BY <1>3 DEF Less, Ladder
  <2> HIDE DEF m
  <2>3. Sum(m, ValidPrices) = Sum(l, ValidPrices) + (m[best] - l[best])
    BY <1>3, <2>1, <2>2, SumOfChange
  <2> QED BY <1>3, <2>1, <2>2, <2>3
<1>5. /\ \A n : Reached(side, l, n) = {p \in ValidPrices : R(p) >= n}
      /\ \A n : Reached(side, m, n) = {p \in ValidPrices : Q(p) >= n}
  BY DEF Reached
<1> HIDE DEF m, R, Q, b
<1>6. ASSUME NEW n \in 1 .. k PROVE At(side, l, n) = best
  <2>1. best \in Reached(side, l, n)
    BY <1>1, <1>3, <1>5
  <2>2. /\ At(side, l, n) \in Reached(side, l, n)
        /\ Rank(side, At(side, l, n)) <= b
    BY <2>1, AtLemma DEF b
  <2>3. At(side, l, n) \in ValidPrices /\ R(At(side, l, n)) >= n
    BY <1>5, <2>2
  <2>4. Rank(side, At(side, l, n)) = b
    BY <1>1, <1>2, <2>2, <2>3
  <2> QED BY <2>3, <2>4, ScaleAssumption DEF Rank, b, ValidPrices
<1>7. ASSUME NEW n \in Nat \ {0} PROVE At(side, l, n + k) = At(side, m, n)
  <2>1. Reached(side, l, n + k) = Reached(side, m, n)
    <3>1. \A p \in ValidPrices : R(p) >= n + k <=> Q(p) >= n
      BY <1>1, <1>2, <1>3
    <3> QED BY <1>5, <3>1
  <2>2. CASE side = "ask"
    BY <2>1, <2>2, ReachLemma DEF At
  <2>3. CASE side = "bid"
    BY <2>1, <2>3, ReachLemma DEF At
  <2> QED BY <2>2, <2>3 DEF Sides
<1>8. ASSUME k = l[best], NEW n \in Nat, k < n, n <= Sum(l, ValidPrices)
      PROVE  At(side, l, n) # best
  <2>1. Reached(side, l, n) # {}
    BY <1>8, UnitIsSomewhere
  <2>2. At(side, l, n) \in Reached(side, l, n)
    BY <2>1, AtLemma
  <2>3. best \notin Reached(side, l, n)
    BY <1>1, <1>3, <1>5, <1>8
  <2> QED BY <2>2, <2>3
<1>9. IsRest(side, l, best, k, m)
  BY <1>3, <1>4, <1>6, <1>7, <1>8 DEF IsRest
<1> QED BY <1>9 DEF m

\* The worth of fill f before that of the quote r of what f leaves.
IsSumOf(q, f, r, a, b) ==
    /\ q.qty = f.take + r.qty
    /\ q.gross_tq = (f.bid - f.ask) * f.take + r.gross_tq
    /\ q.fee_ticks = FillFees(f, a, b) + r.fee_ticks
    /\ q.cost_a_tq = f.ask * f.take + r.cost_a_tq
    /\ q.cost_b_tq = (TicksPerDollar - f.bid) * f.take + r.cost_b_tq

QuoteOfNothing ==
    [qty |-> 0, gross_tq |-> 0, fee_ticks |-> 0, net_tq |-> 0, cost_a_tq |-> 0,
     cost_b_tq |-> 0]

\* The quote of some fills.
QuoteOf(kept, a, b) ==
    LET gross == SumOver(kept, LAMBDA f : (f.bid - f.ask) * f.take)
        fees == SumOver(kept, LAMBDA f : FillFees(f, a, b))
    IN  [qty |-> SumOver(kept, LAMBDA f : f.take),
         gross_tq |-> gross,
         fee_ticks |-> fees,
         net_tq |-> gross - fees * QtyPerContract,
         cost_a_tq |-> SumOver(kept, LAMBDA f : f.ask * f.take),
         cost_b_tq |-> SumOver(kept, LAMBDA f : (TicksPerDollar - f.bid) * f.take)]

\* What is kept of a walk w is nothing, or its first fill and what is kept of the rest.
IsKept(w, f, v, a, b) ==
    /\ Kept(v, a, b) \in Seq(Fill)
    /\ ~ Covers(f, a, b) => Kept(w, a, b) = <<>>
    /\ Covers(f, a, b) => Kept(w, a, b) = <<f>> \o Kept(v, a, b)

LEMMA KeptOfWalk ==
    ASSUME NEW v \in Seq(Fill), NEW f \in Fill, NEW a, NEW b, NEW w, w = <<f>> \o v
    PROVE  IsKept(w, f, v, a, b)
<1> DEFINE bad(s) == {i \in DOMAIN s : ~ Covers(s[i], a, b)}
           B == bad(v)
           C == bad(w)
<1>1. /\ w \in Seq(Fill) /\ Len(v) \in Nat /\ Len(w) = Len(v) + 1
      /\ DOMAIN v = 1 .. Len(v) /\ DOMAIN w = 1 .. Len(v) + 1
      /\ w[1] = f /\ \A i \in 1 .. Len(v) : w[i + 1] = v[i]
  OBVIOUS
<1>2. \A s : Kept(s, a, b) = IF bad(s) = {} THEN s ELSE SubSeq(s, 1, Min(bad(s)) - 1)
  BY DEF Kept
<1>4. Kept(v, a, b) \in Seq(Fill)
  <2>1. PICK n \in 0 .. Len(v) : Kept(v, a, b) = SubSeq(v, 1, n)
    BY KeptLemma
  <2> QED BY <2>1
<1>5. ASSUME NEW S \in SUBSET Nat, S # {}
      PROVE  Min(S) \in S /\ \A n \in S : Min(S) <= n
  BY <1>5, MinMaxLemma
<1>6. /\ B \in SUBSET (1 .. Len(v)) /\ C \in SUBSET (1 .. Len(v) + 1)
      /\ B \in SUBSET Nat /\ C \in SUBSET Nat
  BY <1>1
<1>7. /\ 1 \in C <=> ~ Covers(f, a, b)
      /\ \A i \in 1 .. Len(v) : i + 1 \in C <=> i \in B
  BY <1>1
<1>8. /\ Kept(v, a, b) = IF B = {} THEN v ELSE SubSeq(v, 1, Min(B) - 1)
      /\ Kept(w, a, b) = IF C = {} THEN w ELSE SubSeq(w, 1, Min(C) - 1)
  BY <1>2
<1> HIDE DEF bad, B, C
<1>9. ASSUME ~ Covers(f, a, b) PROVE Kept(w, a, b) = <<>>
  <2>1. Min(C) = 1 /\ C # {}
    <3>1. 1 \in C
      BY <1>7, <1>9
    <3>2. Min(C) \in C /\ Min(C) <= 1
      BY <1>5, <1>6, <3>1
    <3> DEFINE y == Min(C)
    <3>3. y \in 1 .. Len(v) + 1 /\ y <= 1 /\ Len(v) \in Nat
      BY <1>1, <1>6, <3>2
    <3> HIDE DEF y
    <3>4. y = 1
      BY <3>3
    <3> QED BY <3>1, <3>4 DEF y
  <2>2. SubSeq(w, 1, 0) = <<>>
    BY <1>1
  <2> QED BY <1>8, <2>1, <2>2
<1>10. ASSUME Covers(f, a, b) PROVE Kept(w, a, b) = <<f>> \o Kept(v, a, b)
  <2>1. CASE B = {}
    <3>1. C = {}
      <4> SUFFICES ASSUME NEW i \in C PROVE FALSE
        OBVIOUS
      <4>1. i \in 1 .. Len(v) + 1 /\ i # 1
        BY <1>6, <1>7, <1>10
      <4>2. i - 1 \in 1 .. Len(v) /\ i = (i - 1) + 1
        BY <1>1, <4>1
      <4> QED BY <1>7, <2>1, <4>2
    <3> QED BY <1>8, <2>1, <3>1
  <2>2. CASE B # {}
    <3> DEFINE x == Min(B)
               y == Min(C)
    <3>1. x \in B /\ x \in 1 .. Len(v) /\ \A n \in B : x <= n
      <4>1. x \in B /\ \A n \in B : x <= n
        BY <1>5, <1>6, <2>2
      <4> QED BY <1>6, <4>1
    <3>2. x + 1 \in C
      BY <1>7, <3>1
    <3>3. y \in C /\ y \in 1 .. Len(v) + 1 /\ \A n \in C : y <= n
      <4>1. y \in C /\ \A n \in C : y <= n
        BY <1>5, <1>6, <3>2
      <4> QED BY <1>6, <4>1
    <3> HIDE DEF x, y
    <3>4. y # 1 /\ y - 1 \in 1 .. Len(v) /\ y = (y - 1) + 1
      BY <1>1, <1>7, <1>10, <3>3
    <3>5. y - 1 \in B
      BY <1>7, <3>3, <3>4
    <3>6. y = x + 1
      BY <3>1, <3>2, <3>3, <3>4, <3>5
    <3>7. SubSeq(w, 1, x) = <<f>> \o SubSeq(v, 1, x - 1)
      BY <1>1, <3>1
    <3>8. y - 1 = x
      BY <3>1, <3>6
    <3> QED BY <1>8, <2>2, <3>2, <3>7, <3>8 DEF x, y
  <2> QED BY <2>1, <2>2
<1> QED BY <1>4, <1>9, <1>10 DEF IsKept

\* What a fill is charged on both sides is a number of ticks.
IsCharged(f, a, b) == FillFees(f, a, b) \in Int

\* The quote of no fills.
LEMMA EmptyQuote ==
    ASSUME NEW a, NEW b PROVE QuoteOf(<<>>, a, b) = QuoteOfNothing
<1> DEFINE e == <<>>
           q == QuoteOf(e, a, b)
<1>1. \A g : Sum(g, {}) = 0
  <2>1. \A g : Summable(g, {})
    BY FS_EmptySet DEF Summable
  <2> QED BY <2>1, SumType
<1>2. DOMAIN e = {}
  OBVIOUS
<1>3. /\ q.qty = 0 /\ q.gross_tq = 0 /\ q.fee_ticks = 0
      /\ q.cost_a_tq = 0 /\ q.cost_b_tq = 0
  BY <1>1, <1>2 DEF QuoteOf, SumOver, SumFunction, Sum
<1>4. q.net_tq = q.gross_tq - q.fee_ticks * QtyPerContract
  BY DEF QuoteOf
<1>5. q.net_tq = 0
  BY <1>3, <1>4, ScaleAssumption
<1>6. q = [qty |-> q.qty, gross_tq |-> q.gross_tq, fee_ticks |-> q.fee_ticks,
           net_tq |-> q.net_tq, cost_a_tq |-> q.cost_a_tq, cost_b_tq |-> q.cost_b_tq]
  BY DEF QuoteOf
<1> HIDE DEF q
<1>7. q = QuoteOfNothing
  BY <1>3, <1>5, <1>6 DEF QuoteOfNothing
<1> QED BY <1>7 DEF q

\* A quote is a sum over the fills.
LEMMA QuoteOfFills ==
    ASSUME NEW v \in Seq(Fill), NEW f \in Fill, NEW a, NEW b,
           IsCharged(f, a, b), \A i \in DOMAIN v : IsCharged(v[i], a, b)
    PROVE  IsSumOf(QuoteOf(<<f>> \o v, a, b), f, QuoteOf(v, a, b), a, b)
<1> DEFINE w == <<f>> \o v
           n == Len(v)
           takes(s) == [i \in DOMAIN s |-> s[i].take]
           gross(s) == [i \in DOMAIN s |-> (s[i].bid - s[i].ask) * s[i].take]
           fees(s) == [i \in DOMAIN s |-> FillFees(s[i], a, b)]
           ac(s) == [i \in DOMAIN s |-> s[i].ask * s[i].take]
           bc(s) == [i \in DOMAIN s |-> (TicksPerDollar - s[i].bid) * s[i].take]
<1>1. \A s : LET q == QuoteOf(s, a, b)
             IN  /\ q.qty = Sum(takes(s), DOMAIN s)
                 /\ q.gross_tq = Sum(gross(s), DOMAIN s)
                 /\ q.fee_ticks = Sum(fees(s), DOMAIN s)
                 /\ q.cost_a_tq = Sum(ac(s), DOMAIN s)
                 /\ q.cost_b_tq = Sum(bc(s), DOMAIN s)
  BY DEF QuoteOf, SumOver, SumFunction, Sum
<1>2. /\ n \in Nat /\ DOMAIN v = 1 .. n /\ DOMAIN w = 1 .. n + 1
      /\ w[1] = f /\ \A i \in 1 .. n : w[i + 1] = v[i] /\ v[i] \in Fill
      /\ \A i \in 1 .. n + 1 : i # 1 => i - 1 \in 1 .. n /\ w[i] = v[i - 1]
  OBVIOUS
<1>3. ASSUME NEW i \in 1 .. n + 1
      PROVE  /\ w[i] \in Fill /\ FillFees(w[i], a, b) \in Int
             /\ w[i].ask \in Int /\ w[i].bid \in Int /\ w[i].take \in Int
  <2>1. w[i] \in Fill /\ FillFees(w[i], a, b) \in Int
    BY <1>2 DEF IsCharged
  <2> HIDE DEF w
  <2> QED BY <2>1, ScaleAssumption DEF Fill, ValidPrices
<1>4. TicksPerDollar \in Int
  BY ScaleAssumption
<1> HIDE DEF w, n
<1>5. \A i \in 1 .. n + 1 : /\ takes(w)[i] \in Int /\ gross(w)[i] \in Int
                            /\ fees(w)[i] \in Int /\ ac(w)[i] \in Int /\ bc(w)[i] \in Int
  BY <1>2, <1>3, <1>4
<1>6. \A i \in 1 .. n : /\ takes(v)[i] = takes(w)[i + 1] /\ gross(v)[i] = gross(w)[i + 1]
                        /\ fees(v)[i] = fees(w)[i + 1] /\ ac(v)[i] = ac(w)[i + 1]
                        /\ bc(v)[i] = bc(w)[i + 1]
  <2>1. \A i \in 1 .. n : i + 1 \in 1 .. n + 1
    BY <1>2
  <2> QED BY <1>2, <2>1
<1>7. 1 \in DOMAIN w
  BY <1>2
<1>8. /\ takes(w)[1] = f.take /\ gross(w)[1] = (f.bid - f.ask) * f.take
      /\ fees(w)[1] = FillFees(f, a, b) /\ ac(w)[1] = f.ask * f.take
      /\ bc(w)[1] = (TicksPerDollar - f.bid) * f.take
  BY <1>2, <1>7
<1> HIDE DEF takes, gross, fees, ac, bc
<1>9. /\ Sum(takes(w), 1 .. n + 1) = takes(w)[1] + Sum(takes(v), 1 .. n)
      /\ Sum(gross(w), 1 .. n + 1) = gross(w)[1] + Sum(gross(v), 1 .. n)
      /\ Sum(fees(w), 1 .. n + 1) = fees(w)[1] + Sum(fees(v), 1 .. n)
      /\ Sum(ac(w), 1 .. n + 1) = ac(w)[1] + Sum(ac(v), 1 .. n)
      /\ Sum(bc(w), 1 .. n + 1) = bc(w)[1] + Sum(bc(v), 1 .. n)
  <2>1. Sum(takes(w), 1 .. n + 1) = takes(w)[1] + Sum(takes(v), 1 .. n)
    BY <1>2, <1>5, <1>6, SumAfterFirst
  <2>2. Sum(gross(w), 1 .. n + 1) = gross(w)[1] + Sum(gross(v), 1 .. n)
    BY <1>2, <1>5, <1>6, SumAfterFirst
  <2>3. Sum(fees(w), 1 .. n + 1) = fees(w)[1] + Sum(fees(v), 1 .. n)
    BY <1>2, <1>5, <1>6, SumAfterFirst
  <2>4. Sum(ac(w), 1 .. n + 1) = ac(w)[1] + Sum(ac(v), 1 .. n)
    BY <1>2, <1>5, <1>6, SumAfterFirst
  <2>5. Sum(bc(w), 1 .. n + 1) = bc(w)[1] + Sum(bc(v), 1 .. n)
    BY <1>2, <1>5, <1>6, SumAfterFirst
  <2> QED BY <2>1, <2>2, <2>3, <2>4, <2>5
<1>10. IsSumOf(QuoteOf(w, a, b), f, QuoteOf(v, a, b), a, b)
  BY <1>1, <1>2, <1>8, <1>9 DEF IsSumOf
<1> QED BY <1>10 DEF w

\* The sum over a run of n units at one price r, and c units after it.
IsSumAfterRun(g, n, r, h, c) == Sum(g, 1 .. n + c) = r * n + Sum(h, 1 .. c)

LEMMA SumAfterRun ==
    ASSUME NEW n \in Nat, NEW c \in Nat, NEW r \in Int, NEW g, NEW h,
           \A i \in 1 .. n : g[i] = r,
           \A i \in 1 .. c : h[i] \in Int /\ g[n + i] = h[i]
    PROVE  IsSumAfterRun(g, n, r, h, c)
<1> DEFINE N == 1 .. n + c
           C == 1 .. c
           Upto(k) == Sum(g, 1 .. k)
           Upto2(k) == Sum(h, 1 .. k)
<1>1. \A i \in N : g[i] \in Int
  <2> SUFFICES ASSUME NEW i \in N PROVE g[i] \in Int
    OBVIOUS
  <2>1. CASE i <= n
    BY <2>1
  <2>2. CASE i > n
    <3>1. i - n \in 1 .. c /\ n + (i - n) = i
      BY <2>2
    <3> QED BY <3>1
  <2> QED BY <2>1, <2>2
<1>2. Summable(g, N) /\ Summable(h, C)
  BY <1>1, FS_Interval DEF Summable
<1>3. Unfolds(g, N) /\ Unfolds(h, C)
  <2> HIDE DEF N, C
  <2> QED BY <1>2, SumUnfolds
<1>4. Upto(0) = 0 /\ Upto2(0) = 0
  <2>1. 1 .. 0 = {}
    OBVIOUS
  <2> QED BY <1>3, <2>1 DEF Unfolds
<1>5. ASSUME NEW k \in 1 .. n + c PROVE Upto(k) = g[k] + Upto(k - 1) /\ Upto(k - 1) \in Int
  <2> DEFINE J == 1 .. k
  <2>1. J \in SUBSET N /\ k \in N /\ k \in J /\ J \ {k} = 1 .. k - 1
    OBVIOUS
  <2> HIDE DEF J, N
  <2>2. Sum(g, J) = g[k] + Sum(g, J \ {k}) /\ Sum(g, J \ {k}) \in Int
    BY <1>3, <2>1 DEF Unfolds
  <2> QED BY <2>1, <2>2 DEF J
<1>6. ASSUME NEW k \in 1 .. c PROVE Upto2(k) = h[k] + Upto2(k - 1) /\ Upto2(k - 1) \in Int
  <2> DEFINE J == 1 .. k
  <2>1. J \in SUBSET C /\ k \in C /\ k \in J /\ J \ {k} = 1 .. k - 1
    OBVIOUS
  <2> HIDE DEF J, C
  <2>2. Sum(h, J) = h[k] + Sum(h, J \ {k}) /\ Sum(h, J \ {k}) \in Int
    BY <1>3, <2>1 DEF Unfolds
  <2> QED BY <2>1, <2>2 DEF J
<1> DEFINE G == {k \in 0 .. n : Upto(k) = r * k}
           H == {k \in 0 .. c : Upto(n + k) = r * n + Upto2(k)}
<1> HIDE DEF Upto, Upto2, N, C
<1>7. n \in G
  <2>1. 0 \in G
    BY <1>4
  <2>2. ASSUME NEW k \in 0 .. n, k # 0, k - 1 \in G PROVE k \in G
    <3>1. Upto(k - 1) = r * (k - 1) /\ k \in 1 .. n + c /\ g[k] = r
      BY <2>2
    <3>2. Upto(k) = r + r * (k - 1)
      BY <1>5, <3>1
    <3>3. r + r * (k - 1) = r * k
      OBVIOUS
    <3> QED BY <3>2, <3>3
  <2> HIDE DEF G
  <2> QED BY <2>1, <2>2, UpTo
<1>8. c \in H
  <2>1. 0 \in H
    <3>1. Upto(n) = r * n /\ r * n \in Int
      BY <1>7
    <3> QED BY <1>4, <3>1
  <2>2. ASSUME NEW k \in 0 .. c, k # 0, k - 1 \in H PROVE k \in H
    <3> DEFINE rn == r * n
    <3>1. Upto(n + (k - 1)) = rn + Upto2(k - 1) /\ rn \in Int
      BY <2>2
    <3>2. k \in 1 .. c /\ n + k \in 1 .. n + c /\ (n + k) - 1 = n + (k - 1)
          /\ g[n + k] = h[k] /\ h[k] \in Int
      BY <2>2
    <3> HIDE DEF rn
    <3>3. Upto(n + k) = h[k] + (rn + Upto2(k - 1))
      BY <1>5, <3>1, <3>2
    <3>4. Upto(n + k) = rn + Upto2(k)
      BY <1>6, <3>1, <3>2, <3>3
    <3> QED BY <3>4 DEF rn
  <2> HIDE DEF H
  <2> QED BY <2>1, <2>2, UpTo
<1> QED BY <1>8 DEF Upto, Upto2, IsSumAfterRun

\* As many numbers are k higher.
LEMMA ShiftLemma ==
    ASSUME NEW S \in SUBSET Nat, IsFiniteSet(S), NEW k \in Nat
    PROVE  Cardinality({m + k : m \in S}) = Cardinality(S)
<1> DEFINE T == {m + k : m \in S}
           f == [m \in S |-> m + k]
<1>1. f \in Bijection(S, T)
  BY DEF Bijection, Injection, Surjection, IsInjective
<1>2. ExistsBijection(S, T)
  BY <1>1 DEF ExistsBijection
<1> HIDE DEF T
<1>3. Cardinality(T) = Cardinality(S)
  BY <1>2, FS_Bijection
<1> QED BY <1>3 DEF T

\* How many units both sides can fill.
LEMMA UnitsOfBoth ==
    ASSUME NEW asks \in Ladder, NEW bids \in Ladder
    PROVE  \E N \in Nat : /\ Units(asks, bids) = 1 .. N
                          /\ N <= Sum(asks, ValidPrices) /\ N <= Sum(bids, ValidPrices)
                          /\ N \in {Sum(asks, ValidPrices), Sum(bids, ValidPrices)}
<1> DEFINE S == Sum(asks, ValidPrices)
           T == Sum(bids, ValidPrices)
           N == Min({S, T})
<1>1. S \in Nat /\ T \in Nat
  BY UnitsLemma
<1>2. Units(asks, bids) = 1 .. N
  <2>1. DOMAIN asks = ValidPrices /\ DOMAIN bids = ValidPrices
    BY DEF Ladder
  <2> QED BY <2>1 DEF Units, Total, SumFunction, Sum
<1> HIDE DEF S, T
<1>3. N \in {S, T} /\ N <= S /\ N <= T
  <2> DEFINE two == {S, T}
  <2>1. two \in SUBSET Nat /\ two # {} /\ S \in two /\ T \in two
    BY <1>1
  <2> HIDE DEF two
  <2>2. Min(two) \in two /\ \A n \in two : Min(two) <= n
    BY <2>1, MinMaxLemma
  <2> QED BY <2>1, <2>2 DEF two
<1>4. N \in Nat
  BY <1>1, <1>3
<1> HIDE DEF N
<1> QED BY <1>2, <1>3, <1>4 DEF S, T

\* The k units of the first fill f of two ladders, and what it leaves of them.
IsFirst(asks, bids, f, x, y) ==
    /\ f \in Fill
    /\ f.take \in 1 .. asks[f.ask] /\ f.take \in 1 .. bids[f.bid]
    /\ f.take = asks[f.ask] \/ f.take = bids[f.bid]
    /\ IsRest("ask", asks, f.ask, f.take, x) /\ IsRest("bid", bids, f.bid, f.take, y)

LEMMA FirstLemma ==
    ASSUME NEW asks \in Ladder, NEW bids \in Ladder,
           Shown(asks) # {}, Shown(bids) # {}
    PROVE  LET f == BestFill(asks, bids)
           IN  IsFirst(asks, bids, f, Less(asks, f.ask, f.take), Less(bids, f.bid, f.take))
<1> DEFINE f == BestFill(asks, bids)
<1>1. /\ f \in Fill
      /\ f.take <= asks[f.ask] /\ f.take <= bids[f.bid]
      /\ f.take = asks[f.ask] \/ f.take = bids[f.bid]
  BY BestFillLemma
<1>2. f.ask = Min(Shown(asks)) /\ f.bid = Max(Shown(bids))
  BY DEF BestFill
<1> HIDE DEF f
<1>3. f.ask \in ValidPrices /\ f.bid \in ValidPrices /\ f.take \in Nat \ {0}
  BY <1>1 DEF Fill
<1>4. asks[f.ask] \in Nat /\ bids[f.bid] \in Nat
  BY <1>3 DEF Ladder
<1>5. f.take \in 1 .. asks[f.ask] /\ f.take \in 1 .. bids[f.bid]
  BY <1>1, <1>3, <1>4
<1>6. /\ Shown(asks) \in SUBSET Nat /\ Shown(bids) \in SUBSET Nat /\ IsFiniteSet(Shown(bids))
  BY PricesAreFinite, FS_Subset, ScaleAssumption DEF Shown, ValidPrices
<1>7. /\ \A p \in Shown(asks) : f.ask <= p
      /\ \A p \in Shown(bids) : p <= f.bid
  BY <1>2, <1>6, MinMaxLemma
<1>8. ASSUME NEW p \in ValidPrices
      PROVE  /\ Rank("ask", p) < Rank("ask", f.ask) => asks[p] = 0
             /\ Rank("bid", p) < Rank("bid", f.bid) => bids[p] = 0
  <2>1. asks[p] \in Nat /\ bids[p] \in Nat
    BY DEF Ladder
  <2>2. /\ asks[p] # 0 => f.ask <= p
        /\ bids[p] # 0 => p <= f.bid
    BY <1>7, <2>1 DEF Shown
  <2> QED BY <1>3, <2>2, ScaleAssumption DEF Rank, ValidPrices
<1>9. "ask" \in Sides /\ "bid" \in Sides
  BY DEF Sides
<1>10. IsRest("ask", asks, f.ask, f.take, Less(asks, f.ask, f.take))
  BY <1>3, <1>5, <1>8, <1>9, RestLemma
<1>11. IsRest("bid", bids, f.bid, f.take, Less(bids, f.bid, f.take))
  BY <1>3, <1>5, <1>8, <1>9, RestLemma
<1> QED BY <1>1, <1>5, <1>10, <1>11 DEF IsFirst, f

\* The runs of the units of two ladders: that of the first fill, and those of
\* the rest, k units later.
LEMMA RunsLemma ==
    ASSUME NEW asks \in Ladder, NEW bids \in Ladder, NEW f, NEW x, NEW y,
           IsFirst(asks, bids, f, x, y)
    PROVE  \E N \in Nat :
              /\ Units(x, y) = 1 .. N /\ Units(asks, bids) = 1 .. f.take + N
              /\ \A n \in 1 .. f.take : /\ AskAt(asks, n) = f.ask
                                        /\ BidAt(bids, n) = f.bid
                                        /\ Cardinality(RunOf(asks, bids, n)) = f.take
              /\ \A n \in 1 .. N :
                    /\ AskAt(asks, f.take + n) = AskAt(x, n)
                    /\ BidAt(bids, f.take + n) = BidAt(y, n)
                    /\ Cardinality(RunOf(asks, bids, f.take + n))
                          = Cardinality(RunOf(x, y, n))
<1> DEFINE k == f.take
           A(n) == AskAt(asks, n)
           B(n) == BidAt(bids, n)
           C(n) == AskAt(x, n)
           D(n) == BidAt(y, n)
           S == Sum(asks, ValidPrices)
           T == Sum(bids, ValidPrices)
           V == Sum(x, ValidPrices)
           W == Sum(y, ValidPrices)
<1>1. /\ f \in Fill /\ k \in Nat \ {0}
      /\ k = asks[f.ask] \/ k = bids[f.bid]
  BY DEF IsFirst, Fill
<1>2. /\ x \in Ladder /\ V \in Nat /\ S = V + k
      /\ \A n \in 1 .. k : A(n) = f.ask
      /\ \A n \in Nat \ {0} : A(n + k) = C(n)
      /\ k = asks[f.ask] => \A n \in Nat : k < n /\ n <= S => A(n) # f.ask
  BY DEF IsFirst, IsRest, At
<1>3. /\ y \in Ladder /\ W \in Nat /\ T = W + k
      /\ \A n \in 1 .. k : B(n) = f.bid
      /\ \A n \in Nat \ {0} : B(n + k) = D(n)
      /\ k = bids[f.bid] => \A n \in Nat : k < n /\ n <= T => B(n) # f.bid
  BY DEF IsFirst, IsRest, At
<1>4. PICK M \in Nat : Units(asks, bids) = 1 .. M /\ M <= S /\ M <= T /\ M \in {S, T}
  BY UnitsOfBoth
<1>5. PICK N \in Nat : Units(x, y) = 1 .. N /\ N <= V /\ N <= W /\ N \in {V, W}
  BY <1>2, <1>3, UnitsOfBoth
<1>6. /\ \A n : RunOf(asks, bids, n) = {m \in Units(asks, bids) : A(m) = A(n) /\ B(m) = B(n)}
      /\ \A n : RunOf(x, y, n) = {m \in Units(x, y) : C(m) = C(n) /\ D(m) = D(n)}
  BY DEF RunOf
<1> HIDE DEF k, A, B, C, D, S, T, V, W
<1>7. M = k + N
  BY <1>1, <1>2, <1>3, <1>4, <1>5
<1>8. ASSUME NEW n \in Nat, k < n, n <= M PROVE A(n) # f.ask \/ B(n) # f.bid
  <2>1. n <= S /\ n <= T
    BY <1>1, <1>2, <1>3, <1>4, <1>8
  <2>2. k = asks[f.ask] => A(n) # f.ask
    BY <1>2, <1>8, <2>1
  <2>3. k = bids[f.bid] => B(n) # f.bid
    BY <1>3, <1>8, <2>1
  <2> QED BY <1>1, <2>2, <2>3
<1>9. ASSUME NEW n \in 1 .. k
      PROVE  A(n) = f.ask /\ B(n) = f.bid /\ Cardinality(RunOf(asks, bids, n)) = k
  <2>1. A(n) = f.ask /\ B(n) = f.bid
    BY <1>2, <1>3
  <2>2. ASSUME NEW m PROVE m \in RunOf(asks, bids, n) <=> m \in 1 .. k
    <3>1. m \in RunOf(asks, bids, n) <=> m \in 1 .. M /\ A(m) = f.ask /\ B(m) = f.bid
      BY <1>4, <1>6, <2>1
    <3>2. m \in 1 .. k => m \in 1 .. M /\ A(m) = f.ask /\ B(m) = f.bid
      BY <1>1, <1>2, <1>3, <1>7
    <3>3. m \in 1 .. M /\ m \notin 1 .. k => A(m) # f.ask \/ B(m) # f.bid
      BY <1>1, <1>8
    <3> QED BY <3>1, <3>2, <3>3
  <2>3. RunOf(asks, bids, n) = 1 .. k
    BY <2>2
  <2>4. Cardinality(1 .. k) = k
    BY <1>1, FS_Interval
  <2> QED BY <2>1, <2>3, <2>4
<1>10. ASSUME NEW n \in 1 .. N
       PROVE  /\ A(k + n) = C(n) /\ B(k + n) = D(n)
              /\ Cardinality(RunOf(asks, bids, k + n)) = Cardinality(RunOf(x, y, n))
  <2>1. \A i \in 1 .. N : i + k = k + i /\ i \in Nat \ {0} /\ k + i \in 1 .. M
                          /\ k < k + i /\ k + i <= M /\ k + i \in Nat
    BY <1>1, <1>7
  <2>2. \A i \in 1 .. N : A(k + i) = C(i) /\ B(k + i) = D(i)
    BY <1>2, <1>3, <2>1
  <2> DEFINE R == RunOf(x, y, n)
             Q == RunOf(asks, bids, k + n)
  <2>3. \A m : m \in R <=> m \in 1 .. N /\ C(m) = C(n) /\ D(m) = D(n)
    BY <1>5, <1>6
  <2>4. \A m : m \in Q <=> m \in 1 .. M /\ A(m) = C(n) /\ B(m) = D(n)
    BY <1>4, <1>6, <2>2
  <2>5. C(n) # f.ask \/ D(n) # f.bid
    BY <1>8, <2>1, <2>2
  <2> HIDE DEF R, Q
  <2>6. ASSUME NEW m \in Q PROVE m - k \in R /\ m = (m - k) + k
    <3>1. m \in 1 .. M /\ A(m) = C(n) /\ B(m) = D(n)
      BY <2>4
    <3>2. m \notin 1 .. k
      BY <1>2, <1>3, <2>5, <3>1
    <3>3. m - k \in 1 .. N /\ m = k + (m - k) /\ m = (m - k) + k
      BY <1>1, <1>7, <3>1, <3>2
    <3>4. C(m - k) = C(n) /\ D(m - k) = D(n)
      BY <2>2, <3>1, <3>3
    <3> QED BY <2>3, <3>3, <3>4
  <2>7. ASSUME NEW m \in R PROVE m + k \in Q /\ m \in 1 .. N
    <3>1. m \in 1 .. N /\ C(m) = C(n) /\ D(m) = D(n)
      BY <2>3
    <3>2. A(k + m) = C(n) /\ B(k + m) = D(n) /\ k + m \in 1 .. M /\ k + m = m + k
      BY <2>1, <2>2, <3>1
    <3> QED BY <2>4, <3>1, <3>2
  <2>8. Q = {m + k : m \in R}
    BY <2>6, <2>7
  <2>9. R \in SUBSET Nat /\ IsFiniteSet(R)
    <3>1. R \in SUBSET (1 .. N) /\ IsFiniteSet(1 .. N)
      BY <2>7, FS_Interval
    <3>2. R \in SUBSET Nat
      BY <2>1, <2>7
    <3> QED BY <3>1, <3>2, FS_Subset
  <2>10. Cardinality(Q) = Cardinality(R)
    BY <1>1, <2>8, <2>9, ShiftLemma
  <2> QED BY <2>2, <2>10 DEF Q, R
<1> QED BY <1>4, <1>5, <1>7, <1>9, <1>10 DEF k, A, B, C, D

\* The units worth taking: those of the first fill and those of the rest, if the
\* first fill pays, and none if it does not.
LEMMA WorthLemma ==
    ASSUME NEW asks \in Ladder, NEW bids \in Ladder, NEW f, NEW x, NEW y,
           IsFirst(asks, bids, f, x, y), NEW a, NEW b,
           NEW c \in Nat, WorthTaking(x, y, a, b) = 1 .. c
    PROVE  /\ WorthTaking(asks, bids, a, b) =
                 1 .. (IF Covers(f, a, b) THEN f.take + c ELSE 0)
           /\ \A n \in 1 .. f.take : AskAt(asks, n) = f.ask /\ BidAt(bids, n) = f.bid
           /\ \A n \in 1 .. c : /\ AskAt(asks, f.take + n) = AskAt(x, n)
                                /\ BidAt(bids, f.take + n) = BidAt(y, n)
<1> DEFINE k == f.take
           Pays(n) == RunPays(asks, bids, n, a, b)
           Later(n) == RunPays(x, y, n, a, b)
           W == WorthTaking(asks, bids, a, b)
<1>1. PICK N \in Nat :
         /\ Units(x, y) = 1 .. N /\ Units(asks, bids) = 1 .. k + N
         /\ \A n \in 1 .. k : /\ AskAt(asks, n) = f.ask
                              /\ BidAt(bids, n) = f.bid
                              /\ Cardinality(RunOf(asks, bids, n)) = k
         /\ \A n \in 1 .. N :
               /\ AskAt(asks, k + n) = AskAt(x, n)
               /\ BidAt(bids, k + n) = BidAt(y, n)
               /\ Cardinality(RunOf(asks, bids, k + n)) = Cardinality(RunOf(x, y, n))
  BY RunsLemma
<1>2. f = [ask |-> f.ask, bid |-> f.bid, take |-> k] /\ k \in Nat \ {0}
  BY DEF IsFirst, Fill
<1> HIDE DEF k
<1>3. \A n \in 1 .. k : Pays(n) <=> Covers(f, a, b)
  BY <1>1, <1>2 DEF RunPays
<1>4. \A n \in 1 .. N : Pays(k + n) <=> Later(n)
  BY <1>1 DEF RunPays
<1>5. /\ \A n : n \in W <=> n \in 1 .. k + N /\ \A m \in 1 .. n : Pays(m)
      /\ \A n : n \in 1 .. c <=> n \in 1 .. N /\ \A m \in 1 .. n : Later(m)
  BY <1>1 DEF WorthTaking
<1> HIDE DEF Pays, Later, W
<1>6. c <= N
  <2>1. CASE c = 0
    BY <2>1
  <2>2. CASE c # 0
    <3>1. c \in 1 .. c
      BY <2>2
    <3> QED BY <1>5, <3>1
  <2> QED BY <2>1, <2>2
<1>7. CASE ~ Covers(f, a, b)
  <2>1. ~ Pays(1)
    BY <1>2, <1>3, <1>7
  <2>2. \A n : n \notin W
    BY <1>1, <1>2, <1>5, <2>1
  <2>3. W = 1 .. 0
    BY <2>2
  <2> QED BY <1>1, <1>6, <1>7, <2>3 DEF k, W
<1>8. CASE Covers(f, a, b)
  <2>1. ASSUME NEW n \in W PROVE n \in 1 .. k + c
    <3>1. n \in 1 .. k + N /\ \A m \in 1 .. n : Pays(m)
      BY <1>5
    <3>2. CASE n <= k
      BY <1>2, <3>1, <3>2
    <3>3. CASE n > k
      <4>1. n - k \in 1 .. N /\ n = k + (n - k)
        BY <1>2, <3>1, <3>3
      <4>2. ASSUME NEW m \in 1 .. n - k PROVE Later(m)
        <5>1. m \in 1 .. N /\ k + m \in 1 .. n
          BY <1>2, <3>1, <4>1
        <5> QED BY <1>4, <3>1, <5>1
      <4>3. n - k \in 1 .. c
        BY <1>5, <4>1, <4>2
      <4> QED BY <1>2, <3>1, <4>3
    <3> QED BY <1>2, <3>1, <3>2, <3>3
  <2>2. ASSUME NEW n \in 1 .. k + c PROVE n \in W
    <3>1. n \in 1 .. k + N
      BY <1>2, <1>6
    <3>2. ASSUME NEW m \in 1 .. n PROVE Pays(m)
      <4>1. CASE m <= k
        BY <1>2, <1>3, <1>8, <4>1
      <4>2. CASE m > k
        <5>1. m - k \in 1 .. c /\ m = k + (m - k)
          BY <1>2, <4>2
        <5>2. m - k \in 1 .. N /\ m - k \in 1 .. m - k
          BY <1>5, <5>1
        <5>3. Later(m - k)
          BY <1>5, <5>1, <5>2
        <5> QED BY <1>4, <5>1, <5>2, <5>3
      <4> QED BY <1>2, <4>1, <4>2
    <3> QED BY <1>5, <3>1, <3>2
  <2>3. W = 1 .. k + c
    BY <2>1, <2>2
  <2>4. \A n \in 1 .. c : n \in 1 .. N
    BY <1>6
  <2> QED BY <1>1, <1>8, <2>3, <2>4 DEF k, W
<1> QED BY <1>7, <1>8

\* What a market charges for what it shows is a number of ticks.
Charges(m, l) == \A p \in ValidPrices : \A k \in 1 .. l[p] : Fee(m, k, p) \in Int

\* Every fill of a walk is charged for.
LEMMA WalkIsCharged ==
    ASSUME NEW asks \in Ladder, NEW bids \in Ladder, NEW a, NEW b,
           Charges(a, asks), Charges(b, bids)
    PROVE  \A i \in DOMAIN Walk(asks, bids) : IsCharged(Walk(asks, bids)[i], a, b)
<1> DEFINE w == Walk(asks, bids)
<1>1. w \in Seq(Fill) /\ WalkIsSound(asks, bids)
  BY WalkLemma, WalksAreSound
<1>2. \A i \in 1 .. Len(w) : w[i].take <= asks[w[i].ask] /\ w[i].take <= bids[w[i].bid]
  BY <1>1 DEF WalkIsSound
<1> HIDE DEF w
<1> SUFFICES ASSUME NEW i \in DOMAIN w PROVE IsCharged(w[i], a, b)
  BY DEF w
<1>3. i \in 1 .. Len(w) /\ w[i] \in Fill
  BY <1>1
<1> DEFINE f == w[i]
<1>4. /\ f.take <= asks[f.ask] /\ f.take <= bids[f.bid]
      /\ f.take \in Nat \ {0} /\ f.ask \in ValidPrices /\ f.bid \in ValidPrices
  BY <1>2, <1>3 DEF Fill
<1> HIDE DEF f
<1>5. asks[f.ask] \in Nat /\ bids[f.bid] \in Nat
  BY <1>4 DEF Ladder
<1>6. f.take \in 1 .. asks[f.ask] /\ f.take \in 1 .. bids[f.bid]
  BY <1>4, <1>5
<1>7. Fee(a, f.take, f.ask) \in Int /\ Fee(b, f.take, f.bid) \in Int
  BY <1>4, <1>6 DEF Charges
<1> QED BY <1>7 DEF IsCharged, FillFees, f

\* A quote is nothing where the first fill does not pay, and its first fill before
\* the quote of what it leaves.
LEMMA QuoteUnfolds ==
    ASSUME NEW asks \in Ladder, NEW bids \in Ladder, NEW a, NEW b,
           Charges(a, asks), Charges(b, bids)
    PROVE  LET q == ComputeDirection(asks, a, bids, b)
               f == BestFill(asks, bids)
               x == Less(asks, f.ask, f.take)
               y == Less(bids, f.bid, f.take)
           IN  /\ Empty(<<asks, bids>>) => q = QuoteOfNothing
               /\ ~ Empty(<<asks, bids>>) =>
                     /\ IsFirst(asks, bids, f, x, y)
                     /\ IsCharged(f, a, b) /\ Charges(a, x) /\ Charges(b, y)
                     /\ IF Covers(f, a, b)
                        THEN IsSumOf(q, f, ComputeDirection(x, a, y, b), a, b)
                        ELSE q = QuoteOfNothing
<1> DEFINE q == ComputeDirection(asks, a, bids, b)
           f == BestFill(asks, bids)
           x == Less(asks, f.ask, f.take)
           y == Less(bids, f.bid, f.take)
           r == ComputeDirection(x, a, y, b)
           v == Walk(x, y)
           w == Walk(asks, bids)
<1>1. /\ q = QuoteOf(Kept(w, a, b), a, b)
      /\ r = QuoteOf(Kept(v, a, b), a, b)
  BY DEF ComputeDirection, QuoteOf
<1>2. ASSUME Empty(<<asks, bids>>) PROVE q = QuoteOfNothing
  <2>1. w = <<>>
    BY <1>2, WalkLemma
  <2>2. Kept(w, a, b) = <<>>
    BY <2>1 DEF Kept
  <2>3. QuoteOf(<<>>, a, b) = QuoteOfNothing
    BY EmptyQuote
  <2> QED BY <1>1, <2>2, <2>3
<1>3. ASSUME ~ Empty(<<asks, bids>>)
      PROVE  /\ IsFirst(asks, bids, f, x, y)
             /\ IsCharged(f, a, b) /\ Charges(a, x) /\ Charges(b, y)
             /\ IF Covers(f, a, b) THEN IsSumOf(q, f, r, a, b) ELSE q = QuoteOfNothing
  <2>1. IsFirst(asks, bids, f, x, y)
    BY <1>3, FirstLemma DEF Empty
  <2>2. w = <<f>> \o v
    BY <1>3, WalkLemma
  <2>3. \A i \in DOMAIN w : IsCharged(w[i], a, b)
    BY WalkIsCharged
  <2>4. x \in Ladder /\ y \in Ladder /\ f \in Fill
    BY <2>1 DEF IsFirst, IsRest
  <2>5. /\ \A p \in ValidPrices : x[p] \in Nat /\ x[p] <= asks[p] /\ asks[p] \in Nat
        /\ \A p \in ValidPrices : y[p] \in Nat /\ y[p] <= bids[p] /\ bids[p] \in Nat
    <3>1. f.take \in Nat
      BY <2>4 DEF Fill
    <3> HIDE DEF f
    <3> QED BY <2>4, <3>1 DEF Less, Ladder
  <2> HIDE DEF f, x, y
  <2>6. Charges(a, x) /\ Charges(b, y)
    <3>1. \A p \in ValidPrices : 1 .. x[p] \subseteq 1 .. asks[p]
                                 /\ 1 .. y[p] \subseteq 1 .. bids[p]
      BY <2>5
    <3> QED BY <3>1 DEF Charges
  <2>7. v \in Seq(Fill)
    BY <2>4, WalkLemma
  <2>8. \A i \in DOMAIN v : IsCharged(v[i], a, b)
    BY <2>4, <2>6, WalkIsCharged
  <2> HIDE DEF v, w, q, r
  <2>9. IsCharged(f, a, b)
    <3>1. 1 \in DOMAIN w /\ w[1] = f
      BY <2>2, <2>4, <2>7
    <3> QED BY <2>3, <3>1
  <2>10. /\ Kept(v, a, b) \in Seq(Fill)
         /\ ~ Covers(f, a, b) => Kept(w, a, b) = <<>>
         /\ Covers(f, a, b) => Kept(w, a, b) = <<f>> \o Kept(v, a, b)
    <3>1. IsKept(w, f, v, a, b)
      BY <2>2, <2>4, <2>7, KeptOfWalk
    <3> QED BY <3>1 DEF IsKept
  <2>11. CASE ~ Covers(f, a, b)
    <3>1. QuoteOf(<<>>, a, b) = QuoteOfNothing
      BY EmptyQuote
    <3> QED BY <1>1, <2>1, <2>6, <2>9, <2>10, <2>11, <3>1
  <2>12. CASE Covers(f, a, b)
    <3> DEFINE kept == Kept(v, a, b)
    <3>1. \A i \in DOMAIN kept : IsCharged(kept[i], a, b)
      <4>1. PICK n \in 0 .. Len(v) : kept = SubSeq(v, 1, n)
        BY <2>7, KeptLemma
      <4>2. \A i \in DOMAIN kept : i \in DOMAIN v /\ kept[i] = v[i]
        <5> HIDE DEF kept
        <5> QED BY <2>7, <4>1
      <4> QED BY <2>8, <4>2
    <3>2. kept \in Seq(Fill) /\ Kept(w, a, b) = <<f>> \o kept
      BY <2>10, <2>12
    <3> HIDE DEF kept
    <3>3. IsSumOf(QuoteOf(<<f>> \o kept, a, b), f, QuoteOf(kept, a, b), a, b)
      BY <2>4, <2>9, <3>1, <3>2, QuoteOfFills
    <3> QED BY <1>1, <2>1, <2>6, <2>9, <2>12, <3>2, <3>3 DEF kept
  <2> QED BY <2>11, <2>12
<1> QED BY <1>2, <1>3

\* The quote of two ladders measures the depth, and is a profit.
IsMeasured(q, asks, bids, a, b) ==
    /\ q.qty \in Nat /\ q.gross_tq \in Int /\ q.fee_ticks \in Int
    /\ WorthTaking(asks, bids, a, b) = 1 .. q.qty
    /\ q.cost_a_tq \in Int
    /\ q.cost_a_tq = Sum([n \in 1 .. q.qty |-> AskAt(asks, n)], 1 .. q.qty)
    /\ q.cost_b_tq \in Int
    /\ q.cost_b_tq = Sum([n \in 1 .. q.qty |-> TicksPerDollar - BidAt(bids, n)], 1 .. q.qty)
    /\ q.cost_a_tq + q.cost_b_tq + q.gross_tq = TicksPerDollar * q.qty
    /\ q.net_tq = q.gross_tq - q.fee_ticks * QtyPerContract
    /\ q.net_tq >= 0 /\ (q.qty > 0 => q.net_tq > 0)

\* Nothing is measured where nothing pays.
LEMMA NothingIsMeasured ==
    ASSUME NEW asks, NEW bids, NEW a, NEW b, WorthTaking(asks, bids, a, b) = {}
    PROVE  IsMeasured(QuoteOfNothing, asks, bids, a, b)
<1> DEFINE q == QuoteOfNothing
<1>1. /\ q.qty = 0 /\ q.gross_tq = 0 /\ q.fee_ticks = 0 /\ q.net_tq = 0
      /\ q.cost_a_tq = 0 /\ q.cost_b_tq = 0
  BY DEF QuoteOfNothing
<1>2. \A g : Sum(g, {}) = 0
  <2>1. \A g : Summable(g, {})
    BY FS_EmptySet DEF Summable
  <2> QED BY <2>1, SumType
<1>3. 1 .. 0 = {}
  OBVIOUS
<1> HIDE DEF q
<1>4. /\ Sum([n \in 1 .. q.qty |-> AskAt(asks, n)], 1 .. q.qty) = 0
      /\ Sum([n \in 1 .. q.qty |-> TicksPerDollar - BidAt(bids, n)], 1 .. q.qty) = 0
      /\ WorthTaking(asks, bids, a, b) = 1 .. q.qty
  BY <1>1, <1>2, <1>3
<1>5. 0 - 0 * QtyPerContract = 0 /\ TicksPerDollar * 0 = 0
  BY ScaleAssumption
<1> QED BY <1>1, <1>4, <1>5 DEF IsMeasured, q

\* The first fill before a quote that measures the rest.
LEMMA OneMoreIsMeasured ==
    ASSUME NEW asks \in Ladder, NEW bids \in Ladder, NEW a, NEW b,
           NEW f, NEW x, NEW y, IsFirst(asks, bids, f, x, y), IsCharged(f, a, b),
           Covers(f, a, b), NEW q, NEW r,
           IsMeasured(r, x, y, a, b), IsSumOf(q, f, r, a, b),
           q.net_tq = q.gross_tq - q.fee_ticks * QtyPerContract
    PROVE  IsMeasured(q, asks, bids, a, b)
<1> DEFINE k == f.take
           c == r.qty
           T == TicksPerDollar
           fee == FillFees(f, a, b)
           A == [n \in 1 .. k + c |-> AskAt(asks, n)]
           B == [n \in 1 .. k + c |-> T - BidAt(bids, n)]
           C == [n \in 1 .. c |-> AskAt(x, n)]
           D == [n \in 1 .. c |-> T - BidAt(y, n)]
           worth == (f.bid - f.ask) * k
           ac == f.ask * k
           bc == (T - f.bid) * k
<1>1. /\ k \in Nat \ {0} /\ f.ask \in Nat /\ f.bid \in Nat /\ T \in Nat
      /\ fee \in Int /\ QtyPerContract \in Nat
  BY ScaleAssumption DEF IsFirst, Fill, ValidPrices, IsCharged
<1>2. /\ c \in Nat /\ r.gross_tq \in Int /\ r.fee_ticks \in Int
      /\ r.cost_a_tq \in Int /\ r.cost_b_tq \in Int
      /\ r.cost_a_tq = Sum(C, 1 .. c) /\ r.cost_b_tq = Sum(D, 1 .. c)
      /\ r.cost_a_tq + r.cost_b_tq + r.gross_tq = T * c
      /\ r.net_tq = r.gross_tq - r.fee_ticks * QtyPerContract /\ r.net_tq >= 0
      /\ WorthTaking(x, y, a, b) = 1 .. c
  BY DEF IsMeasured
<1>3. /\ q.qty = k + c /\ q.gross_tq = worth + r.gross_tq
      /\ q.fee_ticks = fee + r.fee_ticks
      /\ q.cost_a_tq = ac + r.cost_a_tq /\ q.cost_b_tq = bc + r.cost_b_tq
  BY DEF IsSumOf
<1>4. /\ WorthTaking(asks, bids, a, b) = 1 .. k + c
      /\ \A n \in 1 .. k : AskAt(asks, n) = f.ask /\ BidAt(bids, n) = f.bid
      /\ \A n \in 1 .. c : /\ AskAt(asks, k + n) = AskAt(x, n)
                           /\ BidAt(bids, k + n) = BidAt(y, n)
  BY <1>2, WorthLemma
<1>5. worth > fee * QtyPerContract
  BY DEF Covers
<1>6. \A n \in 1 .. c : AskAt(x, n) \in Int /\ BidAt(y, n) \in Int
  <2>1. \A n \in 1 .. c : n \in Units(x, y)
    BY <1>2 DEF WorthTaking
  <2>2. x \in Ladder /\ y \in Ladder /\ ValidPrices # {} /\ "ask" \in Sides /\ "bid" \in Sides
    BY DEF IsFirst, IsRest, Fill, Sides
  <2>3. PICK N \in Nat : /\ Units(x, y) = 1 .. N
                         /\ N <= Sum(x, ValidPrices) /\ N <= Sum(y, ValidPrices)
    BY <2>2, UnitsOfBoth
  <2>4. Sum(x, ValidPrices) \in Nat /\ Sum(y, ValidPrices) \in Nat
    BY <2>2, UnitsLemma
  <2>5. \A n \in 1 .. c : n \in Nat /\ n <= Sum(x, ValidPrices) /\ n <= Sum(y, ValidPrices)
    BY <2>1, <2>3, <2>4
  <2>6. \A n \in 1 .. c : At("ask", x, n) \in ValidPrices /\ At("bid", y, n) \in ValidPrices
    BY <2>2, <2>5, UnitIsSomewhere
  <2> QED BY <2>6, ScaleAssumption DEF At, ValidPrices
<1> HIDE DEF k, c, T, fee
<1>7. \A n \in 1 .. c : n \in 1 .. k + c /\ k + n \in 1 .. k + c
  BY <1>1, <1>2
<1>8. \A n \in 1 .. k : n \in 1 .. k + c
  BY <1>1, <1>2
<1>9. Sum(A, 1 .. k + c) = ac + Sum(C, 1 .. c)
  <2>1. /\ \A n \in 1 .. k : A[n] = f.ask
        /\ \A n \in 1 .. c : C[n] \in Int /\ A[k + n] = C[n]
    BY <1>4, <1>6, <1>7, <1>8
  <2> DEFINE t == f.ask
  <2>2. t \in Int
    BY <1>1
  <2> HIDE DEF A, C, t
  <2>3. IsSumAfterRun(A, k, t, C, c)
    BY <1>1, <1>2, <2>1, <2>2, SumAfterRun DEF t
  <2> QED BY <2>3 DEF IsSumAfterRun, t
<1>10. Sum(B, 1 .. k + c) = bc + Sum(D, 1 .. c)
  <2>1. /\ \A n \in 1 .. k : B[n] = T - f.bid
        /\ \A n \in 1 .. c : D[n] \in Int /\ B[k + n] = D[n]
    BY <1>1, <1>4, <1>6, <1>7, <1>8
  <2> DEFINE t == T - f.bid
  <2>2. t \in Int
    BY <1>1
  <2> HIDE DEF B, D, t
  <2>3. IsSumAfterRun(B, k, t, D, c)
    BY <1>1, <1>2, <2>1, <2>2, SumAfterRun DEF t
  <2> QED BY <2>3 DEF IsSumAfterRun, t
<1>11. /\ q.cost_a_tq = Sum([n \in 1 .. q.qty |-> AskAt(asks, n)], 1 .. q.qty)
       /\ q.cost_b_tq = Sum([n \in 1 .. q.qty |-> TicksPerDollar - BidAt(bids, n)], 1 .. q.qty)
  BY <1>2, <1>3, <1>9, <1>10 DEF T
<1> HIDE DEF A, B, C, D
<1>12. worth \in Int /\ ac \in Int /\ bc \in Int /\ ac + bc + worth = T * k
  BY <1>1
<1>13. T * (k + c) = T * k + T * c /\ T * k \in Int /\ T * c \in Int
  BY <1>1, <1>2
<1>14. /\ (fee + r.fee_ticks) * QtyPerContract
             = fee * QtyPerContract + r.fee_ticks * QtyPerContract
       /\ fee * QtyPerContract \in Int /\ r.fee_ticks * QtyPerContract \in Int
  BY <1>1, <1>2
<1> HIDE DEF worth, ac, bc
<1> DEFINE tk == T * k
           tc == T * c
           fq == fee * QtyPerContract
           rq == r.fee_ticks * QtyPerContract
<1>15. q.cost_a_tq + q.cost_b_tq + q.gross_tq = T * q.qty
  <2> DEFINE tq == T * q.qty
  <2>1. tk \in Int /\ tc \in Int /\ ac + bc + worth = tk
        /\ r.cost_a_tq + r.cost_b_tq + r.gross_tq = tc
        /\ tq = tk + tc
    BY <1>2, <1>3, <1>12, <1>13
  <2>2. /\ worth \in Int /\ ac \in Int /\ bc \in Int
        /\ r.cost_a_tq \in Int /\ r.cost_b_tq \in Int /\ r.gross_tq \in Int
        /\ q.gross_tq = worth + r.gross_tq
        /\ q.cost_a_tq = ac + r.cost_a_tq /\ q.cost_b_tq = bc + r.cost_b_tq
    BY <1>2, <1>3, <1>12
  <2> HIDE DEF tk, tc, tq
  <2>3. q.cost_a_tq + q.cost_b_tq + q.gross_tq = tq
    BY <2>1, <2>2
  <2> QED BY <2>3 DEF tq
<1>16. q.net_tq > 0
  <2>1. q.net_tq = (worth + r.gross_tq) - (fq + rq) /\ fq \in Int /\ rq \in Int
        /\ worth > fq /\ r.gross_tq - rq >= 0
    BY <1>2, <1>3, <1>5, <1>14
  <2> HIDE DEF fq, rq
  <2> QED BY <1>2, <1>12, <2>1
<1>17. /\ q.qty \in Nat /\ q.gross_tq \in Int /\ q.fee_ticks \in Int
       /\ q.cost_a_tq \in Int /\ q.cost_b_tq \in Int /\ q.net_tq \in Int
  <2>1. q.net_tq = q.gross_tq - (fq + rq) /\ fq \in Int /\ rq \in Int
    BY <1>3, <1>14
  <2>2. /\ worth \in Int /\ ac \in Int /\ bc \in Int /\ fee \in Int
        /\ r.cost_a_tq \in Int /\ r.cost_b_tq \in Int /\ r.gross_tq \in Int
        /\ r.fee_ticks \in Int /\ k \in Nat /\ c \in Nat
    BY <1>1, <1>2, <1>12
  <2> HIDE DEF fq, rq
  <2> QED BY <1>3, <2>1, <2>2
<1>18. WorthTaking(asks, bids, a, b) = 1 .. q.qty
  BY <1>3, <1>4
<1>19. q.net_tq >= 0
  BY <1>16, <1>17
<1> QED BY <1>11, <1>15, <1>16, <1>17, <1>18, <1>19 DEF IsMeasured, T

\* A side has run out when it has no units.
LEMMA EmptyLemma ==
    ASSUME NEW l \in Ladder \X Ladder, Empty(l)
    PROVE  Sum(l[1], ValidPrices) = 0 \/ Sum(l[2], ValidPrices) = 0
<1>1. ASSUME NEW z \in Ladder, Shown(z) = {} PROVE Sum(z, ValidPrices) = 0
  <2>1. \A p \in ValidPrices : z[p] = 0
    BY <1>1 DEF Shown, Ladder
  <2> QED BY <2>1, PricesAreFinite, SumOfNothing
<1>2. l[1] \in Ladder /\ l[2] \in Ladder
  OBVIOUS
<1> QED BY <1>1, <1>2 DEF Empty

\* Every quote measures the depth, by induction on the levels of the ladders.
LEMMA QuotesAreMeasured ==
    ASSUME NEW asks \in Ladder, NEW bids \in Ladder, NEW a, NEW b,
           Charges(a, asks), Charges(b, bids)
    PROVE  IsMeasured(ComputeDirection(asks, a, bids, b), asks, bids, a, b)
<1> DEFINE D == {l \in Ladder \X Ladder : Charges(a, l[1]) /\ Charges(b, l[2])}
           mu == [l \in D |-> Levels[l]]
           M(x, y) == IsMeasured(ComputeDirection(x, a, y, b), x, y, a, b)
           G == {l \in D : M(l[1], l[2])}
<1>1. ASSUME NEW l \in D, \A m \in D : mu[m] < mu[l] => m \in G
      PROVE  l \in G
  <2> DEFINE q == ComputeDirection(l[1], a, l[2], b)
             f == BestFill(l[1], l[2])
             x == Less(l[1], f.ask, f.take)
             y == Less(l[2], f.bid, f.take)
             r == ComputeDirection(x, a, y, b)
  <2>1. /\ l[1] \in Ladder /\ l[2] \in Ladder /\ l = <<l[1], l[2]>> /\ l \in Ladder \X Ladder
        /\ Charges(a, l[1]) /\ Charges(b, l[2])
    OBVIOUS
  <2>2. /\ Empty(l) => q = QuoteOfNothing
        /\ ~ Empty(l) =>
              /\ IsFirst(l[1], l[2], f, x, y)
              /\ IsCharged(f, a, b) /\ Charges(a, x) /\ Charges(b, y)
              /\ IF Covers(f, a, b) THEN IsSumOf(q, f, r, a, b) ELSE q = QuoteOfNothing
    BY <2>1, QuoteUnfolds
  <2>3. q.net_tq = q.gross_tq - q.fee_ticks * QtyPerContract
    BY DEF ComputeDirection
  <2>4. CASE Empty(l)
    <3>1. WorthTaking(l[1], l[2], a, b) = {}
      <4>1. PICK N \in Nat : /\ Units(l[1], l[2]) = 1 .. N
                             /\ N <= Sum(l[1], ValidPrices) /\ N <= Sum(l[2], ValidPrices)
        BY <2>1, UnitsOfBoth
      <4>2. Sum(l[1], ValidPrices) = 0 \/ Sum(l[2], ValidPrices) = 0
        BY <2>1, <2>4, EmptyLemma
      <4>3. N = 0
        BY <4>1, <4>2
      <4>4. Units(l[1], l[2]) = {}
        BY <4>1, <4>3
      <4> QED BY <4>4 DEF WorthTaking
    <3>2. M(l[1], l[2])
      BY <2>2, <2>4, <3>1, NothingIsMeasured
    <3> QED BY <3>2
  <2>5. CASE ~ Empty(l)
    <3>1. /\ IsFirst(l[1], l[2], f, x, y)
          /\ IsCharged(f, a, b) /\ Charges(a, x) /\ Charges(b, y)
      BY <2>2, <2>5
    <3>2. After(l) = <<x, y>> /\ Levels[After(l)] < Levels[l]
          /\ <<x, y>> \in Ladder \X Ladder
      BY <2>1, <2>5, LevelsLemma, AfterLemma DEF After
    <3> HIDE DEF f, x, y, M
    <3>3. <<x, y>> \in D /\ mu[<<x, y>>] < mu[l]
      BY <3>1, <3>2
    <3>4. M(x, y)
      <4>1. <<x, y>> \in G
        BY <1>1, <3>3
      <4> QED BY <4>1
    <3>5. x \in Ladder /\ y \in Ladder
      BY <3>2
    <3>6. PICK c \in Nat : WorthTaking(x, y, a, b) = 1 .. c
      BY <3>4 DEF M, IsMeasured
    <3> HIDE DEF q, r
    <3>7. CASE Covers(f, a, b)
      <4>1. IsMeasured(r, x, y, a, b)
        BY <3>4 DEF M, r
      <4>2. IsSumOf(q, f, r, a, b)
        BY <2>2, <2>5, <3>7
      <4>3. IsMeasured(q, l[1], l[2], a, b)
        BY <2>1, <2>3, <3>1, <3>7, <4>1, <4>2, OneMoreIsMeasured
      <4> QED BY <4>3 DEF M, q
    <3>8. CASE ~ Covers(f, a, b)
      <4>1. q = QuoteOfNothing
        BY <2>2, <2>5, <3>8
      <4>2. WorthTaking(l[1], l[2], a, b) = 1 .. 0
        BY <2>1, <3>1, <3>6, <3>8, WorthLemma
      <4>3. WorthTaking(l[1], l[2], a, b) = {}
        BY <4>2
      <4>4. IsMeasured(q, l[1], l[2], a, b)
        BY <4>1, <4>3, NothingIsMeasured
      <4> QED BY <4>4 DEF M, q
    <3> QED BY <3>7, <3>8
  <2> QED BY <2>4, <2>5
<1>2. mu \in [D -> Nat]
  <2>1. \A l \in D : Levels[l] \in Nat
    BY LevelsLemma
  <2> QED BY <2>1
<1>3. D \subseteq G
  <2> HIDE DEF D, G, mu
  <2> QED BY <1>1, <1>2, Descent
<1>4. <<asks, bids>> \in D
  OBVIOUS
<1>5. <<asks, bids>> \in G
  BY <1>3, <1>4
<1> QED BY <1>5

-----------------------------------------------------------------------------
(* The inputs *)

FillInputs == [qty : 0 .. MaxQty, price : 0 .. TicksPerDollar, feeType : FeeTypes, rate : Rates]
BookInputs == [a : Kalshi, b : Polymarket]
EventInputs == [kalshi : [1 .. 2 -> KalshiEvents], polymarket : [1 .. 1 -> PolymarketEvents]]
ClockInputs == [courses : [1 .. 3 -> Courses], ahead : Leads]
TableInputs == [rows : Tables, n : Nat]

\* An input stays what it is.
AlgorithmsTypeOK ==
    input \in FillInputs \cup BookInputs \cup EventInputs \cup ClockInputs \cup TableInputs

LEMMA KindsOfInput ==
    ASSUME AlgorithmsTypeOK
    PROVE  /\ IsFill => input \in FillInputs
           /\ IsBooks => input \in BookInputs
           /\ IsEvents => input \in EventInputs
           /\ IsClock => input \in ClockInputs
           /\ IsTable => input \in TableInputs
<1>1. input \in FillInputs => DOMAIN input = {"qty", "price", "feeType", "rate"}
  BY DEF FillInputs
<1>2. input \in BookInputs => DOMAIN input = {"a", "b"}
  BY DEF BookInputs
<1>3. input \in EventInputs => DOMAIN input = {"kalshi", "polymarket"}
  BY DEF EventInputs
<1>4. input \in ClockInputs => DOMAIN input = {"courses", "ahead"}
  BY DEF ClockInputs
<1>5. input \in TableInputs => DOMAIN input = {"rows", "n"}
  BY DEF TableInputs
<1> QED BY <1>1, <1>2, <1>3, <1>4, <1>5
        DEF AlgorithmsTypeOK, IsFill, IsBooks, IsEvents, IsClock, IsTable

LEMMA InputsStayTyped ==
    AlgorithmsTypeOK /\ [NextFill \/ NextBook \/ NextEvent \/ NextClock \/ NextDeal]_input
        => AlgorithmsTypeOK'
<1> SUFFICES ASSUME AlgorithmsTypeOK,
                    [NextFill \/ NextBook \/ NextEvent \/ NextClock \/ NextDeal]_input
             PROVE  AlgorithmsTypeOK'
  OBVIOUS
<1> USE KindsOfInput
<1>1. CASE NextFill
  <2>1. input \in FillInputs
    BY <1>1 DEF NextFill
  <2>2. ASSUME input' = [input EXCEPT !.qty = (@ + 1) % (MaxQty + 1)]
        PROVE  input' \in FillInputs
    <3>1. input.qty + 1 \in Int /\ MaxQty + 1 \in Nat \ {0} /\ MaxQty \in Nat
      BY <2>1, FillAssumption DEF FillInputs
    <3>2. (input.qty + 1) % (MaxQty + 1) \in 0 .. MaxQty
      BY <3>1
    <3> QED BY <2>1, <2>2, <3>2 DEF FillInputs
  <2>3. ASSUME NEW p \in ValidPrices, input' = [input EXCEPT !.price = p]
        PROVE  input' \in FillInputs
    <3>1. p \in 0 .. TicksPerDollar
      BY ScaleAssumption DEF ValidPrices
    <3> QED BY <2>1, <2>3, <3>1 DEF FillInputs
  <2>4. input' \in FillInputs
    BY <1>1, <2>2, <2>3 DEF NextFill
  <2> QED BY <2>4 DEF AlgorithmsTypeOK
<1>2. CASE NextBook
  <2>1. input \in BookInputs
    BY <1>2 DEF NextBook
  <2>2. input' \in BookInputs
    BY <1>2, <2>1 DEF NextBook, BookInputs
  <2> QED BY <2>2 DEF AlgorithmsTypeOK
<1>3. CASE NextEvent
  <2>1. input \in EventInputs
    BY <1>3 DEF NextEvent
  <2>2. input' \in EventInputs
    BY <1>3, <2>1 DEF NextEvent, EventInputs
  <2> QED BY <2>2 DEF AlgorithmsTypeOK
<1>4. CASE NextClock
  <2>1. input \in ClockInputs
    BY <1>4 DEF NextClock
  <2>2. input' \in ClockInputs
    BY <1>4, <2>1 DEF NextClock, ClockInputs
  <2> QED BY <2>2 DEF AlgorithmsTypeOK
<1>5. CASE NextDeal
  <2>1. input \in TableInputs
    BY <1>5 DEF NextDeal
  <2>2. input' = [input EXCEPT !.n = (@ + 1) % (Len(input.rows) + 1)]
    BY <1>5 DEF NextDeal
  <2>3. Len(input.rows) \in Nat /\ input.n \in Nat
    BY <2>1, TableAssumption DEF TableInputs
  <2>4. (input.n + 1) % (Len(input.rows) + 1) \in Nat
    BY <2>3
  <2>5. input' \in TableInputs
    BY <2>1, <2>2, <2>4 DEF TableInputs
  <2> QED BY <2>5 DEF AlgorithmsTypeOK
<1>6. CASE UNCHANGED input
  BY <1>6 DEF AlgorithmsTypeOK
<1> QED BY <1>1, <1>2, <1>3, <1>4, <1>5, <1>6

\* The inputs keep their kinds.
THEOREM AlgorithmsTypeCorrect == AlgorithmsSpec => []AlgorithmsTypeOK
<1>1. AlgorithmsInit => AlgorithmsTypeOK
  <2> SUFFICES ASSUME AlgorithmsInit PROVE AlgorithmsTypeOK
    OBVIOUS
  <2>1. ASSUME input \in [qty : {0}, price : {1}, feeType : FeeTypes, rate : Rates]
        PROVE  input \in FillInputs
    BY <2>1, FillAssumption, ScaleAssumption DEF FillInputs
  <2>2. ASSUME NEW k \in KalshiEvents, NEW p \in PolymarketEvents,
               input = [kalshi |-> <<k, k>>, polymarket |-> <<p>>]
        PROVE  input \in EventInputs
    BY <2>2 DEF EventInputs
  <2>3. ASSUME input \in [rows : Tables, n : {0}]
        PROVE  input \in TableInputs
    BY <2>3 DEF TableInputs
  <2> QED BY <2>1, <2>2, <2>3 DEF AlgorithmsInit, AlgorithmsTypeOK, BookInputs, ClockInputs
<1> QED BY <1>1, InputsStayTyped, PTL DEF AlgorithmsSpec

\* Neither venue's fee is ever less than its formula, or more than its rounding
\* allows, for every scale, fill and schedule of a rate that is not negative
\* (kalshi_fee_ticks, polymarket_fee_ticks).
THEOREM FeesRoundExactly == AlgorithmsSpec => []FeesAreExact
<1>1. AlgorithmsTypeOK => FeesAreExact
  <2> SUFFICES ASSUME AlgorithmsTypeOK, IsFill
               PROVE  KalshiFeeIsTight /\ PolymarketFeeIsNearest
    BY DEF FeesAreExact
  <2>1. input.qty \in Nat /\ input.price \in 0 .. TicksPerDollar /\ input.rate \in Rate
    BY KindsOfInput, FillAssumption DEF FillInputs, Rate
  <2>2. KalshiFeeIsTight
    BY <2>1, KalshiFeeLemma DEF KalshiFeeIsTight, Charged
  <2>3. PolymarketFeeIsNearest
    BY <2>1, PolymarketFeeLemma DEF PolymarketFeeIsNearest
  <2> QED BY <2>2, <2>3
<1> QED BY <1>1, AlgorithmsTypeCorrect, PTL

\* The skew that is reported is off by half of the delay at most, and the delay is
\* that of an exchange that was in time, whatever the packets and the server's lead;
\* every exchange before the first loss, late or useless answer is measured.
THEOREM SkewIsBounded == AlgorithmsSpec => []SkewIsWithinTheDelay
<1>1. AlgorithmsTypeOK => SkewIsWithinTheDelay
  <2> SUFFICES ASSUME AlgorithmsTypeOK, IsClock
               PROVE  SkewIsWithinTheDelay
    BY DEF SkewIsWithinTheDelay
  <2> DEFINE xs == input.courses
             ahead == input.ahead
             samples == QuerySync(xs, ahead)
             best == BestSample(samples)
             delays == {xs[n].up + xs[n].down : n \in {n \in 1 .. 3 : InTime(xs[n])}}
  <2>1. 3 \in Nat /\ xs \in [1 .. 3 -> Course] /\ ahead \in Int
    BY KindsOfInput, CourseAssumption DEF ClockInputs, Course
  <2> HIDE DEF xs, ahead
  <2>2. PICK s : samples = s.collected /\ Queried(s, 3, xs, ahead)
    BY <2>1, QueriedInv
  <2> HIDE DEF samples
  <2>3. /\ samples \in Seq([skew2 : Int, delay : Int])
        /\ \A i \in 1 .. Len(samples) : \E n \in 1 .. 3 : Measures(samples[i], xs[n], ahead)
        /\ \A n \in 1 .. 3 : (\A o \in 1 .. n : InTime(xs[o])) => Len(samples) >= n
    BY <2>2 DEF Queried, Querying
  <2>4. ASSUME NEW i \in 1 .. Len(samples)
        PROVE  /\ samples[i].delay \in delays /\ samples[i].delay \in Nat
               /\ samples[i].skew2 + 2 * ahead \in - samples[i].delay .. samples[i].delay
    <3>1. PICK n \in 1 .. 3 : Measures(samples[i], xs[n], ahead)
      BY <2>3
    <3>2. xs[n].up \in Nat /\ xs[n].down \in Nat
      BY <2>1 DEF Course
    <3>3. /\ InTime(xs[n])
          /\ samples[i].delay = xs[n].up + xs[n].down
          /\ samples[i].skew2 + 2 * ahead \in - samples[i].delay .. samples[i].delay
      BY <3>1 DEF Measures
    <3>4. samples[i].delay \in delays
      BY <3>3
    <3>5. samples[i].delay \in Nat
      BY <3>2, <3>3
    <3> QED BY <3>3, <3>4, <3>5
  <2>5. ASSUME samples # <<>>
        PROVE  /\ best.delay \in delays
               /\ \A x \in Range(samples) : best.delay <= x.delay
               /\ best.skew2 + 2 * ahead \in - best.delay .. best.delay
    <3>1. PICK i \in 1 .. Len(samples) :
             /\ best = samples[i]
             /\ \A j \in 1 .. Len(samples) : samples[i].delay <= samples[j].delay
      BY <2>3, <2>4, <2>5, BestSampleLemma
    <3>2. ASSUME NEW x \in Range(samples)
          PROVE  \E j \in 1 .. Len(samples) : x = samples[j]
      <4>1. DOMAIN samples = 1 .. Len(samples)
        BY <2>3
      <4> QED BY <4>1 DEF Range
    <3> HIDE DEF best, delays
    <3> QED BY <2>4, <3>1, <3>2
  <2> HIDE DEF best, delays
  <2>6. \A n \in 1 .. 3 : (InTime(xs[n]) /\ \A o \in 1 .. n : InTime(xs[o])) => Len(samples) >= n
    BY <2>3
  <2> QED BY <2>5, <2>6 DEF SkewIsWithinTheDelay, best, delays, samples, xs, ahead, InTime
<1> QED BY <1>1, AlgorithmsTypeCorrect, PTL

\* Every quote is of exactly the units that pay for themselves, at what they cost, and
\* never at a loss: for all books, at any scale and for any fees (compute_direction).
THEOREM QuotesMeasureTheDepth == AlgorithmsSpec => []QuoteMeasuresTheDepth
<1>1. ASSUME NEW asks \in Ladder, NEW bids \in Ladder, NEW a, NEW b,
             Charges(a, asks), Charges(b, bids)
      PROVE  LET q == ComputeDirection(asks, a, bids, b)
             IN  MeasuresTheDepth(q, asks, bids, a, b) /\ IsAProfit(q)
  <2> DEFINE q == ComputeDirection(asks, a, bids, b)
             W == WorthTaking(asks, bids, a, b)
  <2>1. IsMeasured(q, asks, bids, a, b)
    BY <1>1, QuotesAreMeasured
  <2> HIDE DEF q
  <2>2. W = 1 .. q.qty /\ q.qty \in Nat
    BY <2>1 DEF IsMeasured
  <2>3. q.qty = Cardinality(W)
    BY <2>2, FS_Interval
  <2>4. /\ SumFunction([n \in W |-> AskAt(asks, n)]) = q.cost_a_tq
        /\ SumFunction([n \in W |-> TicksPerDollar - BidAt(bids, n)]) = q.cost_b_tq
    BY <2>1, <2>2 DEF IsMeasured, Sum, SumFunction
  <2>5. MeasuresTheDepth(q, asks, bids, a, b)
    BY <2>3, <2>4 DEF MeasuresTheDepth
  <2>6. IsAProfit(q)
    BY <2>1 DEF IsMeasured, IsAProfit
  <2> QED BY <2>5, <2>6 DEF q
<1>2. AlgorithmsTypeOK => QuoteMeasuresTheDepth
  <2> SUFFICES ASSUME AlgorithmsTypeOK, IsBooks PROVE QuoteMeasuresTheDepth
    BY DEF QuoteMeasuresTheDepth
  <2> DEFINE la == input.a
             lb == input.b
             ab == ComputeDirection(la.asks, "kalshi", lb.bids, "polymarket")
             ba == ComputeDirection(lb.asks, "polymarket", la.bids, "kalshi")
  <2>1. la \in Kalshi /\ lb \in Polymarket
    BY KindsOfInput DEF BookInputs
  <2>2. BothQuotes = [yes_a_no_b |-> ab, yes_b_no_a |-> ba]
    BY DEF BothQuotes, BestEdge
  <2> HIDE DEF la, lb
  <2>3. /\ la.asks \in Ladder /\ la.bids \in Ladder
        /\ lb.asks \in Ladder /\ lb.bids \in Ladder
    BY <2>1, QuoteAssumption
  <2>4. /\ Charges("kalshi", la.asks) /\ Charges("kalshi", la.bids)
        /\ Charges("polymarket", lb.asks) /\ Charges("polymarket", lb.bids)
    BY <2>1, QuoteAssumption DEF Charges
  <2>5. /\ MeasuresTheDepth(ab, la.asks, lb.bids, "kalshi", "polymarket") /\ IsAProfit(ab)
        /\ MeasuresTheDepth(ba, lb.asks, la.bids, "polymarket", "kalshi") /\ IsAProfit(ba)
    <3>1. MeasuresTheDepth(ab, la.asks, lb.bids, "kalshi", "polymarket") /\ IsAProfit(ab)
      BY <1>1, <2>3, <2>4
    <3>2. MeasuresTheDepth(ba, lb.asks, la.bids, "polymarket", "kalshi") /\ IsAProfit(ba)
      BY <1>1, <2>3, <2>4
    <3> QED BY <3>1, <3>2
  <2> HIDE DEF ab, ba
  <2>6. /\ BothQuotes.yes_a_no_b = ab /\ BothQuotes.yes_b_no_a = ba
        /\ DOMAIN BothQuotes = {"yes_a_no_b", "yes_b_no_a"}
    BY <2>2
  <2> QED BY <2>5, <2>6 DEF QuoteMeasuresTheDepth, la, lb
<1> QED BY <1>2, AlgorithmsTypeCorrect, PTL

\* The watch set is as large as was asked and as the open pairs allow, and as spread
\* as it can be, for every table of pairs (_plan_pairs_top).
THEOREM WatchSetIsSpread == AlgorithmsSpec => []DealIsSpread
<1>1. AlgorithmsTypeOK => DealIsSpread
  <2> SUFFICES ASSUME AlgorithmsTypeOK, IsTable PROVE DealIsSpread
    BY DEF DealIsSpread
  <2> DEFINE rows == input.rows
             n == input.n
  <2>1. rows \in Tables /\ n \in Nat
    BY KindsOfInput DEF TableInputs
  <2>2. IsSpread(rows, n)
    BY <2>1, SpreadLemma
  <2> QED BY <2>2 DEF DealIsSpread, IsSpread
<1> QED BY <1>1, AlgorithmsTypeCorrect, PTL

\* Every market is proposed once, with its best twin and by how much that one won, and
\* the outcomes of two events are matched stably: for any names, titles, weights
\* and thresholds (propose_pairs, _outcome_matches, _best_per_polymarket_market).
THEOREM BestPairsAreProposed == AlgorithmsSpec => []ProposalsAreTheBest
<1>1. AlgorithmsTypeOK => ProposalsAreTheBest
  <2> SUFFICES ASSUME AlgorithmsTypeOK, IsEvents PROVE ProposalsAreTheBest
    BY DEF ProposalsAreTheBest
  <2>1. /\ input.kalshi \in [1 .. 2 -> KalshiEvents]
        /\ input.polymarket \in [1 .. 1 -> PolymarketEvents]
    BY KindsOfInput DEF EventInputs
  <2>2. AreVenues(K, P)
    <3>1. AreEvents(K) /\ Len(K) = 2
      BY <2>1, NumberedLemma DEF K
    <3>2. AreEvents(P) /\ Len(P) = 1
      BY <2>1, NumberedLemma DEF P
    <3>3. Titles(K, P) = 3
      BY <3>1, <3>2 DEF Titles
    <3> QED BY <3>1, <3>2, <3>3, EventAssumption DEF AreVenues
  <2>3. \A n \in DOMAIN K, q \in DOMAIN P : Stable(K[n].markets, P[q].markets)
    BY <2>2, StableLemma DEF AreVenues, AreEvents
  <2>4. AreTheBest(Candidates(K, P), ProposePairs(K, P))
    BY <2>2, ProposedLemma
  <2> QED BY <2>3, <2>4 DEF ProposalsAreTheBest, AreTheBest, Won
<1> QED BY <1>1, AlgorithmsTypeCorrect, PTL
=============================================================================
