---------------------------- MODULE PollerProofs ----------------------------
(***************************************************************************)
(* Proofs about the poller: its types, that every book is judged by the    *)
(* budget of the current cycle, that at most one book is of no target, and *)
(* that no answer missed once makes the book of a target stale.            *)
(***************************************************************************)
EXTENDS Poller, FiniteSetTheorems, WellFoundedInduction, TLAPS

\* At most one book is of no target, and none while the fetch that would
\* create one is still in flight.
Lingering ==
    /\ \E s \in Slugs \cup {None} : DOMAIN books \ Members(targets) \subseteq {s}
    /\ loop.phase = "asking" /\ loop.slug \notin Members(targets)
          => DOMAIN books \subseteq Members(targets)

PollerInv == PollerTypeOK /\ Lingering

-----------------------------------------------------------------------------
(* Lists without duplicates *)

LEMMA LeastNat ==
    ASSUME NEW T \in SUBSET Nat, T # {}
    PROVE  \E x \in T : \A y \in T : x <= y
<1>1. PICK x \in T : \A y \in T : ~ (<<y, x>> \in OpToRel(<, Nat))
    BY NatLessThanWellFounded, WFMin
<1>2. \A y \in T : ~ (y < x)
    BY <1>1 DEF OpToRel
<1> QED BY <1>2

LEMMA RankType ==
    ASSUME NEW P \in SUBSET Nat, IsFiniteSet(P), NEW i \in P
    PROVE  /\ IsFiniteSet({j \in P : j <= i})
           /\ Rank(i, P) \in 1 .. Cardinality(P)
<1> DEFINE U == {j \in P : j <= i}
<1>1. IsFiniteSet(U) /\ Cardinality(U) <= Cardinality(P)
    BY FS_Subset
<1>2. U # {}
    OBVIOUS
<1>3. Cardinality(U) \in Nat /\ Cardinality(P) \in Nat /\ Cardinality(U) # 0
    <2> HIDE DEF U
    <2> QED BY <1>1, <1>2, FS_CardinalityType, FS_EmptySet
<1> QED BY <1>1, <1>3 DEF Rank

\* Every rank up to the number of elements is the rank of one of them.
LEMMA EveryRankIsTaken ==
    ASSUME NEW P \in SUBSET Nat, IsFiniteSet(P), NEW n \in 1 .. Cardinality(P)
    PROVE  \E i \in P : Rank(i, P) = n
<1> DEFINE Free == {m \in 1 .. Cardinality(P) : \A i \in P : Rank(i, P) # m}
<1> SUFFICES ASSUME Free # {} PROVE FALSE
    OBVIOUS
<1>1. Cardinality(P) \in Nat
    BY FS_CardinalityType
<1>2. PICK m \in Free : \A x \in Free : m <= x
    <2>1. Free \subseteq Nat
        BY <1>1
    <2> HIDE DEF Free
    <2> QED BY <2>1, LeastNat
<1>3. m \in 1 .. Cardinality(P) /\ \A i \in P : Rank(i, P) # m
    BY <1>2
<1>4. CASE m = 1
    <2>1. P # {}
        BY <1>1, <1>3, FS_EmptySet
    <2>2. PICK i \in P : \A j \in P : i <= j
        BY <2>1, LeastNat
    <2>3. {j \in P : j <= i} = {i}
        <3>1. \A j \in P : j \in Nat /\ i \in Nat /\ (j <= i <=> j = i)
            BY <2>2
        <3> QED BY <3>1
    <2>4. Rank(i, P) = 1
        BY <2>3, FS_Singleton DEF Rank
    <2> QED BY <1>3, <1>4, <2>4
<1>5. CASE m > 1
    <2>1. m - 1 \in 1 .. Cardinality(P) /\ m - 1 \notin Free
        BY <1>1, <1>2, <1>3, <1>5
    <2>2. PICK i \in P : Rank(i, P) = m - 1
        BY <2>1
    <2> DEFINE Upto(k) == {j \in P : j <= k}
               Above == {j \in P : j > i}
    <2>3. Above # {}
        <3> SUFFICES ASSUME Above = {} PROVE FALSE
            OBVIOUS
        <3>1. \A j \in P : j \in Nat /\ i \in Nat /\ ~ (j > i)
            OBVIOUS
        <3>2. \A j \in P : j <= i
            BY <3>1
        <3>3. Upto(i) = P
            BY <3>2
        <3> QED BY <1>1, <1>3, <2>2, <3>3 DEF Rank
    <2>4. PICK k \in Above : \A j \in Above : k <= j
        <3>1. Above \subseteq Nat
            OBVIOUS
        <3> HIDE DEF Above
        <3> QED BY <2>3, <3>1, LeastNat
    <2>5. Upto(k) = Upto(i) \cup {k} /\ k \notin Upto(i) /\ k \in P
        <3>1. k \in P /\ k > i /\ i \in Nat /\ k \in Nat
            BY <2>4
        <3>2. \A j \in P : j \in Nat /\ (j <= i \/ k <= j)
            BY <2>4
        <3>3. \A j \in P : j <= k <=> j <= i \/ j = k
            BY <3>1, <3>2
        <3>4. \A j : j \in Upto(k) <=> j \in Upto(i) \cup {k}
            BY <3>1, <3>3
        <3>5. ~ (k <= i)
            BY <3>1
        <3>6. k \notin Upto(i)
            BY <3>5
        <3>7. Upto(k) = Upto(i) \cup {k}
            <4> HIDE DEF Upto
            <4> QED BY <3>4
        <3> QED BY <3>1, <3>6, <3>7
    <2>6. IsFiniteSet(Upto(i)) /\ Cardinality(Upto(i)) = m - 1
        BY <2>2, RankType DEF Rank
    <2>7. Cardinality(Upto(k)) = m
        <3>1. Cardinality(Upto(i) \cup {k}) = Cardinality(Upto(i)) + 1
            <4> HIDE DEF Upto
            <4> QED BY <2>5, <2>6, FS_AddElement
        <3> HIDE DEF Upto
        <3> QED BY <1>1, <1>3, <2>5, <2>6, <3>1
    <2> QED BY <1>3, <2>5, <2>7 DEF Rank
<1> QED BY <1>1, <1>3, <1>4, <1>5

LEMMA FirstsAreFinite ==
    ASSUME NEW l \in Seq(Slugs)
    PROVE  /\ Firsts(l) \in SUBSET Nat
           /\ Firsts(l) \subseteq 1 .. Len(l)
           /\ IsFiniteSet(Firsts(l))
           /\ Cardinality(Firsts(l)) \in Nat
<1>1. Len(l) \in Nat /\ Firsts(l) \subseteq 1 .. Len(l)
    BY DEF Firsts
<1>2. IsFiniteSet(1 .. Len(l))
    BY <1>1, FS_Interval
<1>3. IsFiniteSet(Firsts(l))
    BY <1>1, <1>2, FS_Subset
<1> QED BY <1>1, <1>3, FS_CardinalityType

\* Dropping duplicates gives a list of slugs again.
LEMMA DedupedIsList ==
    ASSUME NEW l \in Seq(Slugs)
    PROVE  Deduped(l) \in Seq(Slugs)
<1> DEFINE P == Firsts(l)
           Nth(n) == CHOOSE i \in P : Rank(i, P) = n
<1>1. P \in SUBSET Nat /\ P \subseteq 1 .. Len(l) /\ IsFiniteSet(P)
      /\ Cardinality(P) \in Nat
    BY FirstsAreFinite
<1>2. \A n \in 1 .. Cardinality(P) : l[Nth(n)] \in Slugs
    <2> SUFFICES ASSUME NEW n \in 1 .. Cardinality(P) PROVE l[Nth(n)] \in Slugs
        OBVIOUS
    <2>1. \E i \in P : Rank(i, P) = n
        <3> HIDE DEF P
        <3> QED BY <1>1, EveryRankIsTaken
    <2>2. Nth(n) \in P
        BY <2>1
    <2> QED BY <1>1, <2>2
<1>3. Deduped(l) = [n \in 1 .. Cardinality(P) |-> l[Nth(n)]]
    BY DEF Deduped
<1> HIDE DEF P, Nth
<1> QED BY <1>1, <1>2, <1>3

LEMMA ListMembers ==
    ASSUME NEW l \in Seq(Slugs)
    PROVE  Members(l) \subseteq Slugs
BY DEF Members

-----------------------------------------------------------------------------
(* Types *)

LEMMA BudgetType ==
    ASSUME NEW l \in Seq(Slugs)
    PROVE  BudgetFor(l) \in Nat
<1>1. {DefaultLimit, Cycles, Interval} \subseteq Nat /\ Len(l) \in Nat
    BY PollerAssumption
<1>2. CycleTime(l) \in Nat
    BY <1>1 DEF CycleTime
<1>3. Cycles * CycleTime(l) \in Nat
    BY <1>1, <1>2
<1> QED BY <1>1, <1>3 DEF BudgetFor, Most

LEMMA MaxAgeType == MaxAge \in Nat
<1>1. Cardinality(Slugs) \in Nat
    BY PollerAssumption, FS_CardinalityType
<1>2. {DefaultLimit, Cycles, Interval} \subseteq Nat
    BY PollerAssumption
<1>3. Cycles * Interval * Cardinality(Slugs) \in Nat
    BY <1>1, <1>2
<1> QED BY <1>2, <1>3 DEF MaxAge, Most

LEMMA PaceType ==
    ASSUME PollerTypeOK
    PROVE  Pace(loop) \in Nat
<1>1. Interval \in Nat /\ loop.spent \in Nat
    BY PollerAssumption DEF PollerTypeOK, Loop
<1> QED BY <1>1 DEF Pace, Most

\* The records of the books, and what keeps them so.
BookRec == [age : 0 .. MaxAge, limit : Nat, since : Histories]

BooksOK(B) == DOMAIN B \subseteq Slugs /\ B \in [DOMAIN B -> BookRec]

LEMMA BefellType ==
    ASSUME PollerTypeOK, NEW event \in Histories, NEW S
    PROVE  BooksOK(Befell(event, S)) /\ DOMAIN Befell(event, S) = DOMAIN books
<1>1. \A s \in DOMAIN books : books[s] \in BookRec
    BY DEF PollerTypeOK, BookRec
<1>2. \A s \in DOMAIN books :
         [books[s] EXCEPT !.since = Worse(@, event)] \in BookRec
    BY <1>1 DEF BookRec, Worse, Histories
<1> QED BY <1>1, <1>2 DEF BooksOK, Befell, PollerTypeOK

\* Where a turn starts is a position of the list it looks at.
LEMMA FirstIndexType ==
    ASSUME PollerTypeOK
    PROVE  /\ FirstIndex \in Nat
           /\ targets = <<>> => FirstIndex = 0
           /\ targets # <<>> => FirstIndex < Len(targets)
<1>1. /\ loop.index \in Nat /\ Len(targets) \in Nat
      /\ targets # <<>> => Len(targets) > 0
      /\ targets = <<>> => Len(targets) = 0
    BY DEF PollerTypeOK, Loop
<1>2. ~ moved /\ loop.index # 0 => loop.index < Len(targets)
    BY DEF PollerTypeOK
<1> QED BY <1>1, <1>2 DEF FirstIndex

LEMMA AsleepType ==
    ASSUME PollerTypeOK, NEW d \in Nat, NEW n \in Nat
    PROVE  LET l == [Asleep(d) EXCEPT !.attempt = n]
           IN  /\ Asleep(d) \in Loop /\ l \in Loop
               /\ Asleep(d).phase = "sleeping" /\ Asleep(d).slug = None
               /\ l.phase = "sleeping" /\ l.slug = None
               /\ Asleep(d).index = loop.index /\ l.index = loop.index
BY DEF PollerTypeOK, Asleep, Loop

-----------------------------------------------------------------------------
(* The invariant holds at the start and is preserved by every action *)

LEMMA StartKeepsInv ==
    ASSUME PollerInit
    PROVE  PollerInv
<1>1. base \in Seq(Slugs) /\ legs \in Seq(Slugs) /\ targets \in Seq(Slugs)
    BY PollerAssumption, DedupedIsList DEF PollerInit
<1>2. Started \in Loop /\ Started.phase = "sleeping" /\ Started.slug = None
      /\ Started.index = 0
    BY DEF Started, Loop
<1>3. budget \in Nat
    BY <1>1, BudgetType DEF PollerInit
<1>4. PollerTypeOK
    <2>1. DOMAIN books = {} /\ books \in [DOMAIN books -> BookRec]
        BY DEF PollerInit
    <2>2. DOMAIN books \subseteq Slugs
        BY <2>1
    <2>3. 0 \in 0 .. MaxFaults /\ 0 \in 0 .. MaxChanges
        BY PollerAssumption
    <2>4. loop = Started /\ moved = FALSE /\ marked = {} /\ faults = 0 /\ changes = 0
        BY DEF PollerInit
    <2>5. loop \in Loop /\ (loop.phase = "asking" <=> loop.slug # None) /\ loop.index = 0
        BY <1>2, <2>4
    <2> QED BY <1>1, <1>3, <2>1, <2>2, <2>3, <2>4, <2>5 DEF PollerTypeOK, BookRec
<1>5. Lingering
    BY <1>2 DEF PollerInit, Lingering
<1> QED BY <1>4, <1>5 DEF PollerInv

LEMMA NapKeepsInv ==
    ASSUME PollerInv, Nap
    PROVE  PollerInv'
<1>1. FirstIndex = 0 /\ targets = <<>> /\ IdleSleep \in Nat
    BY PollerAssumption, FirstIndexType DEF PollerInv, Nap
<1>2. /\ loop' \in Loop /\ loop'.phase = "sleeping" /\ loop'.slug = None
      /\ loop'.index = 0
    BY <1>1 DEF PollerInv, PollerTypeOK, Nap, TurnBegins, Loop
<1>3. PollerTypeOK'
    BY <1>2, PollerAssumption DEF PollerInv, PollerTypeOK, Nap
<1>4. Lingering'
    BY <1>2 DEF PollerInv, Lingering, Nap
<1> QED BY <1>3, <1>4 DEF PollerInv

LEMMA AskKeepsInv ==
    ASSUME PollerInv, Ask
    PROVE  PollerInv'
<1> DEFINE n == Len(targets)
           i == FirstIndex
<1>1. n \in Nat \ {0} /\ i \in Nat /\ i < n
    BY FirstIndexType DEF PollerInv, PollerTypeOK, Ask
<1>2. (i + 1) % n \in 0 .. n - 1 /\ i + 1 \in 1 .. n
    <2> HIDE DEF n, i
    <2> QED BY <1>1
<1>3. targets[i + 1] \in Members(targets)
    BY <1>2 DEF Members
<1>4. targets[i + 1] \in Slugs
    BY <1>3, ListMembers DEF PollerInv, PollerTypeOK
<1>5. loop' = [loop EXCEPT !.phase = "asking", !.spent = 0,
                           !.slug = targets[i + 1], !.index = (i + 1) % n]
    BY DEF Ask
<1>6. /\ loop' \in Loop /\ loop'.phase = "asking"
      /\ loop'.slug = targets[i + 1] /\ loop'.index < n
    <2> DEFINE j == (i + 1) % n
               t == targets[i + 1]
    <2>1. loop \in Loop
        BY DEF PollerInv, PollerTypeOK
    <2>2. j \in Nat /\ j < n
        <3> HIDE DEF n, i
        <3> QED BY <1>1, <1>2
    <2>3. t \in Slugs
        BY <1>4
    <2>4. loop' = [loop EXCEPT !.phase = "asking", !.spent = 0, !.slug = t, !.index = j]
        BY <1>5
    <2> HIDE DEF j, t
    <2>5. loop' \in Loop /\ loop'.phase = "asking" /\ loop'.slug = t /\ loop'.index = j
        BY <2>1, <2>2, <2>3, <2>4 DEF Loop
    <2> QED BY <2>2, <2>5 DEF t
<1>7. PollerTypeOK'
    BY <1>4, <1>6, PollerAssumption DEF PollerInv, PollerTypeOK, Ask
<1>8. Lingering'
    BY <1>3, <1>6 DEF PollerInv, Lingering, Ask
<1> QED BY <1>7, <1>8 DEF PollerInv

\* A fault leaves the loop asleep or down and the books that there are.
LEMMA FaultKeepsInv ==
    ASSUME PollerInv, Fault,
           loop' \in Loop, loop'.phase # "asking", loop'.slug = None,
           loop'.index = loop.index,
           BooksOK(books'), DOMAIN books' = DOMAIN books
    PROVE  PollerInv'
<1>1. /\ faults' \in 0 .. MaxFaults
      /\ marked' = {}
      /\ UNCHANGED <<base, legs, targets, moved, budget, changes>>
    BY PollerAssumption DEF PollerInv, PollerTypeOK, Fault
<1>2. PollerTypeOK'
    BY <1>1 DEF PollerInv, PollerTypeOK, BooksOK, BookRec
<1>3. Lingering'
    BY <1>1 DEF PollerInv, Lingering
<1> QED BY <1>2, <1>3 DEF PollerInv

LEMMA FaultsKeepInv ==
    ASSUME PollerInv,
           \/ \E d \in 1 .. BackoffMax : Fails(d)
           \/ RateLimited \/ Refused \/ Garbled
           \/ \E d \in RestartDelays : Crashes(d)
    PROVE  PollerInv'
<1>1. PollerTypeOK /\ loop \in Loop /\ loop.attempt \in Nat
    BY DEF PollerInv, PollerTypeOK, Loop
<1>2. \A e \in Histories : \A S :
         BooksOK(Befell(e, S)) /\ DOMAIN Befell(e, S) = DOMAIN books
    BY <1>1, BefellType
<1>3. {"troubled", "cooled", "missed"} \subseteq Histories
    BY DEF Histories
<1>4. ASSUME NEW d \in 1 .. BackoffMax, Fails(d)
      PROVE  PollerInv'
    <2>1. d \in Nat
        BY PollerAssumption
    <2>2. loop' = [Asleep(d) EXCEPT !.attempt = loop.attempt + 1]
        BY <1>4 DEF Fails, Asleep
    <2>3. /\ loop' \in Loop /\ loop'.phase # "asking" /\ loop'.slug = None
          /\ loop'.index = loop.index
        BY <1>1, <2>1, <2>2, AsleepType
    <2> QED BY <1>2, <1>3, <1>4, <2>3, FaultKeepsInv DEF Fails
<1>5. CASE RateLimited
    <2>1. RateLimitPause \in Nat
        BY PollerAssumption
    <2>2. /\ loop' \in Loop /\ loop'.phase # "asking" /\ loop'.slug = None
          /\ loop'.index = loop.index
        BY <1>1, <1>5, <2>1, AsleepType DEF RateLimited
    <2> QED BY <1>2, <1>3, <1>5, <2>2, FaultKeepsInv DEF RateLimited
<1>6. CASE Refused
    <2>1. /\ loop' \in Loop /\ loop'.phase # "asking" /\ loop'.slug = None
          /\ loop'.index = loop.index
        BY <1>1, <1>6, PaceType, AsleepType DEF Refused
    <2> QED BY <1>2, <1>3, <1>6, <2>1, FaultKeepsInv DEF Refused
<1>7. CASE Garbled
    <2>1. /\ loop' \in Loop /\ loop'.phase # "asking" /\ loop'.slug = None
          /\ loop'.index = loop.index
        BY <1>1, <1>7, PaceType, AsleepType DEF Garbled
    <2> QED BY <1>2, <1>3, <1>7, <2>1, FaultKeepsInv DEF Garbled
<1>8. ASSUME NEW d \in RestartDelays, Crashes(d)
      PROVE  PollerInv'
    <2>1. d \in Nat
        BY PollerAssumption
    <2>2. Asleep(d) \in Loop /\ Asleep(d).slug = None /\ Asleep(d).index = loop.index
        BY <1>1, <2>1, AsleepType
    <2>3. loop' = [Asleep(d) EXCEPT !.phase = "down"]
        BY <1>8 DEF Crashes
    <2>4. /\ loop' \in Loop /\ loop'.phase # "asking" /\ loop'.slug = None
          /\ loop'.index = loop.index
        BY <2>2, <2>3 DEF Loop
    <2> QED BY <1>2, <1>3, <1>8, <2>4, FaultKeepsInv DEF Crashes
<1> QED BY <1>4, <1>5, <1>6, <1>7, <1>8

LEMMA RestartKeepsInv ==
    ASSUME PollerInv, Restart
    PROVE  PollerInv'
<1>1. /\ loop' \in Loop /\ loop'.phase = "sleeping" /\ loop'.slug = None
      /\ loop'.index = 0
    BY DEF Restart, Started, Loop
<1>2. PollerTypeOK'
    BY <1>1 DEF PollerInv, PollerTypeOK, Restart
<1>3. Lingering'
    BY <1>1 DEF PollerInv, Lingering, Restart
<1> QED BY <1>2, <1>3 DEF PollerInv

\* An answer adds at most the book of the market it is about.
LEMMA AnsweredKeepsInv ==
    ASSUME PollerInv, Answered
    PROVE  PollerInv'
<1>1. PollerTypeOK /\ loop.slug \in Slugs
    BY PollerAssumption DEF PollerInv, PollerTypeOK, Answered, Loop
<1>2. /\ loop' \in Loop /\ loop'.phase = "sleeping" /\ loop'.slug = None
      /\ loop'.index = loop.index
    BY <1>1, PaceType, AsleepType DEF Answered
<1>3. Fresh \in BookRec
    BY <1>1, MaxAgeType DEF Fresh, BookRec, Histories, PollerTypeOK
<1>4. DOMAIN books' = DOMAIN books \cup {loop.slug}
    BY DEF Answered, Applied
<1>5. BooksOK(books')
    <2>1. books \in [DOMAIN books -> BookRec] /\ DOMAIN books \subseteq Slugs
        BY <1>1 DEF PollerTypeOK, BookRec
    <2>2. books' = Applied(loop.slug)
        BY DEF Answered
    <2> QED BY <1>1, <1>3, <1>4, <2>1, <2>2 DEF BooksOK, Applied
<1>6. PollerTypeOK'
    BY <1>1, <1>2, <1>5 DEF PollerTypeOK, Answered, BooksOK, BookRec
<1>7. targets' = targets /\ loop.phase = "asking"
    BY DEF Answered
<1>8. CASE loop.slug \in Members(targets)
    <2>1. DOMAIN books' \ Members(targets') = DOMAIN books \ Members(targets)
        BY <1>4, <1>7, <1>8
    <2> QED BY <1>2, <1>6, <2>1 DEF PollerInv, Lingering
<1>9. CASE loop.slug \notin Members(targets)
    <2>1. DOMAIN books \subseteq Members(targets)
        BY <1>7, <1>9 DEF PollerInv, Lingering
    <2>2. DOMAIN books' \ Members(targets') \subseteq {loop.slug}
        BY <1>4, <1>7, <2>1 DEF Members
    <2> QED BY <1>1, <1>2, <1>6, <2>2 DEF PollerInv, Lingering
<1> QED BY <1>8, <1>9

\* A change of the universe leaves no book that is of no target.
LEMMA UniverseKeepsInv ==
    ASSUME PollerInv, NEW new \in Seq(Slugs), ApplyUniverse(new),
           base' \in Seq(Slugs), legs' \in Seq(Slugs)
    PROVE  PollerInv'
<1>1. changes' \in 0 .. MaxChanges /\ loop' = loop /\ faults' = faults
    <2>1. changes < MaxChanges /\ changes' = changes + 1 /\ UNCHANGED <<loop, faults>>
        BY DEF ApplyUniverse
    <2>2. changes \in 0 .. MaxChanges /\ MaxChanges \in Nat
        BY PollerAssumption DEF PollerInv, PollerTypeOK
    <2> QED BY ONLY <2>1, <2>2
<1>2. CASE new = targets
    <2>1. UNCHANGED <<targets, moved, books, budget>> /\ marked' = {}
        BY <1>2 DEF ApplyUniverse
    <2>2. PollerTypeOK'
        BY <1>1, <2>1 DEF PollerInv, PollerTypeOK
    <2>3. Lingering'
        BY <1>1, <2>1 DEF PollerInv, Lingering
    <2> QED BY <2>2, <2>3 DEF PollerInv
<1>3. CASE new # targets
    <2>1. /\ targets' = new /\ moved' = TRUE /\ budget' = BudgetFor(new)
          /\ books' = Retuned(new) /\ marked' = Kept(new)
        BY <1>3 DEF ApplyUniverse
    <2>2. BudgetFor(new) \in Nat
        BY BudgetType
    <2>3. /\ books \in [DOMAIN books -> BookRec] /\ DOMAIN books \subseteq Slugs
        BY DEF PollerInv, PollerTypeOK, BookRec
    <2>4. DOMAIN books' = Kept(new)
        BY <2>1 DEF Retuned
    <2>5. Kept(new) \subseteq Slugs /\ Kept(new) \subseteq Members(new)
          /\ Kept(new) \subseteq DOMAIN books
        BY <2>3 DEF Kept
    <2>6. \A x \in Kept(new) :
             [books[x] EXCEPT !.limit = BudgetFor(new), !.since = "troubled"] \in BookRec
        BY <2>2, <2>3, <2>5 DEF BookRec, Histories
    <2>7. BooksOK(books')
        BY <2>1, <2>4, <2>5, <2>6 DEF BooksOK, Retuned
    <2>8. PollerTypeOK'
        BY <1>1, <2>1, <2>2, <2>5, <2>7 DEF PollerInv, PollerTypeOK, BooksOK, BookRec
    <2>9. Lingering'
        BY <2>1, <2>4, <2>5 DEF Lingering
    <2> QED BY <2>8, <2>9 DEF PollerInv
<1> QED BY <1>2, <1>3

LEMMA ChangesKeepInv ==
    ASSUME PollerInv, NEW l \in Lists, SetBase(l) \/ SetLegs(l)
    PROVE  PollerInv'
<1>1. base \in Seq(Slugs) /\ legs \in Seq(Slugs) /\ Deduped(l) \in Seq(Slugs)
    BY PollerAssumption, DedupedIsList DEF PollerInv, PollerTypeOK
<1>2. \A x, y \in Seq(Slugs) : Deduped(x \o y) \in Seq(Slugs)
    <2>1. \A x, y \in Seq(Slugs) : x \o y \in Seq(Slugs)
        OBVIOUS
    <2> QED BY <2>1, DedupedIsList
<1>3. CASE SetBase(l)
    BY <1>1, <1>2, <1>3, UniverseKeepsInv DEF SetBase
<1>4. CASE SetLegs(l)
    BY <1>1, <1>2, <1>4, UniverseKeepsInv DEF SetLegs
<1> QED BY <1>3, <1>4

LEMMA TickKeepsInv ==
    ASSUME PollerInv, Tick
    PROVE  PollerInv'
<1>1. loop \in Loop
    BY DEF PollerInv, PollerTypeOK
<1>2. /\ loop' \in Loop /\ loop'.phase = loop.phase /\ loop'.slug = loop.slug
      /\ loop'.index = loop.index
    <2>1. loop'.left \in Nat
        BY DEF Tick
    <2>2. CASE loop.phase = "asking"
        <3>1. loop' = [loop EXCEPT !.spent = @ + 1]
            BY <2>2 DEF Tick
        <3> QED BY <1>1, <3>1 DEF Loop
    <2>3. CASE loop.phase # "asking"
        <3>1. loop' = [loop EXCEPT !.left = @ - 1]
            BY <2>3 DEF Tick
        <3> QED BY <1>1, <2>1, <3>1 DEF Loop
    <2> QED BY <2>2, <2>3
<1>3. DOMAIN books' = DOMAIN books
    BY DEF Tick
<1>4. BooksOK(books')
    <2> DEFINE slow == loop'.spent > Quick
    <2>1. books \in [DOMAIN books -> BookRec] /\ DOMAIN books \subseteq Slugs
        BY DEF PollerInv, PollerTypeOK, BookRec
    <2>2. \A x \in DOMAIN books :
             [books[x] EXCEPT !.age = Least(@ + 1, MaxAge),
                              !.since = IF slow THEN "troubled" ELSE @] \in BookRec
        <3> HIDE DEF slow
        <3>1. \A n \in 0 .. MaxAge : Least(n + 1, MaxAge) \in 0 .. MaxAge
            BY MaxAgeType DEF Least
        <3> QED BY <2>1, <3>1 DEF BookRec, Histories
    <2> QED BY <2>1, <2>2 DEF Tick, BooksOK
<1>5. PollerTypeOK'
    BY <1>2, <1>4 DEF PollerInv, PollerTypeOK, Tick, BooksOK, BookRec
<1>6. Lingering'
    BY <1>2, <1>3 DEF PollerInv, Lingering, Tick
<1> QED BY <1>5, <1>6 DEF PollerInv

LEMMA InvIsInductive ==
    ASSUME PollerInv, [PollerNext]_pollerVars
    PROVE  PollerInv'
<1>1. CASE UNCHANGED pollerVars
    BY <1>1 DEF PollerInv, PollerTypeOK, Lingering, pollerVars
<1>2. CASE PollerNext
    BY <1>2, NapKeepsInv, AskKeepsInv, FaultsKeepInv, RestartKeepsInv,
       AnsweredKeepsInv, ChangesKeepInv, TickKeepsInv
    DEF PollerNext, Runs, FetchEnds
<1> QED BY <1>1, <1>2

LEMMA InvHolds == PollerSpec => []PollerInv
BY StartKeepsInv, InvIsInductive, PTL DEF PollerSpec

\* The state of the poller has its types.
THEOREM PollerTypeCorrect == PollerSpec => []PollerTypeOK
<1>1. PollerInv => PollerTypeOK
    BY DEF PollerInv
<1> QED BY <1>1, InvHolds, PTL

-----------------------------------------------------------------------------
(* Late answers *)

\* At most one book is of no target (consume_poly, retain): whatever number
\* of changes and faults, only the fetch in flight leaves one behind.
THEOREM LateAnswersAreAlone == PollerSpec => []LateAnswersLingerAlone
<1>1. PollerInv => LateAnswersLingerAlone
    <2> SUFFICES ASSUME PollerInv PROVE LateAnswersLingerAlone
        OBVIOUS
    <2> DEFINE L == DOMAIN books \ Members(targets)
    <2>1. PICK s \in Slugs \cup {None} : L \subseteq {s}
        BY DEF PollerInv, Lingering
    <2>2. IsFiniteSet({s}) /\ Cardinality({s}) = 1
        BY FS_Singleton
    <2>3. IsFiniteSet(L) /\ Cardinality(L) <= Cardinality({s})
        <3> HIDE DEF L
        <3> QED BY <2>1, <2>2, FS_Subset
    <2> QED BY <2>2, <2>3 DEF LateAnswersLingerAlone
<1> QED BY <1>1, InvHolds, PTL

-----------------------------------------------------------------------------
(* Budgets *)

LEMMA BefellKeepsLimits ==
    ASSUME PollerTypeOK, NEW event \in Histories, NEW S,
           NEW s \in DOMAIN Befell(event, S)
    PROVE  s \in DOMAIN books /\ Befell(event, S)[s].limit = books[s].limit
<1>1. s \in DOMAIN books
    BY DEF Befell
<1>2. books[s] \in BookRec
    BY <1>1 DEF PollerTypeOK, BookRec
<1> QED BY <1>1, <1>2 DEF Befell, BookRec

LEMMA FaultKeepsBudget ==
    ASSUME PollerTypeOK, BudgetFollowsTargets, Fault,
           NEW event \in Histories, NEW S, books' = Befell(event, S)
    PROVE  BudgetFollowsTargets'
<1>1. budget' = budget /\ targets' = targets
    BY DEF Fault
<1> QED BY <1>1, BefellKeepsLimits DEF BudgetFollowsTargets

LEMMA UniverseKeepsBudget ==
    ASSUME PollerTypeOK, BudgetFollowsTargets, NEW new, ApplyUniverse(new)
    PROVE  BudgetFollowsTargets'
<1>1. CASE new = targets
    BY <1>1 DEF ApplyUniverse, BudgetFollowsTargets
<1>2. CASE new # targets
    <2>1. /\ targets' = new /\ budget' = BudgetFor(new) /\ books' = Retuned(new)
        BY <1>2 DEF ApplyUniverse
    <2>2. \A x \in DOMAIN books' : books'[x].limit = BudgetFor(new)
        <3> SUFFICES ASSUME NEW x \in Kept(new)
                     PROVE  Retuned(new)[x].limit = BudgetFor(new)
            BY <2>1 DEF Retuned
        <3>1. books[x] \in BookRec
            BY DEF Kept, PollerTypeOK, BookRec
        <3> QED BY <3>1 DEF Retuned, BookRec
    <2> QED BY <2>1, <2>2 DEF BudgetFollowsTargets
<1> QED BY <1>1, <1>2

LEMMA BudgetIsInductive ==
    ASSUME PollerTypeOK, BudgetFollowsTargets, [PollerNext]_pollerVars
    PROVE  BudgetFollowsTargets'
<1> USE DEF BudgetFollowsTargets
<1>1. {"troubled", "cooled", "missed"} \subseteq Histories
    BY DEF Histories
<1>2. ASSUME Nap \/ Ask \/ Restart \/ UNCHANGED pollerVars
      PROVE  BudgetFollowsTargets'
    BY <1>2 DEF Nap, Ask, Restart, pollerVars
<1>3. ASSUME \/ \E d \in 1 .. BackoffMax : Fails(d)
             \/ RateLimited \/ Refused \/ Garbled
             \/ \E d \in RestartDelays : Crashes(d)
      PROVE  BudgetFollowsTargets'
    BY <1>1, <1>3, FaultKeepsBudget DEF Fails, RateLimited, Refused, Garbled, Crashes
<1>4. ASSUME Answered
      PROVE  BudgetFollowsTargets'
    <2>1. UNCHANGED <<targets, budget>> /\ books' = Applied(loop.slug)
        BY <1>4 DEF Answered
    <2>2. Fresh.limit = budget
        BY DEF Fresh
    <2> QED BY <2>1, <2>2 DEF Applied
<1>5. ASSUME Tick
      PROVE  BudgetFollowsTargets'
    <2>1. UNCHANGED <<targets, budget>> /\ DOMAIN books' = DOMAIN books
        BY <1>5 DEF Tick
    <2>2. \A s \in DOMAIN books : books[s] \in BookRec
        BY DEF PollerTypeOK, BookRec
    <2>3. \A s \in DOMAIN books : books'[s].limit = books[s].limit
        BY <1>5, <2>2 DEF Tick, BookRec
    <2> QED BY <2>1, <2>3
<1>6. ASSUME NEW l \in Lists, SetBase(l) \/ SetLegs(l)
      PROVE  BudgetFollowsTargets'
    BY <1>6, UniverseKeepsBudget DEF SetBase, SetLegs
<1> QED BY <1>2, <1>3, <1>4, <1>5, <1>6 DEF PollerNext, Runs, FetchEnds

\* Every book is judged by the budget of the current poll cycle
\* (retune_polymarket_staleness), through any changes that interleave with a
\* fetch: a survivor by the new one, and the late answer's book as well.
THEOREM BudgetAlwaysFollows == PollerSpec => []BudgetFollowsTargets
<1>1. PollerInit => BudgetFollowsTargets
    BY DEF PollerInit, BudgetFollowsTargets
<1>2. PollerInv => PollerTypeOK
    BY DEF PollerInv
<1> QED BY <1>1, <1>2, InvHolds, BudgetIsInductive, PTL DEF PollerSpec

-----------------------------------------------------------------------------
(* Ages *)

\* How many polls come before the one of position i, once the loop is awake.
Ahead(i) ==
    IF i - 1 >= FirstIndex THEN i - 1 - FirstIndex ELSE i - 1 - FirstIndex + Len(targets)

\* What is left of the present turn if nothing but an answer ends it.
Remaining == IF loop.phase = "asking" THEN Interval - loop.spent ELSE loop.left

\* The time until the market at position i is asked for.
Due(i) == Remaining + Interval * Ahead(i)

\* How old a book may be when its market is asked for again.
Allowed(since) ==
    IF since = "steady" THEN CycleTime(targets)
    ELSE IF since = "missed" THEN 2 * CycleTime(targets)
    ELSE 2 * CycleTime(targets) + RateLimitPause + Quick - Interval

AgeIsBounded(s) ==
    /\ loop.phase # "down"
    /\ loop.phase = "asking" => loop.spent <= Quick
    /\ loop.slug = s => books[s].age <= Allowed(books[s].since) + loop.spent
    /\ loop.slug # s =>
         \A i \in 1 .. Len(targets) :
            targets[i] = s => books[s].age + Due(i) <= Allowed(books[s].since)

\* A book is old enough to be stale only when something befell its polling.
AgesInv ==
    \A s \in DOMAIN books : books[s].since # "troubled" => AgeIsBounded(s)

LEMMA Durations ==
    /\ {Interval, RateLimitPause, Quick, Cycles, DefaultLimit} \subseteq Nat
    /\ Interval > 0 /\ Quick <= Interval
BY PollerAssumption

LEMMA TimesInterval ==
    ASSUME NEW k \in Nat
    PROVE  /\ Interval * k \in Nat
           /\ Interval * (k + 1) = Interval * k + Interval
BY Durations

LEMMA TimesIsMonotone ==
    ASSUME NEW k \in Nat, NEW m \in Nat, k <= m
    PROVE  Interval * k <= Interval * m
<1>1. m - k \in Nat /\ Interval \in Nat
    BY Durations
<1>2. Interval * m = Interval * k + Interval * (m - k)
    BY <1>1
<1>3. Interval * (m - k) \in Nat /\ Interval * k \in Nat /\ Interval * m \in Nat
    BY <1>1
<1> QED BY <1>2, <1>3

\* Every position is asked for within a cycle.
LEMMA AheadType ==
    ASSUME PollerTypeOK, NEW i \in 1 .. Len(targets)
    PROVE  /\ Ahead(i) \in Nat /\ Ahead(i) < Len(targets)
           /\ CycleTime(targets) \in Nat /\ Interval * Ahead(i) \in Nat
           /\ Interval * Ahead(i) + Interval <= CycleTime(targets)
<1> DEFINE n == Len(targets)
           k == Ahead(i)
<1>1. n \in Nat /\ i \in Nat /\ 1 <= i /\ i <= n
    BY DEF PollerTypeOK
<1>2. FirstIndex \in Nat /\ FirstIndex < n
    BY <1>1, FirstIndexType
<1>3. k \in Nat /\ k < n
    BY <1>1, <1>2 DEF Ahead
<1>4. CycleTime(targets) = Interval * n
    BY DEF CycleTime
<1> HIDE DEF n, k
<1>5. Interval * n \in Nat /\ Interval * k \in Nat
    BY <1>1, <1>3, TimesInterval
<1>6. k + 1 \in Nat /\ k + 1 <= n
    BY <1>1, <1>3
<1>7. Interval * (k + 1) <= Interval * n
    BY <1>1, <1>6, TimesIsMonotone
<1>8. Interval * k + Interval <= Interval * n
    BY <1>3, <1>7, TimesInterval
<1> QED BY <1>3, <1>4, <1>5, <1>8 DEF n, k

LEMMA AllowedType ==
    ASSUME PollerTypeOK, NEW since \in Histories
    PROVE  /\ CycleTime(targets) \in Nat /\ Allowed(since) \in Int
           /\ Allowed("steady") = CycleTime(targets)
           /\ Allowed("missed") = 2 * CycleTime(targets)
           /\ Allowed("cooled") = 2 * CycleTime(targets) + RateLimitPause + Quick - Interval
<1>1. CycleTime(targets) \in Nat
    BY TimesInterval DEF PollerTypeOK, CycleTime
<1> QED BY <1>1, Durations DEF Allowed

LEMMA BookFields ==
    ASSUME PollerTypeOK, NEW s \in DOMAIN books
    PROVE  s \in Slugs /\ s # None /\ books[s].age \in Nat /\ books[s].since \in Histories
<1>1. books[s] \in [age : 0 .. MaxAge, limit : Nat, since : Histories] /\ s \in Slugs
    BY DEF PollerTypeOK
<1> QED BY <1>1, PollerAssumption, MaxAgeType

LEMMA RemainingType ==
    ASSUME PollerTypeOK, loop.phase = "asking" => loop.spent <= Quick
    PROVE  Remaining \in Nat /\ loop.spent \in Nat /\ loop.left \in Nat
<1>1. loop.spent \in Nat /\ loop.left \in Nat
    BY DEF PollerTypeOK, Loop
<1> QED BY <1>1, Durations DEF Remaining

\* When a fetch ends and the loop sleeps for d, every market but the one
\* fetched is still asked for after the polls that are ahead of its own.
LEMMA FetchEndsTurn ==
    ASSUME PollerTypeOK, loop.phase = "asking", NEW d \in Nat,
           loop'.phase = "sleeping", loop'.left = d, loop'.index = loop.index,
           UNCHANGED <<targets, moved>>, NEW i \in 1 .. Len(targets)
    PROVE  /\ Due(i) = Interval - loop.spent + Interval * Ahead(i)
           /\ (Due(i))' = d + Interval * Ahead(i)
           /\ \A since : (Allowed(since))' = Allowed(since)
<1>1. FirstIndex' = FirstIndex
    BY DEF FirstIndex
<1>2. (Ahead(i))' = Ahead(i)
    BY <1>1 DEF Ahead
<1>3. Remaining' = d /\ Remaining = Interval - loop.spent
    BY DEF Remaining
<1>4. \A since : (Allowed(since))' = Allowed(since)
    BY DEF Allowed, CycleTime
<1> QED BY <1>2, <1>3, <1>4 DEF Due

\* A fetch that ends leaves the bounds of the books of other markets, when
\* the loop sleeps no longer than the rest of the interval.
LEMMA OthersKeepBounds ==
    ASSUME PollerTypeOK, AgesInv, loop.phase = "asking",
           loop'.phase = "sleeping", loop'.left = Pace(loop), loop'.slug = None,
           loop'.index = loop.index, UNCHANGED <<targets, moved>>,
           NEW s \in DOMAIN books, s # loop.slug, s \in DOMAIN books',
           books'[s] = books[s], books[s].since # "troubled"
    PROVE  AgeIsBounded(s)'
<1>1. AgeIsBounded(s) /\ s # None /\ books[s].age \in Nat /\ books[s].since \in Histories
    BY BookFields DEF AgesInv
<1>2. loop.spent <= Quick /\ loop.spent \in Nat
    BY <1>1, RemainingType DEF AgeIsBounded
<1>3. Pace(loop) = Interval - loop.spent /\ Pace(loop) \in Nat
    BY <1>2, Durations DEF Pace, Most
<1>4. ASSUME NEW i \in 1 .. Len(targets), targets[i] = s
      PROVE  (books[s].age + Due(i) <= Allowed(books[s].since))'
    <2>1. books[s].age + Due(i) <= Allowed(books[s].since)
        BY <1>1, <1>4 DEF AgeIsBounded
    <2>2. /\ (Due(i))' = Due(i)
          /\ \A since : (Allowed(since))' = Allowed(since)
        BY <1>3, FetchEndsTurn
    <2>3. (Allowed(books[s].since))' = Allowed(books[s].since)
        BY <2>2 DEF Allowed
    <2> QED BY <2>1, <2>2, <2>3
<1>5. targets' = targets
    OBVIOUS
<1> QED BY <1>1, <1>4, <1>5 DEF AgeIsBounded

\* The book of an answer is asked for again within a cycle.
LEMMA AnsweredKeepsAges ==
    ASSUME PollerTypeOK, AgesInv, Answered
    PROVE  AgesInv'
<1>1. /\ loop.phase = "asking" /\ loop.slug \in Slugs /\ loop.slug # None
      /\ books' = Applied(loop.slug) /\ UNCHANGED <<targets, moved>>
    BY PollerAssumption DEF PollerTypeOK, Answered, Loop
<1>2. /\ loop'.phase = "sleeping" /\ loop'.slug = None /\ loop'.index = loop.index
      /\ loop'.left = Pace(loop)
    <2>1. loop' = [Asleep(Pace(loop)) EXCEPT !.attempt = 0]
        BY DEF Answered
    <2>2. loop \in Loop
        BY DEF PollerTypeOK
    <2> QED BY <2>1, <2>2 DEF Asleep, Loop
<1> SUFFICES ASSUME NEW s \in DOMAIN books', books'[s].since # "troubled"
             PROVE  AgeIsBounded(s)'
    BY DEF AgesInv
<1>3. CASE s = loop.slug
    <2>1. books'[s].age = 0 /\ books'[s].since = "steady" /\ s # None
        BY <1>1, <1>3 DEF Applied, Fresh
    <2>2. ASSUME NEW i \in 1 .. Len(targets)
          PROVE  (books[s].age + Due(i) <= Allowed(books[s].since))'
        <3>1. Pace(loop) \in Nat /\ Pace(loop) <= Interval /\ Interval \in Nat
            <4>1. loop.spent \in Nat
                BY DEF PollerTypeOK, Loop
            <4> QED BY <4>1, Durations DEF Pace, Most
        <3>2. (Due(i))' = Pace(loop) + Interval * Ahead(i)
            BY <1>1, <1>2, <3>1, FetchEndsTurn
        <3>3. /\ CycleTime(targets) \in Nat /\ Interval * Ahead(i) \in Nat
              /\ Interval * Ahead(i) + Interval <= CycleTime(targets)
            BY AheadType
        <3>4. (Allowed(books[s].since))' = CycleTime(targets)
            BY <1>1, <2>1 DEF Allowed, CycleTime
        <3>5. Pace(loop) + Interval * Ahead(i) <= CycleTime(targets)
            BY <3>1, <3>3
        <3>6. (books[s].age)' = 0
            BY <2>1
        <3> QED BY <3>1, <3>2, <3>3, <3>4, <3>5, <3>6
    <2> QED BY <1>1, <1>2, <2>1, <2>2 DEF AgeIsBounded
<1>4. CASE s # loop.slug
    <2>1. s \in DOMAIN books /\ books'[s] = books[s]
        BY <1>1, <1>4 DEF Applied
    <2> QED BY <1>1, <1>2, <1>4, <2>1, OthersKeepBounds
<1> QED BY <1>3, <1>4

\* What befalls a book.
LEMMA BefellBooks ==
    ASSUME PollerTypeOK, NEW event, NEW S, NEW s \in DOMAIN books
    PROVE  LET b == Befell(event, S)[s]
           IN  /\ DOMAIN Befell(event, S) = DOMAIN books
               /\ b.age = books[s].age
               /\ s \notin S => b = books[s]
               /\ s \in S => b.since = Worse(books[s].since, event)
<1>1. books[s] \in [age : 0 .. MaxAge, limit : Nat, since : Histories]
    BY DEF PollerTypeOK
<1> QED BY <1>1 DEF Befell

\* A missed answer costs its own market a cycle.
LEMMA MissKeepsAges ==
    ASSUME PollerTypeOK, AgesInv, Fault, loop'.phase = "sleeping",
           loop'.left = Pace(loop), loop'.slug = None, loop'.index = loop.index,
           books' = Befell("missed", {loop.slug})
    PROVE  AgesInv'
<1>1. loop.phase = "asking" /\ UNCHANGED <<targets, moved>>
    BY DEF Fault
<1> SUFFICES ASSUME NEW s \in DOMAIN books', books'[s].since # "troubled"
             PROVE  AgeIsBounded(s)'
    BY DEF AgesInv
<1>2. s \in DOMAIN books
    BY BefellBooks DEF Befell
<1>3. /\ books'[s].age = books[s].age
      /\ s # loop.slug => books'[s] = books[s]
      /\ s = loop.slug => books'[s].since = Worse(books[s].since, "missed")
    BY <1>2, BefellBooks
<1>4. CASE s # loop.slug
    BY <1>1, <1>2, <1>3, <1>4, OthersKeepBounds
<1>5. CASE s = loop.slug
    <2>1. books[s].since = "steady" /\ books'[s].since = "missed"
        BY <1>3, <1>5 DEF Worse
    <2>2. /\ AgeIsBounded(s) /\ s # None /\ books[s].age \in Nat
        BY <1>2, <2>1, BookFields DEF AgesInv
    <2>3. loop.spent <= Quick /\ loop.spent \in Nat
        BY <1>1, <2>2, RemainingType DEF AgeIsBounded
    <2>4. Pace(loop) = Interval - loop.spent /\ Pace(loop) \in Nat /\ Interval \in Nat
        BY <2>3, Durations DEF Pace, Most
    <2>5. books[s].age <= CycleTime(targets) + loop.spent
        BY <1>5, <2>1, <2>2 DEF AgeIsBounded, Allowed
    <2>6. ASSUME NEW i \in 1 .. Len(targets)
          PROVE  (books[s].age + Due(i) <= Allowed(books[s].since))'
        <3>1. (Due(i))' = Pace(loop) + Interval * Ahead(i)
            BY <1>1, <2>4, FetchEndsTurn
        <3>2. /\ CycleTime(targets) \in Nat /\ Interval * Ahead(i) \in Nat
              /\ Interval * Ahead(i) + Interval <= CycleTime(targets)
            BY AheadType
        <3>3. (Allowed(books[s].since))' = 2 * CycleTime(targets)
            BY <1>1, <2>1 DEF Allowed, CycleTime
        <3>4. books[s].age + (Pace(loop) + Interval * Ahead(i)) <= 2 * CycleTime(targets)
            <4> DEFINE P == Interval * Ahead(i)
                       C == CycleTime(targets)
            <4>1. P \in Nat /\ C \in Nat /\ P + Interval <= C
                BY <3>2
            <4>2. books[s].age <= C + loop.spent
                BY <2>5
            <4> HIDE DEF P, C
            <4>3. books[s].age + (Interval - loop.spent + P) <= 2 * C
                BY <2>2, <2>3, <2>4, <4>1, <4>2
            <4> QED BY <2>4, <4>3 DEF P, C
        <3>5. (books[s].age)' = books[s].age
            BY <1>3
        <3> QED BY <3>1, <3>3, <3>4, <3>5
    <2> QED BY <1>1, <2>2, <2>6 DEF AgeIsBounded
<1> QED BY <1>4, <1>5

\* A 429 pauses the polling of every market, between two cycles of its own.
LEMMA RateLimitKeepsAges ==
    ASSUME PollerTypeOK, AgesInv, RateLimited
    PROVE  AgesInv'
<1>1. /\ loop.phase = "asking" /\ UNCHANGED <<targets, moved>>
      /\ books' = Befell("cooled", Slugs) /\ RateLimitPause \in Nat
    BY Durations DEF RateLimited, Fault
<1>2. /\ loop'.phase = "sleeping" /\ loop'.slug = None /\ loop'.index = loop.index
      /\ loop'.left = RateLimitPause
    BY DEF PollerTypeOK, RateLimited, Asleep, Loop
<1> SUFFICES ASSUME NEW s \in DOMAIN books', books'[s].since # "troubled"
             PROVE  AgeIsBounded(s)'
    BY DEF AgesInv
<1>3. s \in DOMAIN books
    BY <1>1 DEF Befell
<1>4. s \in Slugs /\ s # None /\ books[s].age \in Nat /\ books[s].since \in Histories
    BY <1>3, BookFields
<1>5. books'[s].age = books[s].age /\ books'[s].since = Worse(books[s].since, "cooled")
    BY <1>1, <1>3, <1>4, BefellBooks
<1>6. books[s].since = "steady" /\ books'[s].since = "cooled"
    BY <1>5 DEF Worse
<1>7. AgeIsBounded(s)
    BY <1>3, <1>6 DEF AgesInv
<1>8. loop.spent <= Quick /\ loop.spent \in Nat
    BY <1>1, <1>7, RemainingType DEF AgeIsBounded
<1>9. ASSUME NEW i \in 1 .. Len(targets), targets[i] = s
      PROVE  (books[s].age + Due(i) <= Allowed(books[s].since))'
    <2> DEFINE P == Interval * Ahead(i)
               C == CycleTime(targets)
               age == books[s].age
    <2>1. /\ Due(i) = Interval - loop.spent + P
          /\ (Due(i))' = RateLimitPause + P
        BY <1>1, <1>2, FetchEndsTurn
    <2>2. C \in Nat /\ P \in Nat /\ P + Interval <= C
        BY AheadType
    <2>3. (Allowed(books[s].since))' = 2 * C + RateLimitPause + Quick - Interval
        BY <1>1, <1>6 DEF Allowed, CycleTime
    <2>4. loop.slug = s => age <= C + loop.spent
        BY <1>6, <1>7 DEF AgeIsBounded, Allowed
    <2>5. loop.slug # s => age + Due(i) <= C
        BY <1>6, <1>7, <1>9 DEF AgeIsBounded, Allowed
    <2>6. (books[s].age)' = age /\ age \in Nat
        BY <1>4, <1>5
    <2>7. /\ loop.slug = s => age <= C + loop.spent
          /\ loop.slug # s => age + (Interval - loop.spent + P) <= C
        BY <2>1, <2>4, <2>5
    <2> HIDE DEF P, C, age
    <2>8. RateLimitPause \in Nat /\ Quick \in Nat /\ Interval \in Nat
        BY Durations
    <2>9. age + P + Interval <= 2 * C + Quick
        <3>1. CASE loop.slug = s
            BY <1>8, <2>2, <2>6, <2>7, <2>8, <3>1
        <3>2. CASE loop.slug # s
            <4>1. age + (Interval - loop.spent + P) <= C
                BY <2>7, <3>2
            <4> QED BY ONLY <1>8, <2>2, <2>6, <2>8, <4>1
        <3> QED BY <3>1, <3>2
    <2>10. age + (RateLimitPause + P) <= 2 * C + RateLimitPause + Quick - Interval
        BY <2>2, <2>6, <2>8, <2>9
    <2> QED BY <2>1, <2>3, <2>6, <2>10
<1> QED BY <1>1, <1>2, <1>4, <1>9 DEF AgeIsBounded

\* A failure, a crash and a change of the universe trouble every book there is.
LEMMA TroubleKeepsAges ==
    ASSUME \A s \in DOMAIN books' : books'[s].since = "troubled"
    PROVE  AgesInv'
BY DEF AgesInv

LEMMA AllBefall ==
    ASSUME PollerTypeOK, NEW s \in DOMAIN Befell("troubled", Slugs)
    PROVE  Befell("troubled", Slugs)[s].since = "troubled"
<1>1. s \in DOMAIN books /\ s \in Slugs
    BY DEF Befell, PollerTypeOK
<1> QED BY <1>1, BefellBooks DEF Worse

LEMMA UniverseKeepsAges ==
    ASSUME PollerTypeOK, AgesInv, NEW new, ApplyUniverse(new)
    PROVE  AgesInv'
<1>1. loop' = loop
    BY DEF ApplyUniverse
<1>2. CASE new = targets
    <2>1. UNCHANGED <<targets, moved, books>>
        BY <1>2 DEF ApplyUniverse
    <2> QED BY <1>1, <2>1
        DEF AgesInv, AgeIsBounded, Due, Remaining, Ahead, FirstIndex, Allowed, CycleTime
<1>3. CASE new # targets
    <2>1. books' = Retuned(new)
        BY <1>3 DEF ApplyUniverse
    <2>2. \A s \in Kept(new) : Retuned(new)[s].since = "troubled"
        <3> SUFFICES ASSUME NEW s \in Kept(new)
                     PROVE  Retuned(new)[s].since = "troubled"
            OBVIOUS
        <3>1. books[s] \in [age : 0 .. MaxAge, limit : Nat, since : Histories]
            BY DEF Kept, PollerTypeOK
        <3> QED BY <3>1 DEF Retuned
    <2>3. DOMAIN books' = Kept(new)
        BY <2>1 DEF Retuned
    <2> QED BY <2>1, <2>2, <2>3, TroubleKeepsAges
<1> QED BY <1>2, <1>3

\* A turn begins: the market asked for was due, and one poll less is ahead of
\* each of the others.
LEMMA AskKeepsAges ==
    ASSUME PollerTypeOK, AgesInv, Ask
    PROVE  AgesInv'
<1> DEFINE n == Len(targets)
           f == FirstIndex
<1>1. /\ loop.phase = "sleeping" /\ loop.left = 0 /\ moved' = FALSE
      /\ UNCHANGED <<targets, books>> /\ loop \in Loop /\ loop.slug = None
    BY DEF Ask, TurnBegins, PollerTypeOK
<1>2. n \in Nat \ {0} /\ f \in Nat /\ f < n
    BY FirstIndexType DEF PollerTypeOK, Ask
<1>3. /\ loop'.phase = "asking" /\ loop'.spent = 0 /\ loop'.slug = targets[f + 1]
      /\ loop'.index = (f + 1) % n
    BY <1>1 DEF Ask, Loop
<1>4. FirstIndex' = (f + 1) % n
    BY <1>1, <1>3 DEF FirstIndex
<1>5. (f + 1) % n = IF f + 1 = n THEN 0 ELSE f + 1
    <2> HIDE DEF n, f
    <2>1. CASE f + 1 = n
        BY <1>2, <2>1
    <2>2. CASE f + 1 # n
        <3>1. f + 1 < n
            BY <1>2, <2>2
        <3> QED BY <1>2, <2>2, <3>1
    <2> QED BY <2>1, <2>2
<1> SUFFICES ASSUME NEW s \in DOMAIN books, books[s].since # "troubled"
             PROVE  AgeIsBounded(s)'
    BY <1>1 DEF AgesInv
<1>6. AgeIsBounded(s) /\ s # None /\ books[s].age \in Nat /\ books[s].since \in Histories
    BY BookFields DEF AgesInv
<1>7. Allowed(books[s].since)' = Allowed(books[s].since) /\ Allowed(books[s].since) \in Int
    BY <1>1, <1>6, AllowedType DEF Allowed, CycleTime
<1>8. \A i \in 1 .. n : targets[i] = s =>
        books[s].age + Interval * Ahead(i) <= Allowed(books[s].since)
    <2> SUFFICES ASSUME NEW i \in 1 .. n, targets[i] = s
                 PROVE  books[s].age + Interval * Ahead(i) <= Allowed(books[s].since)
        OBVIOUS
    <2>1. books[s].age + Due(i) <= Allowed(books[s].since)
        BY <1>1, <1>6 DEF AgeIsBounded
    <2>2. Due(i) = Interval * Ahead(i)
        BY <1>1, AheadType DEF Due, Remaining
    <2> QED BY <2>1, <2>2
<1>9. ASSUME targets[f + 1] = s
      PROVE  books[s].age <= Allowed(books[s].since)
    <2>1. f + 1 \in 1 .. n
        <3> HIDE DEF n, f
        <3> QED BY <1>2
    <2>2. Ahead(f + 1) = 0
        BY <1>2 DEF Ahead
    <2>3. Interval * 0 = 0
        BY Durations
    <2>4. books[s].age + 0 <= Allowed(books[s].since)
        BY <1>8, <1>9, <2>1, <2>2, <2>3
    <2> QED BY <1>6, <1>7, <2>4
<1>10. ASSUME NEW i \in 1 .. n, targets[i] = s, targets[f + 1] # s
       PROVE  (books[s].age + Due(i) <= Allowed(books[s].since))'
    <2>1. i # f + 1 /\ i \in Nat /\ 1 <= i /\ i <= n
        BY <1>2, <1>10
    <2>2. (Ahead(i))' = IF i - 1 >= ((f + 1) % n) THEN i - 1 - ((f + 1) % n)
                        ELSE i - 1 - ((f + 1) % n) + n
        BY <1>1, <1>4 DEF Ahead
    <2>3. Ahead(i) = IF i - 1 >= f THEN i - 1 - f ELSE i - 1 - f + n
        BY DEF Ahead
    <2>4. (Ahead(i))' \in Nat /\ Ahead(i) = (Ahead(i))' + 1
        <3> DEFINE k == Ahead(i)
                   m == (Ahead(i))'
        <3>1. m = IF f + 1 = n THEN i - 1
                  ELSE IF i - 1 >= f + 1 THEN i - 1 - (f + 1) ELSE i - 1 - (f + 1) + n
            <4> HIDE DEF n, f
            <4>1. CASE f + 1 = n
                BY <1>2, <1>5, <2>1, <2>2, <4>1
            <4>2. CASE f + 1 # n
                BY <1>2, <1>5, <2>1, <2>2, <4>2
            <4> QED BY <4>1, <4>2
        <3>2. k = IF i - 1 >= f THEN i - 1 - f ELSE i - 1 - f + n
            BY <2>3
        <3> HIDE DEF n, f, k, m
        <3>3. m \in Nat /\ k = m + 1
            BY <1>2, <2>1, <3>1, <3>2
        <3> QED BY <3>3 DEF k, m
    <2>5. Interval * Ahead(i) = Interval * (Ahead(i))' + Interval /\ Interval * (Ahead(i))' \in Nat
        BY <2>4, TimesInterval
    <2>6. (Due(i))' = Interval + Interval * (Ahead(i))'
        BY <1>3, <2>5, Durations DEF Due, Remaining
    <2>7. (Due(i))' = Interval * Ahead(i)
        BY <2>5, <2>6, Durations
    <2>8. books[s].age + Interval * Ahead(i) <= Allowed(books[s].since)
        BY <1>8, <1>10
    <2> QED BY <1>1, <1>7, <2>7, <2>8
<1>11. loop'.slug = s => (books[s].age <= Allowed(books[s].since) + loop.spent)'
    <2> SUFFICES ASSUME loop'.slug = s
                 PROVE  (books[s].age <= Allowed(books[s].since) + loop.spent)'
        OBVIOUS
    <2>1. books[s].age <= Allowed(books[s].since)
        BY <1>3, <1>9
    <2> QED BY <1>1, <1>3, <1>7, <2>1
<1>12. 0 <= Quick
    BY Durations
<1> QED BY <1>1, <1>3, <1>10, <1>11, <1>12 DEF AgeIsBounded

\* Time passes: a book ages by what its market comes closer to its turn.
LEMMA TickKeepsAges ==
    ASSUME PollerTypeOK, AgesInv, Tick
    PROVE  AgesInv'
<1>1. UNCHANGED <<targets, moved>> /\ loop \in Loop /\ DOMAIN books' = DOMAIN books
    BY DEF PollerTypeOK, Tick
<1>2. /\ loop'.phase = loop.phase /\ loop'.slug = loop.slug /\ loop'.index = loop.index
      /\ loop.phase = "asking" => loop'.spent = loop.spent + 1 /\ loop'.left = loop.left
      /\ loop.phase # "asking" => loop'.left = loop.left - 1 /\ loop'.spent = loop.spent
    <2>1. CASE loop.phase = "asking"
        BY <1>1, <2>1 DEF Tick, Loop
    <2>2. CASE loop.phase # "asking"
        BY <1>1, <2>2 DEF Tick, Loop
    <2> QED BY <2>1, <2>2
<1> SUFFICES ASSUME NEW s \in DOMAIN books, books'[s].since # "troubled"
             PROVE  AgeIsBounded(s)'
    BY <1>1 DEF AgesInv
<1>3. /\ books'[s].age = Least(books[s].age + 1, MaxAge)
      /\ books'[s].since = IF loop'.spent > Quick THEN "troubled" ELSE books[s].since
    <2>1. books[s] \in [age : 0 .. MaxAge, limit : Nat, since : Histories]
        BY DEF PollerTypeOK
    <2>2. books'[s] = [books[s] EXCEPT !.age = Least(@ + 1, MaxAge),
                          !.since = IF loop'.spent > Quick THEN "troubled" ELSE @]
        BY DEF Tick
    <2> QED BY <2>1, <2>2
<1>4. ~ (loop'.spent > Quick) /\ books'[s].since = books[s].since
    BY <1>3
<1>5. AgeIsBounded(s) /\ s # None /\ books[s].age \in Nat /\ books[s].since \in Histories
    BY <1>3, <1>4, BookFields DEF AgesInv
<1>6. loop.spent \in Nat /\ loop.left \in Nat /\ Quick \in Nat /\ Interval \in Nat
    BY <1>1, Durations DEF Loop
<1>7. books'[s].age \in Nat /\ books'[s].age <= books[s].age + 1
    BY <1>3, <1>5, MaxAgeType DEF Least
<1>8. Allowed(books[s].since)' = Allowed(books[s].since) /\ Allowed(books[s].since) \in Int
    BY <1>1, <1>4, <1>5, AllowedType DEF Allowed, CycleTime
<1>9. loop'.phase # "down" /\ (loop'.phase = "asking" => loop'.spent <= Quick)
    BY <1>2, <1>4, <1>5, <1>6 DEF AgeIsBounded
<1>10. ASSUME loop'.slug = s
       PROVE  (books[s].age <= Allowed(books[s].since) + loop.spent)'
    <2>1. loop.slug = s /\ loop.phase = "asking"
        BY <1>2, <1>5, <1>10 DEF PollerTypeOK
    <2>2. books[s].age <= Allowed(books[s].since) + loop.spent
        BY <1>5, <2>1 DEF AgeIsBounded
    <2>3. loop'.spent = loop.spent + 1
        BY <1>2, <2>1
    <2> QED BY <1>5, <1>6, <1>7, <1>8, <2>2, <2>3
<1>11. ASSUME loop'.slug # s, NEW i \in 1 .. Len(targets), targets[i] = s
       PROVE  (books[s].age + Due(i) <= Allowed(books[s].since))'
    <2>1. books[s].age + Due(i) <= Allowed(books[s].since)
        BY <1>2, <1>5, <1>11 DEF AgeIsBounded
    <2>2. (Ahead(i))' = Ahead(i)
        BY <1>1, <1>2 DEF Ahead, FirstIndex
    <2>3. Remaining \in Int /\ Remaining' = Remaining - 1
        <3>1. CASE loop.phase = "asking"
            <4>1. Remaining' = Interval - loop'.spent /\ Remaining = Interval - loop.spent
                BY <1>2, <3>1 DEF Remaining
            <4> QED BY ONLY <1>2, <1>6, <3>1, <4>1
        <3>2. CASE loop.phase # "asking"
            <4>1. Remaining' = loop'.left /\ Remaining = loop.left
                BY <1>2, <3>2 DEF Remaining
            <4> QED BY ONLY <1>2, <1>6, <3>2, <4>1
        <3> QED BY <3>1, <3>2
    <2>4. Interval * Ahead(i) \in Nat
        BY AheadType
    <2>5. Due(i) \in Int /\ (Due(i))' = Due(i) - 1
        BY <2>2, <2>3, <2>4 DEF Due
    <2> QED BY <1>5, <1>7, <1>8, <2>1, <2>5
<1> QED BY <1>1, <1>9, <1>10, <1>11 DEF AgeIsBounded

LEMMA AgesAreInductive ==
    ASSUME PollerTypeOK, AgesInv, [PollerNext]_pollerVars
    PROVE  AgesInv'
<1>1. CASE UNCHANGED pollerVars
    BY <1>1 DEF pollerVars, AgesInv, AgeIsBounded, Due, Remaining, Ahead, FirstIndex,
                Allowed, CycleTime
<1>2. CASE Nap
    <2>1. loop.phase = "sleeping" /\ loop.slug = None /\ UNCHANGED <<targets, books>>
          /\ targets = <<>> /\ loop \in Loop
        BY <1>2 DEF Nap, TurnBegins, PollerTypeOK
    <2>2. loop'.phase = "sleeping" /\ loop'.slug = None
        BY <1>2, <2>1 DEF Nap, Loop
    <2>3. \A s \in DOMAIN books' : s # None
        BY <2>1, BookFields
    <2>4. \A i : i \notin 1 .. Len(targets')
        BY <2>1
    <2> QED BY <2>2, <2>3, <2>4 DEF AgesInv, AgeIsBounded
<1>3. CASE Ask
    BY <1>3, AskKeepsAges
<1>4. ASSUME \/ \E d \in 1 .. BackoffMax : Fails(d)
             \/ \E d \in RestartDelays : Crashes(d)
      PROVE  AgesInv'
    <2>1. books' = Befell("troubled", Slugs)
        BY <1>4 DEF Fails, Crashes
    <2> QED BY <2>1, AllBefall, TroubleKeepsAges
<1>5. CASE RateLimited
    BY <1>5, RateLimitKeepsAges
<1>6. CASE Refused
    <2>1. /\ loop'.phase = "sleeping" /\ loop'.left = Pace(loop) /\ loop'.slug = None
          /\ loop'.index = loop.index
        BY <1>6 DEF Refused, Asleep, PollerTypeOK, Loop
    <2> QED BY <1>6, <2>1, MissKeepsAges DEF Refused
<1>7. CASE Garbled
    <2>1. /\ loop'.phase = "sleeping" /\ loop'.left = Pace(loop) /\ loop'.slug = None
          /\ loop'.index = loop.index
        BY <1>7 DEF Garbled, Asleep, PollerTypeOK, Loop
    <2> QED BY <1>7, <2>1, MissKeepsAges DEF Garbled
<1>8. CASE Answered
    BY <1>8, AnsweredKeepsAges
<1>9. CASE Restart
    <2>1. loop.phase = "down" /\ books' = books
        BY <1>9 DEF Restart
    <2>2. \A s \in DOMAIN books : books[s].since = "troubled"
        BY <2>1 DEF AgesInv, AgeIsBounded
    <2> QED BY <2>1, <2>2, TroubleKeepsAges
<1>10. CASE Tick
    BY <1>10, TickKeepsAges
<1>11. ASSUME NEW l \in Lists, SetBase(l) \/ SetLegs(l)
       PROVE  AgesInv'
    BY <1>11, UniverseKeepsAges DEF SetBase, SetLegs
<1> QED BY <1>1, <1>2, <1>3, <1>4, <1>5, <1>6, <1>7, <1>8, <1>9, <1>10, <1>11
    DEF PollerNext, Runs, FetchEnds

\* Three cycles are within the budget.
LEMMA BudgetIsThreeCycles ==
    ASSUME PollerTypeOK, Cycles >= 3
    PROVE  BudgetFor(targets) \in Nat /\ 3 * CycleTime(targets) <= BudgetFor(targets)
<1> DEFINE C == CycleTime(targets)
<1>1. C \in Nat /\ Cycles \in Nat /\ DefaultLimit \in Nat
    BY AllowedType, Durations DEF Histories
<1>2. Cycles * C \in Nat /\ 3 * C <= Cycles * C
    <2> HIDE DEF C
    <2>1. Cycles - 3 \in Nat
        BY <1>1
    <2>2. Cycles * C = 3 * C + (Cycles - 3) * C
        BY <1>1, <2>1
    <2>3. (Cycles - 3) * C \in Nat /\ 3 * C \in Nat
        BY <1>1, <2>1
    <2> QED BY <2>2, <2>3
<1>3. BudgetFor(targets) = Most(DefaultLimit, Cycles * C)
    BY DEF BudgetFor
<1> HIDE DEF C
<1>4. BudgetFor(targets) \in Nat /\ 3 * C <= BudgetFor(targets)
    <2> DEFINE B == Cycles * C
    <2>1. B \in Nat /\ 3 * C \in Nat /\ 3 * C <= B
        BY <1>1, <1>2
    <2>2. BudgetFor(targets) = Most(DefaultLimit, B)
        BY <1>3
    <2> HIDE DEF B
    <2> QED BY <1>1, <2>1, <2>2 DEF Most
<1> QED BY <1>4 DEF C

LEMMA AgesAreWithinBudget ==
    ASSUME PollerTypeOK, AgesInv, BudgetFollowsTargets, Cycles >= 3
    PROVE  OneMissIsNotStale
<1> SUFFICES ASSUME NEW s \in DOMAIN books \cap Members(targets),
                    \/ books[s].since \in {"steady", "missed"}
                    \/ books[s].since = "cooled" /\ CoversPause(Len(targets))
             PROVE  ~ Stale(books[s])
    BY DEF OneMissIsNotStale
<1> DEFINE C == CycleTime(targets)
           age == books[s].age
<1>1. PICK i \in 1 .. Len(targets) : targets[i] = s
    BY DEF Members
<1>2. AgeIsBounded(s) /\ age \in Nat /\ books[s].since \in Histories
    BY BookFields DEF AgesInv
<1>3. /\ C \in Nat /\ Interval * Ahead(i) \in Nat /\ Ahead(i) \in Nat
      /\ Interval * Ahead(i) + Interval <= C
    BY AheadType
<1>4. /\ Interval \in Nat /\ Quick \in Nat /\ RateLimitPause \in Nat
      /\ Quick <= Interval
    BY Durations
<1>5. Interval <= C
    BY <1>3, <1>4
<1>6. books[s].since = "cooled" => C + Interval >= RateLimitPause + 2 * Quick
    <2> SUFFICES ASSUME CoversPause(Len(targets))
                 PROVE  C + Interval >= RateLimitPause + 2 * Quick
        OBVIOUS
    <2>1. Len(targets) \in Nat
        BY DEF PollerTypeOK
    <2>2. (Len(targets) + 1) * Interval = Interval * Len(targets) + Interval
        BY <1>4, <2>1
    <2> QED BY <2>2 DEF CoversPause, CycleTime
<1>7. age <= 3 * C
    <2>1. CASE loop.slug = s
        <3>1. loop.phase = "asking" /\ loop.spent <= Quick /\ loop.spent \in Nat
            BY <1>2, <2>1, BookFields, RemainingType DEF AgeIsBounded, PollerTypeOK
        <3>2. age <= Allowed(books[s].since) + loop.spent
            BY <1>2, <2>1 DEF AgeIsBounded
        <3> HIDE DEF C, age
        <3>3. CASE books[s].since = "steady"
            <4>1. Allowed(books[s].since) = C
                BY <3>3 DEF Allowed, C
            <4> QED BY <1>2, <1>3, <1>4, <1>5, <3>1, <3>2, <4>1
        <3>4. CASE books[s].since = "missed"
            <4>1. Allowed(books[s].since) = 2 * C
                BY <3>4 DEF Allowed, C
            <4> QED BY <1>2, <1>3, <1>4, <1>5, <3>1, <3>2, <4>1
        <3>5. CASE books[s].since = "cooled"
            <4>1. Allowed(books[s].since) = 2 * C + RateLimitPause + Quick - Interval
                BY <3>5 DEF Allowed, C
            <4>2. C + Interval >= RateLimitPause + 2 * Quick
                BY <1>6, <3>5
            <4> QED BY <1>2, <1>3, <1>4, <3>1, <3>2, <4>1, <4>2
        <3> QED BY <3>3, <3>4, <3>5
    <2>2. CASE loop.slug # s
        <3>1. age + Due(i) <= Allowed(books[s].since)
            BY <1>1, <1>2, <2>2 DEF AgeIsBounded
        <3>2. Due(i) \in Nat
            BY <1>2, <1>3, RemainingType DEF Due, AgeIsBounded
        <3>3. Allowed(books[s].since) <= 3 * C
            <4> HIDE DEF C, age
            <4>1. CASE books[s].since = "steady"
                <5>1. Allowed(books[s].since) = C
                    BY <4>1 DEF Allowed, C
                <5> QED BY <1>3, <5>1
            <4>2. CASE books[s].since = "missed"
                <5>1. Allowed(books[s].since) = 2 * C
                    BY <4>2 DEF Allowed, C
                <5> QED BY <1>3, <5>1
            <4>3. CASE books[s].since = "cooled"
                <5>1. Allowed(books[s].since) = 2 * C + RateLimitPause + Quick - Interval
                    BY <4>3 DEF Allowed, C
                <5>2. C + Interval >= RateLimitPause + 2 * Quick
                    BY <1>6, <4>3
                <5> QED BY <1>3, <1>4, <5>1, <5>2
            <4> QED BY <4>1, <4>2, <4>3
        <3>4. Allowed(books[s].since) \in Int
            BY <1>2, AllowedType
        <3> HIDE DEF C, age
        <3> QED BY <1>2, <1>3, <3>1, <3>2, <3>3, <3>4
    <2> QED BY <2>1, <2>2
<1>8. books[s].limit = BudgetFor(targets)
    BY DEF BudgetFollowsTargets
<1>9. BudgetFor(targets) \in Nat /\ 3 * C <= BudgetFor(targets)
    BY BudgetIsThreeCycles
<1> HIDE DEF C
<1> QED BY <1>2, <1>3, <1>7, <1>8, <1>9 DEF Stale

\* A target whose answer was missed once since its book was updated is not
\* stale, nor is one whose polling one 429 interrupted when the cycle covers
\* the pause, for any number of markets and any durations, provided that the
\* budget is three cycles at least (PM_STALENESS_CYCLES = 3, ui/control.py).
THEOREM MissesAreAllowedFor ==
    ASSUME Cycles >= 3
    PROVE  PollerSpec => []OneMissIsNotStale
<1>1. PollerInit => AgesInv /\ BudgetFollowsTargets
    BY DEF PollerInit, AgesInv, BudgetFollowsTargets
<1>2. PollerInv => PollerTypeOK
    BY DEF PollerInv
<1>3. PollerTypeOK /\ AgesInv /\ BudgetFollowsTargets => OneMissIsNotStale
    BY AgesAreWithinBudget
<1> QED BY <1>1, <1>2, <1>3, InvHolds, BudgetIsInductive, AgesAreInductive, PTL
    DEF PollerSpec
=============================================================================
