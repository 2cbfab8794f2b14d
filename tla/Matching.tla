------------------------------ MODULE Matching ------------------------------
(***************************************************************************)
(* The matcher of the two venues' markets (src/arb/pairs/matcher.py, its   *)
(* names compared by src/arb/pairs/text.py): events blocked by the tokens  *)
(* of their titles and scored, their outcomes matched one to one, and one  *)
(* proposal kept for each Polymarket US market.                            *)
(*                                                                         *)
(* A title or a name is the set of its tokens.  A similarity or a score is *)
(* a number of 1/Unit, rounded down where the code has a float.            *)
(***************************************************************************)
EXTENDS Integers, Sequences, SequencesExt, FiniteSetsExt, Functions, Orders

CONSTANTS
    Unit,            \* what a similarity of one is
    Numbers,         \* the tokens that are numbers
    Idf(_, _),       \* the weight of a token by its frequency, of so many titles
    MaxTokenDf, MinNameSim, MinEventScore, MinScore,
    DateSlack        \* DATE_SLACK_DAYS

ASSUME MatchingAssumption == Unit \in Nat /\ DateSlack \in Nat

NumericTokens(tokens) == tokens \cap Numbers

\* Both name a number and neither's numbers contain the other's.
NumbersConflict(a, b) ==
    LET na == NumericTokens(a)
        nb == NumericTokens(b)
    IN  na # {} /\ nb # {} /\ ~ (na \subseteq nb \/ nb \subseteq na)

Share(part, of) == IF of = 0 THEN 0 ELSE (Unit * part) \div of

Smaller(a, b) == Min({Cardinality(a), Cardinality(b)})

\* Jaccard, or containment unless it hangs on a single token of several.
NameSimilarity(a, b) ==
    LET shared == Cardinality(a \cap b)
        jaccard == Share(shared, Cardinality(a \cup b))
    IN  IF shared = 0 \/ NumbersConflict(a, b) THEN 0
        ELSE IF shared = 1 /\ Smaller(a, b) > 1 THEN jaccard
        ELSE Max({Share(shared, Smaller(a, b)), jaccard})

-----------------------------------------------------------------------------
(* Outcomes: a market is an id and the tokens of its name. *)

Similar(A, B) ==
    {x \in {[i |-> i, j |-> j, sim |-> NameSimilarity(A[i].name, B[j].name)] :
               i \in DOMAIN A, j \in DOMAIN B} : x.sim >= MinNameSim}

RowOrder(x, y) == x.i < y.i \/ (x.i = y.i /\ x.j < y.j)

\* Mutant: the list is sorted the wrong way round.
RankedLast(S) ==
    InOrder(S, {p \in S \X S : p[1].sim < p[2].sim \/ (p[1].sim = p[2].sim /\ RowOrder(p[1], p[2]))})

\* Best first; the sort is stable and the pairs are listed row by row.
Ranked(S) ==
    InOrder(S, {p \in S \X S : p[1].sim > p[2].sim \/ (p[1].sim = p[2].sim /\ RowOrder(p[1], p[2]))})

\* Greedy: each outcome of either side is used once.
OutcomeMatches(A, B) ==
    FoldLeft(LAMBDA out, x : IF \E y \in Range(out) : y.i = x.i \/ y.j = x.j
                             THEN out ELSE Append(out, x),
             <<>>, Ranked(Similar(A, B)))

-----------------------------------------------------------------------------
(* Events: a title, the day it ends or None, and its markets. *)

\* How many titles of either venue a token is in.
Df(K, P, t) == Cardinality({i \in DOMAIN K : t \in K[i].title})
                 + Cardinality({i \in DOMAIN P : t \in P[i].title})

Titles(K, P) == Len(K) + Len(P)

Weight(K, P, tokens) == SumFunction([t \in tokens |-> Idf(Df(K, P, t), Titles(K, P))])

\* Halved when the titles disagree on a number.
TitleSimilarity(K, P, k, p) ==
    LET sim == Share(Weight(K, P, k.title \cap p.title), Weight(K, P, k.title \cup p.title))
    IN  IF NumbersConflict(k.title, p.title) THEN sim \div 2 ELSE sim

DateFeature(k, p) ==
    IF 0 \in {k.day, p.day} THEN Unit \div 2
    ELSE Max({0, Unit - Share(Max({k.day - p.day, p.day - k.day}), DateSlack)})

EventScore(K, P, k, p, matches) ==
    (55 * TitleSimilarity(K, P, k, p)
      + 35 * Share(Len(matches), Min({Len(k.markets), Len(p.markets)}))
      + 10 * DateFeature(k, p)) \div 100

\* The Kalshi events that share with p a token few titles have.
Block(K, P, p) ==
    LET S == {i \in DOMAIN K : \E t \in K[i].title \cap p.title : Df(K, P, t) <= MaxTokenDf}
    IN  InOrder(S, Ascending(S))

\* What one pair of events proposes.
CandidatesOf(K, P, k, p) ==
    LET matches == OutcomeMatches(k.markets, p.markets)
        event == EventScore(K, P, k, p, matches)
        scored == [n \in DOMAIN matches |->
                     [kalshi |-> k.markets[matches[n].i].id,
                      polymarket |-> p.markets[matches[n].j].id,
                      score |-> (6 * event + 4 * matches[n].sim) \div 10]]
        high == {n \in DOMAIN scored : scored[n].score >= MinScore}
    IN  IF matches = <<>> \/ event < MinEventScore THEN <<>>
        ELSE [n \in 1 .. Cardinality(high) |-> scored[InOrder(high, Ascending(high))[n]]]

Candidates(K, P) ==
    FlattenSeq([q \in DOMAIN P |->
        FlattenSeq([n \in DOMAIN Block(K, P, P[q]) |->
            CandidatesOf(K, P, K[Block(K, P, P[q])[n]], P[q])])])

-----------------------------------------------------------------------------
(* One proposal for each Polymarket US market *)

Put(f, x, y) == [z \in DOMAIN f \cup {x} |-> IF z = x THEN y ELSE f[z]]

NoneYet == [best |-> <<>>, runnerUp |-> <<>>]

\* Mutant: a candidate that is beaten by a later one is forgotten.
SeenForgetful(s, c) ==
    LET m == c.polymarket
    IN  IF m \notin DOMAIN s.best \/ c.score > s.best[m].score
        THEN [s EXCEPT !.best = Put(@, m, c)]
        ELSE [s EXCEPT !.runnerUp = Put(@, m, Max({c.score} \cup {@[x] : x \in {m} \cap DOMAIN @}))]

Seen(s, c) ==
    LET m == c.polymarket
    IN  IF m \notin DOMAIN s.best THEN [s EXCEPT !.best = Put(@, m, c)]
        ELSE IF c.score > s.best[m].score
             THEN [best |-> Put(s.best, m, c), runnerUp |-> Put(s.runnerUp, m, s.best[m].score)]
        ELSE [s EXCEPT !.runnerUp = Put(@, m, Max({c.score} \cup {@[x] : x \in {m} \cap DOMAIN @}))]

\* The proposals, each with its margin, -1 where there was no other candidate.
ProposePairs(K, P) ==
    LET s == FoldLeft(Seen, NoneYet, Candidates(K, P))
    IN  {[c |-> s.best[m],
          margin |-> IF m \in DOMAIN s.runnerUp THEN s.best[m].score - s.runnerUp[m] ELSE -1] :
             m \in DOMAIN s.best}
=============================================================================
