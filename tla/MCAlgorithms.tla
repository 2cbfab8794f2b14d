---------------------------- MODULE MCAlgorithms ----------------------------
(***************************************************************************)
(* The pure algorithms over bounded inputs: a state is one input, a step   *)
(* is a change of it.                                                      *)
(*                                                                         *)
(* The fee formulas over every fill of up to MaxQty units at every price,  *)
(* and the edge walk on every pair of small uncrossed books, a Kalshi one  *)
(* and a Polymarket US one, at a coarse scale (the real one, 10000 ticks   *)
(* to the dollar, leaves TLC's integers).  The walk is compared with a     *)
(* definition that knows nothing of ladders being walked: the n-th unit of *)
(* a side and its price.  The matcher on two Kalshi events and one of      *)
(* Polymarket US, the dealing of the watch set on four pairs of up to      *)
(* three events, and the clock check on every course of three exchanges.   *)
(***************************************************************************)
EXTENDS Edge, Fees, Matching, Clock, Dealing

CONSTANTS MaxQty,                \* of the fills the fees are computed for
          Rates,                 \* the series multipliers and coefficients
          Kalshi, Polymarket,    \* the books of the two markets
          KalshiEvents, PolymarketEvents,
          Courses, Leads,        \* of an exchange; how far the server is ahead
          Tables                 \* of confirmed pairs

\* No series multiplier or coefficient is negative.
ASSUME FillAssumption ==
    /\ MaxQty \in Nat
    /\ Rates \subseteq [num : Nat, den : Nat \ {0}]

\* Two sides of whole contracts, and a fee in whole ticks for what they show.
ASSUME QuoteAssumption ==
    /\ Kalshi \cup Polymarket \subseteq [bids : Ladder, asks : Ladder]
    /\ \A p \in ValidPrices :
          /\ \A l \in Kalshi : \A n \in (1 .. l.bids[p]) \cup (1 .. l.asks[p]) :
                Fee("kalshi", n, p) \in Int
          /\ \A l \in Polymarket : \A n \in (1 .. l.bids[p]) \cup (1 .. l.asks[p]) :
                Fee("polymarket", n, p) \in Int

\* A title and a name have so many tokens, and no token weighs less than nothing in
\* the titles of two Kalshi events and one of Polymarket US.
ASSUME EventAssumption ==
    /\ \A e \in KalshiEvents \cup PolymarketEvents :
          /\ DOMAIN e = {"title", "day", "markets"}
          /\ IsFiniteSet(e.title) /\ e.day \in Nat
          /\ Len(e.markets) \in Nat /\ DOMAIN e.markets = 1 .. Len(e.markets)
          /\ \A i \in DOMAIN e.markets : IsFiniteSet(e.markets[i])
    /\ \A df \in 0 .. 3 : Idf(df, 3) \in Nat

\* A packet takes its time.
ASSUME CourseAssumption ==
    /\ Courses \subseteq [up : Nat, down : Nat, kind : {"answered", "lost", "useless"}]
    /\ Leads \subseteq Int

ASSUME TableAssumption ==
    \A t \in Tables : /\ Len(t) \in Nat /\ DOMAIN t = 1 .. Len(t)
                     /\ \A i \in DOMAIN t : t[i].score \in Int

VARIABLE input   \* a fill and its schedule, two books, events, exchanges, or pairs

FeeTypes == {"quadratic", "quadratic_with_maker_fees",
             "quadratic_with_combo_maker_fees", "flat"}

OneToOne == [num |-> 1, den |-> 1]
SixPercent == [num |-> 6, den |-> 100]
Half == [num |-> 1, den |-> 2]

MCRates == {OneToOne, SixPercent, Half}

\* Taker fees.  At this scale six percent of a few contracts is no cent on
\* Polymarket US; half is some.
MCFee(market, q, p) ==
    IF market = "kalshi" THEN KalshiFee(q, p, TRUE, "quadratic", OneToOne)
                         ELSE PolymarketFee(q, p, TRUE, Half)

\* Ladders that show at most the quantities Q at the prices P.
Showing(P, Q) ==
    {[p \in ValidPrices |-> IF p \in P THEN l[p] ELSE 0] : l \in [P -> Q]}

BooksOf(Bids, Asks) ==
    {l \in [bids : Bids, asks : Asks] :
        \A p, q \in ValidPrices : l.bids[p] > 0 /\ l.asks[q] > 0 => p < q}

MCKalshi == BooksOf(Showing({7}, {0, 4}), Showing({2, 4}, {0, 1, 8, 12}))
MCPolymarket == BooksOf(Showing({6, 8}, {0, 1, 8, 12}), Showing({4, 9}, {0, 4}))

\* The weight of a token in so many of three titles: log(1 + 3 / df).
MCIdf(df, titles) == CASE df = 1 -> 139 [] df = 2 -> 92 [] OTHER -> 69

\* Names that contain each other, share all but one token, or differ by a number.
Left4   == {"a", "b", "c", "d"}
Right4  == {"a", "b", "c", "e"}
Short   == {"a"}
OverOne == {"over", "1"}
OverTwo == {"over", "2"}

\* The events of one venue, each market with an id of its own.
Numbered(events) ==
    [n \in DOMAIN events |->
        [events[n] EXCEPT !.markets = [i \in DOMAIN @ |-> [id |-> <<n, i>>, name |-> @[i]]]]]

MCKalshiEvents ==
    [title : {{"t", "u"}, {"t", "v"}, {"u", "1"}, {"v"}}, day : {0, 1, 300},
     markets : {<<Left4, Right4>>, <<Right4, Short>>, <<OverOne, OverTwo>>}]

MCPolymarketEvents ==
    [title : {{"t", "u"}, {"u", "v", "2"}}, day : {1},
     markets : {<<Right4, Left4>>, <<Left4>>, <<OverTwo, Left4>>, <<Short, OverOne>>}]

MCCourses == [up : {0, 3}, down : {0, 1, 4, 9}, kind : {"answered"}]
                \cup [up : {0}, down : {1, 4}, kind : {"lost", "useless"}]

MCLeads == {-7, 0, 5}

\* A pair that is open, and pairs that ended, each for another reason or just now.
Open(f)  == f @@ [kalshiClose |-> Unknown, polymarketClose |-> Now + 1, settled |-> FALSE]
Ended(f) == {f @@ [kalshiClose |-> Unknown, polymarketClose |-> Unknown, settled |-> TRUE],
             f @@ [kalshiClose |-> Now + 1, polymarketClose |-> Now, settled |-> FALSE],
             f @@ [kalshiClose |-> Now - 1, polymarketClose |-> Unknown, settled |-> FALSE]}

\* Four pairs of up to three events, of which at most one pair has ended.
MCTables ==
    LET pairs == [1 .. 4 -> [event : {"x", "y", "z"}, score : {1, 2}]]
        open  == {[i \in 1 .. 4 |-> Open(t[i])] : t \in pairs}
    IN  open \cup {[t EXCEPT ![i] = e] : t \in open, i \in 1 .. 4,
                                         e \in UNION {Ended([event |-> v, score |-> 2]) : v \in {"x", "y"}}}

IsFill   == "qty" \in DOMAIN input
IsBooks  == "a" \in DOMAIN input
IsEvents == "kalshi" \in DOMAIN input
IsClock  == "courses" \in DOMAIN input
IsTable  == "rows" \in DOMAIN input

AlgorithmsInit ==
    \/ input \in [qty : {0}, price : {1}, feeType : FeeTypes, rate : Rates]
    \/ input \in [a : Kalshi, b : Polymarket]
    \/ \E k \in KalshiEvents, p \in PolymarketEvents :
          input = [kalshi |-> <<k, k>>, polymarket |-> <<p>>]
    \/ input \in [courses : [1 .. 3 -> Courses], ahead : Leads]
    \/ input \in [rows : Tables, n : {0}]

NextFill ==
    /\ IsFill
    /\ \/ input' = [input EXCEPT !.qty = (@ + 1) % (MaxQty + 1)]
       \/ \E p \in ValidPrices : input' = [input EXCEPT !.price = p]

NextBook ==
    /\ IsBooks
    /\ \/ \E l \in Kalshi : input' = [input EXCEPT !.a = l]
       \/ \E l \in Polymarket : input' = [input EXCEPT !.b = l]

NextEvent ==
    /\ IsEvents
    /\ \E k \in KalshiEvents, n \in 1 .. 2 : input' = [input EXCEPT !.kalshi[n] = k]

NextClock ==
    /\ IsClock
    /\ \E lead \in Leads : input' = [input EXCEPT !.ahead = lead]

NextDeal ==
    /\ IsTable
    /\ input' = [input EXCEPT !.n = (@ + 1) % (Len(input.rows) + 1)]

AlgorithmsSpec ==
    AlgorithmsInit /\ [][NextFill \/ NextBook \/ NextEvent \/ NextClock \/ NextDeal]_input

-----------------------------------------------------------------------------
(* Properties of the fees *)

\* The denominator of the model fee in ticks, times that of the rates.
ModelDen == QtyPerContract * TicksPerDollar

\* What Kalshi charges for qty of the fill's price and schedule.
Charged(qty, taker) ==
    KalshiFee(qty, input.price, taker, input.feeType, input.rate)

\* Two roundings, to the millionth and to the tick, never cost a whole tick
\* more than the model fee, and never less than it (kalshi_fee_ticks), so
\* fills charged one by one never undercut the order they make up.  A maker
\* pays nothing or a share, for every fee type, known or not.
KalshiFeeIsTight ==
        LET fee == Charged(input.qty, TRUE)
            num == 7 * input.rate.num * CP1MP(input.qty, input.price)
            den == 100 * input.rate.den * ModelDen
        IN  /\ num <= fee * den /\ fee * den < num + den
            /\ Charged(input.qty, FALSE) \in 0 .. fee

\* The cent charged is the nearest one, and the even one of two
\* (polymarket_fee_ticks); a maker is paid, never charged.
PolymarketFeeIsNearest ==
        LET fee == PolymarketFee(input.qty, input.price, TRUE, input.rate)
            cents == fee \div TicksPerCent
            num == input.rate.num * CP1MP(input.qty, input.price)
            den == input.rate.den * ModelDen * TicksPerCent
            off == 2 * (cents * den - num)
        IN  /\ fee = cents * TicksPerCent
            /\ -den <= off /\ off <= den
            /\ off \in {-den, den} => cents % 2 = 0
            /\ PolymarketFee(input.qty, input.price, FALSE, input.rate) <= 0

\* No fill is charged more than the rounding of its venue's schedule allows, and
\* none less (kalshi_fee_ticks, polymarket_fee_ticks).
FeesAreExact == IsFill => KalshiFeeIsTight /\ PolymarketFeeIsNearest

-----------------------------------------------------------------------------
(* Properties of the edge *)

BothQuotes == BestEdge(input.a, "kalshi", input.b, "polymarket")

Total(ladder) == SumFunction(ladder)

\* The price of the n-th unit, cheapest ask or highest bid first.
AskAt(asks, n) ==
    Min({p \in ValidPrices : SumFunctionOnSet(asks, 1 .. p) >= n})
BidAt(bids, n) ==
    Max({p \in ValidPrices : SumFunctionOnSet(bids, p .. TicksPerDollar - 1) >= n})

\* The units both sides can fill, and those worth it: every run of units
\* at one price pair, up to its own, covers the fees of the run.
Units(asks, bids) == 1 .. Min({Total(asks), Total(bids)})

RunOf(asks, bids, n) ==
    {m \in Units(asks, bids) :
        AskAt(asks, m) = AskAt(asks, n) /\ BidAt(bids, m) = BidAt(bids, n)}

RunPays(asks, bids, n, a, b) ==
    Covers([ask |-> AskAt(asks, n), bid |-> BidAt(bids, n),
            take |-> Cardinality(RunOf(asks, bids, n))], a, b)

WorthTaking(asks, bids, a, b) ==
    {n \in Units(asks, bids) : \A m \in 1 .. n : RunPays(asks, bids, m, a, b)}

\* The quote measures exactly the units worth taking.
MeasuresTheDepth(q, asks, bids, a, b) ==
    LET units == WorthTaking(asks, bids, a, b)
    IN  /\ q.qty = Cardinality(units)
        /\ q.cost_a_tq = SumFunction([n \in units |-> AskAt(asks, n)])
        /\ q.cost_b_tq = SumFunction([n \in units |-> TicksPerDollar - BidAt(bids, n)])

\* Both legs together pay a dollar, so what is not cost is gross, and a
\* quote with size is a profit after both venues' fees, never a loss.
IsAProfit(q) ==
    /\ q.cost_a_tq + q.cost_b_tq + q.gross_tq = TicksPerDollar * q.qty
    /\ q.qty > 0 => q.net_tq > 0

\* compute_direction against the unit-by-unit definition, both directions: exactly
\* the depth that pays for itself, at what it costs, and never at a loss.
QuoteMeasuresTheDepth ==
    IsBooks =>
        /\ MeasuresTheDepth(BothQuotes.yes_a_no_b, input.a.asks, input.b.bids,
                            "kalshi", "polymarket")
        /\ MeasuresTheDepth(BothQuotes.yes_b_no_a, input.b.asks, input.a.bids,
                            "polymarket", "kalshi")
        /\ \A d \in DOMAIN BothQuotes : IsAProfit(BothQuotes[d])

-----------------------------------------------------------------------------
(* Properties of the matcher *)

K == Numbered(input.kalshi)
P == Numbered(input.polymarket)

\* Nobody is matched twice, and no two outcomes were left apart that would both
\* rather have each other.
Stable(A, B) ==
    LET matches == Range(OutcomeMatches(A, B))
    IN  /\ \A x, y \in matches : x.i = y.i \/ x.j = y.j => x = y
        /\ \A x \in Similar(A, B) : \E y \in matches :
              (y.i = x.i \/ y.j = x.j) /\ y.sim >= x.sim

\* Every Polymarket US market somebody matches is proposed once, with its best
\* twin and by how much that one won, and an event's outcomes are matched stably:
\* in whatever order the events came, and whichever of them scored first.
ProposalsAreTheBest ==
    IsEvents =>
        /\ \A n \in DOMAIN K, q \in DOMAIN P : Stable(K[n].markets, P[q].markets)
        /\ LET all == Candidates(K, P)
               rivals(m) == {n \in DOMAIN all : all[n].polymarket = m}
               proposals == ProposePairs(K, P)
           IN  /\ {r.c.polymarket : r \in proposals} = {c.polymarket : c \in Range(all)}
               /\ \A r \in proposals : \E n \in rivals(r.c.polymarket) :
                     LET others == {all[x].score : x \in rivals(r.c.polymarket) \ {n}}
                     IN  /\ r.c = all[n] /\ \A x \in others : x <= r.c.score
                         /\ r.margin = IF others = {} THEN -1 ELSE r.c.score - Max(others)
               /\ \A r, o \in proposals : r.c.polymarket = o.c.polymarket => r = o

-----------------------------------------------------------------------------
(* Properties of the dealing *)

\* The watch set is as large as was asked and as the open pairs allow, and as spread
\* as it can be: no event has two more than one that still has a pair to give, the
\* odd ones go to the events with the best pairs, and each gives its best ("ten rows
\* but one bet" is what the setter used to pick).
DealIsSpread ==
    IsTable =>
        LET rows == input.rows
            picks == Deal(rows, input.n)
            picked == Range(picks)
            open == OpenPairs(rows)
            of(e, S) == {i \in S : rows[i].event = e}
            best(e) == CHOOSE i \in of(e, open) :
                          \A j \in of(e, open) \ {i} : ScoresBefore(rows, i, j)
        IN  /\ IsInjective(picks) /\ picked \subseteq open
            /\ Len(picks) = Min({input.n, Cardinality(open)})
            /\ \A i \in open \ picked :
                  LET e == rows[i].event
                  IN  /\ \A j \in of(e, picked) : ScoresBefore(rows, j, i)
                      /\ \A f \in {rows[j].event : j \in picked} \ {e} :
                            LET more == Cardinality(of(f, picked)) - Cardinality(of(e, picked))
                            IN  more <= 0 \/ (more = 1 /\ ScoresBefore(rows, best(f), best(e)))

-----------------------------------------------------------------------------
(* Properties of the clock check *)

\* The skew that is reported is off by half of the delay at most, and the delay is
\* that of an exchange that was in time: no late answer to an earlier request and
\* no useless one is ever measured.  One late answer costs every exchange after
\* it, for each then reads its predecessor's; what was there before it counts.
SkewIsWithinTheDelay ==
    IsClock =>
        LET samples == QuerySync(input.courses, input.ahead)
            best == BestSample(samples)
            inTime(n) == /\ input.courses[n].kind = "answered"
                         /\ input.courses[n].up + input.courses[n].down <= Timeout
            delays == {input.courses[n].up + input.courses[n].down : n \in {n \in 1 .. 3 : inTime(n)}}
        IN  /\ samples # <<>> =>
                  /\ best.delay \in delays
                  /\ \A x \in Range(samples) : best.delay <= x.delay
                  /\ best.skew2 + 2 * input.ahead \in - best.delay .. best.delay
            /\ \A n \in 1 .. 3 :
                  (inTime(n) /\ \A o \in 1 .. n : inTime(o)) => Len(samples) >= n
=============================================================================
