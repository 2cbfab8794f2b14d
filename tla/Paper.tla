-------------------------------- MODULE Paper --------------------------------
(***************************************************************************)
(* Paper trading (src/arb/paper.py) off the monitor's netted quotes        *)
(* (arbmon.py) with the ledger of liquidity already taken (taken.py).      *)
(*                                                                         *)
(* A paper fill never reaches the venue: the ladders go on showing the     *)
(* size it took.  The venue is external and changes its ladders as it      *)
(* likes; a book that is "ok" shows them, one that is "invalid" waits for  *)
(* a snapshot, a "missing" one was evicted or never came.  trade_pair may  *)
(* run at any moment: the flush loop calls it for every pair whose books   *)
(* changed since the last flush, in any order.                             *)
(***************************************************************************)
EXTENDS Edge, FiniteSets

CONSTANTS
    Markets,
    Pairs,           \* pair ids
    KalshiOf, PolyOf,          \* the markets of a pair
    VenueLadders,    \* per market, the [bids, asks] ladders it goes through
    LimitChoices,    \* the limits the operator may set
    MaxMoves         \* bound on the changes of the venues and the operator

\* A taker fee of no quantity that a level shows is a rebate.
ASSUME FeeAssumption ==
    \A m \in Markets, p \in ValidPrices : \A l \in VenueLadders[m] :
        \A q \in 1 .. Max({l.bids[p], l.asks[p]}) : Fee(m, q, p) \in Nat

ASSUME PaperAssumption ==
    /\ IsFiniteSet(Markets) /\ IsFiniteSet(Pairs)
    /\ KalshiOf \in [Pairs -> Markets]
    /\ PolyOf \in [Pairs -> Markets]
    /\ \A r \in Pairs : KalshiOf[r] # PolyOf[r]
    /\ \A m \in Markets : VenueLadders[m] \subseteq [bids : Ladder, asks : Ladder]
    /\ LimitChoices \subseteq
          [min_net : Int, max_qty : Nat, max_notional : Nat]
    /\ MaxMoves \in Nat

VARIABLES
    truth,       \* the ladders a venue shows
    status,      \* of the book: "ok", "invalid" or "missing"
    taken,       \* TakenLiquidity: per market and side, 0 where no entry
    positions,   \* per pair, zero where there is none
    notional,    \* the spend committed
    limits,
    suspended,
    moves,
    \* History variables:
    supply,      \* all the size a venue ever showed: the first, and additions
    sold         \* all the size paper fills took, level by level

tradeVars == <<taken, positions, notional, sold>>
operatorVars == <<limits, suspended>>
venueVars == <<truth, status, supply>>
paperVars == <<tradeVars, operatorVars, venueVars, moves>>

PerLevel == [Markets -> [bids : Ladder, asks : Ladder]]

Position == [qty : Nat, cost : Int, fee : Int, net : Int]

PaperTypeOK ==
    /\ truth \in PerLevel /\ \A m \in Markets : truth[m] \in VenueLadders[m]
    /\ status \in [Markets -> {"ok", "invalid", "missing"}]
    /\ taken \in PerLevel
    /\ positions \in [Pairs -> Position]
    /\ notional \in Int
    /\ limits \in LimitChoices
    /\ suspended \in BOOLEAN
    /\ moves \in 0 .. MaxMoves
    /\ supply \in PerLevel
    /\ sold \in PerLevel

NoSize == [bids |-> NoLevels, asks |-> NoLevels]

PaperInit ==
    /\ truth \in {f \in [Markets -> UNION {VenueLadders[m] : m \in Markets}] :
                    \A m \in Markets : f[m] \in VenueLadders[m]}
    /\ status = [m \in Markets |-> "missing"]
    /\ taken = [m \in Markets |-> NoSize]
    /\ positions = [r \in Pairs |-> [qty |-> 0, cost |-> 0, fee |-> 0, net |-> 0]]
    /\ notional = 0
    /\ limits \in LimitChoices
    /\ suspended = FALSE
    /\ moves = 0
    /\ supply = truth
    /\ sold = [m \in Markets |-> NoSize]

-----------------------------------------------------------------------------
(* The venue, the books and the operator *)

Grown(more, l, l2) ==
    [p \in ValidPrices |-> more[p] + (IF l2[p] > l[p] THEN l2[p] - l[p] ELSE 0)]

VenueMoves(m) ==
    /\ moves < MaxMoves /\ moves' = moves + 1
    /\ \E l \in VenueLadders[m] \ {truth[m]} :
          /\ truth' = [truth EXCEPT ![m] = l]
          /\ supply' = [supply EXCEPT
                ![m] = [bids |-> Grown(@.bids, truth[m].bids, l.bids),
                         asks |-> Grown(@.asks, truth[m].asks, l.asks)]]
    /\ UNCHANGED <<status, tradeVars, operatorVars>>

BookChanges(m, s) ==
    /\ status[m] # s
    /\ IF s = "ok" THEN UNCHANGED moves ELSE moves < MaxMoves /\ moves' = moves + 1
    /\ status' = [status EXCEPT ![m] = s]
    /\ UNCHANGED <<truth, supply, tradeVars, operatorVars>>

\* set_limits: nothing committed is undone.
SetLimits(new) ==
    /\ new # limits
    /\ moves < MaxMoves /\ moves' = moves + 1
    /\ limits' = new
    /\ UNCHANGED <<suspended, tradeVars, venueVars>>

SetSuspended(on) ==
    /\ on # suspended
    /\ IF on THEN moves < MaxMoves /\ moves' = moves + 1 ELSE UNCHANGED moves
    /\ suspended' = on
    /\ UNCHANGED <<limits, tradeVars, venueVars>>

-----------------------------------------------------------------------------
(* The ledger of liquidity taken *)

Least(x, y) == IF x <= y THEN x ELSE y

\* net() on the entries of one side: an entry shrinks to the size shown, to
\* nothing where the price left, and is kept while the side shows no level.
Netted(ladder, entries) ==
    IF ladder = NoLevels THEN entries
    ELSE [p \in ValidPrices |-> Least(entries[p], ladder[p])]

NettedBook(l, t) ==
    [bids |-> Netted(l.bids, t.bids), asks |-> Netted(l.asks, t.asks)]

\* net() of the ladder: what is shown less what was taken of it.
Left(ladder, entries) ==
    [p \in ValidPrices |-> ladder[p] - Least(entries[p], ladder[p])]

LeftOf(l, t) == [bids |-> Left(l.bids, t.bids), asks |-> Left(l.asks, t.asks)]

Better(side, p) ==
    {x \in ValidPrices : IF side = "ask" THEN x < p ELSE x > p}

\* How many units rest at better prices than p.
Ahead(ladder, side, p) ==
    SumFunctionOnSet(ladder, Better(side, p))

\* consume(): a fill of qty, best price first.
TakenBy(ladder, side, qty) ==
    [p \in ValidPrices |->
        LET rest == qty - Ahead(ladder, side, p)
        IN  IF rest <= 0 THEN 0 ELSE Least(rest, ladder[p])]

Plus(f, g) == [p \in ValidPrices |-> f[p] + g[p]]

-----------------------------------------------------------------------------
(* trade_pair *)

\* untradable(): a missing or structurally invalid book; stale is no reason.
Tradable(r) == status[KalshiOf[r]] = "ok" /\ status[PolyOf[r]] = "ok"

Netting(r) ==
    [m \in Markets |->
        IF m \in {KalshiOf[r], PolyOf[r]} THEN NettedBook(truth[m], taken[m])
                                          ELSE taken[m]]

\* Mutant: the trader is shown the market as it is.
ShowsRaw(m) == truth[m]

Shows(m) == LeftOf(truth[m], taken[m])

\* Mutant: the quote is sized off the raw ladders, the fill off the netted.
QuotesRaw(r) ==
    BestEdge(truth[KalshiOf[r]], KalshiOf[r], truth[PolyOf[r]], PolyOf[r])

Quotes(r) ==
    BestEdge(Shows(KalshiOf[r]), KalshiOf[r], Shows(PolyOf[r]), PolyOf[r])

\* The better direction, with the markets whose asks and bids it takes.
Best(r) ==
    LET d == Quotes(r)
    IN  IF NetPerContract(d.yes_a_no_b) >= NetPerContract(d.yes_b_no_a)
        THEN [quote |-> d.yes_a_no_b, lift |-> KalshiOf[r], hit |-> PolyOf[r]]
        ELSE [quote |-> d.yes_b_no_a, lift |-> PolyOf[r], hit |-> KalshiOf[r]]

CostTq(q) == q.cost_a_tq + q.cost_b_tq

\* How much of the quote room ticks pay for, and its mutant.
AffordableRoundedUp(q, room) == CeilDiv(room * QtyPerContract * q.qty, CostTq(q))

Affordable(q, room) == (room * QtyPerContract * q.qty) \div CostTq(q)

\* consider(): what fits the position's room and the budget's, zero or less
\* when the edge is declined.
FillSize(r, q) ==
    LET roomPair == limits.max_qty - positions[r].qty
        roomNotional == limits.max_notional - notional
    IN  IF \/ q.qty <= 0 \/ NetPerContract(q) < limits.min_net
           \/ roomPair <= 0 \/ roomNotional <= 0 \/ CostTq(q) <= 0
        THEN 0
        ELSE Min({q.qty, roomPair, Affordable(q, roomNotional)})

\* Mutant: the cost truncates, so a dust fill is free.
TradeCostTruncated(q, qty) == (CostTq(q) * qty) \div (QtyPerContract * q.qty)

\* The trade's share of the quote: cost and fee round up, net down.
TradeCost(q, qty) == CeilDiv(CostTq(q) * qty, QtyPerContract * q.qty)
TradeFee(q, qty) == CeilDiv(q.fee_ticks * qty, q.qty)
TradeNet(q, qty) == (q.net_tq * qty) \div (QtyPerContract * q.qty)

AddTrade(pos, q, qty) ==
    [qty |-> pos.qty + qty, cost |-> pos.cost + TradeCost(q, qty),
     fee |-> pos.fee + TradeFee(q, qty), net |-> pos.net + TradeNet(q, qty)]

\* Both legs of a fill added to f, level by level.
WithFill(f, lift, hit, qty) ==
    [m \in Markets |->
        [bids |-> IF m = hit
                  THEN Plus(f[m].bids, TakenBy(Shows(hit).bids, "bid", qty))
                  ELSE f[m].bids,
         asks |-> IF m = lift
                  THEN Plus(f[m].asks, TakenBy(Shows(lift).asks, "ask", qty))
                  ELSE f[m].asks]]

TradePair(r) ==
    /\ ~ suspended /\ Tradable(r)
    /\ LET best == Best(r)
           q == best.quote
       IN  \/ /\ FillSize(r, q) <= 0
              /\ taken' = Netting(r)
              /\ UNCHANGED <<positions, notional, sold>>
           \/ \E qty \in 1 .. q.qty :
                 /\ qty = FillSize(r, q)
                 /\ positions' = [positions EXCEPT ![r] = AddTrade(@, q, qty)]
                 /\ notional' = notional + TradeCost(q, qty)
                 /\ taken' = WithFill(Netting(r), best.lift, best.hit, qty)
                 /\ sold' = WithFill(sold, best.lift, best.hit, qty)
    /\ UNCHANGED <<venueVars, operatorVars, moves>>

-----------------------------------------------------------------------------

PaperNext ==
    \/ \E m \in Markets : VenueMoves(m)
    \/ \E m \in Markets, s \in {"ok", "invalid", "missing"} : BookChanges(m, s)
    \/ \E new \in LimitChoices : SetLimits(new)
    \/ \E on \in BOOLEAN : SetSuspended(on)
    \/ \E r \in Pairs : TradePair(r)

PaperSpec == PaperInit /\ [][PaperNext]_paperVars

-----------------------------------------------------------------------------
(* Properties *)

\* At no level do the fills of all pairs together exceed the size the venue
\* ever showed there: "one 16-contract bid got filled against six times"
\* cannot happen, whatever the ladders, resyncs, evictions and limits do.
NoPhantomFills ==
    \A m \in Markets, p \in ValidPrices :
        /\ sold[m].bids[p] <= supply[m].bids[p]
        /\ sold[m].asks[p] <= supply[m].asks[p]

Contracts == SumFunction([r \in Pairs |-> positions[r].qty])
AsksSold == SumFunction([m \in Markets |-> SumFunction(sold[m].asks)])
BidsSold == SumFunction([m \in Markets |-> SumFunction(sold[m].bids)])

\* Every contract of a position was placed against a resting level, on both
\* legs: consume() never has a remainder, because the fill was sized off the
\* same netted ladders.
EveryFillIsPlaced ==
    /\ PaperTypeOK
    /\ Contracts = AsksSold
    /\ Contracts = BidsSold

\* What YES at an ask and NO at a bid take of the dollar a contract pays.
PaidAt == [ask |-> [p \in ValidPrices |-> p],
           bid |-> [p \in ValidPrices |-> TicksPerDollar - p]]

Price(side, ladder) ==
    SumFunction([p \in ValidPrices |-> PaidAt[side][p] * ladder[p]])

PriceOfSold ==
    SumFunction([m \in Markets |-> Price("ask", sold[m].asks)])
        + SumFunction([m \in Markets |-> Price("bid", sold[m].bids)])

\* The spend is at least the price of the levels consumed, and the profit
\* recorded at most what they leave of a dollar per contract, though a trade
\* is charged its share of a larger quote's average: "every rounding goes
\* against the book", so no series of dust fills trades for free.
FillsArePaidFor ==
    /\ notional * QtyPerContract >= PriceOfSold
    /\ SumFunction([r \in Pairs |-> positions[r].net]) * QtyPerContract
          <= TicksPerDollar * Contracts - PriceOfSold
    /\ notional = SumFunction([r \in Pairs |-> positions[r].cost])

\* A trade never takes the spend over the budget or a position over its cap
\* as they are at that moment; after a tightening below what is committed
\* nothing trades (set_limits: "a hard stop, not a rollback").
LimitsHoldAtEveryTrade ==
    [][/\ notional' # notional => notional' <= limits.max_notional
       /\ \A r \in Pairs :
             positions'[r] # positions[r] =>
                /\ positions'[r].qty <= limits.max_qty
                /\ notional' > notional]_paperVars

=============================================================================
