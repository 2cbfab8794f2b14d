------------------------------- MODULE MCPaper -------------------------------
(***************************************************************************)
(* Two pairs that share their Kalshi market: it offers one to four units   *)
(* at two prices, and two Polymarket US markets bid for them.  A contract  *)
(* is two units, so costs and profits have fractions of a tick to round.   *)
(***************************************************************************)
EXTENDS Paper, TLC

CONSTANTS k, p1, p2

\* A ladder from a sequence of quantities, one per price.
L(q) == [p \in ValidPrices |-> q[p]]

Offers(q) == [bids |-> NoLevels, asks |-> L(q)]
Bids(q) == [bids |-> L(q), asks |-> NoLevels]

MCKalshiOf == [r \in Pairs |-> k]
MCPolyOf == (1 :> p1) @@ (2 :> p2)

MCVenueLadders ==
    (k :> {Offers(<<3, 1, 0>>), Offers(<<1, 1, 0>>), Offers(<<0, 2, 0>>),
           [bids |-> L(<<0, 2, 0>>), asks |-> L(<<0, 0, 1>>)]})
 @@ (p1 :> {Bids(<<0, 1, 2>>), Bids(<<0, 2, 0>>), Bids(<<0, 0, 0>>),
            Offers(<<2, 0, 0>>)})
 @@ (p2 :> {Bids(<<0, 0, 3>>), Bids(<<0, 1, 1>>)})

\* Half a tick a unit on Polymarket US, rounded half to even; Kalshi free.
MCFee(m, q, p) == IF m = k THEN 0 ELSE IF q < 2 THEN 0 ELSE (q + 1) \div 4

MCLimits ==
    {[min_net |-> 0, max_qty |-> 4, max_notional |-> 9],
     [min_net |-> 0, max_qty |-> 3, max_notional |-> 4]}

=============================================================================
