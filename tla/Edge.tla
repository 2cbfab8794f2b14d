-------------------------------- MODULE Edge --------------------------------
(***************************************************************************)
(* The depth-aware edge of one pair in one direction (src/arb/edge.py):    *)
(* lift the YES asks of one market, hit the YES bids of the other, level   *)
(* by level, and stop at the first fill that does not cover its own fees.  *)
(*                                                                         *)
(* A ladder is a function from prices to quantities, as in Book.  Fields   *)
(* ending in tq count ticks per contract times quantity units.             *)
(***************************************************************************)
EXTENDS Book, Sequences, FiniteSetsExt

CONSTANT Fee(_, _, _)   \* what a market charges for a quantity at a price

Shown(ladder) == {p \in ValidPrices : ladder[p] > 0}

Less(ladder, p, qty) == [ladder EXCEPT ![p] = @ - qty]

\* The best ask against the best bid, as much as the smaller of them holds.
BestFill(asks, bids) ==
    LET ask == Min(Shown(asks))
        bid == Max(Shown(bids))
    IN  [ask |-> ask, bid |-> bid, take |-> Min({asks[ask], bids[bid]})]

\* _walk: best fill by best fill, until a side runs out.
Walk(asks, bids) ==
    LET fills[l \in Ladder \X Ladder] ==
            IF Shown(l[1]) = {} \/ Shown(l[2]) = {} THEN <<>>
            ELSE LET f == BestFill(l[1], l[2])
                 IN  <<f>> \o fills[<<Less(l[1], f.ask, f.take),
                                      Less(l[2], f.bid, f.take)>>]
    IN  fills[<<asks, bids>>]

FillFees(f, a, b) == Fee(a, f.take, f.ask) + Fee(b, f.take, f.bid)

Covers(f, a, b) ==
    (f.bid - f.ask) * f.take > FillFees(f, a, b) * QtyPerContract

\* Mutant: the walk stops after the fill that loses, not before.
KeptOneMore(fills, a, b) ==
    LET bad == {i \in DOMAIN fills : ~ Covers(fills[i], a, b)}
    IN  IF bad = {} THEN fills ELSE SubSeq(fills, 1, Min(bad))

\* The fills before the first that does not cover its fees.
Kept(fills, a, b) ==
    LET bad == {i \in DOMAIN fills : ~ Covers(fills[i], a, b)}
    IN  IF bad = {} THEN fills ELSE SubSeq(fills, 1, Min(bad) - 1)

SumOver(fills, Of(_)) == SumFunction([i \in DOMAIN fills |-> Of(fills[i])])

\* YES bought off the asks of a and NO off the bids of b.  The two legs pay
\* a dollar per contract: YES at the ask, NO at what is left of the dollar
\* above the bid.
ComputeDirection(asks, a, bids, b) ==
    LET kept == Kept(Walk(asks, bids), a, b)
        gross == SumOver(kept, LAMBDA f : (f.bid - f.ask) * f.take)
        fees == SumOver(kept, LAMBDA f : FillFees(f, a, b))
    IN  [qty |-> SumOver(kept, LAMBDA f : f.take),
         gross_tq |-> gross,
         fee_ticks |-> fees,
         net_tq |-> gross - fees * QtyPerContract,
         cost_a_tq |-> SumOver(kept, LAMBDA f : f.ask * f.take),
         cost_b_tq |-> SumOver(kept, LAMBDA f : (TicksPerDollar - f.bid) * f.take)]

NetPerContract(q) == IF q.qty = 0 THEN 0 ELSE q.net_tq \div q.qty

\* Both directions, of the ladders la of a and lb of b: YES on a and NO on
\* b, then YES on b and NO on a.
BestEdge(la, a, lb, b) ==
    [yes_a_no_b |-> ComputeDirection(la.asks, a, lb.bids, b),
     yes_b_no_a |-> ComputeDirection(lb.asks, b, la.bids, a)]

=============================================================================
