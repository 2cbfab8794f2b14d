------------------------------- MODULE Scales -------------------------------
(***************************************************************************)
(* The integer scales of the system (src/arb/types.py): a price or a fee   *)
(* counts ticks, a quantity counts units of a fraction of a contract.      *)
(***************************************************************************)
EXTENDS Integers

CONSTANTS TicksPerDollar, QtyPerContract

ASSUME ScaleAssumption ==
    /\ TicksPerDollar \in Nat \ {0}
    /\ QtyPerContract \in Nat \ {0}

\* A contract pays a dollar or nothing: a price lies strictly between.
ValidPrices == 1 .. (TicksPerDollar - 1)

\* Mutant: rounding in the trader's favour.
FloorDiv(n, d) == n \div d

\* Fees, and the cost and the fee of a paper trade, round up.
CeilDiv(n, d) == -((-n) \div d)

=============================================================================
