-------------------------------- MODULE Fees --------------------------------
(***************************************************************************)
(* The venues' taker and maker fees in exact integers (src/arb/fees.py).   *)
(* A quantity counts units of which QtyPerContract make a contract, and a  *)
(* price and a fee count ticks.  Rates are fractions given as numerator    *)
(* and denominator.                                                        *)
(***************************************************************************)
EXTENDS Scales

CONSTANTS MicrosPerTick,   \* Kalshi rounds to the millionth of a dollar first
          TicksPerCent     \* Polymarket US rounds to the cent

ASSUME FeesAssumption ==
    /\ MicrosPerTick \in Nat \ {0}
    /\ TicksPerCent \in Nat \ {0}

\* Half to even; \div rounds down, so the remainder is never negative.
HalfEvenDiv(n, d) ==
    LET low == n \div d
        rest == 2 * (n % d)
    IN  IF rest < d \/ (rest = d /\ low % 2 = 0) THEN low ELSE low + 1

\* C * P * (1 - P), times TicksPerDollar^2 * QtyPerContract.
CP1MP(qty, price) == qty * price * (TicksPerDollar - price)

\* The maker's share of the taker coefficient, by the series' fee type.
MakerMult(feeType) ==
    CASE feeType = "quadratic_with_maker_fees"       -> [num |-> 1, den |-> 4]
      [] feeType = "quadratic_with_combo_maker_fees" -> [num |-> 1, den |-> 2]
      [] OTHER                                       -> [num |-> 0, den |-> 1]

Times(r, s) == [num |-> r.num * s.num, den |-> r.den * s.den]

KalshiTakerCoeff == [num |-> 7, den |-> 100]

\* Up to the next millionth, then up to the next tick.
KalshiFee(qty, price, taker, feeType, multiplier) ==
    LET taken == Times(KalshiTakerCoeff, multiplier)
        coeff == IF taker THEN taken ELSE Times(taken, MakerMult(feeType))
        micros == CeilDiv(coeff.num * CP1MP(qty, price) * MicrosPerTick,
                          coeff.den * QtyPerContract * TicksPerDollar)
    IN  CeilDiv(micros, MicrosPerTick)

PolymarketMakerCoeff == [num |-> -125, den |-> 10000]

PolymarketFee(qty, price, taker, feeCoefficient) ==
    LET theta == IF taker THEN feeCoefficient ELSE PolymarketMakerCoeff
    IN  TicksPerCent *
           HalfEvenDiv(theta.num * CP1MP(qty, price),
                       theta.den * QtyPerContract * TicksPerDollar * TicksPerCent)

=============================================================================
