---------------------------- MODULE MCKalshiFeed ----------------------------
(***************************************************************************)
(* Two markets in one subscription, at one price: k1 is empty, bid or      *)
(* offered there, k2 empty or bid.  A lost delta can leave a book crossed   *)
(* (the lost one removed the bid, the next one adds an ask), below zero,   *)
(* or showing a level nobody offers.                                       *)
(***************************************************************************)
EXTENDS KalshiFeed, TLC

CONSTANTS k1, k2

MCVenueOf == [m \in {k1, k2} |-> Kalshi]

At1(n) == [p \in {1} |-> n]

Empty   == [bids |-> At1(0), asks |-> At1(0)]
Bid     == [bids |-> At1(1), asks |-> At1(0)]
Offered == [bids |-> At1(0), asks |-> At1(1)]

MCVenueStates == (k1 :> {Empty, Bid, Offered}) @@ (k2 :> {Empty, Bid})

=============================================================================
