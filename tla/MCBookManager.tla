---------------------------- MODULE MCBookManager ----------------------------
(***************************************************************************)
(* Two venues with one market each, prices 1 and 2, quantities up to 1:    *)
(* enough for a ladder to cross, to lose a level and to go negative.        *)
(***************************************************************************)
EXTENDS Replay, TLC

CONSTANTS k, p, kalshi, polymarket_us

MCVenueOf == (k :> kalshi) @@ (p :> polymarket_us)

Levels(S) == [x \in S |-> 1]

Snap(bids, asks, seq) == [bids |-> Levels(bids), asks |-> Levels(asks), seq |-> seq]

Batch(resync, market, kind, body) ==
    [resync |-> resync, market |-> market, kind |-> kind, body |-> body]

Upd(side, price, qty, mode, seq) ==
    [side |-> side, price |-> price, qty |-> qty, mode |-> mode, seq |-> seq]

\* The streamed venue: two sound snapshots (one sequenced), a locked
\* one, one with a price out of range and one with an empty level;
\* deltas on every price, and sequenced updates that set a level.
Streamed ==
    {Batch(FALSE, k, "snapshot", s) : s \in
        {Snap({1}, {2}, None), Snap({1}, {}, 1),
         Snap({2}, {2}, None), Snap({0, 1}, {}, None),
         [bids |-> [x \in {1} |-> 0], asks |-> Levels({2}), seq |-> None]}}
    \cup {Batch(resync, k, "level", Upd(side, price, qty, "delta", None)) :
            resync \in BOOLEAN, side \in Sides, price \in {1, 2}, qty \in {-1, 1}}
    \cup {Batch(FALSE, k, "level", u) : u \in
            {Upd("bid", 2, 1, "set", 2), Upd("bid", 1, 0, "set", 3),
             Upd("ask", 3, 1, "set", None)}}

\* The polled venue: unsequenced snapshots only, a sound and a crossed one.
Polled ==
    {Batch(FALSE, p, "snapshot", s) : s \in
        {Snap({}, {2}, None), Snap({2}, {1}, None)}}

\* The default for the stream, a longer one for what is polled.
MCReplayLimits == (kalshi :> None) @@ (polymarket_us :> 2)

MCBatches == Streamed \cup Polled

=============================================================================
