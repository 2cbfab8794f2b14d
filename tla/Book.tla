-------------------------------- MODULE Book --------------------------------
(***************************************************************************)
(* One market's normalized YES order book (src/arb/book.py): a bid and an  *)
(* ask ladder, the last sequence number adopted, the time of the last      *)
(* update and the structural fault that makes it invalid, if any.          *)
(*                                                                         *)
(* A ladder is a function from the valid prices to the quantity resting    *)
(* there; the dictionary of the code holds only the prices whose quantity  *)
(* is positive, so an absent price is a zero here.  Times are instants of  *)
(* the monotonic clock the callers pass in.                                *)
(***************************************************************************)
EXTENDS Scales

CONSTANT None   \* Python's None: no sequence number, no time

ASSUME BookAssumption == None \notin Int

Sides == {"bid", "ask"}

\* The reasons only a fresh snapshot clears.  "ok" stands for no reason.
Structural == {"no_snapshot", "seq_gap", "crossed", "bad_level"}

Ladder == [ValidPrices -> Nat]

NoLevels == [p \in ValidPrices |-> 0]

BookRecord ==
    [bids    : Ladder,
     asks    : Ladder,
     seq     : Nat \cup {None},
     time    : Nat \cup {None},
     invalid : Structural \cup {"ok"},
     limit   : Nat]

NewBook(limit) ==
    [bids |-> NoLevels, asks |-> NoLevels, seq |-> None, time |-> None,
     invalid |-> "no_snapshot", limit |-> limit]

\* A locked book (best bid equal to best ask) counts as crossed.
Crossed(b) ==
    \E p, q \in ValidPrices : b.bids[p] > 0 /\ b.asks[q] > 0 /\ p >= q

NeedsResync(b) == b.invalid \in Structural

Invalidate(b, reason) == [b EXCEPT !.invalid = reason]

\* Mutant: a crossed book passes for a sound one.
CheckCrossedSkipped(b) == b

CheckCrossed(b) == IF Crossed(b) THEN Invalidate(b, "crossed") ELSE b

-----------------------------------------------------------------------------
(* Snapshots.  An adapter hands over levels as functions from the quoted   *)
(* prices, valid or not, to their quantities.                              *)

BadLevels(levels) ==
    \E p \in DOMAIN levels : p \notin ValidPrices \/ levels[p] <= 0

LadderOf(levels) ==
    [p \in ValidPrices |-> IF p \in DOMAIN levels THEN levels[p] ELSE 0]

\* Every ladder is replaced at once and any invalidation cleared, unless a
\* level is bad: then the old ladders, sequence and time stay as they were.
ApplySnapshot(b, snap, now) ==
    IF BadLevels(snap.bids) \/ BadLevels(snap.asks)
    THEN Invalidate(b, "bad_level")
    ELSE CheckCrossed([b EXCEPT !.bids = LadderOf(snap.bids),
                                !.asks = LadderOf(snap.asks),
                                !.seq = snap.seq,
                                !.time = now,
                                !.invalid = "ok"])

-----------------------------------------------------------------------------
(* Level updates: "set" carries the new quantity, "delta" a signed change. *)

SeqGap(b, u) == u.seq # None /\ b.seq # None /\ u.seq # b.seq + 1

\* The book after the update's sequence number is accepted.
AdoptSeq(b, u) == IF u.seq = None THEN b ELSE [b EXCEPT !.seq = u.seq]

SideOf(b, side) == IF side = "bid" THEN b.bids ELSE b.asks

NewQty(b, u) ==
    IF u.mode = "set" THEN u.qty ELSE SideOf(b, u.side)[u.price] + u.qty

SetLevel(b, side, price, qty, now) ==
    IF side = "bid" THEN [b EXCEPT !.bids[price] = qty, !.time = now]
                    ELSE [b EXCEPT !.asks[price] = qty, !.time = now]

\* Ignored while the book is invalid.  A gap is noticed before the price is
\* looked at, and the new sequence number is adopted before a bad level is.
ApplyLevel(b, u, now) ==
    IF b.invalid # "ok" THEN b
    ELSE IF SeqGap(b, u) THEN Invalidate(b, "seq_gap")
    ELSE IF u.price \notin ValidPrices \/ NewQty(b, u) < 0
         THEN Invalidate(AdoptSeq(b, u), "bad_level")
    ELSE CheckCrossed(
             SetLevel(AdoptSeq(b, u), u.side, u.price, NewQty(b, u), now))

-----------------------------------------------------------------------------

\* A valid book may still be stale: computed at query time, never stored.
Status(b, now) ==
    IF b.invalid # "ok" THEN b.invalid
    ELSE IF now - b.time > b.limit THEN "stale"
    ELSE "ok"

=============================================================================
