----------------------------- MODULE KalshiFeed -----------------------------
(***************************************************************************)
(* The streamed venue: the Kalshi socket and its reconnect loop            *)
(* (src/arb/ws.py, venues/kalshi/source.py), the adapter that watches the  *)
(* sequence numbers (venues/kalshi/adapter.py), the server's consume task, *)
(* the universe change of the control plane, and the book manager they     *)
(* feed.                                                                   *)
(*                                                                         *)
(* The venue is external: it answers a subscribe with one snapshot per     *)
(* market, then sends a delta for every change, all numbered from 1 by one *)
(* counter per connection.  A frame it numbers may be lost or arrive       *)
(* unparsable; frames that arrive are in order.                            *)
(*                                                                         *)
(* A connection may outlive any bound: after MaxSeq the numbers fold back  *)
(* to 2, which to the adapter is a number that is no gap, like the next    *)
(* one.  No frame is lost at the fold.                                     *)
(***************************************************************************)
EXTENDS BookManager, Sequences, FiniteSets

CONSTANTS
    Kalshi,        \* the venue
    VenueStates,   \* per market, the [bids, asks] ladders it goes through
    MaxSeq,        \* bound: sequence numbers of a connection fold at it
    MaxLink,       \* bound: no delta is sent while more frames are in flight
    MaxFaults,     \* bound on lost and unparsable frames and network drops
    MaxChanges,    \* bound on the changes of the subscription
    LossAtStart    \* may the first frame of a connection be the one lost?

ASSUME FeedAssumption ==
    /\ Kalshi \in Venues
    /\ IsFiniteSet(Markets)
    /\ \A m \in Markets : /\ VenueOf[m] = Kalshi
                           /\ VenueStates[m] \subseteq [bids : Ladder, asks : Ladder]
    /\ {MaxSeq, MaxLink, MaxFaults, MaxChanges} \subseteq Nat
    /\ MaxSeq > 2
    /\ LossAtStart \in BOOLEAN

VARIABLES
    tickers,     \* the source's subscription, taken up at the next connect
    conn,        \* "down", "open", or "closed": closed here, still readable
    lastSeq,     \* the adapter's last sequence number, kept across connections
    link,        \* frames on their way to the client
    truth,       \* the venue's own ladders
    venueSeq,    \* the last number the venue gave out on this connection
    due,         \* subscribed markets whose snapshot is still to be sent
    served,      \* subscribed markets whose snapshot was sent
    faults, changes,
    \* History variables, reset with every connection:
    asOf,        \* the venue's ladders when the last frame applied was sent
    snapped,     \* markets whose snapshot was applied
    hurt         \* was a frame lost or unparsable?

clientVars == <<tickers, conn, lastSeq>>
venueVars == <<link, truth, venueSeq, due, served>>
countVars == <<faults, changes>>
historyVars == <<asOf, snapped, hurt>>
feedVars == <<vars, clientVars, venueVars, countVars, historyVars>>

Truths == {t \in [Markets -> UNION {VenueStates[m] : m \in Markets}] :
              \A m \in Markets : t[m] \in VenueStates[m]}

FeedTypeOK ==
    /\ TypeOK
    /\ tickers \in SUBSET Markets \ {{}}
    /\ conn \in {"down", "open", "closed"}
    /\ lastSeq \in 1 .. MaxSeq \cup {None}
    /\ Len(link) <= MaxLink + 1 + Cardinality(Markets)
    /\ truth \in Truths
    /\ venueSeq \in 0 .. MaxSeq
    /\ due \subseteq Markets /\ served \subseteq Markets \ due
    /\ faults \in 0 .. MaxFaults /\ changes \in 0 .. MaxChanges
    /\ asOf \in Truths \cup {None}
    /\ snapped \subseteq Markets
    /\ hurt \in BOOLEAN

FeedInit ==
    /\ Init
    /\ tickers \in SUBSET Markets \ {{}}
    /\ conn = "down"
    /\ lastSeq = None
    /\ link = <<>>
    /\ truth \in Truths
    /\ venueSeq = 0 /\ due = {} /\ served = {}
    /\ faults = 0 /\ changes = 0
    /\ asOf = None /\ snapped = {} /\ hurt = FALSE

-----------------------------------------------------------------------------
(* The venue *)

NextSeq == IF venueSeq = MaxSeq THEN 2 ELSE venueSeq + 1

\* Loss is possible at the start of a connection or away from it, as the
\* constant says, and never next to the fold of the numbers.
MayFail(seq) ==
    /\ faults < MaxFaults
    /\ IF seq = 1 THEN LossAtStart ELSE seq \in 3 .. (MaxSeq - 1)

Shown(ladder) == {p \in ValidPrices : ladder[p] > 0}
LevelsOf(ladder) == [p \in Shown(ladder) |-> ladder[p]]

SnapshotOf(l) ==
    [bids |-> LevelsOf(l.bids), asks |-> LevelsOf(l.asks), seq |-> None]

Frame(m, kind, body, t) ==
    [seq |-> NextSeq, market |-> m, kind |-> kind, body |-> body, truth |-> t]

\* The venue numbers frame f, which arrives, is lost or arrives unparsable.
Send(f) ==
    /\ venueSeq' = NextSeq
    /\ \/ link' = Append(link, f) /\ UNCHANGED <<faults, hurt>>
       \/ /\ MayFail(NextSeq)
          /\ \/ UNCHANGED link
             \/ link' = Append(link, [f EXCEPT !.kind = "unparsable"])
          /\ faults' = faults + 1
          /\ hurt' = TRUE

VenueSnapshot(m) ==
    /\ conn = "open" /\ m \in due
    /\ Send(Frame(m, "snapshot", SnapshotOf(truth[m]), truth))
    /\ due' = due \ {m}
    /\ served' = served \cup {m}
    /\ UNCHANGED <<truth, vars, clientVars, changes, asOf, snapped>>

\* Ladders l after a delta.
Moved(l, u) ==
    IF u.side = "bid" THEN [l EXCEPT !.bids[u.price] = @ + u.qty]
                      ELSE [l EXCEPT !.asks[u.price] = @ + u.qty]

Deltas == [side : Sides, price : ValidPrices, mode : {"delta"},
           qty : {-1, 1}, seq : {None}]

\* The delta that takes ladders l to l2, for every pair one level apart.
DeltasOf(l, l2) == {u \in Deltas : l2 = Moved(l, u)}

\* The market moves.  Only a subscribed market that has been sent its
\* snapshot has the change sent.
VenueMove(m) ==
    /\ \E l \in VenueStates[m] : \E u \in DeltasOf(truth[m], l) :
          /\ truth' = [truth EXCEPT ![m] = l]
          /\ IF conn = "open" /\ m \in served
             THEN Len(link) <= MaxLink /\ Send(Frame(m, "level", u, truth'))
             ELSE UNCHANGED <<link, venueSeq, faults, hurt>>
    /\ UNCHANGED <<due, served, vars, clientVars, changes, asOf, snapped>>

-----------------------------------------------------------------------------
(* The socket *)

\* A dial that succeeds, and the resubscribe that follows it at once, with
\* whatever the ticker set is by then.
Dial ==
    /\ conn = "down"
    /\ conn' = "open"
    /\ due' = tickers
    /\ venueSeq' = 0 /\ served' = {} /\ link' = <<>>
    /\ UNCHANGED <<truth, tickers, lastSeq, vars, countVars, historyVars>>

\* The loop leaves the connection: whatever was still to be read is gone.
LeaveConnection ==
    /\ conn' = "down"
    /\ link' = <<>> /\ due' = {} /\ served' = {} /\ venueSeq' = 0
    /\ asOf' = None /\ snapped' = {} /\ hurt' = FALSE
    /\ UNCHANGED <<truth, tickers, lastSeq, vars, changes>>

\* The read after a close of ours raises, at once or after buffered frames.
Teardown == conn = "closed" /\ LeaveConnection /\ UNCHANGED faults

\* No frame for stall_timeout_s: assume the connection is half open.
Stall == conn = "open" /\ link = <<>> /\ due = {} /\ LeaveConnection
            /\ UNCHANGED faults

NetworkDrop ==
    /\ conn = "open"
    /\ faults < MaxFaults
    /\ faults' = faults + 1
    /\ LeaveConnection

\* Mutant: the gap is reported and the connection kept.
CloseNever(c) == c

\* force_reconnect: closes the live connection, if there is one.
Close(c) == IF c = "open" THEN "closed" ELSE c

-----------------------------------------------------------------------------
(* The consume task and the adapter *)

\* Mutants: one missing frame is no gap; a restart of the numbers is one.
GapOfTwo(seq) == lastSeq # None /\ seq > lastSeq + 2
GapAnyJump(seq) == lastSeq # None /\ seq # lastSeq + 1

\* A number at or below the last one is a new subscription, not a gap.
Gap(seq) == lastSeq # None /\ seq > lastSeq + 1

\* One frame: parsed (an unparsable one is counted and dropped before its
\* number is looked at), applied behind a venue-wide resync if there was a
\* gap, and the reconnect forced.
Consume ==
    /\ conn \in {"open", "closed"}
    /\ link # <<>>
    /\ link' = Tail(link)
    /\ LET f == Head(link)
       IN  IF f.kind = "unparsable"
           THEN UNCHANGED <<vars, lastSeq, conn, asOf, snapped>>
           ELSE /\ Apply([resync |-> Gap(f.seq), market |-> f.market,
                          kind |-> f.kind, body |-> f.body])
                /\ lastSeq' = f.seq
                /\ conn' = IF Gap(f.seq) THEN Close(conn) ELSE conn
                /\ asOf' = f.truth
                /\ snapped' = IF f.kind = "snapshot"
                              THEN snapped \cup {f.market} ELSE snapped
    /\ UNCHANGED <<tickers, truth, venueSeq, due, served, countVars, hurt>>

\* universe.kalshi: the set is swapped, the dropped books are evicted and
\* the reconnect that makes the new set take effect is forced.
SetTickers(new) ==
    /\ changes < MaxChanges
    /\ new # tickers
    /\ tickers' = new
    /\ Retain(new, Kalshi)
    /\ conn' = Close(conn)
    /\ changes' = changes + 1
    /\ UNCHANGED <<lastSeq, venueVars, faults, historyVars>>

-----------------------------------------------------------------------------

FeedNext ==
    \/ \E m \in Markets : VenueSnapshot(m) \/ VenueMove(m)
    \/ Dial
    \/ Teardown
    \/ Stall
    \/ NetworkDrop
    \/ Consume
    \/ \E new \in SUBSET Markets \ {{}} : SetTickers(new)

FeedSpec == FeedInit /\ [][FeedNext]_feedVars

\* The client's loops run; a dial succeeds in the end; the venue answers a
\* subscribe with its snapshots; a silent socket is noticed.  Nothing is
\* assumed of the market, the network or the operator.
Fairness ==
    /\ WF_feedVars(Dial) /\ WF_feedVars(Teardown) /\ WF_feedVars(Stall)
    /\ WF_feedVars(Consume)
    /\ \A m \in Markets : WF_feedVars(VenueSnapshot(m))

FairFeedSpec == FeedSpec /\ Fairness

-----------------------------------------------------------------------------
(* Properties *)

Trusted(m) == m \in DOMAIN books /\ books[m].invalid = "ok"

\* A book no fault is recorded against shows exactly the ladders the venue
\* had when it sent the last frame we applied, whatever was lost and however
\* the connection came and went: gap detection is per subscription, so this
\* covers the markets whose frames were not the lost ones.
TrustedBooksAreExact ==
    /\ FeedTypeOK
    /\ \A m \in snapped : Trusted(m) =>
          books[m].bids = asOf[m].bids /\ books[m].asks = asOf[m].asks

\* The client breaks off a connection over a gap only when something was
\* really lost on it: a number that restarts at 1 after a reconnect is not a
\* gap (the reconnect loop docs/decisions.md describes).
NoSpuriousResync ==
    [][(conn = "open" /\ conn' = "closed" /\ tickers' = tickers) => hurt]_feedVars

\* Every subscribed market whose book is missing or faulty gets a trusted
\* book again.
BooksRecover ==
    \A m \in Markets :
        (m \in tickers /\ ~ Trusted(m)) ~> (Trusted(m) \/ m \notin tickers)

\* evict: a book whose market is no longer subscribed does not stay for ever.
DroppedBooksGo ==
    \A m \in Markets :
        (m \in DOMAIN books /\ m \notin tickers)
            ~> (m \notin DOMAIN books \/ m \in tickers)

=============================================================================
