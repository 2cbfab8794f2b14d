----------------------------- MODULE BookManager -----------------------------
(***************************************************************************)
(* The book manager (src/arb/books.py): one book per market, created       *)
(* lazily, fed by the events the adapters produce, retuned and evicted by  *)
(* the control plane.                                                      *)
(*                                                                         *)
(* Each public method is one action, because none of them awaits.  An      *)
(* adapter turns one message into at most a venue-wide ResyncRequired      *)
(* followed by one snapshot or level update of one market, so that is the  *)
(* batch the action Apply takes.                                           *)
(***************************************************************************)
EXTENDS Book

CONSTANTS Markets, Venues,
          VenueOf,       \* the venue prefix of a market id
          DefaultLimit,  \* staleness budget of a venue nobody tuned
          Limits,        \* the budgets set_venue_staleness is called with
          Batches,       \* the calls of apply the adapters may make
          MaxQty,        \* bound: no update takes a level above it
          MaxNow         \* bound on the monotonic clock

ASSUME ManagerAssumption ==
    /\ VenueOf \in [Markets -> Venues]
    /\ DefaultLimit \in Nat \ {0}
    /\ Limits \subseteq Nat \ {0}
    /\ \A e \in Batches :
          /\ e.resync \in BOOLEAN
          /\ e.market \in Markets
          /\ e.kind \in {"snapshot", "level"}
          /\ e.body.seq \in Nat \cup {None}
          /\ e.kind = "snapshot" =>
                /\ \A p \in DOMAIN e.body.bids : e.body.bids[p] \in Int
                /\ \A p \in DOMAIN e.body.asks : e.body.asks[p] \in Int
          /\ e.kind = "level" =>
                /\ e.body.side \in Sides
                /\ e.body.mode \in {"set", "delta"}
                /\ e.body.qty \in Int

VARIABLES
    books,       \* market id -> book, for the markets that have one
    venueLimit,  \* the budget set for a venue, None while it has the default
    lastApply,   \* market id -> time of the last event applied to its book
    changed,     \* what the last call returned: the market ids it names
    now          \* the monotonic clock

vars == <<books, venueLimit, lastApply, changed, now>>

TypeOK ==
    /\ DOMAIN books \subseteq Markets
    /\ books \in [DOMAIN books -> BookRecord]
    /\ venueLimit \in [Venues -> Limits \cup {None}]
    /\ DOMAIN lastApply \subseteq Markets
    /\ lastApply \in [DOMAIN lastApply -> Nat]
    /\ changed \subseteq Markets
    /\ now \in Nat

NoMarkets == [m \in {} |-> None]

Init ==
    /\ books = NoMarkets
    /\ venueLimit = [v \in Venues |-> None]
    /\ lastApply = NoMarkets
    /\ changed = {}
    /\ now = 0

-----------------------------------------------------------------------------

OfVenue(v) == {m \in DOMAIN books : VenueOf[m] = v}

LimitFor(m) ==
    IF venueLimit[VenueOf[m]] = None THEN DefaultLimit
                                     ELSE venueLimit[VenueOf[m]]

\* ResyncRequired(v, None): every book of the venue is tainted.
Tainted(v) ==
    [m \in DOMAIN books |->
        IF m \in OfVenue(v) THEN Invalidate(books[m], "seq_gap") ELSE books[m]]

\* Mutant: a new book is given the default whatever its venue was tuned to.
OpenedUntuned(bs, m) ==
    [x \in DOMAIN bs \cup {m} |->
        IF x \in DOMAIN bs THEN bs[x] ELSE NewBook(DefaultLimit)]

\* The books bs with one for m, created if there was none.
Opened(bs, m) ==
    [x \in DOMAIN bs \cup {m} |->
        IF x \in DOMAIN bs THEN bs[x] ELSE NewBook(LimitFor(m))]

\* Mutant: the snapshot that mends a book is taken for a skipped event.
SkippedByBook(b, e) == NeedsResync(b)

\* A level update for a book that needs a resync is skipped altogether.
Skipped(b, e) == e.kind = "level" /\ NeedsResync(b)

Updated(b, e) ==
    IF e.kind = "snapshot" THEN ApplySnapshot(b, e.body, now)
    ELSE IF NeedsResync(b) THEN b
    ELSE ApplyLevel(b, e.body, now)

At(f, m, x) == [y \in DOMAIN f \cup {m} |-> IF y = m THEN x ELSE f[y]]

Removed(f, S) == [m \in DOMAIN f \ S |-> f[m]]

\* apply(events): e.resync says whether a ResyncRequired precedes the event.
Apply(e) ==
    LET m      == e.market
        before == Opened(IF e.resync THEN Tainted(VenueOf[m]) ELSE books, m)
        skip   == Skipped(before[m], e)
    IN  /\ books' = [before EXCEPT ![m] = Updated(@, e)]
        /\ lastApply' = IF skip THEN lastApply ELSE At(lastApply, m, now)
        /\ changed' = (IF e.resync THEN OfVenue(VenueOf[m]) ELSE {})
                         \cup (IF skip THEN {} ELSE {m})
        /\ UNCHANGED <<venueLimit, now>>

\* The budget applies to the books that already exist and to later ones.
SetVenueStaleness(v, limit) ==
    /\ venueLimit' = [venueLimit EXCEPT ![v] = limit]
    /\ books' = [m \in DOMAIN books |->
                    IF m \in OfVenue(v) THEN [books[m] EXCEPT !.limit = limit]
                                        ELSE books[m]]
    /\ changed' = OfVenue(v)
    /\ UNCHANGED <<lastApply, now>>

Evict(S) ==
    /\ books' = Removed(books, S)
    /\ lastApply' = Removed(lastApply, S)
    /\ changed' = S \cap DOMAIN books
    /\ UNCHANGED <<venueLimit, now>>

\* retain(keep, venue=v): evict the venue's books that are not kept.
Retain(keep, v) == Evict(OfVenue(v) \ keep)

Tick ==
    /\ now < MaxNow
    /\ now' = now + 1
    /\ changed' = {}
    /\ UNCHANGED <<books, venueLimit, lastApply>>

-----------------------------------------------------------------------------

ExceedsMaxQty(e) ==
    /\ e.kind = "level"
    /\ e.market \in DOMAIN books
    /\ e.body.price \in ValidPrices
    /\ NewQty(books[e.market], e.body) > MaxQty

Next ==
    \/ \E e \in Batches : ~ ExceedsMaxQty(e) /\ Apply(e)
    \/ \E v \in Venues, limit \in Limits : SetVenueStaleness(v, limit)
    \/ \E v \in Venues, keep \in SUBSET Markets : Retain(keep, v)
    \/ Tick

Spec == Init /\ [][Next]_vars

-----------------------------------------------------------------------------
(* Properties *)

NoNegative(b) == \A p \in ValidPrices : b.bids[p] >= 0 /\ b.asks[p] >= 0

Sound(b) == b.invalid = "ok" => b.time # None /\ ~ Crossed(b) /\ NoNegative(b)

\* A book that claims no structural fault has had a snapshot (the assertion
\* in Book.status), is not crossed and holds no negative level, whatever the
\* order in which snapshots, updates, resyncs, retunings and evictions came.
ValidBookIsSound == \A m \in DOMAIN books : Sound(books[m])

\* Every live book is judged against the budget its venue has now, however
\* creation, retuning and eviction interleave: the flapping-STALE bug that
\* set_venue_staleness describes.
LimitsAgree == \A m \in DOMAIN books : books[m].limit = LimitFor(m)

\* The time the UI shows for a market is never older than the last change to
\* its book, and no time survives the eviction of the book.
ApplyTimesAgree ==
    /\ DOMAIN lastApply \subseteq DOMAIN books
    /\ \A m \in DOMAIN books :
          books[m].time # None => /\ m \in DOMAIN lastApply
                                  /\ books[m].time <= lastApply[m]
                                  /\ lastApply[m] <= now

\* No call alters or removes a book without naming it in the set it returns,
\* which is all the server re-publishes from (mark_dirty).
ChangesAreReported ==
    [][\A m \in DOMAIN books :
          (m \notin DOMAIN books' \/ books'[m] # books[m]) => m \in changed']_vars

=============================================================================
