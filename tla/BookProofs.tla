----------------------------- MODULE BookProofs -----------------------------
(***************************************************************************)
(* The order books and what feeds them.                                    *)
(*                                                                         *)
(* The book manager's type invariant and its safety properties, for every  *)
(* set of markets and venues, every number of ticks, every budget and      *)
(* every set of batches the adapters may deliver: the lemmas say what each *)
(* mutator of one book returns, the theorems lift them to the manager.     *)
(*                                                                         *)
(* The streamed feed, for every set of markets and ladders, every number   *)
(* of faults and every bound: books nothing is recorded against are exact, *)
(* and a connection is broken off only over a loss.                        *)
(*                                                                         *)
(* The recorder's type invariant, its drain promise and its implementation *)
(* of RawLog, for every queue and batch size, with and without ambiguous   *)
(* commits, for any number of messages and failures.  The implementation   *)
(* is proved of the runs in which no batch fails so often that its delay   *)
(* overflows; the other theorems of every run.                             *)
(*                                                                         *)
(* The archive read back, for every row: the replay rebuilds the books.    *)
(***************************************************************************)
EXTENDS KalshiFeed, Recorder, Replay, FiniteSetTheorems, SequenceTheorems, TLAPS

\* A batch's body has the types the mutators of Book expect.
SnapBody(s) ==
    /\ s.seq \in Nat \cup {None}
    /\ \A x \in DOMAIN s.bids : s.bids[x] \in Int
    /\ \A x \in DOMAIN s.asks : s.asks[x] \in Int

LevelBody(u) ==
    /\ u.seq \in Nat \cup {None}
    /\ u.qty \in Int
    /\ u.side \in Sides
    /\ u.mode \in {"set", "delta"}

\* The events an adapter may hand to apply, as ManagerAssumption has them.
EventOK(e) ==
    /\ e.resync \in BOOLEAN
    /\ e.market \in Markets
    /\ e.kind \in {"snapshot", "level"}
    /\ e.kind = "snapshot" => SnapBody(e.body)
    /\ e.kind = "level" => LevelBody(e.body)

LEMMA BatchesAreEvents == \A e \in Batches : EventOK(e)
BY ManagerAssumption DEF EventOK, SnapBody, LevelBody

\* Invalidating a book changes its reason only.
LEMMA InvalidateLemma ==
    ASSUME NEW b \in BookRecord, NEW r \in Structural
    PROVE  /\ Invalidate(b, r) \in BookRecord
           /\ Invalidate(b, r).limit = b.limit
           /\ Invalidate(b, r).time = b.time
           /\ Invalidate(b, r).invalid = r
           /\ Sound(Invalidate(b, r))
BY DEF BookRecord, Structural, Invalidate, Sound

\* A ladder built from levels none of which is bad.
LEMMA LadderOfType ==
    ASSUME NEW levels,
           \A x \in DOMAIN levels : levels[x] \in Int,
           ~ BadLevels(levels)
    PROVE  LadderOf(levels) \in Ladder
BY ScaleAssumption DEF LadderOf, Ladder, BadLevels, ValidPrices

\* The crossed check that ends both mutators leaves a sound book.
LEMMA CheckCrossedLemma ==
    ASSUME NEW b \in BookRecord, b.time # None
    PROVE  /\ CheckCrossed(b) \in BookRecord
           /\ CheckCrossed(b).limit = b.limit
           /\ CheckCrossed(b).time = b.time
           /\ Sound(CheckCrossed(b))
<1>1. CASE Crossed(b)
  BY <1>1, InvalidateLemma DEF CheckCrossed, Structural
<1>2. CASE ~ Crossed(b)
  BY <1>2 DEF CheckCrossed, Sound, NoNegative, BookRecord, Ladder
<1> QED BY <1>1, <1>2

\* apply_snapshot: the outcome is a sound book whose time is the old one
\* (a bad level) or now.
LEMMA ApplySnapshotLemma ==
    ASSUME NEW b \in BookRecord, NEW s, SnapBody(s), NEW t \in Nat
    PROVE  /\ ApplySnapshot(b, s, t) \in BookRecord
           /\ ApplySnapshot(b, s, t).limit = b.limit
           /\ ApplySnapshot(b, s, t).time \in {b.time, t}
           /\ Sound(ApplySnapshot(b, s, t))
<1>1. CASE BadLevels(s.bids) \/ BadLevels(s.asks)
  BY <1>1, InvalidateLemma DEF ApplySnapshot, Structural
<1>2. CASE ~ (BadLevels(s.bids) \/ BadLevels(s.asks))
  <2> DEFINE n == [b EXCEPT !.bids = LadderOf(s.bids),
                            !.asks = LadderOf(s.asks),
                            !.seq = s.seq, !.time = t, !.invalid = "ok"]
  <2>1. n \in BookRecord
    BY <1>2, LadderOfType DEF BookRecord, SnapBody
  <2>2. n.time = t /\ n.limit = b.limit /\ n.time # None
    BY BookAssumption DEF BookRecord
  <2> HIDE DEF n
  <2>3. CheckCrossed(n) \in BookRecord /\ CheckCrossed(n).limit = b.limit
        /\ CheckCrossed(n).time = t /\ Sound(CheckCrossed(n))
    BY <2>1, <2>2, CheckCrossedLemma
  <2> QED BY <1>2, <2>3 DEF ApplySnapshot, n
<1> QED BY <1>1, <1>2

\* Adopting a sequence number changes nothing else.
LEMMA AdoptSeqLemma ==
    ASSUME NEW b \in BookRecord, NEW u, LevelBody(u)
    PROVE  /\ AdoptSeq(b, u) \in BookRecord
           /\ AdoptSeq(b, u).limit = b.limit
           /\ AdoptSeq(b, u).time = b.time
           /\ AdoptSeq(b, u).bids = b.bids
           /\ AdoptSeq(b, u).asks = b.asks
BY DEF AdoptSeq, BookRecord, LevelBody

\* apply_level: likewise, from a book that was sound before.
LEMMA ApplyLevelLemma ==
    ASSUME NEW b \in BookRecord, NEW u, LevelBody(u), NEW t \in Nat, Sound(b)
    PROVE  /\ ApplyLevel(b, u, t) \in BookRecord
           /\ ApplyLevel(b, u, t).limit = b.limit
           /\ ApplyLevel(b, u, t).time \in {b.time, t}
           /\ Sound(ApplyLevel(b, u, t))
<1>1. CASE b.invalid # "ok"
  BY <1>1 DEF ApplyLevel
<1>2. CASE b.invalid = "ok" /\ SeqGap(b, u)
  BY <1>2, InvalidateLemma DEF ApplyLevel, Structural
<1>3. CASE /\ b.invalid = "ok" /\ ~ SeqGap(b, u)
           /\ (u.price \notin ValidPrices \/ NewQty(b, u) < 0)
  BY <1>3, AdoptSeqLemma, InvalidateLemma DEF ApplyLevel, Structural
<1>4. CASE /\ b.invalid = "ok" /\ ~ SeqGap(b, u)
           /\ ~ (u.price \notin ValidPrices \/ NewQty(b, u) < 0)
  <2> DEFINE a == AdoptSeq(b, u)
             q == NewQty(b, u)
             n == SetLevel(a, u.side, u.price, q, t)
  <2>1. a \in BookRecord /\ a.limit = b.limit
    BY AdoptSeqLemma
  <2>2. u.price \in ValidPrices /\ q \in Nat
    <3>1. SideOf(b, u.side) \in Ladder
      BY DEF SideOf, BookRecord
    <3>2. q \in Int
      BY <1>4, <3>1 DEF NewQty, LevelBody, Ladder
    <3> QED BY <1>4, <3>2
  <2> HIDE DEF a, q
  <2>3. n \in BookRecord /\ n.limit = b.limit /\ n.time = t
    BY <2>1, <2>2 DEF SetLevel, BookRecord, Ladder
  <2> HIDE DEF n
  <2>4. n.time # None
    BY <2>3, BookAssumption
  <2>5. CheckCrossed(n) \in BookRecord /\ CheckCrossed(n).limit = b.limit
        /\ CheckCrossed(n).time = t /\ Sound(CheckCrossed(n))
    BY <2>3, <2>4, CheckCrossedLemma
  <2> QED BY <1>4, <2>5 DEF ApplyLevel, n, a, q
<1> QED BY <1>1, <1>2, <1>3, <1>4

-----------------------------------------------------------------------------
(* The manager. *)

\* What a batch does to the book of its market, given a sound one.
LEMMA UpdatedLemma ==
    ASSUME NEW b \in BookRecord, Sound(b), NEW e, EventOK(e), now \in Nat
    PROVE  /\ Updated(b, e) \in BookRecord
           /\ Updated(b, e).limit = b.limit
           /\ Updated(b, e).time \in {b.time, now}
           /\ Sound(Updated(b, e))
           /\ Skipped(b, e) => Updated(b, e) = b
<1>1. CASE e.kind = "snapshot"
  BY <1>1, ApplySnapshotLemma DEF EventOK, Updated, Skipped
<1>2. CASE e.kind = "level"
  BY <1>2, ApplyLevelLemma DEF EventOK, Updated, Skipped
<1> QED BY <1>1, <1>2 DEF EventOK

\* A budget is a number.
LEMMA LimitForType ==
    ASSUME TypeOK, NEW m \in Markets
    PROVE  LimitFor(m) \in Nat
BY ManagerAssumption DEF TypeOK, LimitFor

\* The inductive invariant: everything the runs check of a state.
IInv == TypeOK /\ ValidBookIsSound /\ LimitsAgree /\ ApplyTimesAgree

\* The books a batch starts from, after the resync and the lazy creation.
Before(e) ==
    Opened(IF e.resync THEN Tainted(VenueOf[e.market]) ELSE books, e.market)

\* They are sound, carry their venue's budget and keep their times.
LEMMA BeforeLemma ==
    ASSUME IInv, NEW e, EventOK(e)
    PROVE  /\ DOMAIN Before(e) = DOMAIN books \cup {e.market}
           /\ \A m \in DOMAIN Before(e) :
                 /\ Before(e)[m] \in BookRecord
                 /\ Sound(Before(e)[m])
                 /\ Before(e)[m].limit = LimitFor(m)
                 /\ Before(e)[m].time =
                       IF m \in DOMAIN books THEN books[m].time ELSE None
<1> DEFINE bs == IF e.resync THEN Tainted(VenueOf[e.market]) ELSE books
<1>1. /\ DOMAIN bs = DOMAIN books
      /\ \A m \in DOMAIN books :
            /\ bs[m] \in BookRecord
            /\ Sound(bs[m])
            /\ bs[m].limit = LimitFor(m)
            /\ bs[m].time = books[m].time
  <2>1. \A m \in DOMAIN books : /\ books[m] \in BookRecord
                                /\ Sound(books[m])
                                /\ books[m].limit = LimitFor(m)
    BY DEF IInv, TypeOK, ValidBookIsSound, LimitsAgree
  <2>2. CASE e.resync
    BY <2>1, <2>2, InvalidateLemma DEF Tainted, Structural
  <2>3. CASE ~ e.resync
    BY <2>1, <2>3
  <2> QED BY <2>2, <2>3
<1> HIDE DEF bs
<1>2. e.market \in Markets
  BY DEF EventOK
<1>3. /\ NewBook(LimitFor(e.market)) \in BookRecord
      /\ Sound(NewBook(LimitFor(e.market)))
      /\ NewBook(LimitFor(e.market)).limit = LimitFor(e.market)
      /\ NewBook(LimitFor(e.market)).time = None
  BY <1>2, LimitForType DEF NewBook, BookRecord, Sound, Structural, Ladder,
     NoLevels, IInv
<1>4. Before(e) = Opened(bs, e.market)
  BY DEF Before, bs
<1> QED BY <1>1, <1>3, <1>4 DEF Opened

\* apply keeps the invariant.
LEMMA ApplyKeepsIInv ==
    ASSUME IInv, NEW e, EventOK(e), Apply(e)
    PROVE  IInv'
<1> DEFINE m == e.market
           bf == Before(e)
<1>1. m \in Markets /\ now \in Nat /\ now' = now /\ venueLimit' = venueLimit
  BY DEF EventOK, IInv, TypeOK, Apply
<1>2. /\ DOMAIN bf = DOMAIN books \cup {m}
      /\ \A x \in DOMAIN bf :
            /\ bf[x] \in BookRecord
            /\ Sound(bf[x])
            /\ bf[x].limit = LimitFor(x)
            /\ bf[x].time = IF x \in DOMAIN books THEN books[x].time ELSE None
      /\ bf = [x \in DOMAIN bf |-> bf[x]]
  BY BeforeLemma DEF Before, Opened
<1>3. /\ books' = [bf EXCEPT ![m] = Updated(bf[m], e)]
      /\ lastApply' = IF Skipped(bf[m], e) THEN lastApply
                                           ELSE At(lastApply, m, now)
      /\ changed' = (IF e.resync THEN OfVenue(VenueOf[m]) ELSE {})
                       \cup (IF Skipped(bf[m], e) THEN {} ELSE {m})
  BY DEF Apply, Before
<1>4. \A x \in Markets : LimitFor(x)' = LimitFor(x)
  BY <1>1 DEF LimitFor
<1> HIDE DEF bf, m
<1>5. /\ Updated(bf[m], e) \in BookRecord
      /\ Updated(bf[m], e).limit = bf[m].limit
      /\ Updated(bf[m], e).time \in {bf[m].time, now}
      /\ Sound(Updated(bf[m], e))
      /\ Skipped(bf[m], e) => Updated(bf[m], e) = bf[m]
  BY <1>1, <1>2, UpdatedLemma
<1>6. DOMAIN books' = DOMAIN books \cup {m}
  BY <1>2, <1>3
<1>7. \A x \in DOMAIN books' :
         /\ books'[x] \in BookRecord
         /\ Sound(books'[x])
         /\ books'[x].limit = LimitFor(x)
  BY <1>2, <1>3, <1>5
<1>8. TypeOK'
  <2>1. books' \in [DOMAIN books' -> BookRecord]
    BY <1>2, <1>3, <1>7
  <2>2. /\ DOMAIN lastApply' \subseteq Markets
        /\ lastApply' \in [DOMAIN lastApply' -> Nat]
    BY <1>1, <1>3 DEF IInv, TypeOK, At
  <2>3. changed' \subseteq Markets
    BY <1>1, <1>3 DEF IInv, TypeOK, OfVenue
  <2> QED BY <1>1, <1>6, <2>1, <2>2, <2>3 DEF IInv, TypeOK
<1>9. ValidBookIsSound' /\ LimitsAgree'
  <2>1. DOMAIN books' \subseteq Markets
    BY <1>8 DEF TypeOK
  <2> QED BY <2>1, <1>4, <1>7 DEF ValidBookIsSound, LimitsAgree, Sound, Crossed, NoNegative
<1>10. ApplyTimesAgree'
  <2>1. \A x \in DOMAIN books : x # m => books'[x].time = books[x].time
    BY <1>2, <1>3
  <2>2. CASE Skipped(bf[m], e)
    <3>1. books' = bf /\ lastApply' = lastApply
      BY <2>2, <1>2, <1>3, <1>5
    <3> QED BY <3>1, <1>1, <1>2 DEF ApplyTimesAgree, IInv
  <2>3. CASE ~ Skipped(bf[m], e)
    <3>1. /\ DOMAIN lastApply' = DOMAIN lastApply \cup {m}
          /\ lastApply'[m] = now
          /\ \A x \in DOMAIN lastApply : x # m => lastApply'[x] = lastApply[x]
      BY <2>3, <1>3 DEF At
    <3>2. books'[m].time # None => books'[m].time <= now
      <4>1. books'[m].time \in {bf[m].time, now}
        BY <1>2, <1>3, <1>5
      <4>2. bf[m].time # None => bf[m].time <= now
        <5>1. bf[m].time # None =>
                 m \in DOMAIN books /\ bf[m].time = books[m].time
          BY <1>2
        <5>2. m \in DOMAIN books /\ books[m].time # None =>
                 /\ books[m].time \in Nat /\ lastApply[m] \in Nat
                 /\ books[m].time <= lastApply[m] /\ lastApply[m] <= now
          BY DEF IInv, TypeOK, ApplyTimesAgree, BookRecord
        <5> QED BY <5>1, <5>2, <1>1
      <4> QED BY <4>1, <4>2, <1>1
    <3> QED BY <3>1, <3>2, <2>1, <1>1, <1>6 DEF ApplyTimesAgree, IInv
  <2> QED BY <2>2, <2>3
<1> QED BY <1>8, <1>9, <1>10 DEF IInv

\* set_venue_staleness keeps it: the venue's live books get the budget that
\* later ones will be created with.
LEMMA SetVenueStalenessKeepsIInv ==
    ASSUME IInv, NEW v \in Venues, NEW limit \in Limits,
           SetVenueStaleness(v, limit)
    PROVE  IInv'
<1>1. /\ DOMAIN books' = DOMAIN books
      /\ \A m \in DOMAIN books :
            books'[m] = IF VenueOf[m] = v THEN [books[m] EXCEPT !.limit = limit]
                                          ELSE books[m]
      /\ books' = [m \in DOMAIN books |-> books'[m]]
      /\ venueLimit' = [venueLimit EXCEPT ![v] = limit]
      /\ changed' = OfVenue(v)
      /\ UNCHANGED <<lastApply, now>>
  BY DEF SetVenueStaleness, OfVenue
<1>2. limit \in Nat /\ limit # None
  BY ManagerAssumption, BookAssumption
<1>3. \A m \in DOMAIN books :
         /\ books'[m] \in BookRecord
         /\ Sound(books'[m])
         /\ books'[m].time = books[m].time
         /\ books'[m].limit = IF VenueOf[m] = v THEN limit ELSE books[m].limit
  <2> SUFFICES ASSUME NEW m \in DOMAIN books
               PROVE  /\ books'[m] \in BookRecord
                      /\ Sound(books'[m])
                      /\ books'[m].time = books[m].time
                      /\ books'[m].limit = IF VenueOf[m] = v THEN limit
                                                           ELSE books[m].limit
    OBVIOUS
  <2>1. books[m] \in BookRecord /\ Sound(books[m])
    BY DEF IInv, TypeOK, ValidBookIsSound
  <2>2. CASE VenueOf[m] = v
    <3>1. books'[m] = [books[m] EXCEPT !.limit = limit]
      BY <1>1, <2>2
    <3>2. books'[m] \in BookRecord
      BY <1>2, <2>1, <3>1 DEF BookRecord
    <3>3. /\ books'[m].limit = limit /\ books'[m].time = books[m].time
          /\ books'[m].invalid = books[m].invalid
          /\ books'[m].bids = books[m].bids /\ books'[m].asks = books[m].asks
      BY <2>1, <3>1 DEF BookRecord
    <3> QED BY <2>1, <2>2, <3>2, <3>3 DEF Sound, Crossed, NoNegative
  <2>3. CASE VenueOf[m] # v
    BY <1>1, <2>1, <2>3
  <2> QED BY <2>2, <2>3
<1>4. TypeOK'
  BY <1>1, <1>3 DEF IInv, TypeOK, OfVenue
<1>5. ValidBookIsSound'
  BY <1>1, <1>3 DEF ValidBookIsSound, Sound, Crossed, NoNegative
<1>6. LimitsAgree'
  <2>1. \A m \in DOMAIN books : books[m].limit = LimitFor(m)
    BY DEF IInv, LimitsAgree
  <2>2. \A m \in Markets :
           LimitFor(m)' = IF VenueOf[m] = v THEN limit ELSE LimitFor(m)
    BY <1>1, <1>2, ManagerAssumption DEF LimitFor, IInv, TypeOK
  <2>3. DOMAIN books \subseteq Markets
    BY DEF IInv, TypeOK
  <2> QED BY <1>1, <1>3, <2>1, <2>2, <2>3 DEF LimitsAgree
<1>7. ApplyTimesAgree'
  BY <1>1, <1>3 DEF IInv, ApplyTimesAgree
<1> QED BY <1>4, <1>5, <1>6, <1>7 DEF IInv

\* evict and retain keep it: a book and its apply time go together.
LEMMA EvictKeepsIInv ==
    ASSUME IInv, NEW S, Evict(S)
    PROVE  IInv'
<1>1. /\ DOMAIN books' = DOMAIN books \ S
      /\ \A m \in DOMAIN books' : books'[m] = books[m]
      /\ books' = [m \in DOMAIN books' |-> books'[m]]
      /\ DOMAIN lastApply' = DOMAIN lastApply \ S
      /\ \A m \in DOMAIN lastApply' : lastApply'[m] = lastApply[m]
      /\ lastApply' = [m \in DOMAIN lastApply' |-> lastApply'[m]]
      /\ changed' \subseteq DOMAIN books
      /\ UNCHANGED <<venueLimit, now>>
  BY DEF Evict, Removed
<1>2. TypeOK'
  BY <1>1 DEF IInv, TypeOK
<1>3. ValidBookIsSound'
  BY <1>1 DEF IInv, ValidBookIsSound, Sound, Crossed, NoNegative
<1>4. LimitsAgree'
  BY <1>1 DEF IInv, LimitsAgree, LimitFor
<1>5. ApplyTimesAgree'
  BY <1>1 DEF IInv, ApplyTimesAgree
<1> QED BY <1>2, <1>3, <1>4, <1>5 DEF IInv

\* The clock keeps it.
LEMMA TickKeepsIInv ==
    ASSUME IInv, Tick
    PROVE  IInv'
<1>1. now' = now + 1 /\ now \in Nat /\ changed' = {}
      /\ UNCHANGED <<books, venueLimit, lastApply>>
  BY DEF Tick, IInv, TypeOK
<1>2. TypeOK' /\ ValidBookIsSound' /\ LimitsAgree'
  BY <1>1 DEF IInv, TypeOK, ValidBookIsSound, LimitsAgree, LimitFor, Sound, Crossed, NoNegative
<1>3. \A m \in DOMAIN lastApply : lastApply[m] \in Nat
  BY DEF IInv, TypeOK
<1>4. ApplyTimesAgree'
  BY <1>1, <1>3 DEF IInv, ApplyTimesAgree
<1> QED BY <1>2, <1>4 DEF IInv

\* The inductive invariant holds of every reachable state.
THEOREM BookManagerInvariant == Spec => []IInv
<1>1. Init => IInv
  BY DEF Init, IInv, TypeOK, ValidBookIsSound, LimitsAgree, ApplyTimesAgree,
     NoMarkets
<1>2. IInv /\ [Next]_vars => IInv'
  <2> SUFFICES ASSUME IInv, [Next]_vars PROVE IInv'
    OBVIOUS
  <2>1. ASSUME NEW e \in Batches, Apply(e) PROVE IInv'
    BY <2>1, ApplyKeepsIInv, BatchesAreEvents
  <2>2. ASSUME NEW v \in Venues, NEW limit \in Limits,
               SetVenueStaleness(v, limit)
        PROVE  IInv'
    BY <2>2, SetVenueStalenessKeepsIInv
  <2>3. ASSUME NEW v \in Venues, NEW keep \in SUBSET Markets, Retain(keep, v)
        PROVE  IInv'
    BY <2>3, EvictKeepsIInv DEF Retain
  <2>4. CASE Tick
    BY <2>4, TickKeepsIInv
  <2>5. CASE UNCHANGED vars
    BY <2>5 DEF vars, IInv, TypeOK, ValidBookIsSound, LimitsAgree,
       ApplyTimesAgree, LimitFor, Sound, Crossed, NoNegative
  <2> QED BY <2>1, <2>2, <2>3, <2>4, <2>5 DEF Next
<1> QED BY <1>1, <1>2, PTL DEF Spec

\* Every variable of the manager keeps its type.
THEOREM BookManagerTypeOK == Spec => []TypeOK
<1>1. IInv => TypeOK
  BY DEF IInv
<1> QED BY <1>1, BookManagerInvariant, PTL

\* A book without a structural fault has had a snapshot and is not crossed,
\* so the assertion in Book.status cannot fail.
THEOREM ValidBooksAreSound == Spec => []ValidBookIsSound
<1>1. IInv => ValidBookIsSound
  BY DEF IInv
<1> QED BY <1>1, BookManagerInvariant, PTL

\* Every live book is judged against its venue's present budget.
THEOREM StalenessLimitsAgree == Spec => []LimitsAgree
<1>1. IInv => LimitsAgree
  BY DEF IInv
<1> QED BY <1>1, BookManagerInvariant, PTL

\* The apply time of a market covers the last change to its book.
THEOREM ApplyTimesCoverBooks == Spec => []ApplyTimesAgree
<1>1. IInv => ApplyTimesAgree
  BY DEF IInv
<1> QED BY <1>1, BookManagerInvariant, PTL

\* No step alters or removes a book without naming it in its result.
THEOREM EveryChangeIsReported == Spec => ChangesAreReported
<1> DEFINE Reported ==
      \A m \in DOMAIN books :
          (m \notin DOMAIN books' \/ books'[m] # books[m]) => m \in changed'
<1>1. IInv /\ [Next]_vars => [Reported]_vars
  <2> SUFFICES ASSUME IInv, [Next]_vars PROVE Reported \/ UNCHANGED vars
    OBVIOUS
  <2>1. ASSUME NEW e \in Batches, Apply(e) PROVE Reported
    <3> DEFINE n == e.market
               bs == IF e.resync THEN Tainted(VenueOf[n]) ELSE books
               bf == Opened(bs, n)
    <3>1. /\ books' = [bf EXCEPT ![n] = Updated(bf[n], e)]
          /\ changed' = (IF e.resync THEN OfVenue(VenueOf[n]) ELSE {})
                           \cup (IF Skipped(bf[n], e) THEN {} ELSE {n})
      BY <2>1 DEF Apply
    <3>2. /\ DOMAIN bs = DOMAIN books
          /\ \A m \in DOMAIN books :
                bs[m] # books[m] => e.resync /\ m \in OfVenue(VenueOf[n])
      BY DEF Tainted
    <3>3. /\ DOMAIN bf = DOMAIN books \cup {n}
          /\ \A m \in DOMAIN books : bf[m] = bs[m]
      BY <3>2 DEF Opened
    <3>4. Skipped(bf[n], e) => Updated(bf[n], e) = bf[n]
      BY DEF Skipped, Updated
    <3> HIDE DEF bs, bf, n
    <3>5. DOMAIN books' = DOMAIN books \cup {n}
      BY <3>1, <3>3
    <3>6. ASSUME NEW m \in DOMAIN books, books'[m] # books[m]
          PROVE  m \in changed'
      <4>1. CASE m = n /\ ~ Skipped(bf[n], e)
        BY <4>1, <3>1
      <4>2. CASE m # n \/ Skipped(bf[n], e)
        BY <4>2, <3>1, <3>2, <3>3, <3>4, <3>6
      <4> QED BY <4>1, <4>2
    <3> QED BY <3>5, <3>6
  <2>2. ASSUME NEW v \in Venues, NEW limit \in Limits,
               SetVenueStaleness(v, limit)
        PROVE  Reported
    BY <2>2 DEF SetVenueStaleness
  <2>3. ASSUME NEW v \in Venues, NEW keep \in SUBSET Markets, Retain(keep, v)
        PROVE  Reported
    BY <2>3 DEF Retain, Evict, Removed
  <2>4. CASE Tick
    BY <2>4 DEF Tick
  <2> QED BY <2>1, <2>2, <2>3, <2>4 DEF Next
<1> QED BY <1>1, BookManagerInvariant, PTL DEF Spec, ChangesAreReported

-----------------------------------------------------------------------------
(* The streamed feed.  The invariant follows the frames of a connection    *)
(* from the last one applied, over those on their way, to the venue.       *)

VenueLadders == [bids : Ladder, asks : Ladder]

Bodies == Deltas \cup {SnapshotOf(l) : l \in UNION {VenueStates[m] : m \in Markets}}

\* A frame as the venue sends it, with the body its kind calls for; the numbers
\* next to the fold are never garbled.
FrameOK(f) ==
    /\ f.kind = "snapshot" => f.body = SnapshotOf(f.truth[f.market])
    /\ f.kind = "level" => f.body \in Deltas
    /\ f.kind = "unparsable" => f.seq \notin {2, MaxSeq}

Frames ==
    {f \in [seq : 1 .. MaxSeq, market : Markets, kind : {"snapshot", "level", "unparsable"},
            body : Bodies, truth : Truths] : FrameOK(f)}

\* The number that follows n when no frame is lost.
After(n) == IF n = MaxSeq THEN 2 ELSE n + 1

\* Once the first i frames are applied: the last number, the venue's ladders
\* then, and the markets whose snapshot was among them or is applied already.
SeqAt(i) == IF i = 0 THEN lastSeq ELSE link[i].seq
TruthAt(i) == IF i = 0 THEN asOf ELSE link[i].truth
Known(i) ==
    snapped \cup {link[j].market : j \in {k \in 1 .. i : link[k].kind = "snapshot"}}

\* Frame f behind number n, when the ladders were t: its own number is a later
\* one, and if it is the next one then it tells all that has changed in K.
Continues(n, t, K, f) ==
    /\ IF n = MaxSeq THEN f.seq = 2 ELSE f.seq > n
    /\ f.kind # "unparsable" /\ f.seq = After(n) =>
          \A m \in K : f.truth[m] = IF f.kind = "level" /\ m = f.market
                                    THEN Moved(t[m], f.body) ELSE t[m]

Chained ==
    \A i \in 0 .. Len(link) - 1 :
        (i = 0 => snapped # {}) =>
            Continues(SeqAt(i), TruthAt(i), Known(i), link[i + 1])

\* The venue has given out number n, and either has lost frames since or has not
\* moved the markets K.
UpToDate(n, t, K) ==
    /\ n = venueSeq \/ (n < venueSeq /\ venueSeq < MaxSeq)
    /\ n = venueSeq => \A m \in K : truth[m] = t[m]

Reached ==
    conn = "open" /\ (link = <<>> => snapped # {}) =>
        UpToDate(SeqAt(Len(link)), TruthAt(Len(link)), Known(Len(link)))

\* A connection that is down has left nothing behind.
DownIsClean ==
    conn = "down" => /\ link = <<>> /\ due = {} /\ served = {} /\ venueSeq = 0
                     /\ snapped = {} /\ hurt = FALSE

SnapshotsWereSent ==
    /\ Known(Len(link)) \subseteq served
    /\ snapped # {} => lastSeq # None /\ asOf \in Truths

Bounded == Len(link) + Cardinality(due) <= MaxLink + 1 + Cardinality(Markets)

Exact ==
    \A m \in snapped : Trusted(m) =>
        books[m].bids = asOf[m].bids /\ books[m].asks = asOf[m].asks

\* The number a frame behind the last one applied has if none was lost: that of
\* a new connection, or the next.
NextOf(n) == n = 1 \/ (lastSeq # None /\ n = After(lastSeq))

\* On a connection without a loss the numbers follow one another.
Unbroken ==
    ~ hurt =>
        /\ \A i \in 1 .. Len(link) : link[i].kind # "unparsable"
        /\ link # <<>> => NextOf(link[1].seq)
        /\ \A i \in 1 .. Len(link) - 1 : link[i + 1].seq = After(link[i].seq)
        /\ conn = "open" =>
              IF link # <<>> THEN venueSeq = link[Len(link)].seq
              ELSE venueSeq = 0 \/ (lastSeq # None /\ venueSeq = lastSeq)

\* The parts that follow the frames, and the parts about the state around them.
FramesInv == Chained /\ Reached /\ Unbroken
AroundInv == DownIsClean /\ SnapshotsWereSent /\ Bounded
FeedIInv == /\ FeedTypeOK /\ IInv /\ link \in Seq(Frames)
            /\ FramesInv /\ AroundInv /\ Exact

\* What the venue shows of a market is a pair of ladders.
LEMMA TruthLadders ==
    ASSUME NEW t \in Truths, NEW m \in Markets
    PROVE  t[m] \in VenueStates[m] /\ t[m] \in VenueLadders
BY FeedAssumption DEF Truths, VenueLadders

\* The types of the two feed variables the proofs below compute with.
LEMMA FeedNumbers ==
    ASSUME FeedTypeOK
    PROVE  /\ MaxSeq \in Nat /\ MaxSeq > 2 /\ MaxFaults \in Nat /\ MaxLink \in Nat
           /\ MaxChanges \in Nat
           /\ venueSeq \in 0 .. MaxSeq /\ NextSeq \in 1 .. MaxSeq
           /\ lastSeq # None => lastSeq \in 1 .. MaxSeq
           /\ truth \in Truths
BY FeedAssumption DEF FeedTypeOK, NextSeq

\* A book that is given the snapshot of ladders l has these ladders, crossed or not.
LEMMA SnapshotIsExact ==
    ASSUME NEW b \in BookRecord, NEW l \in VenueLadders, NEW t \in Nat
    PROVE  /\ SnapBody(SnapshotOf(l))
           /\ ApplySnapshot(b, SnapshotOf(l), t).bids = l.bids
           /\ ApplySnapshot(b, SnapshotOf(l), t).asks = l.asks
<1> DEFINE s == SnapshotOf(l)
           n == [b EXCEPT !.bids = LadderOf(s.bids), !.asks = LadderOf(s.asks),
                          !.seq = s.seq, !.time = t, !.invalid = "ok"]
<1>1. ASSUME NEW d \in Ladder
      PROVE  /\ ~ BadLevels(LevelsOf(d)) /\ LadderOf(LevelsOf(d)) = d
             /\ \A x \in DOMAIN LevelsOf(d) : LevelsOf(d)[x] \in Int
  <2>1. \A x \in ValidPrices : d[x] \in Nat
    BY DEF Ladder
  <2>2. /\ DOMAIN LevelsOf(d) = Shown(d) /\ Shown(d) \subseteq ValidPrices
        /\ \A x \in Shown(d) : LevelsOf(d)[x] = d[x] /\ d[x] > 0
    BY DEF LevelsOf, Shown
  <2>3. ~ BadLevels(LevelsOf(d)) /\ \A x \in DOMAIN LevelsOf(d) : LevelsOf(d)[x] \in Int
    BY <2>1, <2>2 DEF BadLevels
  <2>4. \A x \in ValidPrices : x \notin Shown(d) => d[x] = 0
    BY <2>1 DEF Shown
  <2>5. LadderOf(LevelsOf(d)) = [x \in ValidPrices |-> d[x]]
    BY <2>2, <2>4 DEF LadderOf
  <2>6. d = [x \in ValidPrices |-> d[x]]
    BY DEF Ladder
  <2> QED BY <2>3, <2>5, <2>6
<1>2. l.bids \in Ladder /\ l.asks \in Ladder
  BY DEF VenueLadders
<1>3. s.bids = LevelsOf(l.bids) /\ s.asks = LevelsOf(l.asks) /\ s.seq = None
  BY DEF SnapshotOf
<1>4. SnapBody(s)
  BY <1>1, <1>2, <1>3 DEF SnapBody
<1>5. ApplySnapshot(b, s, t) = CheckCrossed(n)
  BY <1>1, <1>2, <1>3 DEF ApplySnapshot
<1>6. n.bids = l.bids /\ n.asks = l.asks /\ n \in BookRecord
  BY <1>1, <1>2, <1>3 DEF BookRecord
<1>7. CheckCrossed(n).bids = n.bids /\ CheckCrossed(n).asks = n.asks
  BY <1>6 DEF CheckCrossed, Invalidate, BookRecord
<1> QED BY <1>4, <1>5, <1>6, <1>7

\* A trusted book of ladders l that is given the delta to ladders l2 has those.
LEMMA DeltaIsExact ==
    ASSUME NEW b \in BookRecord, NEW u \in Deltas, NEW t \in Nat,
           NEW l \in VenueLadders, Moved(l, u) \in VenueLadders,
           b.invalid = "ok", b.bids = l.bids, b.asks = l.asks
    PROVE  /\ ApplyLevel(b, u, t).bids = Moved(l, u).bids
           /\ ApplyLevel(b, u, t).asks = Moved(l, u).asks
<1> DEFINE q == NewQty(b, u)
           n == SetLevel(b, u.side, u.price, q, t)
<1>1. /\ u.side \in Sides /\ u.price \in ValidPrices /\ u.mode = "delta"
      /\ u.qty \in {-1, 1} /\ u.seq = None
  BY DEF Deltas
<1>2. ~ SeqGap(b, u) /\ AdoptSeq(b, u) = b
  BY <1>1 DEF SeqGap, AdoptSeq
<1>3. l.bids \in Ladder /\ l.asks \in Ladder
  BY DEF VenueLadders
<1>4. ASSUME u.side = "bid"
      PROVE  q \in Nat /\ n.bids = Moved(l, u).bids /\ n.asks = Moved(l, u).asks
  <2>1. q = l.bids[u.price] + u.qty
    BY <1>1, <1>4 DEF NewQty, SideOf
  <2>2. /\ Moved(l, u).bids = [l.bids EXCEPT ![u.price] = q]
        /\ Moved(l, u).asks = l.asks
    BY <1>4, <2>1 DEF Moved, VenueLadders
  <2>3. q \in Nat
    <3>1. Moved(l, u).bids \in Ladder
      BY DEF VenueLadders
    <3> HIDE DEF q
    <3> QED BY <1>1, <1>3, <2>2, <3>1 DEF Ladder
  <2>4. n.bids = Moved(l, u).bids /\ n.asks = Moved(l, u).asks
    <3> HIDE DEF q
    <3> QED BY <1>4, <2>2 DEF SetLevel, BookRecord
  <2> QED BY <2>3, <2>4
<1>5. ASSUME u.side = "ask"
      PROVE  q \in Nat /\ n.bids = Moved(l, u).bids /\ n.asks = Moved(l, u).asks
  <2>1. q = l.asks[u.price] + u.qty
    BY <1>1, <1>5 DEF NewQty, SideOf
  <2>2. /\ Moved(l, u).asks = [l.asks EXCEPT ![u.price] = q]
        /\ Moved(l, u).bids = l.bids
    BY <1>5, <2>1 DEF Moved, VenueLadders
  <2>3. q \in Nat
    <3>1. Moved(l, u).asks \in Ladder
      BY DEF VenueLadders
    <3> HIDE DEF q
    <3> QED BY <1>1, <1>3, <2>2, <3>1 DEF Ladder
  <2>4. n.bids = Moved(l, u).bids /\ n.asks = Moved(l, u).asks
    <3> HIDE DEF q
    <3> QED BY <1>5, <2>2 DEF SetLevel, BookRecord
  <2> QED BY <2>3, <2>4
<1>6. q \in Nat /\ n.bids = Moved(l, u).bids /\ n.asks = Moved(l, u).asks
  BY <1>1, <1>4, <1>5 DEF Sides
<1>7. ApplyLevel(b, u, t) = CheckCrossed(n)
  BY <1>1, <1>2, <1>6 DEF ApplyLevel
<1>8. CheckCrossed(n).bids = n.bids /\ CheckCrossed(n).asks = n.asks
  BY DEF CheckCrossed, Invalidate, SetLevel, BookRecord
<1> QED BY <1>6, <1>7, <1>8

\* What follows the books alone survives a step that leaves the manager alone.
LEMMA ManagerFrame ==
    ASSUME IInv, UNCHANGED vars
    PROVE  IInv' /\ TypeOK'
BY DEF vars, IInv, TypeOK, ValidBookIsSound, LimitsAgree, ApplyTimesAgree, LimitFor,
   Sound, Crossed, NoNegative

\* One more frame on its way.
LEMMA FrameAppended ==
    ASSUME link \in Seq(Frames), NEW f \in Frames, link' = Append(link, f),
           UNCHANGED <<lastSeq, asOf, snapped>>
    PROVE  /\ link' \in Seq(Frames) /\ link' # <<>>
           /\ Len(link') = Len(link) + 1 /\ Len(link) \in Nat
           /\ \A i \in 1 .. Len(link) : link'[i] = link[i]
           /\ link'[Len(link) + 1] = f
           /\ \A i \in 0 .. Len(link) :
                 /\ SeqAt(i)' = SeqAt(i) /\ TruthAt(i)' = TruthAt(i)
                 /\ Known(i)' = Known(i)
           /\ SeqAt(Len(link))' = f.seq /\ TruthAt(Len(link))' = f.truth
           /\ Known(Len(link))' \subseteq Known(Len(link)) \cup {f.market}
           /\ f.kind # "snapshot" => Known(Len(link))' = Known(Len(link))
<1>1. /\ link' \in Seq(Frames) /\ Len(link') = Len(link) + 1 /\ Len(link) \in Nat
      /\ \A i \in 1 .. Len(link) : link'[i] = link[i]
      /\ link'[Len(link) + 1] = f
  BY AppendProperties, LenProperties
<1>2. link' # <<>>
  BY <1>1, EmptySeq
<1>3. \A i \in 0 .. Len(link) : SeqAt(i)' = SeqAt(i) /\ TruthAt(i)' = TruthAt(i)
  BY <1>1 DEF SeqAt, TruthAt
<1>4. \A i \in 0 .. Len(link) : Known(i)' = Known(i)
  BY <1>1 DEF Known
<1>5. SeqAt(Len(link))' = f.seq /\ TruthAt(Len(link))' = f.truth
  <2>1. Len(link') # 0 /\ link'[Len(link')] = f
    BY <1>1
  <2> QED BY <2>1 DEF SeqAt, TruthAt
<1>6. /\ Known(Len(link))' \subseteq Known(Len(link)) \cup {f.market}
      /\ f.kind # "snapshot" => Known(Len(link))' = Known(Len(link))
  <2>1. ASSUME NEW j \in 1 .. Len(link')
        PROVE  (j \in 1 .. Len(link) /\ link'[j] = link[j]) \/ link'[j] = f
    BY <1>1
  <2>2. \A j \in 1 .. Len(link) : j \in 1 .. Len(link') /\ link'[j] = link[j]
    BY <1>1
  <2>3. Known(Len(link))' = snapped \cup {link'[j].market :
            j \in {k \in 1 .. Len(link') : link'[k].kind = "snapshot"}}
    BY DEF Known
  <2>4. Known(Len(link))' \subseteq Known(Len(link)) \cup {f.market}
    BY <2>1, <2>3 DEF Known
  <2>5. Known(Len(link)) \subseteq Known(Len(link))'
    BY <2>2, <2>3 DEF Known
  <2>6. f.kind # "snapshot" => Known(Len(link))' \subseteq Known(Len(link))
    BY <2>1, <2>3 DEF Known
  <2> QED BY <2>4, <2>5, <2>6
<1> QED BY <1>1, <1>2, <1>3, <1>4, <1>5, <1>6

\* The first frame read.
LEMMA FramePopped ==
    ASSUME link \in Seq(Frames), link # <<>>, link' = Tail(link)
    PROVE  /\ link[1] \in Frames /\ Head(link) = link[1]
           /\ link' \in Seq(Frames)
           /\ Len(link) \in Nat \ {0} /\ Len(link') = Len(link) - 1
           /\ \A i \in 1 .. Len(link) - 1 : link'[i] = link[i + 1]
           /\ link' = <<>> <=> Len(link) = 1
           /\ \A i \in 1 .. Len(link) - 1 : /\ SeqAt(i)' = SeqAt(i + 1)
                                            /\ TruthAt(i)' = TruthAt(i + 1)
           /\ \A i \in 0 .. Len(link) - 1 :
                 snapped' = snapped \cup (IF link[1].kind = "snapshot"
                                          THEN {link[1].market} ELSE {}) =>
                     Known(i)' = Known(i + 1)
<1>1. /\ link' \in Seq(Frames) /\ Len(link) \in Nat \ {0} /\ Len(link') = Len(link) - 1
      /\ \A i \in 1 .. Len(link) - 1 : link'[i] = link[i + 1]
      /\ link[1] \in Frames /\ Head(link) = link[1]
  BY HeadTailProperties, LenProperties, EmptySeq, ElementOfSeq
<1>2. link' = <<>> <=> Len(link) = 1
  <2>1. link' = <<>> <=> Len(link') = 0
    BY <1>1, EmptySeq
  <2> QED BY <1>1, <2>1
<1>3. \A i \in 1 .. Len(link) - 1 : SeqAt(i)' = SeqAt(i + 1) /\ TruthAt(i)' = TruthAt(i + 1)
  BY <1>1 DEF SeqAt, TruthAt
<1>4. ASSUME NEW i \in 0 .. Len(link) - 1,
             snapped' = snapped \cup (IF link[1].kind = "snapshot"
                                      THEN {link[1].market} ELSE {})
      PROVE  Known(i)' = Known(i + 1)
  <2>1. \A j \in 1 .. i : j + 1 \in 1 .. i + 1 /\ link'[j] = link[j + 1]
    BY <1>1
  <2>2. \A j \in 1 .. i + 1 : j = 1 \/ (j - 1 \in 1 .. i /\ link'[j - 1] = link[j])
    BY <1>1
  <2>3. 1 \in 1 .. i + 1
    OBVIOUS
  <2>4. Known(i)' = snapped' \cup {link'[j].market :
                       j \in {k \in 1 .. i : link'[k].kind = "snapshot"}}
    BY DEF Known
  <2>5. Known(i + 1) = snapped \cup {link[j].market :
                          j \in {k \in 1 .. i + 1 : link[k].kind = "snapshot"}}
    BY DEF Known
  <2>6. Known(i)' \subseteq Known(i + 1)
    BY <1>4, <2>1, <2>3, <2>4, <2>5
  <2>7. ASSUME NEW m \in Known(i + 1) PROVE m \in Known(i)'
    <3>1. CASE m \in snapped
      BY <1>4, <2>4, <3>1
    <3>2. CASE m \notin snapped
      <4>1. PICK j \in 1 .. i + 1 : link[j].kind = "snapshot" /\ link[j].market = m
        BY <2>5, <2>7, <3>2
      <4>2. CASE j = 1
        BY <1>4, <2>4, <4>1, <4>2
      <4>3. CASE j # 1
        BY <2>2, <2>4, <4>1, <4>3
      <4> QED BY <4>2, <4>3
    <3> QED BY <3>1, <3>2
  <2> QED BY <2>6, <2>7
<1> QED BY <1>1, <1>2, <1>3, <1>4

-----------------------------------------------------------------------------
(* The venue sends *)

\* The number a frame is given is not one that may have been given already.
LEMMA NumbersFollow ==
    ASSUME FeedTypeOK, NEW n \in 1 .. MaxSeq, NEW t, NEW K, UpToDate(n, t, K)
    PROVE  /\ IF n = MaxSeq THEN NextSeq = 2 ELSE NextSeq > n
           /\ NextSeq = After(n) => n = venueSeq
           /\ MayFail(NextSeq) => NextSeq # n /\ n < NextSeq /\ NextSeq < MaxSeq
           /\ n # venueSeq => NextSeq = venueSeq + 1
BY FeedNumbers DEF UpToDate, NextSeq, After, MayFail

\* A frame that may be lost or garbled is not one next to the fold.
LEMMA FailsAwayFromFold ==
    ASSUME FeedTypeOK, MayFail(NextSeq)
    PROVE  NextSeq \notin {2, MaxSeq} /\ faults + 1 \in 0 .. MaxFaults
BY FeedNumbers DEF MayFail, FeedTypeOK

\* The last position of the connection, where there is one, has a number.
LEMMA LastNumber ==
    ASSUME FeedIInv, link = <<>> => snapped # {}
    PROVE  SeqAt(Len(link)) \in 1 .. MaxSeq
<1>1. CASE link = <<>>
  <2>1. Len(link) = 0
    BY <1>1
  <2> QED BY <1>1, <2>1, FeedNumbers DEF SeqAt, FeedIInv, AroundInv, SnapshotsWereSent
<1>2. CASE link # <<>>
  <2>1. link \in Seq(Frames)
    BY DEF FeedIInv
  <2>2. Len(link) \in Nat /\ Len(link) # 0
    BY <1>2, <2>1, EmptySeq, LenProperties
  <2>3. link[Len(link)] \in Frames
    BY <2>1, <2>2, ElementOfSeq
  <2> QED BY <2>2, <2>3 DEF SeqAt, Frames
<1> QED BY <1>1, <1>2

\* Sending a frame that tells how the markets that are known have moved keeps
\* what is said of the frames, whether it arrives, arrives garbled or is lost.
LEMMA SendKeepsFrames ==
    ASSUME FeedIInv, conn = "open", NEW f \in Frames, Send(f),
           f.kind # "unparsable", f.seq = NextSeq, f.truth = truth',
           UNCHANGED <<conn, lastSeq, asOf, snapped>>,
           \A m \in Known(Len(link)) :
               truth'[m] = IF f.kind = "level" /\ m = f.market
                           THEN Moved(truth[m], f.body) ELSE truth[m]
    PROVE  /\ link' \in Seq(Frames) /\ FramesInv'
           /\ Len(link') \in Nat /\ Len(link') <= Len(link) + 1
           /\ Known(Len(link))' \subseteq Known(Len(link)) \cup {f.market}
           /\ venueSeq' = NextSeq /\ hurt' \in BOOLEAN /\ faults' \in 0 .. MaxFaults
<1> DEFINE len == Len(link)
           has == link = <<>> => snapped # {}
           n == SeqAt(len)
           t == TruthAt(len)
           K == Known(len)
<1>1. FeedTypeOK /\ link \in Seq(Frames) /\ Chained /\ Reached /\ Unbroken
  BY DEF FeedIInv, FramesInv
<1>2. venueSeq' = NextSeq /\ len \in Nat /\ (link = <<>> <=> len = 0)
  BY <1>1, EmptySeq, LenProperties DEF Send
<1>3. has => n \in 1 .. MaxSeq /\ UpToDate(n, t, K)
  BY <1>1, LastNumber DEF Reached
<1>4. has => /\ IF n = MaxSeq THEN NextSeq = 2 ELSE NextSeq > n
             /\ NextSeq = After(n) => n = venueSeq
             /\ MayFail(NextSeq) => NextSeq # n /\ n < NextSeq /\ NextSeq < MaxSeq
  BY <1>1, <1>3, NumbersFollow
<1>5. ASSUME NEW g \in Frames, g.seq = NextSeq,
             g = f \/ g.kind = "unparsable", has
      PROVE  Continues(n, t, K, g)
  <2>1. IF n = MaxSeq THEN g.seq = 2 ELSE g.seq > n
    BY <1>4, <1>5
  <2>2. ASSUME g.kind # "unparsable", g.seq = After(n), NEW m \in K
        PROVE  g.truth[m] = IF g.kind = "level" /\ m = g.market
                            THEN Moved(t[m], g.body) ELSE t[m]
    <3>1. g = f /\ truth[m] = t[m]
      BY <1>3, <1>4, <1>5, <2>2 DEF UpToDate
    <3> QED BY <3>1, <2>2
  <2> QED BY <2>1, <2>2 DEF Continues
<1>6. ASSUME NEW g \in Frames, g.seq = NextSeq, g.truth = truth', g.market = f.market,
             link' = Append(link, g),
             (g = f /\ hurt' = hurt) \/ (g.kind = "unparsable" /\ hurt' = TRUE)
      PROVE  /\ link' \in Seq(Frames) /\ FramesInv' /\ Len(link') = len + 1
             /\ Known(Len(link))' \subseteq K \cup {f.market}
  <2>1. /\ link' \in Seq(Frames) /\ link' # <<>> /\ Len(link') = len + 1
        /\ \A i \in 1 .. len : link'[i] = link[i]
        /\ link'[len + 1] = g
        /\ \A i \in 0 .. len : /\ SeqAt(i)' = SeqAt(i) /\ TruthAt(i)' = TruthAt(i)
                               /\ Known(i)' = Known(i)
        /\ SeqAt(Len(link))' = g.seq /\ TruthAt(Len(link))' = g.truth
        /\ Known(Len(link))' \subseteq Known(len) \cup {g.market}
    BY <1>1, <1>6, FrameAppended
  <2>2. Chained'
    <3> SUFFICES ASSUME NEW i \in 0 .. Len(link') - 1, i = 0 => snapped' # {}
                 PROVE  Continues(SeqAt(i)', TruthAt(i)', Known(i)', link'[i + 1])
      BY DEF Chained, Continues, After
    <3>1. i \in 0 .. len
      BY <1>2, <2>1
    <3>2. CASE i = len
      <4>1. has
        BY <1>2, <3>2
      <4>2. Continues(SeqAt(i), TruthAt(i), Known(i), g)
        BY <1>5, <1>6, <3>2, <4>1
      <4> QED BY <2>1, <3>1, <3>2, <4>2
    <3>3. CASE i # len
      <4>1. i \in 0 .. len - 1 /\ i + 1 \in 1 .. len
        BY <1>2, <3>1, <3>3
      <4>2. Continues(SeqAt(i), TruthAt(i), Known(i), link[i + 1])
        BY <1>1, <4>1 DEF Chained
      <4> QED BY <2>1, <3>1, <4>1, <4>2
    <3> QED BY <3>2, <3>3
  <2>3. Reached'
    BY <1>2, <1>6, <2>1 DEF Reached, UpToDate
  <2>4. Unbroken'
    <3> SUFFICES ASSUME ~ hurt'
                 PROVE  /\ \A i \in 1 .. Len(link') : link'[i].kind # "unparsable"
                        /\ NextOf(link[1].seq)'
                        /\ \A i \in 1 .. Len(link') - 1 : link'[i + 1].seq = After(link'[i].seq)
                        /\ venueSeq' = link'[Len(link')].seq
      BY <2>1 DEF Unbroken, After
    <3>1. g = f /\ ~ hurt
      BY <1>6
    <3>2. /\ \A i \in 1 .. len : link[i].kind # "unparsable"
          /\ link # <<>> => NextOf(link[1].seq)
          /\ \A i \in 1 .. len - 1 : link[i + 1].seq = After(link[i].seq)
          /\ IF link # <<>> THEN venueSeq = link[len].seq
             ELSE venueSeq = 0 \/ (lastSeq # None /\ venueSeq = lastSeq)
      BY <1>1, <3>1 DEF Unbroken
    <3>3. NextSeq = After(venueSeq) /\ (venueSeq = 0 => NextSeq = 1)
      BY <1>1, FeedNumbers DEF NextSeq, After
    <3>4. \A i \in 1 .. Len(link') : link'[i].kind # "unparsable"
      <4>1. \A i \in 1 .. Len(link') : i \in 1 .. len \/ i = len + 1
        BY <1>2, <2>1
      <4> QED BY <2>1, <3>1, <3>2, <4>1
    <3>5. NextOf(link[1].seq)'
      <4>1. NextOf(link[1].seq)' <=> NextOf(link'[1].seq)
        BY DEF NextOf, After
      <4>2. CASE len = 0
        BY <1>2, <1>6, <2>1, <3>2, <3>3, <4>1, <4>2 DEF NextOf
      <4>3. CASE len # 0
        <5>1. 1 \in 1 .. len
          BY <1>2, <4>3
        <5> QED BY <1>2, <2>1, <3>2, <4>1, <4>3, <5>1
      <4> QED BY <4>2, <4>3
    <3>6. ASSUME NEW i \in 1 .. Len(link') - 1
          PROVE  link'[i + 1].seq = After(link'[i].seq)
      <4>1. i \in 1 .. len
        BY <1>2, <2>1
      <4>2. CASE i = len
        <5>1. link # <<>>
          BY <1>2, <4>1
        <5> QED BY <1>6, <2>1, <3>2, <3>3, <4>1, <4>2, <5>1
      <4>3. CASE i # len
        <5>1. i \in 1 .. len - 1 /\ i + 1 \in 1 .. len
          BY <1>2, <4>1, <4>3
        <5> QED BY <2>1, <3>2, <4>1, <5>1
      <4> QED BY <4>2, <4>3
    <3> QED BY <1>2, <1>6, <2>1, <3>4, <3>5, <3>6
  <2> QED BY <1>6, <2>1, <2>2, <2>3, <2>4 DEF FramesInv
<1>7. CASE link' = Append(link, f) /\ UNCHANGED <<faults, hurt>>
  <2>1. /\ link' \in Seq(Frames) /\ FramesInv' /\ Len(link') = len + 1
        /\ Known(Len(link))' \subseteq K \cup {f.market}
    BY <1>6, <1>7
  <2>2. hurt' \in BOOLEAN /\ faults' \in 0 .. MaxFaults
    BY <1>1, <1>7 DEF FeedTypeOK
  <2> QED BY <1>2, <2>1, <2>2
<1>8. CASE MayFail(NextSeq) /\ faults' = faults + 1 /\ hurt' = TRUE /\ UNCHANGED link
  <2>1. \A i : SeqAt(i)' = SeqAt(i) /\ TruthAt(i)' = TruthAt(i) /\ Known(i)' = Known(i)
    BY <1>8 DEF SeqAt, TruthAt, Known
  <2>2. Len(link') = len
    BY <1>8
  <2>3. Chained'
    BY <1>1, <1>8, <2>1, <2>2 DEF Chained, Continues, After
  <2>4. Reached'
    <3>1. /\ SeqAt(Len(link))' = n /\ TruthAt(Len(link))' = t /\ Known(Len(link))' = K
      BY <1>8 DEF SeqAt, TruthAt, Known
    <3>2. has => n \in 1 .. MaxSeq /\ n # venueSeq' /\ n < venueSeq' /\ venueSeq' < MaxSeq
      BY <1>2, <1>3, <1>4, <1>8
    <3> HIDE DEF n, t, K
    <3> QED BY <1>8, <3>1, <3>2 DEF Reached, UpToDate
  <2>5. Unbroken'
    BY <1>8 DEF Unbroken
  <2>6. Known(Len(link))' = Known(len)
    BY <1>8 DEF Known
  <2>7. faults' \in 0 .. MaxFaults
    BY <1>1, <1>8, FailsAwayFromFold
  <2> QED BY <1>1, <1>2, <1>8, <2>2, <2>3, <2>4, <2>5, <2>6, <2>7 DEF FramesInv
<1>9. CASE /\ MayFail(NextSeq) /\ faults' = faults + 1 /\ hurt' = TRUE
           /\ link' = Append(link, [f EXCEPT !.kind = "unparsable"])
  <2> DEFINE g == [f EXCEPT !.kind = "unparsable"]
  <2>1. /\ g \in Frames /\ g.seq = NextSeq /\ g.truth = truth' /\ g.market = f.market
        /\ g.kind = "unparsable"
    BY <1>1, <1>9, FailsAwayFromFold DEF Frames, FrameOK
  <2>2. faults' \in 0 .. MaxFaults
    BY <1>1, <1>9, FailsAwayFromFold
  <2> HIDE DEF g
  <2>3. link' = Append(link, g)
    BY <1>9 DEF g
  <2>4. /\ link' \in Seq(Frames) /\ FramesInv' /\ Len(link') = len + 1
        /\ Known(Len(link))' \subseteq K \cup {f.market}
    BY <1>6, <1>9, <2>1, <2>3
  <2> QED BY <1>2, <1>9, <2>2, <2>4
<1> QED BY <1>7, <1>8, <1>9 DEF Send

-----------------------------------------------------------------------------
(* The client reads *)

\* What holds behind a garbled frame holds behind the frame before it.
LEMMA GarbledIsSkipped ==
    ASSUME FeedTypeOK, NEW n \in 1 .. MaxSeq, NEW t, NEW K,
           NEW u \in Frames, u.kind = "unparsable", Continues(n, t, K, u),
           NEW t2, NEW K2
    PROVE  /\ \A f \in Frames : Continues(u.seq, t2, K2, f) => Continues(n, t, K, f)
           /\ UpToDate(u.seq, t2, K2) => UpToDate(n, t, K)
<1>1. /\ u.seq \in 1 .. MaxSeq /\ u.seq # MaxSeq /\ u.seq # 2
      /\ IF n = MaxSeq THEN u.seq = 2 ELSE u.seq > n
  BY DEF Frames, FrameOK, Continues
<1>2. n # MaxSeq /\ u.seq > n /\ MaxSeq \in Nat /\ venueSeq \in 0 .. MaxSeq
  BY <1>1, FeedNumbers
<1>3. ASSUME NEW f \in Frames, Continues(u.seq, t2, K2, f)
      PROVE  Continues(n, t, K, f)
  <2>1. f.seq > u.seq /\ f.seq \in 1 .. MaxSeq
    BY <1>1, <1>3 DEF Continues, Frames
  <2>2. f.seq > n /\ f.seq # After(n)
    BY <1>1, <1>2, <2>1 DEF After
  <2> QED BY <1>2, <2>2 DEF Continues
<1>4. UpToDate(u.seq, t2, K2) => UpToDate(n, t, K)
  BY <1>1, <1>2 DEF UpToDate
<1> QED BY <1>3, <1>4

\* The positions before and after the first frame.
LEMMA FirstPositions ==
    ASSUME FeedIInv, link # <<>>
    PROVE  /\ link[1] \in Frames /\ Len(link) \in Nat \ {0}
           /\ SeqAt(0) = lastSeq /\ TruthAt(0) = asOf /\ Known(0) = snapped
           /\ SeqAt(1) = link[1].seq /\ TruthAt(1) = link[1].truth
           /\ snapped # {} => /\ lastSeq \in 1 .. MaxSeq
                              /\ Continues(lastSeq, asOf, snapped, link[1])
<1>1. link[1] \in Frames /\ Len(link) \in Nat \ {0}
  <2>1. link \in Seq(Frames)
    BY DEF FeedIInv
  <2>2. Len(link) \in Nat /\ Len(link) # 0
    BY <2>1, EmptySeq, LenProperties
  <2> QED BY <2>1, <2>2, ElementOfSeq
<1>2. SeqAt(0) = lastSeq /\ TruthAt(0) = asOf /\ Known(0) = snapped
  BY DEF SeqAt, TruthAt, Known
<1>3. SeqAt(1) = link[1].seq /\ TruthAt(1) = link[1].truth
  BY DEF SeqAt, TruthAt
<1>4. ASSUME snapped # {}
      PROVE  lastSeq \in 1 .. MaxSeq /\ Continues(lastSeq, asOf, snapped, link[1])
  <2>1. lastSeq \in 1 .. MaxSeq
    BY <1>4, FeedNumbers DEF FeedIInv, AroundInv, SnapshotsWereSent
  <2>2. 0 \in 0 .. Len(link) - 1
    BY <1>1
  <2>3. Continues(SeqAt(0), TruthAt(0), Known(0), link[0 + 1])
    BY <1>4, <2>2 DEF FeedIInv, FramesInv, Chained
  <2> QED BY <1>2, <2>1, <2>3
<1> QED BY <1>1, <1>2, <1>3, <1>4

\* A garbled frame is dropped.
LEMMA DropKeepsFrames ==
    ASSUME FeedIInv, link # <<>>, link' = Tail(link), link[1].kind = "unparsable",
           UNCHANGED <<lastSeq, conn, asOf, snapped, truth, venueSeq, hurt>>
    PROVE  link' \in Seq(Frames) /\ FramesInv' /\ Known(Len(link))' = Known(Len(link))
<1> DEFINE len == Len(link)
<1>1. FeedTypeOK /\ link \in Seq(Frames) /\ Chained /\ Reached /\ Unbroken
  BY DEF FeedIInv, FramesInv
<1>2. /\ link' \in Seq(Frames) /\ len \in Nat \ {0} /\ Len(link') = len - 1
      /\ \A i \in 1 .. len - 1 : link'[i] = link[i + 1]
      /\ link' = <<>> <=> len = 1
      /\ \A i \in 1 .. len - 1 : SeqAt(i)' = SeqAt(i + 1) /\ TruthAt(i)' = TruthAt(i + 1)
      /\ \A i \in 0 .. len - 1 : Known(i)' = Known(i + 1)
      /\ link[1] \in Frames
  BY <1>1, FramePopped
<1>3. SeqAt(0)' = lastSeq /\ TruthAt(0)' = asOf /\ Known(0)' = snapped
  BY DEF SeqAt, TruthAt, Known
<1>4. /\ SeqAt(1) = link[1].seq /\ TruthAt(1) = link[1].truth
      /\ snapped # {} => /\ lastSeq \in 1 .. MaxSeq
                         /\ Continues(lastSeq, asOf, snapped, link[1])
  BY FirstPositions
<1>5. Chained'
  <2> SUFFICES ASSUME NEW i \in 0 .. Len(link') - 1, i = 0 => snapped' # {}
               PROVE  Continues(SeqAt(i)', TruthAt(i)', Known(i)', link'[i + 1])
    BY DEF Chained, Continues, After
  <2>1. i + 1 \in 1 .. len - 1 /\ i + 1 \in 0 .. len - 1 /\ i + 1 # 0
    BY <1>2
  <2>2. Continues(SeqAt(i + 1), TruthAt(i + 1), Known(i + 1), link[(i + 1) + 1])
    BY <1>1, <2>1 DEF Chained
  <2>3. link'[i + 1] = link[(i + 1) + 1]
    BY <1>2, <2>1
  <2>4. CASE i = 0
    <3>1. link[(0 + 1) + 1] \in Frames
      BY <1>1, <2>1, <2>4, ElementOfSeq
    <3>2. Continues(link[1].seq, TruthAt(1), Known(1), link[(0 + 1) + 1])
      BY <1>4, <2>2, <2>4
    <3>3. Continues(lastSeq, asOf, snapped, link[(0 + 1) + 1])
      BY <1>1, <1>2, <1>4, <2>4, <3>1, <3>2, GarbledIsSkipped
    <3> QED BY <1>3, <2>3, <2>4, <3>3
  <2>5. CASE i # 0
    <3>1. i \in 1 .. len - 1
      BY <1>2, <2>1, <2>5
    <3> QED BY <1>2, <2>2, <2>3, <3>1
  <2> QED BY <2>4, <2>5
<1>6. Reached'
  <2> SUFFICES ASSUME conn' = "open", link' = <<>> => snapped' # {}
               PROVE  UpToDate(SeqAt(Len(link)), TruthAt(Len(link)), Known(Len(link)))'
    BY DEF Reached
  <2>1. UpToDate(SeqAt(len), TruthAt(len), Known(len))
    BY <1>1 DEF Reached
  <2>2. CASE len = 1
    <3>1. Len(link') = 0 /\ snapped # {}
      BY <1>2, <2>2
    <3>2. UpToDate(lastSeq, asOf, snapped)
      BY <1>1, <1>2, <1>4, <2>1, <2>2, <3>1, GarbledIsSkipped
    <3>3. SeqAt(Len(link))' = lastSeq /\ TruthAt(Len(link))' = asOf
          /\ Known(Len(link))' = snapped
      <4>1. \A i : i = Len(link') => /\ SeqAt(Len(link))' = SeqAt(i)'
                                     /\ TruthAt(Len(link))' = TruthAt(i)'
                                     /\ Known(Len(link))' = Known(i)'
        BY DEF SeqAt, TruthAt, Known
      <4> QED BY <1>3, <3>1, <4>1
    <3> QED BY <3>2, <3>3 DEF UpToDate
  <2>3. CASE len # 1
    <3>1. len - 1 \in 1 .. len - 1 /\ (len - 1) + 1 = len
      BY <1>2, <2>3
    <3>2. /\ SeqAt(Len(link))' = SeqAt(len) /\ TruthAt(Len(link))' = TruthAt(len)
          /\ Known(Len(link))' = Known(len)
      <4>1. \A i : i = len - 1 => /\ SeqAt(i)' = SeqAt(len) /\ TruthAt(i)' = TruthAt(len)
                                  /\ Known(i)' = Known(len)
        BY <1>2, <3>1
      <4>2. \A i : i = Len(link') => /\ SeqAt(Len(link))' = SeqAt(i)'
                                     /\ TruthAt(Len(link))' = TruthAt(i)'
                                     /\ Known(Len(link))' = Known(i)'
        BY DEF SeqAt, TruthAt, Known
      <4> QED BY <1>2, <4>1, <4>2
    <3> QED BY <2>1, <3>2 DEF UpToDate
  <2> QED BY <2>2, <2>3
<1>7. Unbroken'
  <2>1. 1 \in 1 .. len
    BY <1>2
  <2> QED BY <1>1, <2>1 DEF Unbroken
<1>8. Known(Len(link))' = Known(Len(link))
  <2>1. \A i : i = len - 1 => Known(i)' = Known(len)
    BY <1>2
  <2>2. \A i : i = Len(link') => Known(Len(link))' = Known(i)'
    BY DEF Known
  <2> QED BY <1>2, <2>1, <2>2
<1> QED BY <1>2, <1>5, <1>6, <1>7, <1>8 DEF FramesInv

\* A frame is applied: the client is where the frame was.
LEMMA ReadKeepsFrames ==
    ASSUME FeedIInv, link # <<>>, link' = Tail(link), link[1].kind # "unparsable",
           lastSeq' = link[1].seq, asOf' = link[1].truth,
           snapped' = snapped \cup (IF link[1].kind = "snapshot"
                                    THEN {link[1].market} ELSE {}),
           conn' = "open" => conn = "open",
           UNCHANGED <<truth, venueSeq, hurt>>
    PROVE  link' \in Seq(Frames) /\ FramesInv' /\ Known(Len(link))' = Known(Len(link))
<1> DEFINE len == Len(link)
<1>1. FeedTypeOK /\ link \in Seq(Frames) /\ Chained /\ Reached /\ Unbroken
  BY DEF FeedIInv, FramesInv
<1>2. /\ link' \in Seq(Frames) /\ len \in Nat \ {0} /\ Len(link') = len - 1
      /\ \A i \in 1 .. len - 1 : link'[i] = link[i + 1]
      /\ link' = <<>> <=> len = 1
      /\ \A i \in 1 .. len - 1 : SeqAt(i)' = SeqAt(i + 1) /\ TruthAt(i)' = TruthAt(i + 1)
      /\ \A i \in 0 .. len - 1 : Known(i)' = Known(i + 1)
      /\ link[1] \in Frames
  BY <1>1, FramePopped
<1>3. SeqAt(0)' = SeqAt(1) /\ TruthAt(0)' = TruthAt(1)
  BY DEF SeqAt, TruthAt
<1>4. \A i \in 0 .. len - 1 : /\ SeqAt(i)' = SeqAt(i + 1) /\ TruthAt(i)' = TruthAt(i + 1)
                              /\ Known(i)' = Known(i + 1)
  <2>1. \A i \in 0 .. len - 1 : i = 0 \/ i \in 1 .. len - 1
    BY <1>2
  <2> QED BY <1>2, <1>3, <2>1
<1>5. Chained'
  <2> SUFFICES ASSUME NEW i \in 0 .. Len(link') - 1, i = 0 => snapped' # {}
               PROVE  Continues(SeqAt(i)', TruthAt(i)', Known(i)', link'[i + 1])
    BY DEF Chained, Continues, After
  <2>1. i + 1 \in 1 .. len - 1 /\ i + 1 \in 0 .. len - 1 /\ i + 1 # 0 /\ i \in 0 .. len - 1
    BY <1>2
  <2>2. Continues(SeqAt(i + 1), TruthAt(i + 1), Known(i + 1), link[(i + 1) + 1])
    BY <1>1, <2>1 DEF Chained
  <2> QED BY <1>2, <1>4, <2>1, <2>2
<1>6. /\ SeqAt(Len(link))' = SeqAt(len) /\ TruthAt(Len(link))' = TruthAt(len)
      /\ Known(Len(link))' = Known(len)
  <2>1. \A i : i = len - 1 => /\ SeqAt(i)' = SeqAt(len) /\ TruthAt(i)' = TruthAt(len)
                              /\ Known(i)' = Known(len)
    BY <1>2, <1>4
  <2>2. \A i : i = Len(link') => /\ SeqAt(Len(link))' = SeqAt(i)'
                                 /\ TruthAt(Len(link))' = TruthAt(i)'
                                 /\ Known(Len(link))' = Known(i)'
    BY DEF SeqAt, TruthAt, Known
  <2> QED BY <1>2, <2>1, <2>2
<1>7. Reached'
  <2>1. conn' = "open" => UpToDate(SeqAt(len), TruthAt(len), Known(len))
    BY <1>1 DEF Reached
  <2> QED BY <1>6, <2>1 DEF Reached, UpToDate
<1>8. Unbroken'
  <2> SUFFICES ASSUME ~ hurt
               PROVE  /\ \A i \in 1 .. Len(link') : link'[i].kind # "unparsable"
                      /\ link' # <<>> => NextOf(link[1].seq)'
                      /\ \A i \in 1 .. Len(link') - 1 : link'[i + 1].seq = After(link'[i].seq)
                      /\ conn' = "open" =>
                            IF link' # <<>> THEN venueSeq = link'[Len(link')].seq
                            ELSE venueSeq = 0 \/ (lastSeq' # None /\ venueSeq = lastSeq')
    BY DEF Unbroken, After
  <2>1. /\ \A i \in 1 .. len : link[i].kind # "unparsable"
        /\ \A i \in 1 .. len - 1 : link[i + 1].seq = After(link[i].seq)
        /\ conn = "open" => venueSeq = link[len].seq
    BY <1>1 DEF Unbroken
  <2>2. lastSeq' \in Int /\ lastSeq' # None
    BY <1>2, BookAssumption DEF Frames
  <2>3. \A i \in 1 .. len - 1 : i + 1 \in 1 .. len
    BY <1>2
  <2>4. \A i \in 1 .. Len(link') : link'[i].kind # "unparsable"
    BY <1>2, <2>1, <2>3
  <2>5. link' # <<>> => NextOf(link[1].seq)'
    <3>1. ASSUME len # 1 PROVE link'[1].seq = After(lastSeq')
      <4>1. 1 \in 1 .. len - 1
        BY <1>2, <3>1
      <4> QED BY <1>2, <2>1, <4>1
    <3> QED BY <1>2, <2>2, <3>1 DEF NextOf, After
  <2>6. ASSUME NEW i \in 1 .. Len(link') - 1
        PROVE  link'[i + 1].seq = After(link'[i].seq)
    <3>1. i \in 1 .. len - 1 /\ i + 1 \in 1 .. len - 1
      BY <1>2
    <3> QED BY <1>2, <2>1, <3>1
  <2>7. ASSUME conn' = "open"
        PROVE  IF link' # <<>> THEN venueSeq = link'[Len(link')].seq
               ELSE venueSeq = 0 \/ (lastSeq' # None /\ venueSeq = lastSeq')
    <3>1. CASE len = 1
      BY <1>2, <2>1, <2>2, <2>7, <3>1
    <3>2. CASE len # 1
      <4>1. len - 1 \in 1 .. len - 1 /\ (len - 1) + 1 = len
        BY <1>2, <3>2
      <4> QED BY <1>2, <2>1, <2>7, <3>2, <4>1
    <3> QED BY <3>1, <3>2
  <2> QED BY <2>4, <2>5, <2>6, <2>7
<1> QED BY <1>2, <1>5, <1>6, <1>7, <1>8 DEF FramesInv

\* A frame that can be parsed is an event for the manager.
LEMMA FrameIsEvent ==
    ASSUME NEW f \in Frames, f.kind # "unparsable", NEW r \in BOOLEAN
    PROVE  EventOK([resync |-> r, market |-> f.market, kind |-> f.kind, body |-> f.body])
<1>1. /\ f.market \in Markets /\ f.kind \in {"snapshot", "level"} /\ f.truth \in Truths
      /\ f.kind = "snapshot" => f.body = SnapshotOf(f.truth[f.market])
      /\ f.kind = "level" => f.body \in Deltas
  BY DEF Frames, FrameOK
<1>2. f.kind = "snapshot" => SnapBody(f.body)
  <2>1. f.truth[f.market] \in VenueLadders
    BY <1>1, TruthLadders
  <2>2. /\ f.truth[f.market].bids \in Ladder /\ f.truth[f.market].asks \in Ladder
    BY <2>1 DEF VenueLadders
  <2>3. \A d \in Ladder : \A x \in DOMAIN LevelsOf(d) : LevelsOf(d)[x] \in Int
    BY DEF LevelsOf, Shown, Ladder
  <2> QED BY <1>1, <2>2, <2>3 DEF SnapBody, SnapshotOf
<1>3. f.kind = "level" => LevelBody(f.body)
  BY <1>1 DEF LevelBody, Deltas
<1> QED BY <1>1, <1>2, <1>3 DEF EventOK

\* A number that is no gap to the adapter is the next one.
LEMMA NoGapIsNext ==
    ASSUME FeedIInv, link # <<>>, snapped # {}, ~ Gap(link[1].seq)
    PROVE  link[1].seq = After(lastSeq)
<1>1. /\ link[1].seq \in 1 .. MaxSeq /\ lastSeq \in 1 .. MaxSeq /\ MaxSeq \in Nat
      /\ IF lastSeq = MaxSeq THEN link[1].seq = 2 ELSE link[1].seq > lastSeq
  BY FirstPositions, FeedNumbers DEF FeedIInv, Frames, Continues
<1>2. lastSeq # None
  BY <1>1, BookAssumption
<1> QED BY <1>1, <1>2 DEF Gap, After

\* What the frame says of a market known before it.
LEMMA NextFrameTells ==
    ASSUME FeedIInv, link # <<>>, link[1].kind # "unparsable", ~ Gap(link[1].seq),
           NEW m \in snapped
    PROVE  link[1].truth[m] = IF link[1].kind = "level" /\ m = link[1].market
                              THEN Moved(asOf[m], link[1].body) ELSE asOf[m]
<1>1. Continues(lastSeq, asOf, snapped, link[1])
  BY FirstPositions
<1>2. link[1].seq = After(lastSeq)
  BY NoGapIsNext
<1> QED BY <1>1, <1>2 DEF Continues

\* The books after apply.
LEMMA AppliedBooks ==
    ASSUME NEW e, Apply(e)
    PROVE  books' = [Before(e) EXCEPT ![e.market] = Updated(Before(e)[e.market], e)]
BY DEF Apply, Before

\* apply keeps the books the connection has given a snapshot exact.
LEMMA ReadKeepsExact ==
    ASSUME FeedIInv, link # <<>>, link[1].kind # "unparsable",
           Apply([resync |-> Gap(link[1].seq), market |-> link[1].market,
                  kind |-> link[1].kind, body |-> link[1].body]),
           asOf' = link[1].truth,
           snapped' = snapped \cup (IF link[1].kind = "snapshot"
                                    THEN {link[1].market} ELSE {})
    PROVE  Exact'
<1> DEFINE f == link[1]
           e == [resync |-> Gap(f.seq), market |-> f.market, kind |-> f.kind, body |-> f.body]
           bf == Before(e)
<1>1. f \in Frames /\ f.market \in Markets /\ f.truth \in Truths /\ Gap(f.seq) \in BOOLEAN
  BY FirstPositions DEF Frames, Gap
<1>2. IInv /\ EventOK(e) /\ now \in Nat
  BY <1>1, FrameIsEvent DEF FeedIInv, IInv, TypeOK
<1>3. /\ DOMAIN bf = DOMAIN books \cup {f.market}
      /\ \A x \in DOMAIN bf : bf[x] \in BookRecord
      /\ books' = [bf EXCEPT ![f.market] = Updated(bf[f.market], e)]
  <2>1. DOMAIN bf = DOMAIN books \cup {e.market} /\ \A x \in DOMAIN bf : bf[x] \in BookRecord
    BY <1>2, BeforeLemma
  <2>2. books' = [bf EXCEPT ![e.market] = Updated(bf[e.market], e)]
    BY AppliedBooks
  <2> QED BY <2>1, <2>2
<1>4. \A x \in Markets : VenueOf[x] = Kalshi
  BY FeedAssumption
<1>5. DOMAIN books \subseteq Markets
  BY <1>2 DEF IInv, TypeOK
\* A book that is trusted before the event was trusted, and there was no gap.
<1>6. ASSUME NEW x \in DOMAIN bf, bf[x].invalid = "ok"
      PROVE  x \in DOMAIN books /\ books[x] = bf[x] /\ ~ Gap(f.seq)
  <2> DEFINE bs == IF Gap(f.seq) THEN Tainted(VenueOf[f.market]) ELSE books
  <2>1. DOMAIN bs = DOMAIN books
    BY DEF Tainted
  <2>2. bf[x] = IF x \in DOMAIN books THEN bs[x] ELSE NewBook(LimitFor(f.market))
    BY <1>6, <2>1 DEF Before, Opened
  <2>3. x \in DOMAIN books
    BY <1>6, <2>2 DEF NewBook
  <2>4. books[x] \in BookRecord
    BY <1>2, <2>3 DEF IInv, TypeOK
  <2>5. ~ Gap(f.seq)
    <3> SUFFICES ASSUME Gap(f.seq) PROVE FALSE
      OBVIOUS
    <3>1. bs[x] = Invalidate(books[x], "seq_gap")
      BY <1>1, <1>4, <1>5, <2>3 DEF Tainted, OfVenue
    <3> QED BY <1>6, <2>2, <2>3, <2>4, <3>1 DEF Invalidate, BookRecord
  <2> QED BY <2>2, <2>3, <2>5
<1> SUFFICES ASSUME NEW m \in snapped', m \in DOMAIN books', books'[m].invalid = "ok"
             PROVE  books'[m].bids = f.truth[m].bids /\ books'[m].asks = f.truth[m].asks
  BY DEF Exact, Trusted
<1>7. snapped \subseteq Markets
  BY DEF FeedIInv, FeedTypeOK
<1>8. asOf \in Truths \/ snapped = {}
  BY DEF FeedIInv, AroundInv, SnapshotsWereSent
<1>9. ASSUME m # f.market
      PROVE  books'[m].bids = f.truth[m].bids /\ books'[m].asks = f.truth[m].asks
  <2>1. m \in snapped /\ m \in DOMAIN bf /\ books'[m] = bf[m]
    BY <1>3, <1>9
  <2>2. m \in DOMAIN books /\ books[m] = bf[m] /\ ~ Gap(f.seq)
    BY <1>6, <2>1
  <2>3. f.truth[m] = asOf[m]
    BY <1>9, <2>1, <2>2, NextFrameTells
  <2> QED BY <2>1, <2>2, <2>3 DEF FeedIInv, Exact, Trusted
<1>10. ASSUME m = f.market, f.kind = "snapshot"
       PROVE  books'[m].bids = f.truth[m].bids /\ books'[m].asks = f.truth[m].asks
  <2>1. books'[m] = ApplySnapshot(bf[m], SnapshotOf(f.truth[m]), now)
    BY <1>1, <1>3, <1>10 DEF Updated, Frames, FrameOK
  <2>2. f.truth[m] \in VenueLadders /\ bf[m] \in BookRecord
    BY <1>1, <1>3, <1>10, TruthLadders
  <2> QED BY <1>2, <2>1, <2>2, SnapshotIsExact
<1>11. ASSUME m = f.market, f.kind = "level"
       PROVE  books'[m].bids = f.truth[m].bids /\ books'[m].asks = f.truth[m].asks
  <2>1. m \in snapped /\ m \in DOMAIN bf /\ bf[m] \in BookRecord
    BY <1>3, <1>11
  <2>2. bf[m].invalid = "ok"
    <3> SUFFICES ASSUME bf[m].invalid # "ok" PROVE FALSE
      OBVIOUS
    <3>1. NeedsResync(bf[m])
      BY <2>1 DEF NeedsResync, BookRecord
    <3>2. books'[m] = bf[m]
      BY <1>3, <1>11, <3>1 DEF Updated
    <3> QED BY <3>2
  <2>3. books'[m] = ApplyLevel(bf[m], f.body, now)
    BY <1>3, <1>11, <2>2 DEF Updated, NeedsResync, Structural
  <2>4. m \in DOMAIN books /\ books[m] = bf[m] /\ ~ Gap(f.seq)
    BY <1>6, <2>1, <2>2
  <2>5. bf[m].bids = asOf[m].bids /\ bf[m].asks = asOf[m].asks
    BY <2>1, <2>2, <2>4 DEF FeedIInv, Exact, Trusted
  <2>6. f.truth[m] = Moved(asOf[m], f.body)
    BY <1>11, <2>1, <2>4, NextFrameTells
  <2>7. asOf[m] \in VenueLadders /\ f.truth[m] \in VenueLadders /\ f.body \in Deltas
    BY <1>1, <1>7, <1>8, <1>11, <2>1, TruthLadders DEF Frames, FrameOK
  <2> HIDE DEF f, bf
  <2> QED BY <1>2, <2>1, <2>2, <2>3, <2>5, <2>6, <2>7, DeltaIsExact
<1>12. f.kind \in {"snapshot", "level"}
  BY <1>1 DEF Frames
<1> QED BY <1>9, <1>10, <1>11, <1>12

-----------------------------------------------------------------------------
(* The steps of the feed *)

\* Numbers of markets.
LEMMA MarketCounts ==
    /\ IsFiniteSet(Markets) /\ Cardinality(Markets) \in Nat
    /\ Cardinality({}) = 0
    /\ \A S \in SUBSET Markets :
          /\ IsFiniteSet(S) /\ Cardinality(S) \in Nat
          /\ Cardinality(S) <= Cardinality(Markets)
          /\ \A m \in S : Cardinality(S \ {m}) = Cardinality(S) - 1
BY FeedAssumption, FS_Subset, FS_CardinalityType, FS_EmptySet, FS_RemoveElement

\* The parts of FeedTypeOK that IInv and Bounded do not give.
FeedTypes ==
    /\ tickers \in SUBSET Markets \ {{}}
    /\ conn \in {"down", "open", "closed"}
    /\ lastSeq \in 1 .. MaxSeq \cup {None}
    /\ truth \in Truths
    /\ venueSeq \in 0 .. MaxSeq
    /\ due \subseteq Markets /\ served \subseteq Markets \ due
    /\ faults \in 0 .. MaxFaults /\ changes \in 0 .. MaxChanges
    /\ asOf \in Truths \cup {None}
    /\ snapped \subseteq Markets
    /\ hurt \in BOOLEAN

LEMMA FeedTypesSuffice ==
    ASSUME IInv', FeedTypes', link' \in Seq(Frames), AroundInv'
    PROVE  FeedTypeOK'
<1>1. Len(link') \in Nat
  BY LenProperties
<1>2. Cardinality(due') \in Nat
  BY MarketCounts DEF FeedTypes
<1>3. Len(link') <= MaxLink + 1 + Cardinality(Markets)
  BY <1>1, <1>2, MarketCounts, FeedAssumption DEF AroundInv, Bounded
<1> QED BY <1>3 DEF FeedTypeOK, FeedTypes, IInv

\* Nothing is on its way and nothing was applied on a connection just made or
\* just left.
LEMMA CleanIsExact ==
    ASSUME link' = <<>>, snapped' = {}, due' \subseteq Markets, hurt' = FALSE,
           venueSeq' = 0, conn' = "down" => due' = {} /\ served' = {}
    PROVE  link' \in Seq(Frames) /\ FramesInv' /\ AroundInv' /\ Exact'
<1>1. link' \in Seq(Frames) /\ Len(link') = 0
  BY EmptySeq
<1>2. Chained' /\ Reached' /\ Unbroken'
  BY <1>1 DEF Chained, Reached, Unbroken
<1>3. Known(Len(link))' = {}
  BY <1>1 DEF Known
<1>4. DownIsClean' /\ SnapshotsWereSent' /\ Exact'
  BY <1>3 DEF DownIsClean, SnapshotsWereSent, Exact
<1>5. Bounded'
  BY <1>1, MarketCounts, FeedAssumption DEF Bounded
<1> QED BY <1>1, <1>2, <1>4, <1>5 DEF FramesInv, AroundInv

\* The feed starts with nothing subscribed and nothing on its way.
LEMMA FeedInitIInv == FeedInit => FeedIInv
<1> SUFFICES ASSUME FeedInit PROVE FeedIInv
  OBVIOUS
<1>1. IInv
  BY DEF FeedInit, Init, IInv, TypeOK, ValidBookIsSound, LimitsAgree, ApplyTimesAgree,
     NoMarkets
<1>2. link \in Seq(Frames) /\ Len(link) = 0 /\ link = <<>>
  BY EmptySeq DEF FeedInit
<1>3. Chained /\ Reached /\ Unbroken
  BY <1>2 DEF FeedInit, Chained, Reached, Unbroken
<1>4. Known(Len(link)) = {}
  BY <1>2 DEF FeedInit, Known
<1>5. DownIsClean /\ SnapshotsWereSent /\ Exact
  BY <1>4 DEF FeedInit, DownIsClean, SnapshotsWereSent, Exact
<1>6. Bounded
  BY <1>2, MarketCounts, FeedAssumption DEF FeedInit, Bounded
<1>7. FeedTypeOK
  <2>1. {MaxSeq, MaxLink, MaxFaults, MaxChanges} \subseteq Nat /\ Cardinality(Markets) \in Nat
    BY MarketCounts, FeedAssumption
  <2>2. /\ 0 <= MaxLink + 1 + Cardinality(Markets)
        /\ 0 \in 0 .. MaxSeq /\ 0 \in 0 .. MaxFaults /\ 0 \in 0 .. MaxChanges
    BY <2>1
  <2> QED BY <1>1, <1>2, <2>2 DEF FeedInit, FeedTypeOK, IInv
<1> QED BY <1>1, <1>2, <1>3, <1>5, <1>6, <1>7 DEF FeedIInv, FramesInv, AroundInv

\* The venue's snapshot of a market.
LEMMA VenueSnapshotKeeps ==
    ASSUME FeedIInv, NEW m \in Markets, VenueSnapshot(m)
    PROVE  FeedIInv'
<1>1. /\ FeedTypeOK /\ link \in Seq(Frames) /\ SnapshotsWereSent /\ Bounded /\ Exact
      /\ Len(link) \in Nat
  BY LenProperties DEF FeedIInv, AroundInv
<1>2. PICK f : f = Frame(m, "snapshot", SnapshotOf(truth[m]), truth)
  OBVIOUS
<1>3. /\ f \in Frames /\ f.kind = "snapshot" /\ f.seq = NextSeq /\ f.market = m
      /\ f.truth = truth
  <2>1. truth \in Truths /\ truth[m] \in VenueStates[m] /\ NextSeq \in 1 .. MaxSeq
    BY <1>1, FeedNumbers, TruthLadders
  <2>2. SnapshotOf(truth[m]) \in Bodies
    BY <2>1 DEF Bodies
  <2> QED BY <1>2, <2>1, <2>2 DEF Frames, FrameOK, Frame
<1>4. /\ conn = "open" /\ Send(f) /\ m \in due /\ due' = due \ {m}
      /\ served' = served \cup {m}
      /\ UNCHANGED <<truth, vars, conn, tickers, lastSeq, changes, asOf, snapped>>
  BY <1>2 DEF VenueSnapshot, clientVars
<1>5. /\ link' \in Seq(Frames) /\ FramesInv'
      /\ Len(link') \in Nat /\ Len(link') <= Len(link) + 1
      /\ Known(Len(link))' \subseteq Known(Len(link)) \cup {m}
      /\ venueSeq' = NextSeq /\ hurt' \in BOOLEAN /\ faults' \in 0 .. MaxFaults
  BY <1>3, <1>4, SendKeepsFrames
<1>6. IInv'
  BY <1>4, ManagerFrame DEF FeedIInv
<1>7. AroundInv'
  <2>1. DownIsClean'
    BY <1>4 DEF DownIsClean
  <2>2. SnapshotsWereSent'
    BY <1>1, <1>4, <1>5 DEF SnapshotsWereSent
  <2>3. due \subseteq Markets
    BY <1>1 DEF FeedTypeOK
  <2>4. Cardinality(due') = Cardinality(due) - 1 /\ Cardinality(due) \in Nat
    BY <1>4, <2>3, MarketCounts
  <2>5. Bounded'
    BY <1>1, <1>5, <2>4, MarketCounts, FeedAssumption DEF Bounded
  <2> QED BY <2>1, <2>2, <2>5 DEF AroundInv
<1>8. FeedTypes'
  <2>1. FeedTypes
    BY <1>1 DEF FeedTypes, FeedTypeOK
  <2>2. due' \subseteq Markets /\ served' \subseteq Markets \ due'
    BY <1>4, <2>1 DEF FeedTypes
  <2>3. venueSeq' \in 0 .. MaxSeq
    BY <1>1, <1>5, FeedNumbers
  <2> QED BY <1>4, <1>5, <2>1, <2>2, <2>3 DEF FeedTypes
<1>9. Exact'
  BY <1>1, <1>4 DEF Exact, Trusted, vars
<1> QED BY <1>5, <1>6, <1>7, <1>8, <1>9, FeedTypesSuffice DEF FeedIInv

\* A market moves, and a subscribed one is sent the change.
LEMMA VenueMoveKeeps ==
    ASSUME FeedIInv, NEW m \in Markets, VenueMove(m)
    PROVE  FeedIInv'
<1>1. /\ FeedTypeOK /\ link \in Seq(Frames) /\ DownIsClean /\ SnapshotsWereSent
      /\ Bounded /\ Exact /\ Chained /\ Reached /\ Unbroken
      /\ Len(link) \in Nat /\ Known(Len(link)) \subseteq served /\ served \subseteq Markets
      /\ truth \in Truths
  BY LenProperties DEF FeedIInv, FramesInv, AroundInv, SnapshotsWereSent, FeedTypeOK
<1>2. /\ UNCHANGED <<due, served, vars, conn, tickers, lastSeq, changes, asOf, snapped>>
  BY DEF VenueMove, clientVars
<1>3. PICK l \in VenueStates[m], u \in Deltas :
         /\ l = Moved(truth[m], u)
         /\ truth' = [truth EXCEPT ![m] = l]
         /\ IF conn = "open" /\ m \in served
            THEN Len(link) <= MaxLink /\ Send(Frame(m, "level", u, truth'))
            ELSE UNCHANGED <<link, venueSeq, faults, hurt>>
  BY DEF VenueMove, DeltasOf
<1>4. u \in Deltas /\ l = Moved(truth[m], u)
  BY <1>3
<1>5. /\ truth' \in Truths /\ truth'[m] = Moved(truth[m], u)
      /\ \A x \in Markets : x # m => truth'[x] = truth[x]
  BY <1>1, <1>3, <1>4 DEF Truths
<1>6. IInv'
  BY <1>2, ManagerFrame DEF FeedIInv
<1>7. Exact'
  BY <1>1, <1>2 DEF Exact, Trusted, vars
<1>8. ASSUME conn = "open", m \in served
      PROVE  /\ link' \in Seq(Frames) /\ FramesInv' /\ AroundInv'
             /\ venueSeq' \in 0 .. MaxSeq /\ hurt' \in BOOLEAN /\ faults' \in 0 .. MaxFaults
  <2>1. PICK f : f = Frame(m, "level", u, truth')
    OBVIOUS
  <2>2. /\ f \in Frames /\ f.kind = "level" /\ f.seq = NextSeq /\ f.market = m
        /\ f.truth = truth' /\ f.body = u
    BY <1>1, <1>4, <1>5, <2>1, FeedNumbers DEF Frames, FrameOK, Frame, Bodies
  <2>3. Send(f) /\ Len(link) <= MaxLink
    BY <1>3, <1>8, <2>1
  <2>4. /\ link' \in Seq(Frames) /\ FramesInv'
        /\ Len(link') \in Nat /\ Len(link') <= Len(link) + 1
        /\ Known(Len(link))' \subseteq Known(Len(link)) \cup {m}
        /\ venueSeq' = NextSeq /\ hurt' \in BOOLEAN /\ faults' \in 0 .. MaxFaults
    <3>1. \A x \in Known(Len(link)) :
             truth'[x] = IF f.kind = "level" /\ x = f.market
                         THEN Moved(truth[x], f.body) ELSE truth[x]
      BY <1>1, <1>5, <2>2
    <3> QED BY <1>2, <1>8, <2>2, <2>3, <3>1, SendKeepsFrames
  <2>5. DownIsClean'
    BY <1>2, <1>8 DEF DownIsClean
  <2>6. SnapshotsWereSent'
    BY <1>1, <1>2, <1>8, <2>4 DEF SnapshotsWereSent
  <2>7. Bounded'
    <3>1. due' \subseteq Markets
      BY <1>1, <1>2 DEF FeedTypeOK
    <3>2. Cardinality(due') <= Cardinality(Markets) /\ Cardinality(due') \in Nat
      BY <3>1, MarketCounts
    <3> QED BY <1>1, <2>3, <2>4, <3>2, MarketCounts, FeedAssumption DEF Bounded
  <2> QED BY <1>1, <2>4, <2>5, <2>6, <2>7, FeedNumbers DEF AroundInv
<1>9. ASSUME ~ (conn = "open" /\ m \in served)
      PROVE  /\ link' \in Seq(Frames) /\ FramesInv' /\ AroundInv'
             /\ venueSeq' \in 0 .. MaxSeq /\ hurt' \in BOOLEAN /\ faults' \in 0 .. MaxFaults
  <2>1. UNCHANGED <<link, venueSeq, faults, hurt>>
    BY <1>3, <1>9
  <2>2. /\ SeqAt(Len(link))' = SeqAt(Len(link)) /\ TruthAt(Len(link))' = TruthAt(Len(link))
        /\ Known(Len(link))' = Known(Len(link))
        /\ \A i : SeqAt(i)' = SeqAt(i) /\ TruthAt(i)' = TruthAt(i) /\ Known(i)' = Known(i)
    BY <1>2, <2>1 DEF SeqAt, TruthAt, Known
  <2>3. Chained'
    BY <1>1, <1>2, <2>1, <2>2 DEF Chained, Continues, After
  <2>4. Reached'
    <3>1. conn = "open" => \A x \in Known(Len(link)) : truth'[x] = truth[x]
      BY <1>1, <1>5, <1>9
    <3> QED BY <1>1, <1>2, <2>1, <2>2, <3>1 DEF Reached, UpToDate
  <2>5. Unbroken'
    BY <1>1, <1>2, <2>1 DEF Unbroken, NextOf, After
  <2>6. DownIsClean' /\ SnapshotsWereSent' /\ Bounded'
    BY <1>1, <1>2, <2>1, <2>2 DEF DownIsClean, SnapshotsWereSent, Bounded
  <2> QED BY <1>1, <2>1, <2>3, <2>4, <2>5, <2>6 DEF FramesInv, AroundInv, FeedTypeOK
<1>10. /\ link' \in Seq(Frames) /\ FramesInv' /\ AroundInv'
       /\ venueSeq' \in 0 .. MaxSeq /\ hurt' \in BOOLEAN /\ faults' \in 0 .. MaxFaults
  BY <1>8, <1>9
<1>11. FeedTypes'
  BY <1>1, <1>2, <1>5, <1>10 DEF FeedTypes, FeedTypeOK
<1> QED BY <1>6, <1>7, <1>10, <1>11, FeedTypesSuffice DEF FeedIInv

\* A connection is made.
LEMMA DialKeeps ==
    ASSUME FeedIInv, Dial
    PROVE  FeedIInv'
<1>1. FeedTypeOK /\ DownIsClean
  BY DEF FeedIInv, AroundInv
<1>2. /\ conn = "down" /\ conn' = "open" /\ due' = tickers /\ venueSeq' = 0
      /\ served' = {} /\ link' = <<>>
      /\ UNCHANGED <<truth, tickers, lastSeq, vars, faults, changes, asOf, snapped, hurt>>
  BY DEF Dial, countVars, historyVars
<1>3. snapped' = {} /\ hurt' = FALSE /\ due' \subseteq Markets
  BY <1>1, <1>2 DEF DownIsClean, FeedTypeOK
<1>4. link' \in Seq(Frames) /\ FramesInv' /\ AroundInv' /\ Exact'
  BY <1>2, <1>3, CleanIsExact
<1>5. IInv'
  BY <1>2, ManagerFrame DEF FeedIInv
<1>6. FeedTypes'
  BY <1>1, <1>2, FeedAssumption DEF FeedTypes, FeedTypeOK
<1> QED BY <1>4, <1>5, <1>6, FeedTypesSuffice DEF FeedIInv

\* A connection is left, for whatever reason.
LEMMA LeavingKeeps ==
    ASSUME FeedIInv, LeaveConnection, faults' \in 0 .. MaxFaults
    PROVE  FeedIInv'
<1>1. FeedTypeOK
  BY DEF FeedIInv
<1>2. link' \in Seq(Frames) /\ FramesInv' /\ AroundInv' /\ Exact'
  BY CleanIsExact DEF LeaveConnection
<1>3. IInv'
  BY ManagerFrame DEF FeedIInv, LeaveConnection
<1>4. /\ conn' = "down" /\ venueSeq' = 0 /\ due' = {} /\ served' = {}
      /\ asOf' = None /\ snapped' = {} /\ hurt' = FALSE
      /\ UNCHANGED <<truth, tickers, lastSeq, changes>>
  BY DEF LeaveConnection
<1>5. 0 \in 0 .. MaxSeq
  BY <1>1, FeedNumbers
<1>6. FeedTypes'
  BY <1>1, <1>4, <1>5 DEF FeedTypes, FeedTypeOK
<1> QED BY <1>2, <1>3, <1>6, FeedTypesSuffice DEF FeedIInv

\* The consume task reads a frame.
LEMMA ConsumeKeeps ==
    ASSUME FeedIInv, Consume
    PROVE  FeedIInv'
<1> DEFINE f == link[1]
<1>1. /\ FeedTypeOK /\ link \in Seq(Frames) /\ DownIsClean /\ SnapshotsWereSent
      /\ Bounded /\ Exact /\ IInv
  BY DEF FeedIInv, AroundInv
<1>2. /\ conn \in {"open", "closed"} /\ link # <<>> /\ link' = Tail(link)
      /\ UNCHANGED <<tickers, truth, venueSeq, due, served, faults, changes, hurt>>
  BY DEF Consume, countVars
<1>3. /\ f \in Frames /\ Head(link) = f
      /\ Len(link) \in Nat /\ Len(link') \in Nat /\ Len(link') <= Len(link)
  BY <1>1, <1>2, FramePopped
<1>4. Bounded'
  <2>1. Cardinality(due) \in Nat
    BY <1>1, MarketCounts DEF FeedTypeOK
  <2> QED BY <1>1, <1>2, <1>3, <2>1, MarketCounts, FeedAssumption DEF Bounded
<1>5. ASSUME f.kind = "unparsable"
      PROVE  FeedIInv'
  <2>1. UNCHANGED <<vars, lastSeq, conn, asOf, snapped>>
    BY <1>3, <1>5 DEF Consume
  <2>2. link' \in Seq(Frames) /\ FramesInv' /\ Known(Len(link))' = Known(Len(link))
    BY <1>2, <1>5, <2>1, DropKeepsFrames
  <2>3. IInv'
    BY <1>1, <2>1, ManagerFrame
  <2>4. AroundInv'
    BY <1>1, <1>2, <1>4, <2>1, <2>2 DEF DownIsClean, SnapshotsWereSent, AroundInv
  <2>5. Exact'
    BY <1>1, <2>1 DEF Exact, Trusted, vars
  <2>6. FeedTypes'
    BY <1>1, <1>2, <2>1 DEF FeedTypes, FeedTypeOK
  <2> QED BY <2>2, <2>3, <2>4, <2>5, <2>6, FeedTypesSuffice DEF FeedIInv
<1>6. ASSUME f.kind # "unparsable"
      PROVE  FeedIInv'
  <2>1. /\ Apply([resync |-> Gap(f.seq), market |-> f.market, kind |-> f.kind,
                  body |-> f.body])
        /\ lastSeq' = f.seq
        /\ conn' = IF Gap(f.seq) THEN Close(conn) ELSE conn
        /\ asOf' = f.truth
        /\ snapped' = snapped \cup (IF f.kind = "snapshot" THEN {f.market} ELSE {})
    BY <1>3, <1>6 DEF Consume
  <2>2. f.seq \in 1 .. MaxSeq /\ f.market \in Markets /\ f.truth \in Truths
    BY <1>3 DEF Frames
  <2>3. conn' \in {"open", "closed"} /\ (conn' = "open" => conn = "open")
    BY <1>2, <2>1 DEF Close
  <2>4. link' \in Seq(Frames) /\ FramesInv' /\ Known(Len(link))' = Known(Len(link))
    BY <1>2, <1>6, <2>1, <2>3, ReadKeepsFrames
  <2>5. IInv'
    <3>1. Gap(f.seq) \in BOOLEAN
      BY DEF Gap
    <3>2. EventOK([resync |-> Gap(f.seq), market |-> f.market, kind |-> f.kind,
                   body |-> f.body])
      BY <1>3, <1>6, <3>1, FrameIsEvent
    <3> QED BY <1>1, <2>1, <3>2, ApplyKeepsIInv
  <2>6. AroundInv'
    <3>1. lastSeq' # None
      BY <2>1, <2>2, BookAssumption
    <3> QED BY <1>1, <1>2, <1>4, <2>1, <2>2, <2>3, <2>4, <3>1
            DEF DownIsClean, SnapshotsWereSent, AroundInv
  <2>7. Exact'
    BY <1>2, <1>6, <2>1, ReadKeepsExact
  <2>8. FeedTypes'
    BY <1>1, <1>2, <2>1, <2>2, <2>3 DEF FeedTypes, FeedTypeOK
  <2> QED BY <2>4, <2>5, <2>6, <2>7, <2>8, FeedTypesSuffice DEF FeedIInv
<1> QED BY <1>5, <1>6

\* The subscription is changed.
LEMMA SetTickersKeeps ==
    ASSUME FeedIInv, NEW new \in SUBSET Markets \ {{}}, SetTickers(new)
    PROVE  FeedIInv'
<1>1. /\ FeedTypeOK /\ link \in Seq(Frames) /\ Chained /\ Unbroken
      /\ DownIsClean /\ SnapshotsWereSent /\ Bounded /\ Exact /\ IInv
  BY DEF FeedIInv, FramesInv, AroundInv
<1>2. /\ changes < MaxChanges /\ changes' = changes + 1 /\ tickers' = new
      /\ Evict(OfVenue(Kalshi) \ new)
      /\ conn' = Close(conn)
      /\ UNCHANGED <<lastSeq, link, truth, venueSeq, due, served, faults, asOf, snapped, hurt>>
  BY DEF SetTickers, Retain, venueVars, historyVars
<1>3. /\ conn' # "open" /\ conn' \in {"down", "closed"} /\ (conn' = "down" => conn = "down")
  BY <1>1, <1>2 DEF Close, FeedTypeOK
<1>4. IInv'
  BY <1>1, <1>2, EvictKeepsIInv
<1>5. FramesInv'
  <2>1. \A i : SeqAt(i)' = SeqAt(i) /\ TruthAt(i)' = TruthAt(i) /\ Known(i)' = Known(i)
    BY <1>2 DEF SeqAt, TruthAt, Known
  <2>2. Chained'
    BY <1>1, <1>2, <2>1 DEF Chained, Continues, After
  <2>3. Reached' /\ Unbroken'
    BY <1>1, <1>2, <1>3 DEF Reached, Unbroken, NextOf, After
  <2> QED BY <2>2, <2>3 DEF FramesInv
<1>6. AroundInv'
  <2>1. Known(Len(link))' = Known(Len(link))
    BY <1>2 DEF Known
  <2> QED BY <1>1, <1>2, <1>3, <2>1 DEF DownIsClean, SnapshotsWereSent, Bounded, AroundInv
<1>7. Exact'
  <2>1. DOMAIN books' \subseteq DOMAIN books /\ \A m \in DOMAIN books' : books'[m] = books[m]
    BY <1>2 DEF Evict, Removed
  <2> QED BY <1>1, <1>2, <2>1 DEF Exact, Trusted
<1>8. FeedTypes'
  BY <1>1, <1>2, <1>3, FeedAssumption DEF FeedTypes, FeedTypeOK
<1> QED BY <1>1, <1>2, <1>4, <1>5, <1>6, <1>7, <1>8, FeedTypesSuffice DEF FeedIInv

\* Nothing happens to the feed.
LEMMA FeedStutterKeeps ==
    ASSUME FeedIInv, UNCHANGED feedVars
    PROVE  FeedIInv'
<1>1. UNCHANGED <<vars, tickers, conn, lastSeq, link, truth, venueSeq, due, served,
                  faults, changes, asOf, snapped, hurt>>
  BY DEF feedVars, clientVars, venueVars, countVars, historyVars
<1>2. \A i : SeqAt(i)' = SeqAt(i) /\ TruthAt(i)' = TruthAt(i) /\ Known(i)' = Known(i)
  BY <1>1 DEF SeqAt, TruthAt, Known
<1>3. /\ SeqAt(Len(link))' = SeqAt(Len(link)) /\ TruthAt(Len(link))' = TruthAt(Len(link))
      /\ Known(Len(link))' = Known(Len(link))
  BY <1>1 DEF SeqAt, TruthAt, Known
<1>4. FramesInv'
  BY <1>1, <1>2, <1>3
     DEF FeedIInv, FramesInv, Chained, Continues, After, Reached, UpToDate, Unbroken, NextOf
<1>5. AroundInv'
  BY <1>1, <1>3 DEF FeedIInv, AroundInv, DownIsClean, SnapshotsWereSent, Bounded
<1>6. Exact'
  BY <1>1 DEF FeedIInv, Exact, Trusted, vars
<1>7. IInv'
  BY <1>1, ManagerFrame DEF FeedIInv
<1>8. FeedTypes'
  BY <1>1 DEF FeedIInv, FeedTypes, FeedTypeOK
<1> QED BY <1>1, <1>4, <1>5, <1>6, <1>7, <1>8, FeedTypesSuffice DEF FeedIInv

\* What is known of the frames and the books holds in every reachable state.
THEOREM FeedInvariant == FeedSpec => []FeedIInv
<1>1. FeedIInv /\ [FeedNext]_feedVars => FeedIInv'
  <2> SUFFICES ASSUME FeedIInv, [FeedNext]_feedVars PROVE FeedIInv'
    OBVIOUS
  <2>1. ASSUME NEW m \in Markets, VenueSnapshot(m) PROVE FeedIInv'
    BY <2>1, VenueSnapshotKeeps
  <2>2. ASSUME NEW m \in Markets, VenueMove(m) PROVE FeedIInv'
    BY <2>2, VenueMoveKeeps
  <2>3. CASE Dial
    BY <2>3, DialKeeps
  <2>4. CASE Teardown \/ Stall
    BY <2>4, LeavingKeeps DEF Teardown, Stall, FeedIInv, FeedTypeOK
  <2>5. CASE NetworkDrop
    <3>1. faults' \in 0 .. MaxFaults
      BY <2>5, FeedNumbers DEF NetworkDrop, FeedIInv, FeedTypeOK
    <3> QED BY <2>5, <3>1, LeavingKeeps DEF NetworkDrop
  <2>6. CASE Consume
    BY <2>6, ConsumeKeeps
  <2>7. ASSUME NEW new \in SUBSET Markets \ {{}}, SetTickers(new) PROVE FeedIInv'
    BY <2>7, SetTickersKeeps
  <2>8. CASE UNCHANGED feedVars
    BY <2>8, FeedStutterKeeps
  <2> QED BY <2>1, <2>2, <2>3, <2>4, <2>5, <2>6, <2>7, <2>8 DEF FeedNext
<1> QED BY <1>1, FeedInitIInv, PTL DEF FeedSpec

\* A book with no fault recorded against it shows the venue's ladders as they
\* were at the last frame applied, whatever was lost before or after.
THEOREM TrustedBooksStayExact == FeedSpec => []TrustedBooksAreExact
<1>1. FeedIInv => TrustedBooksAreExact
  BY DEF FeedIInv, Exact, TrustedBooksAreExact
<1> QED BY <1>1, FeedInvariant, PTL

\* A connection is broken off over a gap only if a frame was lost on it.
THEOREM OnlyLossBreaksOff == FeedSpec => NoSpuriousResync
<1> DEFINE Broken == conn = "open" /\ conn' = "closed" /\ tickers' = tickers
<1>1. FeedIInv /\ [FeedNext]_feedVars => [Broken => hurt]_feedVars
  <2> SUFFICES ASSUME FeedIInv, FeedNext, Broken PROVE hurt
    BY DEF feedVars, clientVars
  <2>1. Consume
    BY DEF FeedNext, VenueSnapshot, VenueMove, clientVars, Dial, Teardown, Stall,
       NetworkDrop, LeaveConnection, SetTickers
  <2>2. link # <<>> /\ link[1] \in Frames /\ Head(link) = link[1] /\ Gap(link[1].seq)
    BY <2>1, FramePopped DEF Consume, FeedIInv
  <2>3. lastSeq # None /\ lastSeq \in 1 .. MaxSeq /\ link[1].seq > lastSeq + 1
    BY <2>2, FeedNumbers DEF Gap, FeedIInv
  <2>4. ~ NextOf(link[1].seq)
    BY <2>2, <2>3, FeedNumbers DEF NextOf, After, FeedIInv
  <2> QED BY <2>2, <2>4 DEF FeedIInv, FramesInv, Unbroken, FeedTypeOK
<1>2. FeedSpec => [][Broken => hurt]_feedVars
  BY <1>1, FeedInvariant, PTL DEF FeedSpec
<1> QED BY <1>2 DEF NoSpuriousResync


-----------------------------------------------------------------------------
(* The archive read back.  The live books and those of the replay go        *)
(* through the same rows; what else happens to the live ones is an eviction *)
(* or a budget.                                                             *)

\* Two books that differ in their budget only.
Alike(b, r) == /\ b.bids = r.bids /\ b.asks = r.asks /\ b.seq = r.seq
               /\ b.time = r.time /\ b.invalid = r.invalid

\* It is what ReplayRebuildsBooks says of two books.
LEMMA AlikeBooks ==
    ASSUME NEW b \in BookRecord, NEW r \in BookRecord
    PROVE  Alike(b, r) <=> b = [r EXCEPT !.limit = b.limit]
BY DEF Alike, BookRecord

\* Alike books stay alike through the same snapshot, and a book that had none
\* yet is alike any other behind its first.
LEMMA AlikeSnapshot ==
    ASSUME NEW b \in BookRecord, NEW r \in BookRecord, NEW s, SnapBody(s), NEW t \in Nat,
           b.time # None => Alike(b, r),
           ApplySnapshot(b, s, t).time # None
    PROVE  Alike(ApplySnapshot(b, s, t), ApplySnapshot(r, s, t))
<1>1. CASE BadLevels(s.bids) \/ BadLevels(s.asks)
  BY <1>1 DEF ApplySnapshot, Invalidate, Alike, BookRecord
<1>2. CASE ~ (BadLevels(s.bids) \/ BadLevels(s.asks))
  <2> DEFINE New(x) == [x EXCEPT !.bids = LadderOf(s.bids), !.asks = LadderOf(s.asks),
                                 !.seq = s.seq, !.time = t, !.invalid = "ok"]
  <2>1. Alike(New(b), New(r)) /\ New(b) \in BookRecord /\ New(r) \in BookRecord
    BY <1>2, LadderOfType DEF BookRecord, SnapBody, Alike
  <2>2. \A x : ApplySnapshot(x, s, t) = CheckCrossed(New(x))
    BY <1>2 DEF ApplySnapshot
  <2> HIDE DEF New
  <2>3. Alike(CheckCrossed(New(b)), CheckCrossed(New(r)))
    BY <2>1 DEF CheckCrossed, Crossed, Invalidate, Alike, BookRecord
  <2> QED BY <2>2, <2>3
<1> QED BY <1>1, <1>2

\* Alike books stay alike through the same update.
LEMMA AlikeLevel ==
    ASSUME NEW b \in BookRecord, NEW r \in BookRecord, NEW u, LevelBody(u), NEW t \in Nat,
           Alike(b, r)
    PROVE  Alike(ApplyLevel(b, u, t), ApplyLevel(r, u, t))
<1> DEFINE q == NewQty(b, u)
           Set(x) == SetLevel(AdoptSeq(x, u), u.side, u.price, q, t)
<1>1. SeqGap(b, u) <=> SeqGap(r, u)
  BY DEF SeqGap, Alike
<1>2. NewQty(r, u) = q
  BY DEF NewQty, SideOf, Alike
<1>3. Alike(AdoptSeq(b, u), AdoptSeq(r, u))
      /\ AdoptSeq(b, u) \in BookRecord /\ AdoptSeq(r, u) \in BookRecord
  BY DEF AdoptSeq, Alike, BookRecord, LevelBody
<1>4. \A x, y \in BookRecord : Alike(x, y) =>
         \A c \in Structural : Alike(Invalidate(x, c), Invalidate(y, c))
  BY DEF Invalidate, Alike, BookRecord
<1>5. CASE b.invalid # "ok"
  BY <1>5 DEF ApplyLevel, Alike
<1>6. CASE b.invalid = "ok" /\ SeqGap(b, u)
  BY <1>1, <1>4, <1>6 DEF ApplyLevel, Alike, Structural
<1>7. CASE b.invalid = "ok" /\ ~ SeqGap(b, u) /\ (u.price \notin ValidPrices \/ q < 0)
  <2>1. /\ ApplyLevel(b, u, t) = Invalidate(AdoptSeq(b, u), "bad_level")
        /\ ApplyLevel(r, u, t) = Invalidate(AdoptSeq(r, u), "bad_level")
    BY <1>1, <1>2, <1>7 DEF ApplyLevel, Alike
  <2> QED BY <1>3, <1>4, <2>1 DEF Structural
<1>8. CASE b.invalid = "ok" /\ ~ SeqGap(b, u) /\ ~ (u.price \notin ValidPrices \/ q < 0)
  <2>1. /\ ApplyLevel(b, u, t) = CheckCrossed(Set(b))
        /\ ApplyLevel(r, u, t) = CheckCrossed(Set(r))
    BY <1>1, <1>2, <1>8 DEF ApplyLevel, Alike
  <2> HIDE DEF q
  <2>2. Alike(Set(b), Set(r))
    BY <1>3 DEF SetLevel, Alike, BookRecord
  <2>3. \A x \in {b, r} : DOMAIN Set(x) = {"bids", "asks", "seq", "time", "invalid", "limit"}
    BY <1>3 DEF SetLevel, BookRecord
  <2> HIDE DEF Set
  <2>4. Crossed(Set(b)) <=> Crossed(Set(r))
    BY <2>2 DEF Crossed, Alike
  <2>5. \A x \in {b, r} : /\ Invalidate(Set(x), "crossed").bids = Set(x).bids
                          /\ Invalidate(Set(x), "crossed").asks = Set(x).asks
                          /\ Invalidate(Set(x), "crossed").seq = Set(x).seq
                          /\ Invalidate(Set(x), "crossed").time = Set(x).time
                          /\ Invalidate(Set(x), "crossed").invalid = "crossed"
    BY <2>3 DEF Invalidate
  <2> QED BY <2>1, <2>2, <2>4, <2>5 DEF CheckCrossed, Alike
<1> QED BY <1>5, <1>6, <1>7, <1>8

\* What the two managers make of one row.
LEMMA AlikeUpdated ==
    ASSUME NEW b \in BookRecord, Sound(b), NEW r \in BookRecord, NEW e, EventOK(e),
           now \in Nat, b.time # None => Alike(b, r), Updated(b, e).time # None
    PROVE  Alike(Updated(b, e), Updated(r, e))
<1>1. CASE e.kind = "snapshot"
  BY <1>1, AlikeSnapshot DEF EventOK, Updated
<1>2. CASE e.kind = "level" /\ NeedsResync(b)
  BY <1>2 DEF Updated, Alike, NeedsResync
<1>3. CASE e.kind = "level" /\ ~ NeedsResync(b)
  <2>1. b.time # None
    BY <1>3 DEF NeedsResync, Sound, BookRecord
  <2>2. ~ NeedsResync(r)
    BY <1>3, <2>1 DEF NeedsResync, Alike
  <2> QED BY <1>3, <2>1, <2>2, AlikeLevel DEF EventOK, Updated
<1> QED BY <1>1, <1>2, <1>3 DEF EventOK

\* The books of the replay are typed and sound, with no claim on their budgets.
RebuiltOK ==
    /\ DOMAIN replayed \subseteq Markets
    /\ \A m \in DOMAIN replayed : replayed[m] \in BookRecord /\ Sound(replayed[m])
    /\ replayed = [m \in DOMAIN replayed |-> replayed[m]]
    /\ replayedLimit = ReplayLimits

Rebuilds ==
    /\ DOMAIN books \subseteq DOMAIN replayed
    /\ \A m \in DOMAIN books : books[m].time # None => Alike(books[m], replayed[m])

ReplayIInv == IInv /\ RebuiltOK /\ Rebuilds

\* The books of the replay a row starts from.
Reread(e) ==
    [x \in DOMAIN replayed \cup {e.market} |->
        IF x \notin DOMAIN replayed THEN NewBook(Again!LimitFor(e.market))
        ELSE IF e.resync /\ VenueOf[x] = VenueOf[e.market]
             THEN Invalidate(replayed[x], "seq_gap")
        ELSE replayed[x]]

\* replay_run applies a row as the manager does.
LEMMA ReplayedRow ==
    ASSUME NEW e, ReplayRow(e)
    PROVE  /\ replayed' = [Reread(e) EXCEPT ![e.market] = Updated(Reread(e)[e.market], e)]
           /\ replayedLimit' = replayedLimit
<1> DEFINE rs == IF e.resync THEN Again!Tainted(VenueOf[e.market]) ELSE replayed
           rb == Again!Opened(rs, e.market)
<1>1. /\ replayed' = [rb EXCEPT ![e.market] = Again!Updated(rb[e.market], e)]
      /\ replayedLimit' = replayedLimit
  BY DEF ReplayRow, Again!Apply
<1>2. \A b : Again!Updated(b, e) = Updated(b, e)
  BY DEF Again!Updated, Again!ApplySnapshot, Again!ApplyLevel, Again!NeedsResync,
     Again!BadLevels, Again!LadderOf, Again!CheckCrossed, Again!Crossed, Again!Invalidate,
     Again!SeqGap, Again!AdoptSeq, Again!NewQty, Again!SideOf, Again!SetLevel,
     Again!Structural, Again!ValidPrices,
     Updated, ApplySnapshot, ApplyLevel, NeedsResync, BadLevels, LadderOf, CheckCrossed,
     Crossed, Invalidate, SeqGap, AdoptSeq, NewQty, SideOf, SetLevel, Structural, ValidPrices
<1>3. /\ DOMAIN rs = DOMAIN replayed
      /\ \A x \in DOMAIN replayed :
            rs[x] = IF e.resync /\ VenueOf[x] = VenueOf[e.market]
                    THEN Invalidate(replayed[x], "seq_gap") ELSE replayed[x]
  BY DEF Again!Tainted, Again!OfVenue, Again!Invalidate, Invalidate
<1>4. rb = Reread(e)
  BY <1>3 DEF Again!Opened, Reread, Again!NewBook, NewBook, Again!NoLevels, NoLevels,
     Again!ValidPrices, ValidPrices
<1> QED BY <1>1, <1>2, <1>4

\* A row keeps the replay rebuilding the books.
LEMMA RowRebuilds ==
    ASSUME ReplayIInv, NEW e \in Batches, Apply(e), ReplayRow(e)
    PROVE  ReplayIInv'
<1> DEFINE m == e.market
           bf == Before(e)
           rb == Reread(e)
<1>1. IInv /\ RebuiltOK /\ Rebuilds /\ EventOK(e) /\ m \in Markets /\ now \in Nat
  BY BatchesAreEvents DEF ReplayIInv, EventOK, IInv, TypeOK
<1>2. IInv'
  BY <1>1, ApplyKeepsIInv
<1>3. /\ DOMAIN bf = DOMAIN books \cup {m}
      /\ \A x \in DOMAIN bf : /\ bf[x] \in BookRecord /\ Sound(bf[x])
                              /\ bf[x].time = IF x \in DOMAIN books THEN books[x].time ELSE None
  BY <1>1, BeforeLemma
<1>4. \A x \in DOMAIN books :
         bf[x] = IF e.resync /\ VenueOf[x] = VenueOf[m]
                 THEN Invalidate(books[x], "seq_gap") ELSE books[x]
  BY DEF Before, Opened, Tainted, OfVenue
<1>5. Again!LimitFor(m) \in Nat
  <2>1. VenueOf[m] \in Venues
    BY <1>1, ManagerAssumption
  <2> QED BY <1>1, <2>1, ReplayAssumption, ManagerAssumption DEF RebuiltOK, Again!LimitFor
<1>6. /\ DOMAIN rb = DOMAIN replayed \cup {m}
      /\ rb = [x \in DOMAIN rb |-> rb[x]]
  BY DEF Reread
<1>7. \A x \in DOMAIN rb : rb[x] \in BookRecord /\ Sound(rb[x])
  <2> SUFFICES ASSUME NEW x \in DOMAIN rb PROVE rb[x] \in BookRecord /\ Sound(rb[x])
    OBVIOUS
  <2>1. CASE x \notin DOMAIN replayed
    <3>1. rb[x] = NewBook(Again!LimitFor(m))
      BY <1>6, <2>1 DEF Reread
    <3> QED BY <1>5, <3>1 DEF NewBook, BookRecord, Sound, Structural, Ladder, NoLevels
  <2>2. CASE x \in DOMAIN replayed
    <3>1. replayed[x] \in BookRecord /\ Sound(replayed[x])
      BY <1>1, <2>2 DEF RebuiltOK
    <3>2. rb[x] = Invalidate(replayed[x], "seq_gap") \/ rb[x] = replayed[x]
      BY <1>6, <2>2 DEF Reread
    <3> QED BY <3>1, <3>2, InvalidateLemma DEF Structural
  <2> QED BY <2>1, <2>2
<1>8. \A x \in DOMAIN bf : x \in DOMAIN rb /\ (bf[x].time # None => Alike(bf[x], rb[x]))
  <2> SUFFICES ASSUME NEW x \in DOMAIN bf
               PROVE  x \in DOMAIN rb /\ (bf[x].time # None => Alike(bf[x], rb[x]))
    OBVIOUS
  <2>1. x \in DOMAIN rb
    BY <1>1, <1>3, <1>6 DEF Rebuilds
  <2>2. ASSUME bf[x].time # None PROVE Alike(bf[x], rb[x])
    <3>1. x \in DOMAIN books /\ books[x].time # None /\ x \in DOMAIN replayed
      BY <1>1, <1>3, <2>2 DEF Rebuilds
    <3>2. /\ Alike(books[x], replayed[x])
          /\ books[x] \in BookRecord /\ replayed[x] \in BookRecord
      BY <1>1, <3>1 DEF Rebuilds, RebuiltOK, IInv, TypeOK
    <3>3. rb[x] = IF e.resync /\ VenueOf[x] = VenueOf[m]
                  THEN Invalidate(replayed[x], "seq_gap") ELSE replayed[x]
      BY <3>1 DEF Reread
    <3>4. Alike(Invalidate(books[x], "seq_gap"), Invalidate(replayed[x], "seq_gap"))
      BY <3>2 DEF Invalidate, Alike, BookRecord
    <3>5. bf[x] = IF e.resync /\ VenueOf[x] = VenueOf[m]
                  THEN Invalidate(books[x], "seq_gap") ELSE books[x]
      BY <1>4, <3>1
    <3> HIDE DEF bf, rb
    <3> QED BY <3>2, <3>3, <3>4, <3>5
  <2> QED BY <2>1, <2>2
<1>9. books' = [bf EXCEPT ![m] = Updated(bf[m], e)]
  BY AppliedBooks
<1>10. /\ replayed' = [rb EXCEPT ![m] = Updated(rb[m], e)]
       /\ replayedLimit' = replayedLimit
  BY ReplayedRow
<1> HIDE DEF bf, rb
<1>11. m \in DOMAIN bf /\ m \in DOMAIN rb
  BY <1>3, <1>6
<1>12. /\ Updated(rb[m], e) \in BookRecord /\ Sound(Updated(rb[m], e))
       /\ Updated(bf[m], e).time # None => Alike(Updated(bf[m], e), Updated(rb[m], e))
  BY <1>1, <1>3, <1>7, <1>8, <1>11, UpdatedLemma, AlikeUpdated
<1>13. /\ DOMAIN replayed' = DOMAIN rb /\ DOMAIN books' = DOMAIN bf
       /\ replayed'[m] = Updated(rb[m], e) /\ books'[m] = Updated(bf[m], e)
       /\ \A x \in DOMAIN rb : x # m => replayed'[x] = rb[x]
       /\ \A x \in DOMAIN bf : x # m => books'[x] = bf[x]
       /\ replayed' = [x \in DOMAIN replayed' |-> replayed'[x]]
  BY <1>6, <1>9, <1>10, <1>11
<1>14. RebuiltOK'
  <2>1. DOMAIN replayed' \subseteq Markets
    BY <1>1, <1>6, <1>13 DEF RebuiltOK
  <2>2. \A x \in DOMAIN replayed' : replayed'[x] \in BookRecord /\ Sound(replayed'[x])
    BY <1>7, <1>12, <1>13
  <2> QED BY <1>1, <1>10, <1>13, <2>1, <2>2 DEF RebuiltOK, Sound, Crossed, NoNegative
<1>15. Rebuilds'
  <2>1. \A x \in DOMAIN books' : x \in DOMAIN replayed'
    BY <1>8, <1>13
  <2>2. \A x \in DOMAIN books' : books'[x].time # None => Alike(books'[x], replayed'[x])
    BY <1>8, <1>12, <1>13
  <2> QED BY <2>1, <2>2 DEF Rebuilds, Alike
<1> QED BY <1>2, <1>14, <1>15 DEF ReplayIInv

\* What the replay never hears of: budgets, evictions and the clock.
LEMMA LiveOnlyRebuilds ==
    ASSUME ReplayIInv, IInv', UNCHANGED replayVars,
           DOMAIN books' \subseteq DOMAIN books,
           \A m \in DOMAIN books' : Alike(books'[m], books[m])
    PROVE  ReplayIInv'
<1>1. RebuiltOK'
  BY DEF ReplayIInv, RebuiltOK, replayVars, Sound, Crossed, NoNegative
<1>2. Rebuilds'
  BY DEF ReplayIInv, Rebuilds, replayVars, Alike
<1> QED BY <1>1, <1>2 DEF ReplayIInv

\* The replay of a run rebuilds the books of that run, whatever the live ones
\* were put through besides the rows (src/arb/replay.py).
THEOREM ReplayIsFaithful == ReplaySpec => []ReplayRebuildsBooks
<1>1. ReplayInit => ReplayIInv
  BY DEF ReplayInit, Init, ReplayIInv, IInv, TypeOK, ValidBookIsSound, LimitsAgree,
     ApplyTimesAgree, NoMarkets, RebuiltOK, Rebuilds
<1>2. ReplayIInv /\ [ReplayNext]_<<vars, replayVars>> => ReplayIInv'
  <2> SUFFICES ASSUME ReplayIInv, [ReplayNext]_<<vars, replayVars>> PROVE ReplayIInv'
    OBVIOUS
  <2>1. ASSUME NEW e \in Batches, Apply(e), ReplayRow(e) PROVE ReplayIInv'
    BY <2>1, RowRebuilds
  <2>2. ASSUME NEW v \in Venues, NEW limit \in Limits, SetVenueStaleness(v, limit),
               UNCHANGED replayVars
        PROVE  ReplayIInv'
    <3>1. IInv'
      BY <2>2, SetVenueStalenessKeepsIInv DEF ReplayIInv
    <3>2. /\ DOMAIN books' = DOMAIN books
          /\ \A m \in DOMAIN books : books'[m] = books[m]
                                     \/ books'[m] = [books[m] EXCEPT !.limit = limit]
      BY <2>2 DEF SetVenueStaleness
    <3>3. \A m \in DOMAIN books : books[m] \in BookRecord
      BY DEF ReplayIInv, IInv, TypeOK
    <3>4. \A m \in DOMAIN books' : Alike(books'[m], books[m])
      BY <3>2, <3>3 DEF Alike, BookRecord
    <3> QED BY <2>2, <3>1, <3>2, <3>4, LiveOnlyRebuilds
  <2>3. ASSUME NEW v \in Venues, NEW keep \in SUBSET Markets, Retain(keep, v),
               UNCHANGED replayVars
        PROVE  ReplayIInv'
    <3>1. IInv'
      BY <2>3, EvictKeepsIInv DEF ReplayIInv, Retain
    <3>2. /\ DOMAIN books' \subseteq DOMAIN books
          /\ \A m \in DOMAIN books' : Alike(books'[m], books[m])
      BY <2>3 DEF Retain, Evict, Removed, Alike
    <3> QED BY <2>3, <3>1, <3>2, LiveOnlyRebuilds
  <2>4. ASSUME Tick, UNCHANGED replayVars PROVE ReplayIInv'
    <3>1. IInv' /\ books' = books
      BY <2>4, TickKeepsIInv DEF ReplayIInv, Tick
    <3> QED BY <2>4, <3>1, LiveOnlyRebuilds DEF Alike
  <2>5. CASE UNCHANGED <<vars, replayVars>>
    <3>1. IInv' /\ books' = books
      BY <2>5, ManagerFrame DEF ReplayIInv, vars
    <3> QED BY <2>5, <3>1, LiveOnlyRebuilds DEF Alike
  <2> QED BY <2>1, <2>2, <2>3, <2>4, <2>5 DEF ReplayNext
<1>3. ReplayIInv => ReplayRebuildsBooks
  <2> SUFFICES ASSUME ReplayIInv PROVE ReplayRebuildsBooks
    OBVIOUS
  <2>1. DOMAIN books \subseteq DOMAIN replayed
    BY DEF ReplayIInv, Rebuilds
  <2>2. ASSUME NEW m \in DOMAIN books, books[m].time # None
        PROVE  books[m] = [replayed[m] EXCEPT !.limit = books[m].limit]
    <3>1. books[m] \in BookRecord /\ replayed[m] \in BookRecord /\ Alike(books[m], replayed[m])
      BY <2>1, <2>2 DEF ReplayIInv, IInv, TypeOK, RebuiltOK, Rebuilds
    <3> QED BY <3>1, AlikeBooks
  <2> QED BY <2>1, <2>2 DEF ReplayRebuildsBooks
<1> QED BY <1>1, <1>2, <1>3, PTL DEF ReplaySpec

-----------------------------------------------------------------------------
(* The recorder *)

\* The queue's count covers what join() must wait for: the messages queued
\* and the batch in hand.  It exceeds them once a crash has lost a batch.
UnfinishedCovers == unfinished >= Len(queue) + Len(batch)

\* No batch fails as often as it takes for its delay to overflow.
NoOverflow == attempt < OverflowAt

\* Only a batch in hand can have landed.
LandedIsInHand == landed => batch # <<>>

\* A number is handed out before it is accepted.
AcceptedAreOld == \A i \in 1 .. Len(Accepted) : Accepted[i] < nextSeq

\* A successful drain saw the count at zero, and nothing arrives after it.
DrainedIsIdle == phase = "drained" => unfinished = 0

RecorderIInv ==
    /\ RecorderTypeOK
    /\ UnfinishedCovers
    /\ LandedIsInHand
    /\ DrainedIsIdle
    /\ AcceptedAreOld

-----------------------------------------------------------------------------
(* Sequences *)

\* The batch and what stays in the queue are the queue.
LEMMA SplitQueue ==
    ASSUME NEW S, NEW s \in Seq(S), NEW k \in 1 .. Len(s)
    PROVE  /\ SubSeq(s, 1, k) \in Seq(S)
           /\ SubSeq(s, k + 1, Len(s)) \in Seq(S)
           /\ Len(SubSeq(s, 1, k)) = k
           /\ Len(SubSeq(s, k + 1, Len(s))) = Len(s) - k
           /\ SubSeq(s, 1, k) \o SubSeq(s, k + 1, Len(s)) = s
<1> DEFINE a == SubSeq(s, 1, k)
           b == SubSeq(s, k + 1, Len(s))
<1>1. Len(s) \in Nat /\ \A i \in 1 .. Len(s) : s[i] \in S
  BY ElementOfSeq, LenProperties
<1>2. /\ a \in Seq(S) /\ Len(a) = k
      /\ \A i \in 1 .. k : a[i] = s[i]
  BY <1>1, SubSeqProperties
<1>3. b \in Seq(S)
  BY <1>1, SubSeqProperties
<1>4. /\ Len(b) = Len(s) - k
      /\ \A i \in 1 .. Len(s) - k : b[i] = s[k + i]
  BY <1>1, SubSeqProperties
<1> HIDE DEF a, b
<1>5. /\ a \o b \in Seq(S)
      /\ Len(a \o b) = Len(s)
      /\ \A i \in 1 .. Len(s) : (a \o b)[i] = s[i]
  <2>1. /\ a \o b \in Seq(S)
        /\ Len(a \o b) = Len(s)
        /\ \A i \in 1 .. Len(s) :
              (a \o b)[i] = IF i <= k THEN a[i] ELSE b[i - k]
    <3>1. /\ a \o b \in Seq(S)
          /\ Len(a \o b) = Len(a) + Len(b)
          /\ \A i \in 1 .. Len(a) + Len(b) :
                (a \o b)[i] = IF i <= Len(a) THEN a[i] ELSE b[i - Len(a)]
      BY <1>2, <1>3, ConcatProperties
    <3>2. Len(a) = k /\ Len(b) = Len(s) - k /\ Len(a) + Len(b) = Len(s)
      BY <1>1, <1>2, <1>4
    <3> QED BY <3>1, <3>2
  <2>2. ASSUME NEW i \in 1 .. Len(s) PROVE (a \o b)[i] = s[i]
    <3>1. CASE i <= k
      BY <3>1, <2>1, <1>2
    <3>2. CASE ~ (i <= k)
      <4>1. i - k \in 1 .. Len(s) - k /\ k + (i - k) = i
        BY <3>2, <1>1
      <4> QED BY <4>1, <3>2, <2>1, <1>4
    <3> QED BY <3>1, <3>2
  <2> QED BY <2>1, <2>2
<1>6. a \o b = s
  BY <1>5, SeqEqual
<1> QED BY <1>2, <1>3, <1>4, <1>6 DEF a, b

\* A concatenation starts with its first part.
LEMMA PrefixOfConcat ==
    ASSUME NEW S, NEW s \in Seq(S), NEW t \in Seq(S)
    PROVE  SubSeq(s \o t, 1, Len(s)) = s
<1>1. CASE s = <<>>
  BY <1>1, EmptySeq, SubSeqEmpty
<1>2. CASE s # <<>>
  <2>1. Len(s) \in Nat \ {0}
    BY <1>2, EmptySeq
  <2>2. SubSeq(s \o t, 1, Len(s)) = SubSeq(s, 1, Len(s))
    BY <2>1, SubSeqOfConcat1
  <2> QED BY <2>2, SubSeqFull
<1> QED BY <1>1, <1>2

\* What bounds a sequence of three parts bounds it without the middle one.
LEMMA DropMiddle ==
    ASSUME NEW S, NEW a \in Seq(S), NEW b \in Seq(S), NEW c \in Seq(S),
           NEW n,
           \A i \in 1 .. Len((a \o b) \o c) : ((a \o b) \o c)[i] < n
    PROVE  \A i \in 1 .. Len((a \o <<>>) \o c) : ((a \o <<>>) \o c)[i] < n
<1>1. Len(a) \in Nat /\ Len(b) \in Nat /\ Len(c) \in Nat
  BY LenProperties
<1>2. a \o <<>> = a
  BY ConcatEmptySeq
<1>3. /\ a \o b \in Seq(S)
      /\ Len(a \o b) = Len(a) + Len(b)
      /\ \A i \in 1 .. Len(a) + Len(b) :
            (a \o b)[i] = IF i <= Len(a) THEN a[i] ELSE b[i - Len(a)]
  BY ConcatProperties
<1> DEFINE ab == a \o b
<1>4. /\ Len(ab \o c) = Len(ab) + Len(c)
      /\ \A i \in 1 .. Len(ab) + Len(c) :
            (ab \o c)[i] = IF i <= Len(ab) THEN ab[i] ELSE c[i - Len(ab)]
  BY <1>3, ConcatProperties
<1>5. /\ Len(a \o c) = Len(a) + Len(c)
      /\ \A i \in 1 .. Len(a) + Len(c) :
            (a \o c)[i] = IF i <= Len(a) THEN a[i] ELSE c[i - Len(a)]
  BY ConcatProperties
<1>6. ASSUME NEW i \in 1 .. Len(a) + Len(c) PROVE (a \o c)[i] < n
  <2>1. CASE i <= Len(a)
    <3>1. i \in 1 .. Len(ab) + Len(c) /\ i <= Len(ab)
          /\ i \in 1 .. Len(a) + Len(b)
      BY <1>1, <1>3, <2>1
    <3>2. (ab \o c)[i] = a[i]
      BY <1>3, <1>4, <2>1, <3>1
    <3> QED BY <1>4, <1>5, <2>1, <3>1, <3>2
  <2>2. CASE ~ (i <= Len(a))
    <3> DEFINE j == i + Len(b)
    <3>1. /\ j \in 1 .. Len(ab) + Len(c) /\ ~ (j <= Len(ab))
          /\ j - Len(ab) = i - Len(a)
      BY <1>1, <1>3, <2>2
    <3>2. (ab \o c)[j] = c[i - Len(a)]
      BY <1>4, <3>1
    <3> QED BY <1>4, <1>5, <2>2, <3>1, <3>2
  <2> QED BY <2>1, <2>2
<1> QED BY <1>2, <1>5, <1>6

-----------------------------------------------------------------------------
(* How each kind of step moves the log *)

LEMMA AcceptedType ==
    ASSUME RecorderTypeOK
    PROVE  /\ Pending \in Seq(Numbers)
           /\ Accepted \in Seq(Numbers)
           /\ archive \o Pending \in Seq(Numbers)
           /\ Len(Accepted) = Len(archive) + Len(Pending) + Len(queue)
<1>1. Pending \in Seq(Numbers)
  BY EmptySeq DEF Pending, RecorderTypeOK
<1>2. /\ archive \o Pending \in Seq(Numbers)
      /\ Len(archive \o Pending) = Len(archive) + Len(Pending)
  BY <1>1, ConcatProperties DEF RecorderTypeOK
<1>3. /\ (archive \o Pending) \o queue \in Seq(Numbers)
      /\ Len((archive \o Pending) \o queue)
            = Len(archive \o Pending) + Len(queue)
  BY <1>2, ConcatProperties DEF RecorderTypeOK
<1> QED BY <1>1, <1>2, <1>3 DEF Accepted

\* A committed batch, its retry pending or not, leaves the log as it was
\* and the archive longer.
LEMMA CommitKeepsLog ==
    ASSUME RecorderTypeOK, ~ landed, batch # <<>>
    PROVE  /\ archive \o batch \in Seq(Numbers)
           /\ Accepted = ((archive \o batch) \o <<>>) \o queue
           /\ archive \o batch = SubSeq(Accepted, 1, Len(archive \o batch))
           /\ Len(archive \o batch)
                 \in Len(archive) + 1 .. Len(Accepted)
<1>1. /\ archive \o batch \in Seq(Numbers)
      /\ Len(archive \o batch) = Len(archive) + Len(batch)
  BY ConcatProperties DEF RecorderTypeOK
<1>2. (archive \o batch) \o <<>> = archive \o batch
  BY <1>1, ConcatEmptySeq
<1>3. Pending = batch /\ Accepted = (archive \o batch) \o queue
  BY DEF Pending, Accepted
<1>4. SubSeq((archive \o batch) \o queue, 1, Len(archive \o batch))
         = archive \o batch
  BY <1>1, PrefixOfConcat DEF RecorderTypeOK
<1>5. Len(batch) \in Nat \ {0} /\ Len(archive) \in Nat /\ Len(queue) \in Nat
  BY EmptySeq, LenProperties DEF RecorderTypeOK
<1> QED BY <1>1, <1>2, <1>3, <1>4, <1>5, AcceptedType

\* Taking a batch moves the log's end from the queue to the writer's hand.
LEMMA TakeKeepsLog ==
    ASSUME RecorderTypeOK, LandedIsInHand, TakeBatch
    PROVE  /\ Accepted' = Accepted
           /\ batch' \in Seq(Numbers) /\ batch' # <<>>
           /\ Len(batch') <= BatchMax
           /\ queue' \in Seq(Numbers)
           /\ Len(queue) = Len(batch') + Len(queue')
<1>1. Len(queue) \in Nat \ {0}
  BY EmptySeq DEF RecorderTypeOK, TakeBatch
<1>2. TakeSize \in 1 .. Len(queue) /\ TakeSize <= BatchMax
  BY <1>1, RecorderAssumption DEF TakeSize
<1>3. /\ batch' \in Seq(Numbers) /\ Len(batch') = TakeSize
      /\ queue' \in Seq(Numbers) /\ Len(queue') = Len(queue) - TakeSize
      /\ batch' \o queue' = queue
  BY <1>2, SplitQueue DEF RecorderTypeOK, TakeBatch
<1>4. batch' # <<>>
  BY <1>2, <1>3, EmptySeq
<1>5. Pending = <<>> /\ Pending' = batch' /\ archive' = archive
  BY DEF Pending, TakeBatch, LandedIsInHand
<1>6. archive \in Seq(Numbers) /\ archive \o <<>> = archive
  BY ConcatEmptySeq DEF RecorderTypeOK
<1>7. (archive \o batch') \o queue' = archive \o (batch' \o queue')
  <2>1. \A s, t, u \in Seq(Numbers) : (s \o t) \o u = s \o (t \o u)
    BY ConcatAssociative
  <2> QED BY <2>1, <1>3, <1>6
<1>8. Accepted' = Accepted
  BY <1>3, <1>5, <1>6, <1>7 DEF Accepted
<1> QED BY <1>1, <1>2, <1>3, <1>4, <1>8

\* What a message that is accepted adds to the log.
LEMMA EnqueueExtendsLog ==
    ASSUME RecorderTypeOK, Arrive, queue' = Append(queue, nextSeq)
    PROVE  /\ Accepted' = Append(Accepted, nextSeq)
           /\ queue' \in Seq(Numbers)
           /\ Len(queue') = Len(queue) + 1
<1>1. nextSeq \in Numbers
  BY RecorderAssumption DEF RecorderTypeOK, Arrive, Numbers
<1>2. /\ queue' \in Seq(Numbers) /\ Len(queue') = Len(queue) + 1
  BY <1>1, AppendProperties DEF RecorderTypeOK
<1> DEFINE head == archive \o Pending
<1>3. head \in Seq(Numbers) /\ Accepted = head \o queue
  BY AcceptedType DEF Accepted
<1>4. Accepted' = head \o queue'
  BY DEF Accepted, Pending, Arrive
<1>5. queue' = queue \o <<nextSeq>> /\ <<nextSeq>> \in Seq(Numbers)
  BY <1>1, AppendIsConcat DEF RecorderTypeOK
<1>6. (head \o queue) \o <<nextSeq>> = head \o (queue \o <<nextSeq>>)
  <2>1. queue \in Seq(Numbers)
    BY DEF RecorderTypeOK
  <2> HIDE DEF head
  <2> QED BY ONLY <1>3, <1>5, <2>1, ConcatAssociative
<1>7. Append(Accepted, nextSeq) = Accepted \o <<nextSeq>>
  BY <1>1, AcceptedType, AppendIsConcat
<1> QED BY <1>2, <1>3, <1>4, <1>5, <1>6, <1>7

-----------------------------------------------------------------------------
(* The invariant *)

\* A step that keeps the log, or adds the next number to it, keeps every
\* accepted number below the next one.
LEMMA AcceptedStayOld ==
    ASSUME RecorderTypeOK, AcceptedAreOld,
           \/ Accepted' = Accepted /\ nextSeq' \in {nextSeq, nextSeq + 1}
           \/ /\ Accepted' = Append(Accepted, nextSeq)
              /\ nextSeq \in Numbers
              /\ nextSeq' = nextSeq + 1
    PROVE  AcceptedAreOld'
<1>1. nextSeq \in Nat /\ nextSeq' \in Nat /\ nextSeq <= nextSeq'
  BY RecorderAssumption DEF RecorderTypeOK
<1>2. /\ Accepted \in Seq(Numbers) /\ Len(Accepted) \in Nat
      /\ \A i \in 1 .. Len(Accepted) : Accepted[i] \in Nat
  <2>1. Numbers \subseteq Nat
    BY RecorderAssumption DEF Numbers
  <2> QED BY <2>1, AcceptedType, LenProperties, ElementOfSeq
<1> SUFFICES ASSUME NEW i \in 1 .. Len(Accepted')
             PROVE  Accepted'[i] < nextSeq'
  BY DEF AcceptedAreOld
<1>3. CASE Accepted' = Accepted
  BY <1>1, <1>2, <1>3 DEF AcceptedAreOld
<1>4. CASE /\ Accepted' = Append(Accepted, nextSeq)
           /\ nextSeq \in Numbers
           /\ nextSeq' = nextSeq + 1
  <2>1. /\ Len(Accepted') = Len(Accepted) + 1
        /\ Accepted'[Len(Accepted) + 1] = nextSeq
        /\ \A j \in 1 .. Len(Accepted) : Accepted'[j] = Accepted[j]
    BY <1>2, <1>4, AppendProperties
  <2>2. CASE i = Len(Accepted) + 1
    BY <2>1, <2>2, <1>1, <1>4
  <2>3. CASE i # Len(Accepted) + 1
    <3>1. i \in 1 .. Len(Accepted)
      BY <2>1, <2>3, <1>2
    <3>2. Accepted'[i] < nextSeq /\ Accepted'[i] \in Nat
      BY <2>1, <3>1, <1>2 DEF AcceptedAreOld
    <3> QED BY <3>2, <1>1
  <2> QED BY <2>2, <2>3
<1> QED BY <1>3, <1>4

LEMMA RecorderInitInv == RecorderInit => RecorderIInv
<1> SUFFICES ASSUME RecorderInit PROVE RecorderIInv
  OBVIOUS
<1>1. <<>> \in Seq(Numbers) /\ Len(<<>>) = 0
  BY EmptySeq
<1>2. RecorderTypeOK
  <2>1. 0 <= QueueMax /\ 0 <= BatchMax /\ 0 \in 0 .. MaxMessages
        /\ 0 \in 0 .. MaxFailures /\ 0 \in 0 .. OverflowAt
    BY RecorderAssumption
  <2>2. /\ queue \in Seq(Numbers) /\ Len(queue) = 0
        /\ batch \in Seq(Numbers) /\ Len(batch) = 0
        /\ archive \in Seq(Numbers)
    BY <1>1 DEF RecorderInit
  <2> QED BY <2>1, <2>2 DEF RecorderInit, RecorderTypeOK
<1>3. UnfinishedCovers /\ LandedIsInHand /\ DrainedIsIdle
  BY <1>1 DEF RecorderInit, UnfinishedCovers, LandedIsInHand, DrainedIsIdle
<1>4. Len(Accepted) = 0
  BY <1>1, <1>2, AcceptedType DEF RecorderInit, Pending
<1> QED BY <1>2, <1>3, <1>4 DEF RecorderIInv, AcceptedAreOld

\* Arrive: the message is not recorded, refused by a full queue, or queued.
LEMMA ArriveInv == RecorderIInv /\ Arrive => RecorderIInv'
<1> SUFFICES ASSUME RecorderIInv, Arrive PROVE RecorderIInv'
  OBVIOUS
<1> USE DEF RecorderIInv
<1>1. /\ nextSeq \in Numbers
      /\ nextSeq' = nextSeq + 1 /\ nextSeq' \in 0 .. MaxMessages
  BY RecorderAssumption DEF Arrive, RecorderTypeOK, Numbers
<1>2. Len(queue) \in Nat /\ Len(batch) \in Nat
  BY LenProperties DEF RecorderTypeOK
<1>3. CASE UNCHANGED <<queue, unfinished>>
  <2>1. Accepted' = Accepted
    BY <1>3 DEF Arrive, Accepted, Pending
  <2>2. AcceptedAreOld'
    BY <1>1, <2>1, AcceptedStayOld
  <2> QED BY <1>1, <1>3, <2>2 DEF Arrive, RecorderTypeOK, UnfinishedCovers,
             LandedIsInHand, DrainedIsIdle
<1>4. CASE /\ queue' = Append(queue, nextSeq)
           /\ unfinished' = unfinished + 1
           /\ Len(queue) < QueueMax
  <2>1. AcceptedAreOld'
    BY <1>1, <1>4, EnqueueExtendsLog, AcceptedStayOld
  <2>2. /\ queue' \in Seq(Numbers)
        /\ Len(queue') = Len(queue) + 1
        /\ Len(queue') <= QueueMax
    BY <1>2, <1>4, EnqueueExtendsLog, RecorderAssumption
  <2> QED BY <1>1, <1>2, <1>4, <2>1, <2>2 DEF Arrive, RecorderTypeOK,
             UnfinishedCovers, LandedIsInHand, DrainedIsIdle
<1> QED BY <1>3, <1>4 DEF Arrive, Enqueue

LEMMA TakeBatchInv == RecorderIInv /\ TakeBatch => RecorderIInv'
<1> SUFFICES ASSUME RecorderIInv, TakeBatch PROVE RecorderIInv'
  OBVIOUS
<1> USE DEF RecorderIInv
<1>1. /\ Accepted' = Accepted
      /\ batch' \in Seq(Numbers) /\ batch' # <<>>
      /\ Len(batch') <= BatchMax
      /\ queue' \in Seq(Numbers)
      /\ Len(queue) = Len(batch') + Len(queue')
  BY TakeKeepsLog
<1>2. AcceptedAreOld'
  BY <1>1, AcceptedStayOld DEF TakeBatch
<1>3. /\ Len(queue') \in Nat /\ Len(batch') \in Nat /\ Len(queue) \in Nat
      /\ Len(batch) = 0
  BY <1>1, LenProperties, EmptySeq DEF RecorderTypeOK, TakeBatch
<1>4. Len(queue') <= QueueMax
  BY <1>1, <1>3, RecorderAssumption DEF RecorderTypeOK
<1>5. UnfinishedCovers'
  BY <1>1, <1>3 DEF TakeBatch, UnfinishedCovers
<1>6. RecorderTypeOK'
  <2>1. attempt' \in 0 .. OverflowAt
    BY RecorderAssumption DEF TakeBatch
  <2> QED BY <1>1, <1>4, <2>1 DEF TakeBatch, RecorderTypeOK
<1>7. LandedIsInHand' /\ DrainedIsIdle'
  BY <1>1 DEF TakeBatch, LandedIsInHand, DrainedIsIdle
<1> QED BY <1>2, <1>5, <1>6, <1>7

\* WriteSucceeds: the count drops by the batch that is now in the archive.
LEMMA WriteSucceedsInv == RecorderIInv /\ WriteSucceeds => RecorderIInv'
<1> SUFFICES ASSUME RecorderIInv, WriteSucceeds PROVE RecorderIInv'
  OBVIOUS
<1> USE DEF RecorderIInv
<1>1. /\ archive \o batch \in Seq(Numbers)
      /\ Accepted = ((archive \o batch) \o <<>>) \o queue
  BY CommitKeepsLog DEF WriteSucceeds
<1>2. Accepted' = Accepted
  BY <1>1 DEF WriteSucceeds, Accepted, Pending
<1>3. AcceptedAreOld'
  BY <1>2, AcceptedStayOld DEF WriteSucceeds
<1>4. <<>> \in Seq(Numbers) /\ Len(<<>>) = 0
  BY EmptySeq
<1>5. Len(batch) \in Nat /\ Len(queue) \in Nat
  BY LenProperties DEF RecorderTypeOK
<1>6. UnfinishedCovers' /\ unfinished' \in Nat
  BY <1>4, <1>5 DEF WriteSucceeds, UnfinishedCovers, RecorderTypeOK
<1>7. (phase = "drained" => unfinished' = 0)
  BY <1>5, <1>6, <1>4 DEF WriteSucceeds, UnfinishedCovers, DrainedIsIdle,
     RecorderTypeOK
<1> QED BY <1>1, <1>3, <1>4, <1>6, <1>7, RecorderAssumption
        DEF WriteSucceeds, RecorderTypeOK, LandedIsInHand, DrainedIsIdle

\* A commit that the writer does not learn of.
LEMMA LandingInv ==
    ASSUME RecorderTypeOK, AcceptedAreOld,
           ~ landed, batch # <<>>,
           landed' = TRUE, archive' = archive \o batch,
           UNCHANGED <<nextSeq, queue>>
    PROVE  /\ archive' \in Seq(Numbers)
           /\ Accepted' = Accepted
           /\ AcceptedAreOld'
<1>1. /\ archive \o batch \in Seq(Numbers)
      /\ Accepted = ((archive \o batch) \o <<>>) \o queue
  BY CommitKeepsLog
<1>2. Accepted' = Accepted
  BY <1>1 DEF Accepted, Pending
<1> QED BY <1>1, <1>2, AcceptedStayOld

LEMMA WriteFailsInv == RecorderIInv /\ WriteFails => RecorderIInv'
<1> SUFFICES ASSUME RecorderIInv, WriteFails PROVE RecorderIInv'
  OBVIOUS
<1> USE DEF RecorderIInv
<1>1. failures' \in 0 .. MaxFailures /\ attempt' \in 0 .. OverflowAt
  BY RecorderAssumption DEF WriteFails, RecorderTypeOK
<1>2. CASE UNCHANGED <<landed, archive>>
  <2>1. Accepted' = Accepted
    BY <1>2 DEF WriteFails, Accepted, Pending
  <2>2. AcceptedAreOld'
    BY <2>1, AcceptedStayOld DEF WriteFails
  <2> QED BY <1>1, <1>2, <2>2 DEF WriteFails, RecorderTypeOK,
             UnfinishedCovers, LandedIsInHand, DrainedIsIdle
<1>3. CASE ~ landed /\ landed' = TRUE /\ archive' = archive \o batch
  <2>1. archive' \in Seq(Numbers) /\ AcceptedAreOld'
    BY <1>3, LandingInv DEF WriteFails
  <2> QED BY <1>1, <1>3, <2>1 DEF WriteFails, RecorderTypeOK,
             UnfinishedCovers, LandedIsInHand, DrainedIsIdle
<1> QED BY <1>2, <1>3 DEF WriteFails

\* WriterCrashes: what is left of the log is part of it.
LEMMA WriterCrashesInv == RecorderIInv /\ WriterCrashes => RecorderIInv'
<1> SUFFICES ASSUME RecorderIInv, WriterCrashes PROVE RecorderIInv'
  OBVIOUS
<1> USE DEF RecorderIInv
<1>1. failures' \in 0 .. MaxFailures
  BY RecorderAssumption DEF WriterCrashes, RecorderTypeOK
<1>2. /\ <<>> \in Seq(Numbers) /\ Len(<<>>) = 0
      /\ Len(queue) \in Nat /\ Len(batch) \in Nat
  BY EmptySeq, LenProperties DEF RecorderTypeOK
<1>3. Pending' = <<>>
  BY DEF WriterCrashes, Pending
<1>4. archive' \in Seq(Numbers) /\ AcceptedAreOld'
  <2>1. CASE UNCHANGED archive
    <3>1. Accepted' = (archive \o <<>>) \o queue
      BY <1>3, <2>1 DEF WriterCrashes, Accepted
    <3>2. Pending \in Seq(Numbers)
      BY <1>2 DEF Pending, RecorderTypeOK
    <3>3. \A i \in 1 .. Len(Accepted') : Accepted'[i] < nextSeq
      BY <3>1, <3>2, DropMiddle DEF RecorderTypeOK, Accepted, AcceptedAreOld
    <3> QED BY <2>1, <3>3 DEF WriterCrashes, RecorderTypeOK, AcceptedAreOld
  <2>2. CASE ~ landed /\ archive' = archive \o batch
    <3>1. /\ archive \o batch \in Seq(Numbers)
          /\ Accepted = ((archive \o batch) \o <<>>) \o queue
      BY <2>2, CommitKeepsLog DEF WriterCrashes
    <3>2. Accepted' = Accepted
      BY <1>3, <2>2, <3>1 DEF WriterCrashes, Accepted
    <3> QED BY <2>2, <3>1, <3>2, AcceptedStayOld DEF WriterCrashes
  <2> QED BY <2>1, <2>2 DEF WriterCrashes
<1>5. RecorderTypeOK'
  <2>1. batch' \in Seq(Numbers) /\ Len(batch') <= BatchMax
    BY <1>2, RecorderAssumption DEF WriterCrashes
  <2> QED BY <1>1, <1>4, <2>1 DEF WriterCrashes, RecorderTypeOK
<1>6. UnfinishedCovers' /\ LandedIsInHand' /\ DrainedIsIdle'
  BY <1>2 DEF WriterCrashes, UnfinishedCovers, LandedIsInHand, DrainedIsIdle,
     RecorderTypeOK
<1> QED BY <1>4, <1>5, <1>6

LEMMA StopWriterInv == RecorderIInv /\ StopWriter => RecorderIInv'
<1> SUFFICES ASSUME RecorderIInv, StopWriter PROVE RecorderIInv'
  OBVIOUS
<1> USE DEF RecorderIInv
<1>1. CASE UNCHANGED <<landed, archive>>
  <2>1. Accepted' = Accepted
    BY <1>1 DEF StopWriter, Accepted, Pending
  <2>2. AcceptedAreOld'
    BY <2>1, AcceptedStayOld DEF StopWriter
  <2> QED BY <1>1, <2>2 DEF StopWriter, RecorderTypeOK,
             UnfinishedCovers, LandedIsInHand, DrainedIsIdle
<1>2. CASE /\ batch # <<>> /\ ~ landed
           /\ landed' = TRUE /\ archive' = archive \o batch
  <2>1. archive' \in Seq(Numbers) /\ AcceptedAreOld'
    BY <1>2, LandingInv DEF StopWriter
  <2> QED BY <1>2, <2>1 DEF StopWriter, RecorderTypeOK,
             UnfinishedCovers, LandedIsInHand, DrainedIsIdle
<1> QED BY <1>1, <1>2 DEF StopWriter

LEMMA RecorderNextInv ==
    RecorderIInv /\ [RecorderNext]_recorderVars => RecorderIInv'
<1> SUFFICES ASSUME RecorderIInv, [RecorderNext]_recorderVars
             PROVE  RecorderIInv'
  OBVIOUS
<1> DEFINE Quiet == UNCHANGED <<nextSeq, queue, unfinished, batch, attempt,
                                landed, archive, failures>>
\* The steps that move nothing but the switch or the phase.
<1>1. ASSUME Quiet,
             recording' \in BOOLEAN,
             phase' \in {"serving", "draining", "drained", "timed_out",
                         "stopped"},
             phase' = "drained" => unfinished = 0
      PROVE  RecorderIInv'
  <2>1. Accepted' = Accepted
    BY <1>1 DEF Accepted, Pending
  <2>2. AcceptedAreOld'
    BY <1>1, <2>1, AcceptedStayOld DEF RecorderIInv
  <2> QED BY <1>1, <2>2 DEF RecorderIInv, RecorderTypeOK, UnfinishedCovers,
             LandedIsInHand, DrainedIsIdle
<1>2. CASE Arrive
  BY <1>2, ArriveInv
<1>3. ASSUME NEW on \in BOOLEAN, SetRecording(on) PROVE RecorderIInv'
  BY <1>1, <1>3 DEF SetRecording
<1>4. CASE TakeBatch
  BY <1>4, TakeBatchInv
<1>5. CASE WriteSucceeds
  BY <1>5, WriteSucceedsInv
<1>6. CASE WriteFails
  BY <1>6, WriteFailsInv
<1>7. CASE StopFeeds \/ Drained \/ DrainTimesOut
  BY <1>1, <1>7 DEF StopFeeds, Drained, DrainTimesOut, RecorderIInv,
     RecorderTypeOK
<1>8. CASE StopWriter
  BY <1>8, StopWriterInv
<1>9. CASE UNCHANGED recorderVars
  BY <1>1, <1>9 DEF recorderVars, RecorderIInv, RecorderTypeOK, DrainedIsIdle
<1>10. CASE WriterCrashes
  BY <1>10, WriterCrashesInv
<1> QED BY <1>2, <1>3, <1>4, <1>5, <1>6, <1>7, <1>8, <1>9, <1>10
        DEF RecorderNext

\* The inductive invariant holds throughout.
THEOREM RecorderInvariant == RecorderSpec => []RecorderIInv
BY RecorderInitInv, RecorderNextInv, PTL DEF RecorderSpec

\* Every variable keeps its type; the queue and the batch keep their bounds.
THEOREM RecorderTypeCorrect == RecorderSpec => []RecorderTypeOK
<1>1. RecorderIInv => RecorderTypeOK
  BY DEF RecorderIInv
<1> QED BY <1>1, RecorderInvariant, PTL

\* drain() returns True only when every message accepted is in the archive.
THEOREM DrainKeepsItsPromise == RecorderSpec => []DrainedMeansWritten
<1>1. RecorderIInv => DrainedMeansWritten
  <2> SUFFICES ASSUME RecorderIInv, phase = "drained"
               PROVE  Pending = <<>> /\ queue = <<>>
    BY DEF DrainedMeansWritten
  <2>1. 0 >= Len(queue) + Len(batch)
    BY DEF RecorderIInv, DrainedIsIdle, UnfinishedCovers
  <2>2. /\ queue # <<>> => Len(queue) \in Nat \ {0}
        /\ batch # <<>> => Len(batch) \in Nat \ {0}
        /\ Len(queue) \in Nat /\ Len(batch) \in Nat
    BY EmptySeq, LenProperties DEF RecorderIInv, RecorderTypeOK
  <2> QED BY <2>1, <2>2 DEF Pending
<1> QED BY <1>1, RecorderInvariant, PTL

-----------------------------------------------------------------------------
(* The recorder implements the log *)

LEMMA InitImplements == RecorderInit => Log!Init
<1> SUFFICES ASSUME RecorderInit PROVE Log!Init
  OBVIOUS
<1>1. <<>> \in Seq(Numbers) /\ (<<>> \o <<>>) \o <<>> = <<>>
  BY EmptySeq, ConcatEmptySeq
<1> QED BY <1>1 DEF RecorderInit, Log!Init, Accepted, Pending

\* A commit, reported or not, is an Archive step of the log.
LEMMA CommitImplements ==
    ASSUME RecorderTypeOK, ~ landed, batch # <<>>,
           archive' = archive \o batch,
           (landed' = TRUE /\ UNCHANGED batch) \/ (batch' = <<>>),
           UNCHANGED queue
    PROVE  Log!Next
<1>1. /\ Accepted = ((archive \o batch) \o <<>>) \o queue
      /\ archive \o batch = SubSeq(Accepted, 1, Len(archive \o batch))
      /\ Len(archive \o batch) \in Len(archive) + 1 .. Len(Accepted)
  BY CommitKeepsLog
<1>2. Pending' = <<>>
  BY DEF Pending
<1>3. Accepted' = Accepted
  BY <1>1, <1>2 DEF Accepted
<1>4. Log!Archive(Len(archive \o batch))
  BY <1>1, <1>3 DEF Log!Archive
<1> QED BY <1>1, <1>4 DEF Log!Next

\* Every step is a step of the log or a crash of the writer.
LEMMA StepImplements ==
    RecorderIInv /\ [RecorderNext]_recorderVars
        => [Log!Next \/ WriterCrashes]_(Log!logVars)
<1> SUFFICES ASSUME RecorderIInv, [RecorderNext]_recorderVars
             PROVE  \/ Log!Next \/ WriterCrashes
                    \/ UNCHANGED <<Accepted, archive>>
  BY DEF Log!logVars
<1> USE DEF RecorderIInv
\* The steps that touch neither the messages nor the archive.
<1>1. ASSUME UNCHANGED <<queue, batch, landed, archive>>
      PROVE  UNCHANGED <<Accepted, archive>>
  BY <1>1 DEF Accepted, Pending
<1>2. CASE Arrive
  <2>1. CASE queue' = Append(queue, nextSeq)
    <3>1. Accepted' = Append(Accepted, nextSeq)
      BY <1>2, <2>1, EnqueueExtendsLog
    <3>2. nextSeq \in Numbers
      BY <1>2, RecorderAssumption DEF Arrive, RecorderTypeOK, Numbers
    <3>3. Log!Accept(nextSeq)
      BY <1>2, <3>1 DEF Log!Accept, AcceptedAreOld, Arrive
    <3> QED BY <3>2, <3>3 DEF Log!Next
  <2>2. CASE UNCHANGED queue
    BY <1>1, <1>2, <2>2 DEF Arrive
  <2> QED BY <1>2, <2>1, <2>2 DEF Arrive, Enqueue
<1>3. ASSUME NEW on \in BOOLEAN, SetRecording(on)
      PROVE  UNCHANGED <<Accepted, archive>>
  BY <1>1, <1>3 DEF SetRecording
<1>4. CASE TakeBatch
  BY <1>4, TakeKeepsLog DEF TakeBatch
<1>5. CASE WriteSucceeds
  BY <1>5, CommitImplements DEF WriteSucceeds
<1>6. CASE WriteFails
  BY <1>1, <1>6, CommitImplements DEF WriteFails
<1>7. CASE StopFeeds \/ Drained \/ DrainTimesOut
  BY <1>1, <1>7 DEF StopFeeds, Drained, DrainTimesOut
<1>8. CASE StopWriter
  BY <1>1, <1>8, CommitImplements DEF StopWriter
<1>9. CASE UNCHANGED recorderVars
  BY <1>1, <1>9 DEF recorderVars
<1>10. CASE WriterCrashes
  BY <1>10
<1> QED BY <1>2, <1>3, <1>4, <1>5, <1>6, <1>7, <1>8, <1>9, <1>10
        DEF RecorderNext

\* Every step of the recorder but a crash of the writer is a step of the
\* append-only log: the archive grows along what enqueue accepted, in order
\* and without duplicates.
THEOREM RecorderImplementsLog == RecorderSpec => ImplementsLog
BY InitImplements, StepImplements, RecorderInvariant, PTL
   DEF RecorderSpec, ImplementsLog

\* As long as no delay overflows, the recorder implements the log.
THEOREM RecorderRefinesRawLog ==
    RecorderSpec /\ []NoOverflow => Log!Spec
<1>1. RecorderIInv /\ NoOverflow /\ [Log!Next \/ WriterCrashes]_(Log!logVars)
         => [Log!Next]_(Log!logVars)
  BY RecorderAssumption DEF RecorderIInv, RecorderTypeOK, WriterCrashes,
     NoOverflow
<1> QED BY <1>1, RecorderImplementsLog, RecorderInvariant, PTL
        DEF ImplementsLog, Log!Spec

=============================================================================
