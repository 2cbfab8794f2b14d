------------------------------ MODULE Dealing ------------------------------
(***************************************************************************)
(* The bulk setter of the watch set (_plan_pairs_top of                    *)
(* src/arb/ui/control.py): N confirmed pairs, dealt one at a time across   *)
(* the Kalshi events they belong to, best score first (pair_flags of       *)
(* src/arb/pairs/store.py), leaving out the pairs known to have ended.     *)
(*                                                                         *)
(* A row is what the query reads of a pair: its event, its score, the      *)
(* close time of each leg (Unknown where none was stored or it does not    *)
(* parse) and whether a venue said it was over; its id is its index.       *)
(***************************************************************************)
EXTENDS Integers, Sequences, SequencesExt, FiniteSetsExt, Orders

CONSTANT Now, Unknown   \* the time of the request; Unknown is no time

ASSUME DealingAssumption == Now \in Nat /\ Unknown \notin Nat

\* ORDER BY score DESC, id.
ScoresBefore(rows, i, j) ==
    rows[i].score > rows[j].score \/ (rows[i].score = rows[j].score /\ i < j)

\* The earlier of the two legs closes the pair; a pair of unknown times is open.
CloseTimes(f) == {f.kalshiClose, f.polymarketClose} \ {Unknown}

IsClosed(f) == CloseTimes(f) # {} /\ Min(CloseTimes(f)) <= Now

IsOver(f) == IsClosed(f) \/ f.settled

\* The pairs that are left.
OpenPairs(rows) == {i \in DOMAIN rows : ~ IsOver(rows[i])}

Flags(rows) ==
    LET open == OpenPairs(rows)
    IN  InOrder(open, {p \in open \X open : ScoresBefore(rows, p[1], p[2])})

\* Of these, each has a place among those of its event, and its
\* event one among the events, by the first of its pairs.
Bucket(rows, flags, i) == {j \in DOMAIN flags : rows[flags[j]].event = rows[flags[i]].event}

DepthOf(rows, flags, i) == Cardinality({j \in Bucket(rows, flags, i) : j < i})

FirstSeen(rows, flags, i) == Min(Bucket(rows, flags, i))

DealtBefore(rows, flags, i, j) ==
    LET di == DepthOf(rows, flags, i)
        dj == DepthOf(rows, flags, j)
    IN  di < dj \/ (di = dj /\ FirstSeen(rows, flags, i) < FirstSeen(rows, flags, j))

\* Mutant: the best N, wherever they come from.
DealTheBest(rows, n) ==
    LET flags == Flags(rows)
    IN  [k \in 1 .. Min({n, Cardinality(DOMAIN flags)}) |-> flags[k]]

\* The best of every event, then the second of every event, until N are picked.
Deal(rows, n) ==
    LET flags == Flags(rows)
        places == DOMAIN flags
        dealt == InOrder(places, {p \in places \X places : DealtBefore(rows, flags, p[1], p[2])})
    IN  [k \in 1 .. Min({n, Cardinality(places)}) |-> flags[dealt[k]]]
=============================================================================
