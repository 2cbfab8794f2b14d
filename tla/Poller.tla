------------------------------- MODULE Poller -------------------------------
(***************************************************************************)
(* The polled venue: the round-robin of src/arb/venues/polymarket_us/      *)
(* source.py, the server's consume_poly that applies its answers, and the  *)
(* universe changes of the control plane, which swap the targets under it, *)
(* retune the staleness budget to the new cycle and evict.                 *)
(*                                                                         *)
(* What the books show does not matter here, only how old they are: a book *)
(* is its age and its budget.  Time passes in ticks, all durations count   *)
(* them, and a sleep ends when its time has come.  The venue is external:  *)
(* it answers a fetch at any moment up to the client's timeout, and the    *)
(* book it sends is of the market it was asked for.                        *)
(***************************************************************************)
EXTENDS Integers, Sequences, FiniteSets

CONSTANTS
    Slugs,           \* the markets of the venue
    Lists,           \* the lists of them that may be asked for
    None,
    Interval,        \* between polls
    IdleSleep,       \* between looks at an empty target set
    RateLimitPause,
    BackoffInitial, BackoffMax,
    RestartDelays,   \* of the supervisor
    Timeout,         \* of a fetch
    Quick,           \* an answer that takes longer is a slow one
    DefaultLimit,    \* the staleness budget of the configuration
    Cycles,          \* the poll cycles a book may be old
    MaxFaults, MaxChanges   \* bounds

ASSUME PollerAssumption ==
    /\ IsFiniteSet(Slugs) /\ Lists \subseteq Seq(Slugs)
    /\ None \notin Slugs
    /\ {Interval, IdleSleep, RateLimitPause, BackoffInitial, BackoffMax,
        DefaultLimit, Cycles} \subseteq Nat \ {0}
    /\ RestartDelays \subseteq Nat \ {0}
    /\ {Timeout, Quick, MaxFaults, MaxChanges} \subseteq Nat
    /\ Quick <= Interval /\ Quick <= Timeout

VARIABLES
    base, legs,   \* the control plane's two lists of slugs
    targets,      \* the source's _slugs, replaced as a whole
    moved,        \* _targets_epoch is not the epoch the loop last saw
    loop,         \* where stream() stands, with its local variables
    books,        \* slug -> age, budget and history of its book
    budget,       \* the venue's staleness budget
    marked,       \* the ids the last step marked dirty
    faults, changes

pollerVars == <<base, legs, targets, moved, loop, books, budget, marked,
                faults, changes>>

Least(x, y) == IF x <= y THEN x ELSE y
Most(x, y) == IF x >= y THEN x ELSE y

Members(l) == {l[i] : i \in 1 .. Len(l)}

\* The positions of a list that show a slug for the first time, and how many
\* of them there are up to one.
Firsts(l) == {i \in 1 .. Len(l) : \A j \in 1 .. i - 1 : l[j] # l[i]}

Rank(i, P) == Cardinality({j \in P : j <= i})

\* In the given order, first occurrence wins.
Deduped(l) ==
    LET P == Firsts(l)
    IN  [n \in 1 .. Cardinality(P) |-> l[CHOOSE i \in P : Rank(i, P) = n]]

CycleTime(l) == Interval * Len(l)

\* Mutant: the budget of one cycle, with no room for an answer that is missed.
BudgetOneCycle(l) == Most(DefaultLimit, CycleTime(l) + Quick)

\* retune_polymarket_staleness: what the venue's budget becomes.
BudgetFor(l) == Most(DefaultLimit, Cycles * CycleTime(l))

\* No age is told apart from another that exceeds every budget.
MaxAge == Most(DefaultLimit, Cycles * Interval * Cardinality(Slugs)) + 1

Stale(b) == b.age > b.limit

\* What happened to the polling of a market since its book was updated.
Histories == {"steady", "missed", "cooled", "troubled"}

Fresh == [age |-> 0, limit |-> budget, since |-> "steady"]

Loop == [phase : {"sleeping", "asking", "down"}, left : Nat, spent : Nat,
         index : Nat, attempt : Nat, slug : Slugs \cup {None}]

\* stream() at its first line.
Started == [phase |-> "sleeping", left |-> 0, spent |-> 0,
            index |-> 0, attempt |-> 0, slug |-> None]

PollerTypeOK ==
    /\ base \in Seq(Slugs) /\ legs \in Seq(Slugs) /\ targets \in Seq(Slugs)
    /\ moved \in BOOLEAN
    /\ loop \in Loop
    /\ loop.phase = "asking" <=> loop.slug # None
    /\ ~ moved /\ loop.index # 0 => loop.index < Len(targets)
    /\ DOMAIN books \subseteq Slugs
    /\ books \in [DOMAIN books -> [age : 0 .. MaxAge, limit : Nat, since : Histories]]
    /\ budget \in Nat
    /\ marked \subseteq Slugs
    /\ faults \in 0 .. MaxFaults /\ changes \in 0 .. MaxChanges

\* run_ui: the targets may list the pairs' markets before the others; the
\* budget is derived before the task of the poller first runs.
PollerInit ==
    /\ \E l \in Lists : base = Deduped(l)
    /\ \E l \in Lists : legs = Deduped(l)
    /\ \E l \in Lists : targets = Deduped(l)
    /\ Members(base) \cap Members(legs) = {}
    /\ Members(targets) = Members(base) \cup Members(legs)
    /\ moved = FALSE
    /\ loop = Started
    /\ books = [s \in {} |-> Fresh]
    /\ budget = BudgetFor(targets)
    /\ marked = {}
    /\ faults = 0 /\ changes = 0

-----------------------------------------------------------------------------
(* The loop of stream().  A turn begins when its sleep is over, and looks  *)
(* at the targets as they are then.                                        *)

TurnBegins == loop.phase = "sleeping" /\ loop.left = 0

\* Mutant: the loop never notes the epoch it saw, and starts over each turn.
FirstIndexAlways == 0

\* A new set starts at its first slug.
FirstIndex == IF moved THEN 0 ELSE loop.index

Nap ==
    /\ TurnBegins
    /\ targets = <<>>
    /\ loop' = [loop EXCEPT !.index = FirstIndex, !.left = IdleSleep]
    /\ moved' = FALSE
    /\ marked' = {}
    /\ UNCHANGED <<base, legs, targets, books, budget, faults, changes>>

Ask ==
    /\ TurnBegins
    /\ targets # <<>>
    /\ loop' = [loop EXCEPT !.phase = "asking", !.spent = 0,
                            !.slug = targets[FirstIndex + 1],
                            !.index = (FirstIndex + 1) % Len(targets)]
    /\ moved' = FALSE
    /\ marked' = {}
    /\ UNCHANGED <<base, legs, targets, books, budget, faults, changes>>

\* Where the loop sleeps for d ticks before its next turn.
Asleep(d) == [loop EXCEPT !.phase = "sleeping", !.left = d, !.spent = 0,
                          !.slug = None]

\* What is left of the interval since the fetch started.
Pace(l) == Most(Interval - l.spent, 0)

\* The history of the books: what befell the fetch of slug s counts for
\* every book, a missed answer for its own.
Worse(since, event) == IF since = "steady" THEN event ELSE "troubled"

Befell(event, S) ==
    [s \in DOMAIN books |->
        IF s \in S THEN [books[s] EXCEPT !.since = Worse(@, event)] ELSE books[s]]

Fault ==
    /\ loop.phase = "asking"
    /\ faults < MaxFaults
    /\ faults' = faults + 1
    /\ marked' = {}
    /\ UNCHANGED <<base, legs, targets, moved, budget, changes>>

BackoffBase == Least(BackoffMax, BackoffInitial * 2 ^ loop.attempt)

\* The fetch raises, a timeout included: the attempts so far set the delay.
Fails(d) ==
    /\ Fault
    /\ BackoffBase <= 2 * d /\ d <= BackoffBase
    /\ loop' = [Asleep(d) EXCEPT !.attempt = @ + 1]
    /\ books' = Befell("troubled", Slugs)

\* 429.
RateLimited ==
    /\ Fault
    /\ loop' = Asleep(RateLimitPause)
    /\ books' = Befell("cooled", Slugs)

\* Any other status than 200 and 429.
Refused ==
    /\ Fault
    /\ loop' = Asleep(Pace(loop))
    /\ books' = Befell("missed", {loop.slug})

\* 200 with a payload parse_book_response refuses: it is counted and skipped.
Garbled ==
    /\ Fault
    /\ loop' = [Asleep(Pace(loop)) EXCEPT !.attempt = 0]
    /\ books' = Befell("missed", {loop.slug})

\* 200 with a payload that makes it raise something else than ParseError (a
\* price that is no object): consume_poly dies, and the stream with it.
Crashes(d) ==
    /\ Fault
    /\ loop' = [Asleep(d) EXCEPT !.phase = "down"]
    /\ books' = Befell("troubled", Slugs)

\* The supervisor runs consume_poly again, with a new stream.
Restart ==
    /\ loop.phase = "down" /\ loop.left = 0
    /\ loop' = Started
    /\ moved' = FALSE
    /\ marked' = {}
    /\ UNCHANGED <<base, legs, targets, books, budget, faults, changes>>

\* The books with the one just fetched, whether or not its market is still a
\* target.
Applied(s) == [x \in DOMAIN books \cup {s} |-> IF x = s THEN Fresh ELSE books[x]]

\* 200 with a book.  The stream yields and consume_poly applies it, with no
\* await in between.
Answered ==
    /\ loop.phase = "asking"
    /\ books' = Applied(loop.slug)
    /\ marked' = {loop.slug}
    /\ loop' = [Asleep(Pace(loop)) EXCEPT !.attempt = 0]
    /\ UNCHANGED <<base, legs, targets, moved, budget, faults, changes>>

-----------------------------------------------------------------------------
(* Universe changes                                                        *)

\* Mutant: books of markets that left stay.
KeptAll(new) == DOMAIN books

\* retain: the books of the new targets.
Kept(new) == DOMAIN books \cap Members(new)

\* Mutant: the limit of the old cycle is given to the books that live.
RetunedLate(new) ==
    [s \in Kept(new) |-> [books[s] EXCEPT !.limit = budget,
                                          !.since = "troubled"]]

Retuned(new) ==
    [s \in Kept(new) |-> [books[s] EXCEPT !.limit = BudgetFor(new),
                                          !.since = "troubled"]]

\* _apply_polymarket_universe.  Nothing in it is awaited.
ApplyUniverse(new) ==
    /\ changes < MaxChanges
    /\ changes' = changes + 1
    /\ IF new = targets
       THEN UNCHANGED <<targets, moved, books, budget>> /\ marked' = {}
       ELSE /\ targets' = new
            /\ moved' = TRUE
            /\ budget' = BudgetFor(new)
            /\ books' = Retuned(new)
            /\ marked' = Kept(new)
    /\ UNCHANGED <<loop, faults>>

\* universe.polymarket
SetBase(l) ==
    /\ base' = Deduped(l)
    /\ ApplyUniverse(Deduped(base' \o legs))
    /\ UNCHANGED legs

\* The install of a reload (_reload_tracked_locked)
SetLegs(l) ==
    /\ legs' = Deduped(l)
    /\ ApplyUniverse(Deduped(base \o legs'))
    /\ UNCHANGED base

-----------------------------------------------------------------------------

\* An answer that is slow troubles the polling of every market.
Tick ==
    /\ loop' = IF loop.phase = "asking" THEN [loop EXCEPT !.spent = @ + 1]
                                        ELSE [loop EXCEPT !.left = @ - 1]
    /\ loop'.left \in Nat /\ loop'.spent <= Timeout
    /\ LET slow == loop'.spent > Quick
       IN  books' = [s \in DOMAIN books |->
                        [books[s] EXCEPT !.age = Least(@ + 1, MaxAge),
                                         !.since = IF slow THEN "troubled" ELSE @]]
    /\ marked' = {}
    /\ UNCHANGED <<base, legs, targets, moved, budget, faults, changes>>

FetchEnds ==
    \/ \E d \in 1 .. BackoffMax : Fails(d)
    \/ RateLimited
    \/ Refused
    \/ Garbled
    \/ \E d \in RestartDelays : Crashes(d)
    \/ Answered

Runs == Nap \/ Ask \/ FetchEnds \/ Restart \/ Tick

PollerNext == Runs \/ (\E l \in Lists : SetBase(l) \/ SetLegs(l))

PollerSpec == PollerInit /\ [][PollerNext]_pollerVars

\* The event loop runs on, time passes, a fetch ends.  Nobody has to change
\* the universe.
FairPollerSpec == PollerSpec /\ WF_pollerVars(Runs)

-----------------------------------------------------------------------------
(* Properties *)

\* The budget follows the targets, through changes that interleave with a
\* fetch, and every book is judged by it: the ones that live through a
\* change, and the one an answer in flight creates after it
\* (retune_polymarket_staleness: "flapping STALE").
BudgetFollowsTargets ==
    /\ budget = BudgetFor(targets)
    /\ \A s \in DOMAIN books : books[s].limit = budget

\* Does the budget for n targets leave room for a pause that costs a market
\* its turn, with an answer that takes its time before and one after it?
CoversPause(n) == (n + 1) * Interval >= RateLimitPause + 2 * Quick

\* Three cycles are enough: a target whose answer was missed once since its
\* book was updated, or whose polling was interrupted by one 429, is not
\* stale; the latter only with enough targets for the budget to cover the
\* pause (PM_STALENESS_CYCLES: "allow three cycles (one 429 cooldown)").
OneMissIsNotStale ==
    \A s \in DOMAIN books \cap Members(targets) :
        \/ books[s].since \in {"steady", "missed"}
        \/ books[s].since = "cooled" /\ CoversPause(Len(targets))
        => ~ Stale(books[s])

\* A book no target has is the doing of the one fetch that was in flight when
\* its market was dropped, so there is at most one, whatever the changes and
\* the faults in between; the next change takes it away ("those books flap
\* and then linger").
LateAnswersLingerAlone == Cardinality(DOMAIN books \ Members(targets)) <= 1

\* The round-robin starves nobody: every market that stays a target has its
\* book updated again and again, once the changes and the faults are over.
EveryTargetIsPolled ==
    \A s \in Slugs :
        []<>(s \in Members(targets) => s \in DOMAIN books /\ books[s].age = 0)

=============================================================================
