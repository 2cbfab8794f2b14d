------------------------------- MODULE Replay -------------------------------
(***************************************************************************)
(* The archive of a run read back (src/arb/replay.py): its rows, in the    *)
(* order they were numbered, through adapters and a book manager of its    *)
(* own, beside the manager that lived through them.                        *)
(*                                                                         *)
(* What replay_run rebuilds is a function of the rows.  Here it is kept up *)
(* to date as the archive grows.  Evictions and budgets are no rows; the   *)
(* clock of a row is the one it was received at.  The adapters of a replay *)
(* see the frames the live ones saw, so a row is the batch they made of it.*)
(***************************************************************************)
EXTENDS BookManager

CONSTANT ReplayLimits   \* the budgets run_replay sets, by venue

ASSUME ReplayAssumption == ReplayLimits \in [Venues -> (Nat \ {0}) \cup {None}]

VARIABLES replayed, replayedLimit, replayedApply, replayedChanged

replayVars == <<replayed, replayedLimit, replayedApply, replayedChanged>>

Again == INSTANCE BookManager WITH
            books <- replayed, venueLimit <- replayedLimit,
            lastApply <- replayedApply, changed <- replayedChanged

ReplayInit ==
    /\ Init
    /\ replayed = NoMarkets /\ replayedApply = NoMarkets /\ replayedChanged = {}
    /\ replayedLimit = ReplayLimits

\* Mutant: the events of a row are dispatched without the resync before them.
ReplayRowAlone(e) == Again!Apply([e EXCEPT !.resync = FALSE])

\* One row: the same adapters, the same manager, the time it was received.
ReplayRow(e) == Again!Apply(e)

ReplayNext ==
    \/ \E e \in Batches :
          /\ ~ ExceedsMaxQty(e) /\ ~ Again!ExceedsMaxQty(e)
          /\ Apply(e) /\ ReplayRow(e)
    \/ /\ \/ \E v \in Venues, limit \in Limits : SetVenueStaleness(v, limit)
          \/ \E v \in Venues, keep \in SUBSET Markets : Retain(keep, v)
          \/ Tick
       /\ UNCHANGED replayVars

ReplaySpec == ReplayInit /\ [][ReplayNext]_<<vars, replayVars>>

-----------------------------------------------------------------------------

\* What the replay of a run says of a market is what was on the screen: its book
\* has the ladders, the number, the time and the fault of the live one, although
\* the live one was retuned, and was evicted and opened again between two rows
\* without the replay hearing of it ("there is only one code path",
\* docs/architecture.md).  A book that still waits for its first snapshot shows
\* nothing, and the replay may have an older one there.
ReplayRebuildsBooks ==
    /\ DOMAIN books \subseteq DOMAIN replayed
    /\ \A m \in DOMAIN books : books[m].time # None =>
          books[m] = [replayed[m] EXCEPT !.limit = books[m].limit]
=============================================================================
