# Cross-Book in TLA+

Cross-Book (`src/src/arb`) subscribes to Kalshi over a WebSocket, polls
Polymarket US over REST, keeps one normalized order book per market, records
every message before parsing it, measures the edge between paired markets and
paper-trades it.  This directory holds TLA+ models of that process, TLC
configurations that check them on small instances, and TLAPS proofs of the
properties that matter most for every value of the constants.

Paths below are relative to `src/src/arb` unless they start with `docs/`
(`src/docs`).  `PROJECT.json` maps every definition to the lines it models.

## 1. The system: parts, state, operations

One Python process, one asyncio event loop.  A coroutine runs undisturbed
between two awaits; every interleaving in the models is at an await, at a task
switch, at the network or at the database.

| Part | State | Operations | Must hold |
|---|---|---|---|
| Order book `book.py`, `types.py` | two ladders, sequence number, update time, invalid reason, staleness limit | `apply_snapshot`, `apply_level`, `mark_invalid`, `status` | a book that claims to be valid had a snapshot and is not crossed |
| Book manager `books.py` | the books, per-venue limits, apply times | `apply`, `set_venue_staleness`, `evict`, `retain` | limits, times and books stay consistent; every change is named to the publisher |
| Kalshi feed `ws.py`, `venues/kalshi/*` | socket, ticker set, last sequence number | dial, resubscribe, gap detection, `force_resync`, `set_tickers` | a trusted book is the venue's; a missing or faulty one is replaced in the end |
| Polymarket poller `venues/polymarket_us/source.py` | targets, epoch, rotation index | `set_targets`, poll loop with back-off and pacing | every target is polled; a dropped one is not |
| Recorder `recorder.py`, `run.py`, `storage/db.py` | ingest counter, queue, batch, archive table | `enqueue`, `run`, `drain`, bulk insert | the archive is a prefix of what was accepted: ordered, without duplicate or gap |
| Supervision `supervise.py` | attempt counter per task | `Backoff.next_delay`, `supervise` | a task that dies is started again |
| Fees `fees.py` | none | `kalshi_fee_ticks`, `polymarket_fee_ticks` | the venues' schedules, rounded as they say |
| Edge `edge.py` | none | `compute_direction`, `best_edge` | exactly the depth that pays for itself |
| Paper trading `paper.py`, `taken.py`, `arbmon.py` | limits, positions, spend, ledger of liquidity taken | `trade_pair`, `set_limits`, `set_suspended`, `net`, `consume` | no size is filled twice, limits hold at every trade |
| Watch set `pairs/store.py`, `pairs/tracked.py`, `ui/control.py` | status and tracked columns; monitor, universe, vetoes, reload lock | decide, track, untrack, top N, reload, reconcile | the engine follows the database; a rejected pair stops trading at once; N slots are dealt across events |
| Pair matching `pairs/matcher.py`, `pairs/text.py` | none | block, score, match outcomes, propose | each market is proposed once, with its best twin and its margin |
| Pair jobs and discovery `pairs/run.py`, `venues/*/discovery.py` | the slot of a process, pages fetched, scoring thread, transaction | `propose`, `backfill` | no job touches a decision; proposals are stored whole or not at all; a slot is given back |
| Control plane `ui/control.py` | tokens, jobs, audit | `execute`, confirm, jobs | a job that needs confirming runs on an audited arming of its own, a token is spent once, a job gives its group back |
| Fan-out `ui/server.py`, `ui/static/js/core/ws.js` | market list, dirty set, clients with a bounded queue each; what a tab shows | greeting, `flush_books`, `broadcast` and its drops, reconnects | a client that is kept misses nothing; every tab catches up |
| Shutdown `shutdown.py`, `run_ui`, `cli.py` | phase, cancellations owed, steps of the cleanup | signal handler, `serve`, `serve_then_cleanup` | a polite signal ends the process, after the recorder was drained, with the right exit code |
| Replay `replay.py` | adapters and a book manager of its own | `replay_run` | it rebuilds the books that were lived through |
| Clock check `clock.py` | one UDP socket | SNTP exchanges, best sample | the skew is off by half of the delay at most |

How they interact: a source (`Kalshi feed`, `poller`) stamps a message and hands
it to the recorder's sink in the same step, then its consume task parses it and
calls `BookManager.apply`, which returns the markets to re-publish.
`flush_books` passes the changed pairs to the monitor, which quotes them off the
books, and to the paper trader.  The control plane calls into all of them: it
changes the Kalshi and Polymarket universes (and evicts the books of what they
dropped), switches recording, sets paper limits, and reloads the watch set from
the database, which changes the monitor and the universes in turn.  Whatever it
did it broadcasts, between the frames of the flush loop, to the queues of the
tabs.  The pairs table is filled by jobs of this process or of one of the
command line, and decided on by the operator; the archive is read back by a
replay.  A signal ends it all through one cleanup.

Hard behaviour, and where it is handled: frames lost, buffered or numbered anew
across reconnects (`KalshiFeed`); writes that fail, succeed behind an error, or
are cancelled (`Recorder`); database reads that are seconds old when they are
acted on (`WatchSet`); paper fills against ladders that never show them
(`Paper`); rounding at fractions of a contract (`Fees`, `Edge`, `Paper`); tabs
that read slowly, are dropped and come back between any two frames (`Fanout`);
signals between two bytecodes of the startup, the serving and the cleanup
(`Shutdown`); two processes that write one table (`PairJobs`).  All
hazards are listed with their lines in `PROJECT.json`.

## 2. Modules

| Module | Models |
|---|---|
| `Scales` | ticks per dollar, quantity units per contract, the valid prices, quotients rounded up and down |
| `Book` | one order book as pure operators on a record (`apply_snapshot`, `apply_level`, `status`, ...) |
| `BookManager` | extends `Book`: all books of a process, one action per method |
| `KalshiFeed` | extends `BookManager`: venue, network, socket loop, adapter and universe change, all feeding `Apply` and `Retain` |
| `RawLog` | abstract: an append-only log whose archive is a prefix of what was accepted |
| `Recorder` | the queue, the batching writer with its retries and its crash, the drain; implements `RawLog` |
| `Fees`, `Edge` | the fee formulas and the depth walk, as pure operators on integers |
| `Paper` | extends `Edge`: ledger, positions and limits, trading on the quotes the walk gives |
| `WatchSet` | the pairs table against the monitor, the universe and the reloads in flight |
| `Poller` | the polling loop in ticks of time, its answers and faults, and the universe changes that swap its targets, retune the budget and evict |
| `Control` | the executor's arm-and-confirm protocol, the confirm tokens, the job runner and its shutdown |
| `Fanout` | the server's side of the tabs (market list, dirty set, flush, broadcasts, queues) and what a tab makes of the frames |
| `Shutdown` | the signals against startup, serving and cleanup, with `asyncio.Runner` and uvicorn as the code uses them |
| `PairJobs` | propose and backfill in two processes, their transactions row by row, and the operator's decisions |
| `Replay` | extends `BookManager` with a second instance of it that is fed the rows of the archive |
| `Matching`, `Dealing`, `Clock` | the matcher, the dealing of the watch set, and the clock check, as pure operators |
| `Orders` | external: what a sort returns, the elements of a finite set in a strict total order |
| `MC*` | model values, ladders, batches and fee schedules for TLC; `MCAlgorithms` also holds the inputs and the reference definitions the pure operators are compared with |
| `BookProofs` (of `BookManager`, `KalshiFeed`, `Replay` and `Recorder`), `PaperProofs`, `WatchSetProofs`, `ControlProofs`, `PollerProofs`, `ServerProofs` (of `Shutdown` and `Fanout`), `PairJobsProofs`, `AlgorithmsProofs` (of the pure operators, against the references of `MCAlgorithms`) | the theorems |

Definitions marked "Mutant" in a module are faulty variants of the definition
that follows them.  Nothing uses them; replacing the original by one must break
a property, which is how each property is shown to depend on the code it is
about.

### Correspondence with the code

*Book and BookManager.*  A ladder is a function from price to quantity, zero
where the dictionary has no key.  A book is a record of the code's fields; the
invalid reason is kept with `"ok"` for none.  `Apply` is the whole of
`BookManager.apply` for one event, with the `ResyncRequired` that may precede
it in the same batch: tainting the venue's books, the lazy creation, the skip
of level updates for a book that needs a resync, and the apply time.
`changed` is the set the call returns.  Time is a counter; staleness is
`Status`, computed when asked as in the code.

*KalshiFeed.*  `conn = "closed"` is the window the code has between our
`close()` and the exception of the next read, in which buffered frames are still
delivered.  `lastSeq` is the adapter's and survives reconnects, as there.
`Consume` is one iteration of the server's consume task, with the forced
reconnect it makes on a resync.  The sequence numbers of a connection fold at
`MaxSeq` so that connections of any length are finite; the fold is a number that
is no gap, and no frame is lost next to it.  The venue is external: one snapshot
per subscribed market in answer to a subscribe, then deltas.

*Recorder.*  A message is its `ingest_seq`.  `Arrive` stamps and offers it in
one step, as the sources do.  `landed` says the database committed the batch but
reported an error; from then on every retry breaks the unique key.
`WriterCrashes` is the `OverflowError` of `2.0 ** attempt`, after which
`supervise()` starts `run()` again with an empty hand.  A drain ends by
`join()` or by its timeout, and the writer is then cancelled, which may leave
the insert it was in committed or not.

*Fees and Edge.*  The code computes in `Fraction` and rounds once; the models
compute the same quotient in integers.  `Walk` pairs the units of two ladders
into fills as `_walk` does; `Kept` is the rule that stops at the first fill
that does not cover its fees.

*Paper.*  `TradePair` is `trade_pair`: the netting of both ledgers first (it
also forgets entries, and happens even if nothing trades), the quotes off what
is left, the size that fits the limits, the trade and the consumption of both
legs.  `supply` and `sold` are history: everything a venue ever showed and
everything that was filled, per level.

*WatchSet.*  `Commit` is the SQL of a decision and `Follow*` the synchronous
part of `after_decision`; between them is the window in which a decision is in
the database and not yet live.  A request reads (`Plan*`), writes (`Write`) and
reloads (`Finish` joins the lock's queue).  A reload begins (reads the decision
counter), reads the table, then takes as long as its venue calls take, installs,
and waits for the resync.  `vetoed` holds 0 for a pair without veto.  `lifted` and
`astray` are history: the pairs whose veto a confirmation took while a reload was
in flight, and those the last install got wrong over that.

*Poller.*  A book is its age, its budget and a history variable (`since`: what
befell the polling of its market since its last update); its ladder is
`BookManager`'s matter, whose per-venue limit and lazy creation are `budget` and
`Fresh`.  `loop` holds the local variables of `stream()`: a turn begins when the
sleep is over (`Nap`, `Ask`), and a fetch ends in one of the ways the loop tells
apart (`Fails`, `RateLimited`, `Refused`, `Garbled`, `Answered`), or in the death
of the stream (`Crashes`) with a `Restart` by `supervise()`.  An answer is
stamped, yielded, parsed and applied without an await, hence one step.  `moved`
stands for the two epoch counters, of which only the comparison matters; the
index is kept modulo the length of the list, which is how it is used.  `Tick`
moves the one timer that runs and the age of every book, and never passes the
end of a sleep or the timeout of a fetch.  `Deduped` is `dict.fromkeys`.

*Control.*  An order is an action with its validated parameters, which is what
`params_fingerprint` binds a token to; tokens are numbered as they are minted,
the order the registry's dictionary keeps.  A job's effect sentence needs no
query, so `execute` has no await before its audit writes: a refusal, a spent
token and a started job are one step each, and an arming is two, with the
request waiting in `Arming` for its row.  `armings` counts the rows committed,
also those whose commit was not reported.  A job is `body` until its end or its
`cancelling`; one that runs a child then waits for it in `terminating` and,
after the grace or a second cancellation, in `killed`.  The slot
`pairs/run.py` keeps for itself is held by a job in `body` only and refuses
nothing the group does not.

*Fanout.*  A book is the number of the change that left it as it is; a change of
its staleness verdict counts as one, for the payload carries it.  A broadcast is
one step: the frames go into every queue as far as there is room, and who has
none is taken off the clients with its socket `closing`; its sender goes on with
what was queued until the close (`Closes`) or a break (`Leaves`).  `Flush` is a
tick of `flush_books` up to its first await, and `Persisted` the rest, after the
insert of the paper trades.  A change of the universe retunes the budget of the
polled books that stay (`Retuned`, which dirties them), evicts those that go
(`Dropped`) and greets once per venue whose set changed (`Hellos`).  Every
action of the control plane changes `settings` and owes one control frame
(`unsaid`, `Announce`); one that fails half-way owes none (`silent`).  A tab
keeps what it showed across a reconnect, and nothing across a reload (`Redial`).
`unshown` is a history variable: the markets a `hello` left out while the manager
has a book of theirs, until the book changes.  Such a book is the one a late frame
creates after the eviction, on the venue whose universe did not move since; when
its market is listed again nothing marks it dirty (`ui/control.py:1470-1491`), and
the tabs that were told `hello` without it show no book until the next one lands.

*Shutdown.*  `pc` is where the main task is: before its handler (`boot`), in the
startup, after `serve`'s test for a SIGTERM (`checked`) or in its way out
(`gate`), between that test and uvicorn's own handlers (`entering`), `serving`,
in the replay of what uvicorn captured, before the cleanup (`absorb`) and
waiting for it.  The cleanup is a task of its own with a `step`.  A signal may
come at any step.  A cancellation is `pending` until the main task awaits.  One
supervised task stands for the feeds and loops; its backoff may overflow.

*PairJobs.*  What the venues say is numbered by the propose that read it; a row
keeps the number its score and the one its detail come from, so a mixture shows.
A transaction holds the rows it has written (`done`) until it commits; others
wait for them (`Locked`), and the database breaks a deadlock by failing one
(`Fails`).  Cancelling a job that scores leaves its thread behind (`orphans`).
`crossed` is history: the pairs a backfill had read before a propose of the
other process committed.

*Replay.*  A row is the batch the adapters made of a frame; the second manager
(`Again`) gets the same rows and neither the evictions nor the budgets.

*Matching, Dealing, Clock.*  A text is its set of tokens, and a similarity an
integer of `1 / Unit`, rounded down.  Weights of tokens come from a constant
function, whose MC values are those of the code's logarithm.  `Deal` gives each
pair its place in the order of the deal (depth in its event's bucket, then the
event's place) and takes the first N, which is what the rounds amount to.  An
SNTP exchange is the way of its packets and what became of them; the socket
keeps the datagrams nobody read.

## 3. Runs

All bounds are constants of the configurations.  Deadlock is checked except
where the bounds are spent or the system stops: `recorder` after a shutdown;
`watch_set`, `control`, `fanout`, `shutdown` and `pair_jobs` when nothing is left
to do.

| Run | Shows | Bounds, and why they are enough |
|---|---|---|
| `book_manager` | `ValidBookIsSound`, `LimitsAgree`, `ReplayRebuildsBooks`, `ChangesAreReported` | one market on each of two venues, two prices, quantities to 1, a replay beside it with budgets of its own: a ladder can cross, lock, lose its last level and go negative; a snapshot with a bad price, with an empty level, and both update modes with and without sequence numbers occur, and books are evicted and opened again between two rows (512,074 states) |
| `kalshi_feed` | `TrustedBooksAreExact`, `NoSpuriousResync`, and under fairness `BooksRecover` | two markets at one price, one fault (a frame lost or unparsable, or a network drop) anywhere but at the first frame, one change of universe; a lost delta can cross a book, take it below zero or leave a level nobody offers |
| `kalshi_feed_zombie` | violated: `DroppedBooksGo` | no fault at all, one change of universe |
| `recorder` | `DrainedMeansWritten`, `ImplementsLog`, `WrittenUnlessStuck`, `ShutdownEnds` | six messages through a queue of three in batches of two, three failures, the delay overflowing at the third: full queue, mixed batches, a retry after an ambiguous commit and a crash all occur, alone and together |
| `algorithms` | `FeesAreExact`, `QuoteMeasuresTheDepth`, `ProposalsAreTheBest`, `DealIsSpread`, `SkewIsWithinTheDelay` | fees: every fill up to 40 units at every price of a ten-tick dollar, every fee type and three rates.  Edge: every pair of uncrossed books with two levels a side.  The scale is coarse (the real 10000 ticks leave TLC's integers), chosen so that every rounding has remainders on both sides of its boundary.  Matcher: two Kalshi events and one of Polymarket US, with titles and names that contain each other, differ by a number, or share one token.  Deal: four pairs of up to three events with ties in score, at most one of which has ended, and every N.  Clock: every course of three exchanges, late by one or by two |
| `paper` | `NoPhantomFills`, `EveryFillIsPlaced`, `FillsArePaidFor`, `LimitsHoldAtEveryTrade` | two pairs sharing a market, three moves of the venues or the operator; a contract is two units, so costs have fractions of a tick |
| `watch_set` | `RejectedIsNotTraded`, `MonitorFollowsDatabase`, `LegsFollowMonitor`, and under fairness `StoppedLegsGo` | two pairs (one always decided on, with or without the other), two decisions, two requests under way at once, one failing reload, one market that ends: a rejection and a confirmation around a reload, with a second request behind them, so that a pair is confirmed again under its veto before, in and after a reload (1,099,589 states) |
| `poller` | `BudgetFollowsTargets`, `OneMissIsNotStale`, `LateAnswersLingerAlone`, and under fairness `EveryTargetIsPolled` | two markets in lists of none, one and two, two faults, two changes; a tick is half the poll interval, an answer takes up to three: a market dropped and taken back during one fetch, a 429 before a turn, an answer that outlasts its interval, a crash with a restart in the middle of the rotation. The rate-limit pause (4) is scaled so that three cycles of two markets cover it and those of one do not |
| `control` | `EachRunWasArmed`, `NoneSpentTwice`, `JobsHoldTheirGroups`, and under fairness `CancelledJobsEnd` | two clients, two orders that need confirming and share a group, a replay in a child and the doctor; four requests, two tokens that live two ticks: two armings and two confirmations of them in every order, an eviction, a token presented for the other order, a job cancelled twice, a read-only server, a shutdown with jobs under way |
| `fanout` | `EveryTabIsFollowed`, and under fairness `EveryTabCatchesUp` | a streamed and a polled market, one tab, queues of four frames (a greeting with one book fills one, with two books is refused), two changes, one action, one other frame, one break: a tab accepted between a change of the universe and its flush, dropped in the middle of a broadcast, and back with what it showed before.  Tabs share nothing but the frames, so one is enough.  With two markets `unshown` stays empty; the case of three is the theorem's (section 5) |
| `shutdown` | `FlushedUnlessForced`, `ExitTellsWhatHappened`, and under fairness `StopsWhenAsked` | two SIGTERMs and three interrupts, anywhere: an interrupt before, in and after each of uvicorn's windows, the one that forces the end and the one that abandons the teardown; an overflow at the third attempt of the supervised task |
| `pair_jobs` | `DecisionsStand`, `ProposalsAreWhole`, and under fairness `JobsEnd` | two pairs, stored or not and in any status, two jobs in one process or in two, one decision, two pages, one retry: two transactions that wait for each other, a decision between a read and its write, a cancellation at every await |

`BookManager` is checked by itself with every batch the venues can send, and
inside `KalshiFeed` with the frames of one venue; crossings at several prices
are covered by the first.  The type invariant of a module is a conjunct of one of
its properties (`TrustedBooksAreExact`, `EveryFillIsPlaced`,
`MonitorFollowsDatabase`, `EveryTabIsFollowed`, `ExitTellsWhatHappened`,
`DecisionsStand`) or proved (section 5).

### Disagreements between code and documentation

Where the code and what its comments or docs say of it part, as met while
modelling.  One has a run that reproduces it and a finding in `PROJECT.json`:
`kalshi_feed_zombie`.  Eviction comes before the socket is closed, so a buffered
frame re-creates the evicted book and nothing evicts it again.

Three more show in the constants or the properties of passing runs; a constant is
TRUE where the behaviour is in the run and FALSE where it is left out of it:

* `LossAtStart` is FALSE in `KalshiFeed.cfg`; set it TRUE: the adapter keeps the last sequence
  number across connections, so the loss of the first frame of a connection is
  no gap; its market waits for a snapshot that will not come while the
  connection lasts, and `BooksRecover` is violated.
* With `AmbiguousCommit` (TRUE in `Recorder.cfg`) a batch committed behind an
  error is retried in place (`recorder.py:9-10`) for ever, against the unique key,
  and nothing behind it is written; `WrittenUnlessStuck` has to except it.
* A confirmation pops a pair's veto while the reload it guards against is still in
  flight (`ui/control.py:2000-2002`): a pair tracked, rejected and confirmed again
  during one reload is put back in the monitor by it, untracked, where line 1975
  has confirming change nothing live.  Nothing reconciles it if it was not in the
  monitor when it was rejected.  The other way round, a pair confirmed and tracked
  again before the confirmation is followed is left out by the install.  Both are
  in the run `watch_set`; `MonitorFollowsDatabase` has to except the pairs the last
  install got wrong over it (`astray`).  Without that exception it is violated.

Others have no run of their own:

* `Backoff.next_delay` raises the factor to the attempt before it caps the delay:
  `2.0 ** 1024` is an `OverflowError`.  In the recorder it ends `run()` with the
  batch in hand, which is then neither written nor retried, where
  `recorder.py:10` has batches never silently discarded (`WriterCrashes` is an
  action of the passing run `recorder`); in `supervise()` it is raised outside
  the `try` and ends the supervised task.
* `ui/control.py:104-105` allows a polled book three cycles, "one 429 cooldown".
  A pause of 10 s (`RATE_LIMIT_PAUSE_S`) fits into three cycles from four targets
  on, at the configured 0.45 requests a second; with up to three of them a single
  429 can make books stale.  `CoversPause` is the condition, and without it
  `OneMissIsNotStale` is violated.
* An answer in flight while its market is dropped creates its book again after
  the eviction, and the book stays, stale, until the next change of the targets:
  what `kalshi_feed_zombie` shows of the streamed venue.
  `LateAnswersLingerAlone` bounds it at one book.
* `interfaces.py:34-38` has a malformed payload raise `ParseError` and be "never
  fatal"; `venues/polymarket_us/rest.py:202` raises `AttributeError` for a `px`
  that is no object, which ends `consume_poly` and restarts the rotation
  (`Crashes`).
* A size of zero does not say that there is no edge, as `edge.py:45` has it: a
  first fill so small that its rounded-up fees exceed its gross ends the walk at
  `edge.py:115`, though deeper levels would pay.
* `docs/engine.md:177-178` speaks of truncating where `paper.py:212` rounds the
  cost up.
* `venues/kalshi/source.py:84-86` says that books which survive a change of
  universe are invalidated on the sequence gap.  The numbers restart at 1, there
  is no gap, and these books stay valid with old ladders until their snapshots
  land; `TrustedBooksAreExact` is therefore about markets whose snapshot the
  connection has delivered.
* `docs/architecture.md:288` has every failed action write a row of
  `control_actions`; a token refused at `ui/control.py:1109-1113` and an effect
  that could not be stated (`ui/control.py:1080-1086`) write none
  (`ConfirmInvalid` leaves its request idle).
* `docs/ops.md:342` calls the recorded effect the sentence the operator was
  shown, not re-derived later; `execute` derives it anew (`ui/control.py:1077`)
  after the preview that showed it, and the effect of a watch-set request, which
  queries the pairs, may have changed since.
* `docs/ui.md:987-989` has the market list sent on connect only; a change of the
  universe greets every client again (`Hellos`), which is what keeps
  `EveryTabIsFollowed`.
* `docs/ui.md:1022` has the control state "broadcast after every mutating action".  A
  watch-set request that writes and then fails in its reload has changed what the control payload
  says and announces nothing (`FailsHalfway` of `Fanout`; `ShowsTheSettings` excepts
  `silent`).
* `ui/static/js/core/ws.js:56` keeps the books of listed markets across a
  reconnect, so a tab can go on showing a book that was evicted while it was away
  and has not come back: of the listed markets `ShowsTheBooks` asks for the live books
  only.
* A market that comes back to the list with a book the manager never gave up is
  shown without it until the book changes, at the latest by the snapshot of the new
  subscription (`unshown`).  It takes a third market and two universe changes; the
  proof of `EveryTabIsFollowed` found it where the run had not.
* `shutdown.py:222-224` says that cancelling the cleanup task itself still stops
  it; the cleanup of `run_ui` awaits tasks under `suppress(CancelledError)` and
  goes on with its next step there (`Struck`).
* `supervise.py:65-67` never propagates an exception of what it supervises; the
  overflow of its own backoff it does, at the cleanup's `await` of the task, and
  the drain of the recorder is not reached (`CloseTasks`; `FlushedUnlessForced`
  excepts a dead task).
* `pairs/store.py:125-126` says that a backfill touches nothing but the missing
  field.  It writes back the detail it had read, so a propose that another process
  committed in between loses its detail, not its score (`crossed` in
  `ProposalsAreWhole`).  The slot that excludes the two is one per process.
* `pairs/run.py:305-306` says that after a cancellation every further await raises
  again; it does so once, and nothing depends on it.
* `docs/architecture.md:389-392` has one code path for live and replay.  A row that
  was not recorded (recording paused) is missing from the replay, and a reconnect
  hidden in the pause is then no gap of the sequence, so wrong books are trusted;
  `docs/cli.md:312` admits the pause.  `Replay` assumes a run recorded throughout.
* `clock.py:120-134` reads the next datagram, whoever asked for it: one late reply
  makes every later exchange reject its predecessor's and lose its own
  (`SkewIsWithinTheDelay` promises nothing of those).

## 4. Fairness

* `KalshiFeed`: weak fairness of `Dial`, `Teardown`, `Consume` (the tasks run
  under `supervise`, and the loop dials with a capped delay until it succeeds),
  of `Stall` (the read has a timeout) and of the venue's snapshots.  None of the
  market, the network or the operator.  That a dial succeeds in the end is
  assumed of the network.
* `Recorder`: weak fairness of the writer's steps and of the shutdown's.
  Failures are bounded by `MaxFailures`, which says the database comes back;
  nothing else is assumed of it.  `Drained \/ DrainTimesOut` is one fair step,
  because `wait_for` ends either way.
* `WatchSet`: weak fairness of the event loop (`Follow`, `Begin`, `Read`,
  `Resynced`) and of "the load ends", by an answer or by the time-out every REST
  call has.  Decisions and requests are never fair.
* `Poller`: weak fairness of everything but the universe changes: the event loop
  runs its timers, the client's timeout ends every fetch.  An answer is not
  assumed of the venue beyond the bound on its faults.
* `Control`: weak fairness of the delivery of a cancellation and of the end of
  the grace (both the event loop's), and of the end of a child that was killed
  (the operating system's).  A job that nobody cancels, a child that was only
  asked to terminate, and the requests owe nothing.
* `Fanout`: weak fairness of the flush loop, of the insert's return, of the
  control frame that follows an action, and of each tab's own steps (its queue is
  read, a close returns, it dials again).  None of the feeds, the operator and the
  network.  `EveryTabCatchesUp` assumes that from some time on a greeting fits a
  queue, and that the changes and breaks are bounded.
* `Shutdown`: weak fairness of the main task once it has something to do (a
  cancellation to be told, a server that is exiting, a cleanup that is over), of
  the cleanup (the drain and uvicorn's graceful shutdown have timeouts, cancelled
  jobs end) and of the two steps between the test for a SIGTERM and uvicorn's
  capture.  A startup without a signal owes nothing.
* `PairJobs`: weak fairness of each process's job: requests have timeouts, pages
  and retries are bounded, a thread sees its event, the database answers and breaks
  deadlocks.  Nobody has to start, cancel or decide.

## 5. Proofs

| Theorem | States | Argument |
|---|---|---|
| `BookProofs!BookManagerTypeOK` | types | inductive by itself |
| `BookProofs!ValidBooksAreSound` | `ValidBookIsSound` | every operator of `Book` returns a sound book (`CheckCrossed` closes each of them), lifted over `Apply` |
| `BookProofs!StalenessLimitsAgree` | `LimitsAgree` | creation reads the limit that retuning writes |
| `BookProofs!ApplyTimesCoverBooks` | `ApplyTimesAgree` | needs the book's own times bounded by the clock |
| `BookProofs!EveryChangeIsReported` | `ChangesAreReported` | action property, by cases on `Apply` |
| `BookProofs!FeedInvariant` | `FeedIInv` | `Chained`: each frame on its way, if its number is the next one, tells all that changed in the markets whose snapshot came before it; `Reached`: behind the last one the venue has either lost a frame or not moved; `Unbroken`: without a loss the numbers follow one another |
| `BookProofs!TrustedBooksStayExact` | `TrustedBooksAreExact` | from `FeedIInv`: a frame that is applied without a gap continues what the book shows; one that is lost, unparsable or out of turn marks every book |
| `BookProofs!OnlyLossBreaksOff` | `NoSpuriousResync` | action property: only `Consume` closes an open connection whose markets stay, and a gap on one without a loss contradicts `Unbroken` |
| `BookProofs!ReplayIsFaithful` | `ReplayRebuildsBooks` | `ReplayIInv`: a live book that had a snapshot and the replayed one are alike in all but their budgets, and every mutator of `Book` keeps two books alike; a book opened anew takes no delta before its snapshot, which forgets what the replay had |
| `BookProofs!RecorderTypeCorrect` | types | from `RecorderIInv` |
| `BookProofs!DrainKeepsItsPromise` | `DrainedMeansWritten` | `RecorderIInv`: the unfinished count covers queue and batch, only a batch in hand can have landed; a crash makes the count too large, never too small, so `join()` then never returns |
| `BookProofs!RecorderImplementsLog` | `ImplementsLog` | every step is a step of the log, a stutter, or a crash; sequence lemmas for splitting the queue |
| `BookProofs!RecorderRefinesRawLog` | `RawLog` | the same, as long as no delay overflows |
| `PaperProofs!NoLevelIsOversold` | `NoPhantomFills` | `sold` is at most `supply` less what is left; the invariant relates the ledger to both: `sold - taken` never exceeds `supply - truth` at a level, and netting and consuming keep it |
| `PaperProofs!QuotesAreOfTheLevels` | what `ComputeDirection` returns | by induction on the levels left, every prefix of the walk takes levels that both ladders have; the totals of the quote are sums over such a prefix |
| `PaperProofs!BestLevelsAreCheapest` | what `consume()` takes costs per contract at most what any other levels of the ladder cost | an exchange argument: with `c` the price of the last level touched, `(price - c) * units` is least for the best levels |
| `PaperProofs!EveryFillFindsItsLevels` | `EveryFillIsPlaced`, with the types | `PaperInv`, below |
| `PaperProofs!FillsPayTheirLevels` | `FillsArePaidFor` | `PaperInv`, below |
| `PaperProofs!LimitsHold` | `LimitsHoldAtEveryTrade` | action property: a floor division of the room cannot be exceeded by the ceiling of the cost, and a quote that costs something costs a fill at least one tick |
| `WatchSetProofs!WatchTypeCorrect` | types; tracked only if confirmed | the write's own guard is needed, the plan's is not enough |
| `WatchSetProofs!RejectedPairsStopTrading` | `RejectedIsNotTraded` | `RejectIInv`: what the reload in flight has read is confirmed, still stopping, or vetoed; and a pending decision is the one the database holds |
| `WatchSetProofs!LegsAgree` | `LegsFollowMonitor` | `LegsIInv`: legs polled for nothing have a reconcile waiting or under way |
| `WatchSetProofs!MonitorAgrees` | `MonitorFollowsDatabase` | `MonitorIInv`: unless a reload is still to read the database, what one has read is what the database says but for pairs being stopped, vetoed, or in `lifted`, and what the monitor holds is that but for pairs in `astray`; a vetoed pair is confirmed only while that decision is yet to be followed (`VetoesHold`) |
| `ControlProofs!ControlTypeCorrect` | types; at most `MaxPending` tokens | the token with the least id (found by well-foundedness) has all others after it, and eviction keeps those with fewer than `MaxPending - 1` after them |
| `ControlProofs!ArmingsPayForRuns` | `EachRunWasArmed` | `TokenInv`: distinct ids, so spending removes exactly one pending token and pays for one run; eviction and expiry only remove |
| `ControlProofs!TokensAreSpentOnce` | `NoneSpentTwice` | `Numbered`: what was presented had been minted, new ids are larger |
| `ControlProofs!RunsTakeTheirToken` | `RunsSpendTheirToken` | action property: only `Run` starts a job |
| `ControlProofs!GroupsAreHeldByJobs` | `JobsHoldTheirGroups` | needs `Born`: a new job's id is not one of a job that was started before |
| `PollerProofs!PollerTypeCorrect` | types; the index stays within the list | with `Lingering`, below; that a list without its duplicates is one again needs that every rank up to the size of a finite set of naturals is taken, by a least counterexample |
| `PollerProofs!LateAnswersAreAlone` | `LateAnswersLingerAlone` | `Lingering`: while the fetch in flight is of a dropped market there is no such book yet, so its answer leaves the only one |
| `PollerProofs!BudgetAlwaysFollows` | `BudgetFollowsTargets` | inductive on top of the types |
| `PollerProofs!MissesAreAllowedFor` | `OneMissIsNotStale`, for `Cycles >= 3` | `AgesInv`: the age of a book and the time until its market is asked for again (its distance in the rotation times the interval, and what is left of this turn) together are within one cycle, two after a miss, and a pause more after a 429, until something worse befalls its polling |
| `ServerProofs!CleanedInvariant` | `Cleaned` | before the drain the writer is alive, after it it had its time; every way out of the cleanup has force, a dead task or the whole of it behind it |
| `ServerProofs!NothingRecordedIsLost` | `FlushedUnlessForced` | from `Cleaned` |
| `ServerProofs!EndsInvariant` | `EndsInv` | `Counted`: up to the cleanup the cancellations of the main task are one for an outstanding SIGTERM and one for an interrupt, and those not told are pending; during it only a SIGTERM that was told is still to be claimed |
| `ServerProofs!ExitIsTold` | `ExitTellsWhatHappened` | from `EndsInv` |
| `ServerProofs!TabsAreFollowed` | `EveryTabIsFollowed` | below |
| `PairJobsProofs!NoJobDecides` | `DecisionsStand`, with the types | `HoldInv`: a row written and not committed has the status the table has, and nobody else holds it; a decision waits for it.  `BackfillInv`: a backfill writes rows that are there |
| `PairJobsProofs!RunsAreAtomic` | `ProposalsAreWhole` | `WholeInv`: the number of a run under way is in no row, and its transaction holds or has still to write all it set out to; a backfill writes back the score the table has (its lock sees to that) and the detail too, unless the pair is crossed |
| `AlgorithmsProofs!AlgorithmsTypeCorrect` | types of the inputs | by the kind of the input |
| `AlgorithmsProofs!FeesRoundExactly` | `FeesAreExact` | `TwoRoundings`: rounding up to a tick and then to a cent is rounding up once; `HalfEvenLemma`: half to even is the nearest, and the even one of two |
| `AlgorithmsProofs!QuotesMeasureTheDepth` | `QuoteMeasuresTheDepth` | below |
| `AlgorithmsProofs!WatchSetIsSpread` | `DealIsSpread` | `PlacesLemma`: the deal is a strict total order, by a pair's depth within its event and then by when the event was first seen; `SpreadLemma`: what is picked is the first part of that list, so no event gives a pair deeper than one that another has left, nor one equally deep if it was first seen later |
| `AlgorithmsProofs!BestPairsAreProposed` | `ProposalsAreTheBest` | `MatchedInv`: what the greedy pass has left out has one of its two outcomes in a match at least as good, hence stability; `SeenStep`: after each candidate the best twin and its runner-up are those of the candidates seen so far |
| `AlgorithmsProofs!SkewIsBounded` | `SkewIsWithinTheDelay` | `ExchangeLemma`: a reply that waits in the socket was asked for earlier and is never measured, so a sample is of an exchange that was in time; `QueriedInv`: as long as every exchange was, the socket is empty after each and each gave a sample |

`EveryTabIsFollowed` is about what a tab shows once it has read its whole queue,
which is a recursion over the queue.  The proof replaces it by the last frame of
each kind: what a tab shows of the list is the last `hello`, of the quotes the last
`arb`, of a market the last frame about it, which is a `book` or a `hello` that
leaves it out.  `InTheEndAgrees` proves that the two are the same (by a least
counterexample, in place of an induction), and `EndsOfConcat` that a queue with
frames appended ends in what the frames make of what it ended in.  Each action
then has to say only what its own frames end in (`GreetingEnds`, `FlushEnds`,
`HellosEnd`, `PublishedEnds`), and `FanoutInv` states of every client that what its
queue ends in is right up to the next flush.

What a position, the sales and the spend have to do with one another is a matter of
sums: over pairs, over markets and levels, over the fills of a walk.  `PaperProofs`
begins with what it needs of them.  The library's induction theorems take an operator,
which no prover here can instantiate; `Descent`, `SetInduction` and `UpTo` say the same
of sets.  `RecursionExists` makes a function of any recursion that descends, so that
`FoldExists` shows that the folds behind `SumFunction` return sums and `FillsAreAWalk`
that the walk of any two ladders ends.  For this `Edge` and `Paper` state their sums as
functions (`SumFunction` of a table), the fold with an operator being out of reach.
Then a trade (`TradeLemma`): the quote takes levels `y` of the ladder shown
(`QuotesAreOfTheLevels`), of which the fill is a part `qty`; `consume()` finds `qty`
units, as the ladder holds at least what `y` does (`TakenBySum`), and they cost no more
than their share of what `y` costs (`BestLevelsAreCheapest`), so a cost that rounds up
covers them and a net that rounds down leaves them their dollar (`ShareLemma`).
`PaperInv` adds this up over the trades, together with the ledger that `NoPhantomFills`
needs.

A quote is compared with the units of two ladders: the n-th cheapest to buy on either
side is one pair, and a quote must be of exactly those pairs, up to the first run that
does not pay.  `Reach` and `At` say which level the n-th unit is of, and `RestLemma`
what is left of a ladder when the walk has taken its best level or part of it: the n-th
unit left is the (n+k)-th there was.  `QuotesAreMeasured` then goes by induction on the
levels left: a fill of the walk is a maximal run of pairs of the same two prices
(`FirstLemma`, `RunsLemma`), what it pays is `RunPays` (`WorthLemma`), and the pairs of
the rest are those that follow (`ShiftLemma`), so totals, fees and the place where the
walk stops are those of the reference.

The library's sorts are defined for evaluation, by a fold with an operator or a choice
among permutations of which nothing here can be proved.  `Orders` defines a sort by
ranks instead: the k-th element is the one that k - 1 others are before.  `InOrderLemma`
shows of every strict total order of a finite set that this lists each element once and
in order.  The sorts of `Matching` and `Dealing` are stated with it, ties broken by the
position, as Python's sort is stable and the query names the id.

The theorems assume only the named `ASSUME`s of the modules and what the table
says, and hold for any number of markets, pairs, tabs, messages, failures, signals
and requests; the bounds in the guards are arbitrary naturals.  The `ASSUME`s are the
types of the constants (those of the pure algorithms' inputs are `FillAssumption`,
`EventAssumption`, `CourseAssumption`, `TableAssumption`, `ClockAssumption` and
`MatchingAssumption`: rates are not negative, a title is a finite set of tokens, a token
weighs nothing less than zero, a packet takes its time, the timeout is positive), that
there are finitely many markets (`FeedAssumption`, `FanoutAssumption`) and pairs
(`PaperAssumption`), that the books of a quote are ladders and the fee of every size
they show is a whole number of ticks of either sign (`QuoteAssumption`), that no taker
fee is a rebate (`FeeAssumption`, which only paper trading needs), that a slow answer is
one that takes longer than some `Quick` within the poll interval (`PollerAssumption`),
and no more than that.  `KalshiFeeLemma` and `PolymarketFeeLemma` show that the taker
fees of `fees.py` are whole and at least zero whenever the multiplier and the
coefficient are; these come from the venues, and nothing in the code checks their sign.
`Cycles >= 3` is `PM_STALENESS_CYCLES` (`ui/control.py:106`), and below it the
property is false.  `ApplyTimesAgree`,
`RunsSpendTheirToken` and the types of `BookManager`, `Recorder`, `Poller` and
`Control` are proved and not listed with a run of their own.

Some attempts to prove changed a model.  `FanoutInv` was not inductive before
`unshown` was told apart (section 3).  Arms of a `CASE` that overlapped, of which
TLC takes the first, say nothing to a prover: those of `Scored`, `Leaving`, `EndsAs`
and `OnSigint` are disjoint now.  And sorts and sums that the library folds with an
operator are stated by `InOrder` and `SumFunction`, in the matcher, the dealing and the
references of `MCAlgorithms`; the runs are of these.

Only model-checked is all liveness (`BooksRecover`, `WrittenUnlessStuck`,
`ShutdownEnds`, `StoppedLegsGo`, `CancelledJobsEnd`, `EveryTargetIsPolled`,
`EveryTabCatchesUp`, `StopsWhenAsked`, `JobsEnd`), which is out of the prover's reach.
Every invariant and action property of a passing run is stated by a theorem.

## 6. Abstractions and limits

* Prices, quantities and times are small integers.  Formatting, logging,
  metrics, payloads and the tape are left out; fees and costs keep their exact
  rounding.
* Kalshi frames that change no book (ticker updates, acknowledgements) are left
  out.  TCP keeps order; loss stands for a frame the venue numbered and we never
  parsed.
* `WatchSet`: statuses other than confirmed are one; a pair shares no market
  with another; the ranking behind the top N is any choice here, and is
  `Dealing`'s.  Decisions about one pair are taken one after the other, as one
  `/pairs` page sends them; with several browsers two decisions can be followed
  out of order, which is listed as a hazard and not
  covered.  The branch of `_follow_decision` without a control plane is left
  out.
* `Control`: the parameters of an order are validated already, and every process
  has a database (without one an arming fails, which is a case of `Armed`).  The
  clock orders the jobs as they were started.  A job is cancelled after its task
  has taken its first step: its id is not known before.
* `Poller`: a book's content is left out, and the venue answers about the market
  it was asked for.  `set_rate` is never called and not modelled; the delays of
  the supervisor are any of a set, the overflow of the loop's backoff is out of
  the bound on faults.
* `taken.py`'s `forget_market` is never called and not modelled.
* `Fanout`: a frame is delivered whole and in order; what TCP has buffered is the
  tail of the queue.  The HTTP queries a page makes are left out, as they change
  nothing.
* `Shutdown`: what the cleanup does where no handler can be installed is left out;
  `asyncio.Runner`, `Task.cancelling()` and uvicorn's `capture_signals` are modelled
  from how the code uses them.
* `PairJobs`: what a page holds is left out, and a propose finds any set of pairs.
  The audit of a decision and the job's report are left out.
* `Matching`: tokenizing, folding of accents and synonyms is left out, so is the
  feature record kept for the reader.  `Dealing` has at most four pairs; the deal
  treats an event alike whatever its name.
* Not modelled at all: the REST clients' parsing and signing (pure functions of a
  response; what a failed parse does is modelled where it lands), request security
  (stateless checks), the command line, configuration, diagnostics and metrics, and
  the paper store (one insert).  Partly: the control plane (the preview and the
  state frames), the watch set (several pages deciding on one pair), the Kalshi
  feed (frames without a book), replay (its statistics) and the browser (its
  rendering).  `PROJECT.json` lists each with its reason.

## 7. Plan

Done: every component with a protocol of its own: the books and their manager,
the two feeds, the recorder with its abstract log, fees, edge, paper trading, the
watch set with its dealing, the control plane, the fan-out to the tabs, the
shutdown, the jobs of the pairs table, matching, replay and the clock.

All safety properties are proved, those of the protocols and those of the pure
algorithms.

Next:

1. Decisions about one pair from several pages, followed in another order than
   they were committed in.
2. The paper trader on the books of a feed that is down.
