------------------------------ MODULE WatchSet ------------------------------
(* The watch set: which confirmed pairs the running engine quotes, trades,   *)
(* subscribes and polls.  The truth is two columns of the pairs table        *)
(* (pairs/store.py); the engine holds copies of it, the monitor, the poll    *)
(* targets and the Kalshi subscription, that follow it through reloads which *)
(* take seconds, one venue call per watched market (ui/control.py).          *)
(* Decisions of the /pairs page and watch-set requests of the /control page  *)
(* land at any moment of a reload.                                           *)
(*                                                                           *)
(* Statuses other than "confirmed" are treated alike by every line modelled  *)
(* here, so "rejected" stands for "proposed" too.  A pair has one market per *)
(* venue and shares none; legs are named by their pair.                      *)
EXTENDS Integers, Sequences, FiniteSets

CONSTANTS
  Pairs,            \* the stored pairs
  Batches,          \* the sets of pairs a decision or a request may name
  Operators,        \* requests that may be under way at once: execute takes no lock
  NoBase,           \* TRUE: nothing but pairs is subscribed on Kalshi
  MaxDecisions,     \* bounds the decisions of the /pairs page,
  MaxRequests,      \* the requests of the /control page,
  MaxFailures,      \* the reloads that fail,
  MaxSettled        \* and the markets that settle

ASSUME WatchAssumption == /\ Batches \subseteq SUBSET Pairs
                          /\ NoBase \in BOOLEAN
                          /\ {MaxDecisions, MaxRequests, MaxFailures, MaxSettled} \subseteq Nat

VARIABLES
  status, tracked,              \* the two columns, per pair
  over,                         \* pairs whose market the venues say has ended
  monitor,                      \* pairs of host.arbmon
  legs,                         \* the pair universe, and with it the poll targets
  subscribed,                   \* pairs whose Kalshi leg is subscribed
  vetoed, decisionSeq, settled, \* _vetoed (0: no veto), _decision_seq, _settled_pairs
  deciding,                     \* decisions committed whose after_decision has not run
  request,                      \* per operator: the watch-set request under way
  reload,                       \* the reload that holds _reload_lock
  waiting,                      \* who waits for _reload_lock, in order
  behind,                       \* history: a requested reload failed, none has installed since
  lifted,                       \* history: pairs whose veto a confirmation took since the last read
  astray,                       \* history: pairs the last install got wrong over that (Misled)
  decided, asked, failures      \* history: what has been done of each bound

engineVars == <<monitor, legs, subscribed>>
vetoVars   == <<vetoed, decisionSeq, settled>>
mishaps    == <<lifted, astray>>
counters   == <<decided, asked, failures>>
vars == <<status, tracked, over, engineVars, vetoVars, deciding, request,
          reload, waiting, behind, mishaps, counters>>

Statuses == {"confirmed", "rejected"}
Decision == [ids : SUBSET Pairs, status : Statuses]
Request  == [phase : {"none", "planned", "written"},
             kind  : {"track", "untrack", "top"},
             ids   : SUBSET Pairs, wanted : SUBSET Pairs, changed : BOOLEAN]
Reload   == [phase : {"free", "begun", "read", "resync"},
             kind  : {"control", "reconcile"},
             started : Nat, rows : SUBSET Pairs]

NoRequest == [phase |-> "none", kind |-> "top", ids |-> {}, wanted |-> {}, changed |-> FALSE]
Free      == [phase |-> "free", kind |-> "control", started |-> 0, rows |-> {}]

Confirmed == {p \in Pairs : status[p] = "confirmed"}
Watched   == {p \in Confirmed : tracked[p]}
Vetoed    == {p \in Pairs : vetoed[p] # 0}
LockHeld  == reload.phase # "free"

(* The pairs whose stop is committed but whose monitor has not been told:     *)
(* from the commit to the first line of after_decision.                       *)
Stopping == UNION {d.ids : d \in {e \in deciding : e.status # "confirmed"}}

(* Likewise the pairs confirmed whose veto has not been lifted yet.           *)
Confirming == UNION {d.ids : d \in {e \in deciding : e.status = "confirmed"}}

WatchInit ==
  /\ status \in [Pairs -> Statuses]
  /\ tracked \in [Pairs -> BOOLEAN]
  /\ \A p \in Pairs : tracked[p] => status[p] = "confirmed"
  /\ over = {}
  /\ behind \in BOOLEAN     \* the load at startup may fail and disable the screen
  /\ monitor = IF behind THEN {} ELSE Watched
  /\ legs = monitor /\ subscribed = monitor
  /\ vetoed = [p \in Pairs |-> 0] /\ decisionSeq = 0 /\ settled = {}
  /\ deciding = {}
  /\ request = [o \in Operators |-> NoRequest]
  /\ reload = Free /\ waiting = <<>>
  /\ lifted = {} /\ astray = {}
  /\ decided = 0 /\ asked = 0 /\ failures = 0

-----------------------------------------------------------------------------
(* The venues: a market ends.                                               *)

Settles(p) ==
  /\ p \notin over /\ Cardinality(over) < MaxSettled
  /\ over' = over \union {p}
  /\ UNCHANGED <<status, tracked, engineVars, vetoVars, deciding, request,
                 reload, waiting, behind, mishaps, counters>>

-----------------------------------------------------------------------------
(* Decisions.  The route commits the decision, then runs after_decision; the *)
(* two are separate steps of the event loop.  The page sends a pair's next   *)
(* decision when the one before it has been answered.                        *)

Commit(ids, s) ==
  /\ decided < MaxDecisions
  /\ \A d \in deciding : d.ids \intersect ids = {}
  /\ status' = [p \in Pairs |-> IF p \in ids THEN s ELSE status[p]]
  /\ tracked' = [p \in Pairs |-> tracked[p] /\ (p \in ids => s = "confirmed")]
  /\ deciding' = deciding \union {[ids |-> ids, status |-> s]}
  /\ decided' = decided + 1
  /\ UNCHANGED <<over, engineVars, vetoVars, request, reload, waiting, behind,
                 mishaps, asked, failures>>

(* Mutant: a confirmation leaves the vetoes alone.                            *)
PardonedNever(ids) == vetoed

(* after_decision of a confirmation: nothing live changes but the vetoes,     *)
(* which go at once, be the reload they are against still in flight or not.  *)
Pardoned(ids) == [p \in Pairs |-> IF p \in ids THEN 0 ELSE vetoed[p]]

FollowConfirmed(d) ==
  /\ d \in deciding /\ d.status = "confirmed"
  /\ deciding' = deciding \ {d}
  /\ vetoed' = Pardoned(d.ids)
  /\ lifted' = lifted \union (d.ids \intersect Vetoed)
  /\ UNCHANGED <<status, tracked, over, engineVars, decisionSeq, settled, request,
                 reload, waiting, behind, astray, counters>>

(* Mutant: no reconcile follows the decision.                                 *)
AfterStoppingNothing(stopped) == waiting

(* after_decision of any other decision: veto against the reload in flight,   *)
(* drop from the monitor, and reconcile in the background if that stopped     *)
(* something.                                                                *)
AfterStopping(stopped) ==
  IF stopped = {} THEN waiting ELSE Append(waiting, "reconcile")

FollowStop(d) ==
  /\ d \in deciding /\ d.status # "confirmed"
  /\ deciding' = deciding \ {d}
  /\ decisionSeq' = IF LockHeld THEN decisionSeq + 1 ELSE decisionSeq
  /\ vetoed' = [p \in Pairs |-> IF LockHeld /\ p \in d.ids THEN decisionSeq + 1
                                                           ELSE vetoed[p]]
  /\ monitor' = monitor \ d.ids
  /\ waiting' = AfterStopping(monitor \intersect d.ids)
  /\ UNCHANGED <<status, tracked, over, legs, subscribed, settled, request,
                 reload, behind, mishaps, counters>>

-----------------------------------------------------------------------------
(* Requests of the /control page: read the rows and plan, write the flags,    *)
(* then reload unless nothing changed.                                       *)

MayAsk(o) == request[o].phase = "none" /\ asked < MaxRequests

Planned(o, kind, ids, wanted) ==
  /\ request' = [request EXCEPT ![o] =
       [phase |-> "planned", kind |-> kind, ids |-> ids, wanted |-> wanted, changed |-> FALSE]]
  /\ asked' = asked + 1
  /\ UNCHANGED <<status, tracked, over, engineVars, vetoVars, deciding,
                 reload, waiting, behind, mishaps, decided, failures>>

(* Refused, with nothing changed, unless every pair named is confirmed.       *)
PlanTrack(o, ids) ==
  /\ MayAsk(o) /\ ids \subseteq Confirmed
  /\ Planned(o, "track", ids, Watched \union ids)

PlanUntrack(o, ids) ==
  /\ MayAsk(o)
  /\ Planned(o, "untrack", ids, Watched \ ids)

(* The top N, whatever N and the ranking are, leaving out the pairs known to  *)
(* have ended.                                                               *)
PlanTop(o, wanted) ==
  /\ MayAsk(o) /\ wanted \subseteq Confirmed \ settled
  /\ Planned(o, "top", wanted, wanted)

(* The precondition of tracking, enforced again by the SQL of the write.      *)
Trackable(ids) == ids \intersect Confirmed

Flags(r) ==
  [p \in Pairs |->
     CASE r.kind = "track"   -> tracked[p] \/ p \in Trackable(r.ids)
       [] r.kind = "untrack" -> tracked[p] /\ p \notin r.ids
       [] r.kind = "top"     -> p \in r.ids /\ (tracked[p] \/ p \in Trackable(r.ids))]

Write(o) ==
  /\ request[o].phase = "planned"
  /\ tracked' = Flags(request[o])
  /\ request' = [request EXCEPT ![o] = [NoRequest EXCEPT
       !.phase = "written", !.wanted = request[o].wanted, !.changed = tracked' # tracked]]
  /\ UNCHANGED <<status, over, engineVars, vetoVars, deciding, reload, waiting, behind,
                 mishaps, counters>>

(* A write that changed no row still reloads when the monitor is not what     *)
(* the plan wants.                                                           *)
NothingToDo(r) == ~r.changed /\ monitor = r.wanted

Finish(o) ==
  /\ request[o].phase = "written"
  /\ waiting' = IF NothingToDo(request[o]) THEN waiting ELSE Append(waiting, "control")
  /\ request' = [request EXCEPT ![o] = NoRequest]
  /\ UNCHANGED <<status, tracked, over, engineVars, vetoVars, deciding, reload, behind,
                 mishaps, counters>>

-----------------------------------------------------------------------------
(* Reloads, one at a time under _reload_lock.                                 *)

Begin ==
  /\ ~LockHeld /\ waiting # <<>>
  /\ reload' = [phase |-> "begun", kind |-> Head(waiting), started |-> decisionSeq, rows |-> {}]
  /\ waiting' = Tail(waiting)
  /\ UNCHANGED <<status, tracked, over, engineVars, vetoVars, deciding, request, behind,
                 mishaps, counters>>

(* The query that opens load_tracked_pairs; the venue calls follow it.        *)
Read ==
  /\ reload.phase = "begun"
  /\ reload' = [reload EXCEPT !.phase = "read", !.rows = Watched]
  /\ lifted' = {}
  /\ UNCHANGED <<status, tracked, over, engineVars, vetoVars, deciding, request,
                 waiting, behind, astray, counters>>

(* What load_tracked_pairs makes of the rows it read: the pairs whose market  *)
(* ended are left out; an unknown one is not known to have.                   *)
Loaded(rows) == rows \ over

(* Mutant: an install puts back whatever the reload had read.                 *)
InstallableUnvetoed(rows) == Loaded(rows)

(* The venues have answered: vetoed pairs are left out, those that ended are  *)
(* remembered, and the universe follows.  An empty Kalshi subscription is     *)
(* illegal, so the old one stays.                                             *)
Installable(rows) == Loaded(rows) \ Vetoed

(* What an install gets wrong over the vetoes.  A confirmation that came while  *)
(* the reload was in flight has taken the veto, and the pair, though no longer *)
(* tracked, is put back; or it has yet to take it, and a pair that was tracked *)
(* again is left out.                                                        *)
Misled == (lifted \intersect Installable(reload.rows))
          \union (Vetoed \intersect Confirming \intersect Watched)

Follows(pairs) == /\ legs' = pairs
                  /\ subscribed' = IF NoBase /\ pairs = {} THEN subscribed ELSE pairs

Install ==
  /\ reload.phase = "read"
  /\ monitor' = Installable(reload.rows)
  /\ Follows(monitor')
  /\ vetoed' = [p \in Pairs |-> IF vetoed[p] > reload.started THEN vetoed[p] ELSE 0]
  /\ settled' = settled \union (reload.rows \intersect over)
  /\ reload' = [Free EXCEPT !.phase = "resync"]
  /\ behind' = FALSE
  /\ astray' = Misled
  /\ UNCHANGED <<status, tracked, over, decisionSeq, deciding, request, waiting, lifted, counters>>

(* force_resync has closed the socket, the lock is released.                  *)
Resynced ==
  /\ reload.phase = "resync"
  /\ reload' = Free
  /\ UNCHANGED <<status, tracked, over, engineVars, vetoVars, deciding, request,
                 waiting, behind, mishaps, counters>>

(* A venue or the database fails: a request is answered with the error and    *)
(* changes nothing live.                                                     *)
Fails(kind) ==
  /\ reload.phase \in {"begun", "read"} /\ reload.kind = kind /\ failures < MaxFailures
  /\ failures' = failures + 1
  /\ reload' = Free
  /\ UNCHANGED <<status, tracked, over, monitor, vetoVars, deciding, request,
                 waiting, mishaps, decided, asked>>

RequestFails == Fails("control") /\ behind' = TRUE /\ UNCHANGED <<legs, subscribed>>

(* Mutant: a reconcile that fails leaves the legs to the next reload.         *)
ReconcileFailsOnly == Fails("reconcile") /\ UNCHANGED <<legs, subscribed, behind>>

(* A reconcile that fails drops the legs of the pairs no longer watched.      *)
ReconcileFails == Fails("reconcile") /\ Follows(monitor) /\ UNCHANGED behind

-----------------------------------------------------------------------------
WatchNext ==
  \/ \E p \in Pairs : Settles(p)
  \/ \E ids \in Batches, s \in Statuses : Commit(ids, s)
  \/ \E d \in deciding : FollowConfirmed(d) \/ FollowStop(d)
  \/ \E o \in Operators, ids \in Batches : PlanTrack(o, ids) \/ PlanUntrack(o, ids)
  \/ \E o \in Operators, wanted \in SUBSET Pairs : PlanTop(o, wanted)
  \/ \E o \in Operators : Write(o) \/ Finish(o)
  \/ Begin \/ Read \/ Install \/ Resynced \/ RequestFails \/ ReconcileFails

WatchSpec == WatchInit /\ [][WatchNext]_vars

(* The event loop runs what is ready, and every venue call ends in an answer  *)
(* or in its time-out.  Users decide and ask when they like.                  *)
LoadEnds == Install \/ RequestFails \/ ReconcileFails
FairWatchSpec ==
  /\ WatchSpec
  /\ WF_vars(\E d \in deciding : FollowConfirmed(d) \/ FollowStop(d))
  /\ WF_vars(Begin) /\ WF_vars(Read) /\ WF_vars(LoadEnds) /\ WF_vars(Resynced)

-----------------------------------------------------------------------------
(* The types; and a pair is tracked only while it is confirmed, whichever     *)
(* order a plan, a decision and the plan's write come in.                     *)
WatchTypeOK ==
  /\ status \in [Pairs -> Statuses] /\ tracked \in [Pairs -> BOOLEAN]
  /\ monitor \subseteq Pairs /\ legs \subseteq Pairs /\ subscribed \subseteq Pairs
  /\ over \subseteq Pairs /\ settled \subseteq over
  /\ vetoed \in [Pairs -> 0..decisionSeq] /\ decisionSeq \in Nat
  /\ deciding \subseteq Decision /\ request \in [Operators -> Request]
  /\ reload \in Reload /\ reload.started <= decisionSeq
  /\ waiting \in Seq({"control", "reconcile"}) /\ behind \in BOOLEAN
  /\ lifted \subseteq Pairs /\ astray \subseteq Pairs
  /\ decided \in 0..MaxDecisions /\ asked \in 0..MaxRequests /\ failures \in 0..MaxFailures
  /\ \A p \in Pairs : tracked[p] => status[p] = "confirmed"

(* "A rejected pair stops trading the moment the decision commits, whatever   *)
(* else is happening" (after_decision): once after_decision has run, a pair   *)
(* that is not confirmed is not in the monitor, no matter which reloads were   *)
(* in flight and what they had read.                                         *)
RejectedIsNotTraded ==
  \A p \in Pairs : status[p] # "confirmed" /\ p \notin Stopping => p \notin monitor

(* Nothing under way: no decision, request or reload.                         *)
Quiet == /\ deciding = {} /\ reload = Free /\ waiting = <<>>
         /\ \A o \in Operators : request[o].phase = "none"

(* The monitor ends up with what the database says: when nothing is under     *)
(* way and no requested reload has failed, it holds the tracked confirmed     *)
(* pairs, all of them but those a venue said were over; and only confirmed     *)
(* pairs are ever tracked, under way or not.  The exception is a pair that was *)
(* confirmed again under its veto while the reload that last installed ran:   *)
(* it may have been put back untracked, although "confirming is a judgement,   *)
(* not a watch, so it changes nothing live" (after_decision), or left out      *)
(* though tracked, until the next install.                                    *)
MonitorFollowsDatabase ==
  /\ WatchTypeOK
  /\ Quiet /\ ~behind => /\ monitor \ Watched \subseteq astray
                         /\ Watched \ monitor \subseteq settled \union astray

(* What is quoted is polled; what is polled without being quoted has a        *)
(* reconcile coming; and the Kalshi subscription is the poll set, unless that  *)
(* is empty and an empty subscription would be illegal.                       *)
LegsFollowMonitor ==
  /\ monitor \subseteq legs
  /\ Quiet => legs = monitor
  /\ subscribed = legs \/ (NoBase /\ legs = {})

(* A pair dropped from the monitor by a decision stops being polled, even if   *)
(* the reload that should do it fails.                                        *)
StoppedLegsGo == \A p \in Pairs : p \in legs \ monitor ~> p \notin legs \ monitor
=============================================================================
