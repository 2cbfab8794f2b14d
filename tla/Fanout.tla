------------------------------- MODULE Fanout -------------------------------
(***************************************************************************)
(* The fan-out of src/arb/ui/server.py to the browser tabs: the dirty set  *)
(* and its flush loop, the frames of the control plane                     *)
(* (src/arb/ui/control.py), a bounded queue per client that never blocks   *)
(* the feeds, and what a tab (ui/static/js/core/ws.js) makes of the frames *)
(* it is sent.                                                             *)
(*                                                                         *)
(* A book is the number of the change that left it as it is, None where    *)
(* the manager has none; a change of what a book says of itself (its       *)
(* staleness verdict) counts as one.  Quotes are a function of the books   *)
(* they are made of, the control state is a number.                        *)
(***************************************************************************)
EXTENDS Integers, FiniteSets, SequencesExt

CONSTANTS
    Markets,
    Polled,      \* the markets of Polymarket, whose universe change retunes
    WatchSets,   \* the legs of the sets of pairs that may be watched
    Tabs,
    QueueMax,    \* SEND_QUEUE_MAX
    MaxChanges,  \* bound on the changes of books
    MaxRequests, \* bound on the control actions
    MaxOthers,   \* bound on the frames that show no book, quote or switch
    MaxLeaves    \* bound on the tabs that go away by themselves

ASSUME FanoutAssumption ==
    /\ IsFiniteSet(Markets) /\ Polled \subseteq Markets
    /\ WatchSets \subseteq SUBSET Markets
    /\ QueueMax \in Nat \ {0}
    /\ {MaxChanges, MaxRequests, MaxOthers, MaxLeaves} \subseteq Nat

VARIABLES
    books, changes,  \* of the book manager, and how many there were
    listed,          \* ServerState._markets
    monitor,         \* the legs of the pairs ServerState.arbmon watches
    settings,        \* what the control payload says
    dirty,           \* ServerState._dirty
    flush,           \* the flush loop "sleeps" or "persists" paper trades
    clients,         \* ServerState._clients
    queue,           \* of each client, kept by its sender after a drop
    socket,          \* of each tab
    view,            \* what each tab shows
    unsaid,          \* control actions done and not yet broadcast
    silent,          \* an action failed half-way since the last broadcast
    others, leaves,
    \* History variable:
    unshown          \* markets a hello left out though they have a book, which
                     \* did not change since

stateVars == <<books, changes, listed, monitor, dirty, unshown>>
controlVars == <<settings, unsaid, silent>>
tabVars == <<clients, queue, socket, view>>
fanoutVars == <<stateVars, controlVars, tabVars, flush, others, leaves>>

None == 0
Content == 0 .. MaxChanges

Blank == [books |-> [m \in Markets |-> None], known |-> {},
          quotes |-> <<>>, control |-> None]

Quotes(M, B) == [m \in M |-> B[m]]

Hello(L)          == [t |-> "hello", markets |-> L]
BookFrame(m, B)   == [t |-> "book", market |-> m, book |-> B[m]]
ArbFrame(M, B)    == [t |-> "arb", quotes |-> Quotes(M, B)]
ControlFrame(c)   == [t |-> "control", control |-> c]
OtherFrame        == [t |-> "other"]

\* Each payload of a set of markets, in the order of their ids.
BookFrames(S, B) ==
    LET alive == SetToSeq({m \in S : B[m] # None})
    IN  [i \in DOMAIN alive |-> BookFrame(alive[i], B)]

FanoutInit ==
    /\ books = [m \in Markets |-> None] /\ changes = 0
    /\ listed \in {L \in SUBSET Markets : L \ Polled # {}}
    /\ monitor \in {M \in WatchSets : M \subseteq listed} /\ settings = 1
    /\ dirty = {} /\ flush = "sleeps"
    /\ clients = {} /\ queue = [t \in Tabs |-> <<>>]
    /\ socket = [t \in Tabs |-> "dialing"] /\ view = [t \in Tabs |-> Blank]
    /\ unsaid = 0 /\ silent = FALSE /\ others = 0 /\ leaves = 0
    /\ unshown = {}

-----------------------------------------------------------------------------
(* The server's queues *)

FirstOf(s, n) == SubSeq(s, 1, Min({n, Len(s)}))

Room(t) == QueueMax - Len(queue[t])

Slow(frames) == {t \in clients : Len(frames) > Room(t)}

Queued(frames) ==
    [t \in Tabs |-> IF t \in clients THEN queue[t] \o FirstOf(frames, Room(t))
                                     ELSE queue[t]]

\* Mutant: a frame that does not fit is left out and its client kept.
BroadcastSkipping(frames) ==
    /\ queue' = Queued(frames)
    /\ UNCHANGED <<clients, socket, view>>

\* A client is removed at the first frame its queue has no room for; its socket
\* is closed in the background, and its sender goes on until then.
Broadcast(frames) ==
    /\ queue' = Queued(frames)
    /\ clients' = clients \ Slow(frames)
    /\ socket' = [t \in Tabs |-> IF t \in Slow(frames) THEN "closing" ELSE socket[t]]
    /\ UNCHANGED view

\* What a client is sent before anything else: hello, control, books, quotes.
Greeting ==
    <<Hello(listed), ControlFrame(settings)>>
        \o BookFrames(Markets, books) \o <<ArbFrame(monitor, books)>>

Accept(t) ==
    /\ socket[t] = "dialing" /\ Len(Greeting) <= QueueMax
    /\ clients' = clients \cup {t}
    /\ queue' = [queue EXCEPT ![t] = Greeting]
    /\ socket' = [socket EXCEPT ![t] = "open"]
    /\ UNCHANGED <<stateVars, controlVars, view, flush, others, leaves>>

\* More books than a queue holds: 1013, try again later.
Refuse(t) ==
    /\ socket[t] = "dialing" /\ Len(Greeting) > QueueMax
    /\ socket' = [socket EXCEPT ![t] = "closed"]
    /\ UNCHANGED <<stateVars, controlVars, clients, queue, view, flush, others, leaves>>

\* The close of a dropped client ends its endpoint; what was queued is gone.
Gone(t) ==
    /\ socket' = [socket EXCEPT ![t] = "closed"]
    /\ clients' = clients \ {t}
    /\ queue' = [queue EXCEPT ![t] = <<>>]
    /\ UNCHANGED <<stateVars, controlVars, view, flush, others>>

\* Mutant: a client that was dropped is not closed, and never learns of it.
ClosesNever(t) == socket[t] = "closing" /\ leaves > MaxLeaves /\ Gone(t) /\ UNCHANGED leaves

Closes(t) == socket[t] = "closing" /\ Gone(t) /\ UNCHANGED leaves

\* The network or the machine of the tab breaks the connection.
Leaves(t) ==
    /\ socket[t] \in {"open", "closing"} /\ leaves < MaxLeaves
    /\ leaves' = leaves + 1
    /\ Gone(t)

-----------------------------------------------------------------------------
(* The tab *)

Shown(v, f) ==
    CASE f.t = "hello" -> [v EXCEPT !.known = f.markets,
                                    !.books = [m \in Markets |->
                                        IF m \in f.markets THEN @[m] ELSE None]]
      [] f.t = "book"    -> [v EXCEPT !.books[f.market] = f.book]
      [] f.t = "arb"     -> [v EXCEPT !.quotes = f.quotes]
      [] f.t = "control" -> [v EXCEPT !.control = f.control]
      [] OTHER           -> v

Deliver(t) ==
    /\ socket[t] \in {"open", "closing"} /\ queue[t] # <<>>
    /\ view' = [view EXCEPT ![t] = Shown(@, Head(queue[t]))]
    /\ queue' = [queue EXCEPT ![t] = Tail(@)]
    /\ UNCHANGED <<stateVars, controlVars, clients, socket, flush, others, leaves>>

\* The timer of the backoff; a tab that was reloaded shows nothing of before.
Redial(t) ==
    /\ socket[t] = "closed"
    /\ socket' = [socket EXCEPT ![t] = "dialing"]
    /\ \/ UNCHANGED view
       \/ leaves < MaxLeaves /\ view' = [view EXCEPT ![t] = Blank]
    /\ UNCHANGED <<stateVars, controlVars, clients, queue, flush, others, leaves>>

-----------------------------------------------------------------------------
(* The feeds and the flush loop *)

MarkDirty(S) == dirty \cup S

\* A feed applies an event: of a listed market, or of one whose late frames
\* outlive its subscription.
Change(m) ==
    /\ changes < MaxChanges
    /\ changes' = changes + 1
    /\ books' = [books EXCEPT ![m] = changes + 1]
    /\ dirty' = MarkDirty({m})
    /\ unshown' = unshown \ {m}
    /\ UNCHANGED <<listed, monitor, controlVars, tabVars, flush, others, leaves>>

QuotesAffected(S) == S \cap monitor # {}

FlushFrames ==
    BookFrames(dirty, books)
        \o (IF QuotesAffected(dirty) THEN <<ArbFrame(monitor, books)>> ELSE <<>>)

\* One tick of flush_books up to its await: the paper trader may have traded on
\* what the quotes say.
Flush ==
    /\ flush = "sleeps" /\ dirty # {}
    /\ dirty' = {}
    /\ Broadcast(FlushFrames)
    /\ flush' \in (IF QuotesAffected(dirty) THEN {"sleeps", "persists"} ELSE {"sleeps"})
    /\ UNCHANGED <<books, changes, listed, monitor, unshown, controlVars, others, leaves>>

\* insert_trades returns or fails; either way the trades are shown.
Persisted ==
    /\ flush = "persists"
    /\ flush' = "sleeps"
    /\ Broadcast(<<OtherFrame>>)
    /\ UNCHANGED <<stateVars, controlVars, others, leaves>>

\* stats_loop, the tape and the job frames.
Other ==
    /\ others < MaxOthers
    /\ others' = others + 1
    /\ Broadcast(<<OtherFrame>>)
    /\ UNCHANGED <<stateVars, controlVars, flush, leaves>>

-----------------------------------------------------------------------------
(* The control plane *)

Requested ==
    /\ settings <= MaxRequests
    /\ settings' = settings + 1

\* The polled books whose budget a change of the targets to those in L moves.
Retuned(L) ==
    IF L \cap Polled = listed \cap Polled THEN {}
                                          ELSE {m \in L \cap Polled : books[m] # None}

\* Each venue whose set changes retains, lists and greets anew.
Hellos(L) ==
    (IF L \cap Polled # listed \cap Polled THEN <<Hello(L)>> ELSE <<>>)
        \o (IF L \ Polled # listed \ Polled THEN <<Hello(L)>> ELSE <<>>)

\* A venue whose set did not change keeps books of markets it has not.
Dropped(L) ==
    (IF L \cap Polled # listed \cap Polled THEN Polled \ L ELSE {})
        \cup (IF L \ Polled # listed \ Polled THEN Markets \ (Polled \cup L) ELSE {})

\* _apply_polymarket_universe and _apply_kalshi_universe, up to the close of the
\* socket: a retuned book may say something else of itself.
ApplyUniverse(L) ==
    /\ listed' = L
    /\ LET moved == Retuned(L)
       IN  /\ moved # {} => changes < MaxChanges
           /\ changes' = IF moved = {} THEN changes ELSE changes + 1
           /\ books' = [m \in Markets |-> CASE m \in Dropped(L) -> None
                                            [] m \in moved      -> changes + 1
                                            [] OTHER            -> books[m]]
           /\ dirty' = MarkDirty(moved)
           /\ unshown' = IF L = listed THEN unshown
                         ELSE {m \in (unshown \cup (Markets \ L)) \ dirty' : books'[m] # None}

Universe(L) ==
    /\ Requested /\ unsaid' = unsaid + 1
    /\ L # listed /\ monitor \subseteq L /\ L \ Polled # {}
    /\ ApplyUniverse(L)
    /\ Broadcast(Hellos(L))
    /\ UNCHANGED <<monitor, silent, flush, others, leaves>>

Published(M) == <<ArbFrame(M, books)>>

\* A reload installs its watch set and the universe that goes with it.
Reload(M, L) ==
    /\ Requested /\ unsaid' = unsaid + 1
    /\ M # monitor /\ M \subseteq L /\ L \ Polled # {}
    /\ monitor' = M
    /\ ApplyUniverse(L)
    /\ Broadcast(Published(M) \o Hellos(L))
    /\ UNCHANGED <<silent, flush, others, leaves>>

\* A decision takes its pairs off the monitor before anything is awaited.
Stop(M) ==
    /\ Requested /\ unsaid' = unsaid + 1
    /\ M \subseteq monitor /\ M # monitor
    /\ monitor' = M
    /\ Broadcast(Published(M))
    /\ UNCHANGED <<books, changes, listed, dirty, unshown, silent, flush, others, leaves>>

\* A switch or a limit: nothing but the control state changes.
Switch ==
    /\ Requested /\ unsaid' = unsaid + 1
    /\ UNCHANGED <<stateVars, tabVars, silent, flush, others, leaves>>

\* A watch-set request writes, counts its rows anew, and then fails to reload.
FailsHalfway ==
    /\ Requested /\ silent' = TRUE
    /\ UNCHANGED <<stateVars, tabVars, unsaid, flush, others, leaves>>

\* broadcast_state, after the audit row of the action.
Announce ==
    /\ unsaid > 0
    /\ unsaid' = unsaid - 1 /\ silent' = FALSE
    /\ Broadcast(<<ControlFrame(settings)>>)
    /\ UNCHANGED <<stateVars, settings, flush, others, leaves>>

-----------------------------------------------------------------------------

TabStep(t) == Accept(t) \/ Refuse(t) \/ Closes(t) \/ Deliver(t) \/ Redial(t)

FanoutNext ==
    \/ \E t \in Tabs : TabStep(t) \/ Leaves(t)
    \/ \E m \in Markets : Change(m)
    \/ Flush \/ Persisted \/ Other
    \/ \E M \in WatchSets : Stop(M)
    \/ \E L \in SUBSET Markets : Universe(L) \/ \E M \in WatchSets : Reload(M, L)
    \/ Switch \/ FailsHalfway \/ Announce

\* The loop runs its tasks and timers, a queue is read, an insert and a close
\* return; nothing is owed by the feeds, the operator and the network.
FanoutFairness ==
    /\ WF_fanoutVars(Flush) /\ WF_fanoutVars(Persisted) /\ WF_fanoutVars(Announce)
    /\ \A t \in Tabs : WF_fanoutVars(TabStep(t))

FanoutSpec == FanoutInit /\ [][FanoutNext]_fanoutVars
FairFanoutSpec == FanoutSpec /\ FanoutFairness

-----------------------------------------------------------------------------
(* Properties *)

View == [books : [Markets -> Content], known : SUBSET Markets,
         quotes : UNION {[M -> Content] : M \in SUBSET Markets},
         control : Nat]

FanoutTypeOK ==
    /\ books \in [Markets -> Content] /\ changes \in Content
    /\ listed \subseteq Markets /\ monitor \subseteq listed
    /\ dirty \subseteq Markets /\ unshown \subseteq Markets /\ flush \in {"sleeps", "persists"}
    /\ clients = {t \in Tabs : socket[t] = "open"}
    /\ socket \in [Tabs -> {"dialing", "open", "closing", "closed"}]
    /\ \A t \in Tabs : /\ Len(queue[t]) <= QueueMax
                       /\ socket[t] \in {"dialing", "closed"} => queue[t] = <<>>
    /\ view \in [Tabs -> View]

\* What a tab shows once it has read what is queued for it.
InTheEnd(t) ==
    LET after[n \in 0 .. Len(queue[t])] ==
            IF n = 0 THEN view[t] ELSE Shown(after[n - 1], queue[t][n])
    IN  after[Len(queue[t])]

\* A book that a hello took from the tabs, while the manager kept it, may be shown
\* again only when it changes.
ShowsTheBooks(v) ==
    /\ v.known = listed
    /\ \A m \in Markets \ dirty : books[m] # None =>
            v.books[m] = books[m] \/ (m \in unshown /\ v.books[m] = None)
    /\ \A m \in Markets \ listed : books[m] = None => v.books[m] = None

ShowsTheQuotes(v) == ~ QuotesAffected(dirty) => v.quotes = Quotes(monitor, books)

ShowsTheSettings(v) == unsaid = 0 /\ ~ silent => v.control = settings

\* A tab that is not dropped misses nothing, however slow it reads and whatever
\* the feeds and the operator do meanwhile: after the frames in its queue and the
\* next flush it shows the list, every live book as it is but those a hello left
\* out, nothing else of other markets, the quotes of the pairs that are watched
\* now, and the control state, unless an action failed half-way and told nobody.
EveryTabIsFollowed ==
    /\ FanoutTypeOK
    /\ \A t \in clients : LET v == InTheEnd(t)
                          IN  ShowsTheBooks(v) /\ ShowsTheQuotes(v) /\ ShowsTheSettings(v)

UpToDate(t) ==
    /\ socket[t] = "open" /\ queue[t] = <<>> /\ dirty = {}
    /\ ShowsTheBooks(view[t]) /\ ShowsTheQuotes(view[t]) /\ ShowsTheSettings(view[t])

\* Every tab, those that were dropped or refused on the way included, is up to date
\* in the end, unless there are more books than a greeting has room for.
EveryTabCatchesUp ==
    <>[](Len(Greeting) <= QueueMax) => \A t \in Tabs : <>[]UpToDate(t)
=============================================================================
