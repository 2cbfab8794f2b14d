--------------------------- MODULE WatchSetProofs ---------------------------
(***************************************************************************)
(* The watch set's type invariant, the guarantee of after_decision and the *)
(* agreement of the monitor with the database and with what is polled and  *)
(* subscribed, for any number of pairs, operators, decisions, requests and *)
(* failures.                                                               *)
(***************************************************************************)
EXTENDS WatchSet, SequenceTheorems, TLAPS

\* A pending decision is the one the database holds: the page sends the next
\* decision about a pair once this one is answered.
PendingIsCurrent == \A d \in deciding : \A p \in d.ids : status[p] = d.status

\* What a reload in flight would wrongly bring back is vetoed.
StaleRowsAreVetoed ==
  reload.phase = "read" =>
    \A p \in reload.rows : status[p] # "confirmed" /\ p \notin Stopping => p \in Vetoed

RejectIInv == RejectedIsNotTraded /\ PendingIsCurrent /\ StaleRowsAreVetoed

\* Legs that are polled for nothing have a reconcile that will drop them.
Reconciling == \/ \E i \in 1..Len(waiting) : waiting[i] = "reconcile"
               \/ reload.phase \in {"begun", "read"} /\ reload.kind = "reconcile"

LegsIInv == /\ monitor \subseteq legs
            /\ subscribed = legs \/ (NoBase /\ legs = {})
            /\ legs # monitor => Reconciling

-----------------------------------------------------------------------------
(* Types *)

LEMMA WatchInitTypes == WatchInit => WatchTypeOK
<1> SUFFICES ASSUME WatchInit PROVE WatchTypeOK
  OBVIOUS
<1>1. Watched \subseteq Pairs
  BY DEF Watched, Confirmed
<1>2. waiting \in Seq({"control", "reconcile"})
  BY DEF WatchInit
<1>3. request \in [Operators -> Request]
  BY DEF WatchInit, NoRequest, Request
<1>4. reload \in Reload /\ reload.started <= decisionSeq
  BY DEF WatchInit, Free, Reload
<1>5. /\ status \in [Pairs -> Statuses] /\ tracked \in [Pairs -> BOOLEAN]
      /\ monitor \subseteq Pairs /\ legs \subseteq Pairs /\ subscribed \subseteq Pairs
      /\ over \subseteq Pairs /\ settled \subseteq over
      /\ deciding \subseteq Decision
      /\ \A p \in Pairs : tracked[p] => status[p] = "confirmed"
  BY <1>1 DEF WatchInit
<1>6. vetoed \in [Pairs -> 0..decisionSeq] /\ decisionSeq \in Nat
  BY DEF WatchInit
<1>7. behind \in BOOLEAN /\ lifted \subseteq Pairs /\ astray \subseteq Pairs
  BY DEF WatchInit
<1>8. decided \in 0..MaxDecisions /\ asked \in 0..MaxRequests /\ failures \in 0..MaxFailures
  BY WatchAssumption DEF WatchInit
<1> QED
  BY <1>2, <1>3, <1>4, <1>5, <1>6, <1>7, <1>8 DEF WatchTypeOK

\* A write of a request leaves only confirmed pairs tracked.
LEMMA FlagsAreConfirmed ==
  ASSUME WatchTypeOK, NEW r \in Request
  PROVE  /\ Flags(r) \in [Pairs -> BOOLEAN]
         /\ \A p \in Pairs : Flags(r)[p] => status[p] = "confirmed"
<1>1. CASE r.kind = "track"
  <2>1. Flags(r) = [p \in Pairs |-> tracked[p] \/ p \in Trackable(r.ids)]
    BY <1>1 DEF Flags
  <2> QED
    BY <2>1 DEF WatchTypeOK, Trackable, Confirmed
<1>2. CASE r.kind = "untrack"
  <2>1. Flags(r) = [p \in Pairs |-> tracked[p] /\ p \notin r.ids]
    BY <1>2 DEF Flags
  <2> QED
    BY <2>1 DEF WatchTypeOK
<1>3. CASE r.kind = "top"
  <2>1. Flags(r) = [p \in Pairs |-> p \in r.ids /\ (tracked[p] \/ p \in Trackable(r.ids))]
    BY <1>3 DEF Flags
  <2> QED
    BY <2>1 DEF WatchTypeOK, Trackable, Confirmed
<1> QED
  BY <1>1, <1>2, <1>3 DEF Request

LEMMA WatchStepTypes == WatchTypeOK /\ [WatchNext]_vars => WatchTypeOK'
<1> SUFFICES ASSUME WatchTypeOK, [WatchNext]_vars PROVE WatchTypeOK'
  OBVIOUS
<1> USE WatchAssumption
<1>1. ASSUME NEW p \in Pairs, Settles(p) PROVE WatchTypeOK'
  BY <1>1 DEF Settles, WatchTypeOK, engineVars, vetoVars, mishaps, counters
<1>2. ASSUME NEW ids \in Batches, NEW s \in Statuses, Commit(ids, s) PROVE WatchTypeOK'
  <2>1. status' \in [Pairs -> Statuses] /\ tracked' \in [Pairs -> BOOLEAN]
    BY <1>2 DEF Commit, WatchTypeOK
  <2>2. deciding' \subseteq Decision
    BY <1>2 DEF Commit, WatchTypeOK, Decision
  <2>3. \A p \in Pairs : tracked'[p] => status'[p] = "confirmed"
    BY <1>2 DEF Commit, WatchTypeOK
  <2>4. decided' \in 0..MaxDecisions
    BY <1>2 DEF Commit, WatchTypeOK
  <2> QED
    BY <1>2, <2>1, <2>2, <2>3, <2>4 DEF Commit, WatchTypeOK, engineVars, vetoVars, mishaps
<1>3. ASSUME NEW d \in deciding, FollowConfirmed(d) PROVE WatchTypeOK'
  BY <1>3 DEF FollowConfirmed, Pardoned, Vetoed, WatchTypeOK, engineVars, counters
<1>4. ASSUME NEW d \in deciding, FollowStop(d) PROVE WatchTypeOK'
  <2>1. waiting' \in Seq({"control", "reconcile"})
    <3>1. Append(waiting, "reconcile") \in Seq({"control", "reconcile"})
      BY AppendProperties DEF WatchTypeOK
    <3> QED
      BY <3>1, <1>4 DEF FollowStop, AfterStopping, WatchTypeOK
  <2>2. decisionSeq' \in Nat /\ decisionSeq <= decisionSeq'
    BY <1>4 DEF FollowStop, WatchTypeOK
  <2>3. vetoed' \in [Pairs -> 0..decisionSeq']
    BY <1>4, <2>2 DEF FollowStop, WatchTypeOK
  <2>4. reload'.started <= decisionSeq'
    BY <1>4, <2>2 DEF FollowStop, WatchTypeOK, Reload
  <2> QED
    BY <1>4, <2>1, <2>2, <2>3, <2>4 DEF FollowStop, WatchTypeOK, mishaps, counters
<1>5. ASSUME NEW o \in Operators, NEW kind \in {"track", "untrack", "top"},
             NEW ids \in SUBSET Pairs, NEW wanted \in SUBSET Pairs,
             MayAsk(o), Planned(o, kind, ids, wanted)
      PROVE  WatchTypeOK'
  <2>1. [phase |-> "planned", kind |-> kind, ids |-> ids, wanted |-> wanted,
         changed |-> FALSE] \in Request
    BY DEF Request
  <2>2. request' \in [Operators -> Request]
    BY <1>5, <2>1 DEF Planned, WatchTypeOK
  <2>3. asked' \in 0..MaxRequests
    BY <1>5 DEF Planned, MayAsk, WatchTypeOK
  <2> QED
    BY <1>5, <2>2, <2>3 DEF Planned, WatchTypeOK, engineVars, vetoVars, mishaps
<1>6. ASSUME NEW o \in Operators, NEW ids \in Batches, PlanTrack(o, ids) PROVE WatchTypeOK'
  <2>1. ids \in SUBSET Pairs /\ Watched \union ids \in SUBSET Pairs
    BY DEF Watched, Confirmed
  <2> QED
    BY <1>5, <1>6, <2>1 DEF PlanTrack
<1>7. ASSUME NEW o \in Operators, NEW ids \in Batches, PlanUntrack(o, ids) PROVE WatchTypeOK'
  <2>1. ids \in SUBSET Pairs /\ Watched \ ids \in SUBSET Pairs
    BY DEF Watched, Confirmed
  <2> QED
    BY <1>5, <1>7, <2>1 DEF PlanUntrack
<1>8. ASSUME NEW o \in Operators, NEW wanted \in SUBSET Pairs, PlanTop(o, wanted)
      PROVE  WatchTypeOK'
  BY <1>5, <1>8 DEF PlanTop
<1>9. ASSUME NEW o \in Operators, Write(o) PROVE WatchTypeOK'
  <2>1. request[o] \in Request
    BY DEF WatchTypeOK
  <2>2. /\ tracked' \in [Pairs -> BOOLEAN]
        /\ \A p \in Pairs : tracked'[p] => status[p] = "confirmed"
    BY <1>9, <2>1, FlagsAreConfirmed DEF Write
  <2>3. request' \in [Operators -> Request]
    BY <1>9, <2>1 DEF Write, NoRequest, Request, WatchTypeOK
  <2> QED
    BY <1>9, <2>2, <2>3 DEF Write, WatchTypeOK, engineVars, vetoVars, mishaps, counters
<1>10. ASSUME NEW o \in Operators, Finish(o) PROVE WatchTypeOK'
  <2>1. waiting' \in Seq({"control", "reconcile"})
    <3>1. Append(waiting, "control") \in Seq({"control", "reconcile"})
      BY AppendProperties DEF WatchTypeOK
    <3> QED
      BY <3>1, <1>10 DEF Finish, WatchTypeOK
  <2>2. request' \in [Operators -> Request]
    BY <1>10 DEF Finish, NoRequest, Request, WatchTypeOK
  <2> QED
    BY <1>10, <2>1, <2>2 DEF Finish, WatchTypeOK, engineVars, vetoVars, mishaps, counters
<1>11. CASE Begin
  <2>1. Head(waiting) \in {"control", "reconcile"} /\ Tail(waiting) \in Seq({"control", "reconcile"})
    BY <1>11, HeadTailProperties DEF Begin, WatchTypeOK
  <2>2. reload' \in Reload /\ reload'.started <= decisionSeq
    BY <1>11, <2>1 DEF Begin, Reload, WatchTypeOK
  <2> QED
    BY <1>11, <2>1, <2>2 DEF Begin, WatchTypeOK, engineVars, vetoVars, mishaps, counters
<1>12. CASE Read
  <2>1. reload' \in Reload /\ reload'.started <= decisionSeq
    BY <1>12 DEF Read, Reload, WatchTypeOK, Watched, Confirmed
  <2> QED
    BY <1>12, <2>1 DEF Read, WatchTypeOK, engineVars, vetoVars, mishaps, counters
<1>13. CASE Install
  <2>0. reload' = [phase |-> "resync", kind |-> "control", started |-> 0, rows |-> {}]
    BY <1>13 DEF Install, Free
  <2>1. reload' \in Reload /\ reload'.started <= decisionSeq
    BY <2>0 DEF Reload, WatchTypeOK
  <2>2. vetoed' \in [Pairs -> 0..decisionSeq]
    BY <1>13 DEF Install, WatchTypeOK
  <2>3. /\ monitor' \subseteq Pairs /\ legs' \subseteq Pairs /\ subscribed' \subseteq Pairs
        /\ settled' \subseteq over
    BY <1>13 DEF Install, Installable, Loaded, Follows, WatchTypeOK, Reload
  <2>4. astray' \subseteq Pairs
    BY <1>13 DEF Install, Misled, Vetoed, WatchTypeOK
  <2> QED
    BY <1>13, <2>1, <2>2, <2>3, <2>4 DEF Install, WatchTypeOK, counters
<1>14. CASE Resynced
  BY <1>14 DEF Resynced, Free, Reload, WatchTypeOK, engineVars, vetoVars, mishaps, counters
<1>15. ASSUME NEW kind \in {"control", "reconcile"}, Fails(kind)
       PROVE  failures' \in 0..MaxFailures /\ reload' \in Reload /\ reload'.started <= decisionSeq
  BY <1>15 DEF Fails, Free, Reload, WatchTypeOK
<1>16. CASE RequestFails
  BY <1>15, <1>16 DEF RequestFails, Fails, WatchTypeOK, vetoVars, mishaps
<1>17. CASE ReconcileFails
  BY <1>15, <1>17 DEF ReconcileFails, Follows, Fails, WatchTypeOK, vetoVars, mishaps
<1>18. CASE UNCHANGED vars
  BY <1>18 DEF vars, WatchTypeOK, engineVars, vetoVars, mishaps, counters
<1> QED
  BY <1>1, <1>2, <1>3, <1>4, <1>6, <1>7, <1>8, <1>9, <1>10, <1>11, <1>12, <1>13,
     <1>14, <1>16, <1>17, <1>18 DEF WatchNext

\* Every variable keeps its type, and no order of plans, decisions and writes
\* leaves a pair tracked that is not confirmed (pairs/store.py).
THEOREM WatchTypeCorrect == WatchSpec => []WatchTypeOK
<1>1. WatchInit => WatchTypeOK
  BY WatchInitTypes
<1>2. WatchTypeOK /\ [WatchNext]_vars => WatchTypeOK'
  BY WatchStepTypes
<1> QED
  BY <1>1, <1>2, PTL DEF WatchSpec

-----------------------------------------------------------------------------
(* The guarantee of after_decision *)

\* A step that changes neither the decisions nor the statuses keeps the
\* guarantee, if the monitor gets no pair and the reload reads nothing.
LEMMA RejectFrame ==
  ASSUME RejectIInv, monitor' \subseteq monitor, UNCHANGED <<status, deciding>>,
         reload'.phase = "read" => UNCHANGED <<reload, vetoed>>
  PROVE  RejectIInv'
<1>1. Stopping' = Stopping
  BY DEF Stopping
<1>2. RejectedIsNotTraded'
  BY <1>1 DEF RejectIInv, RejectedIsNotTraded
<1>3. PendingIsCurrent'
  BY DEF RejectIInv, PendingIsCurrent
<1>4. StaleRowsAreVetoed'
  BY <1>1 DEF RejectIInv, StaleRowsAreVetoed, Vetoed
<1> QED
  BY <1>2, <1>3, <1>4 DEF RejectIInv

LEMMA CommitKeepsReject ==
  ASSUME WatchTypeOK, RejectIInv, NEW ids \in Batches, NEW s \in Statuses, Commit(ids, s)
  PROVE  RejectIInv'
<1> DEFINE d == [ids |-> ids, status |-> s]
<1>1. deciding' = deciding \union {d} /\ monitor' = monitor /\ reload' = reload /\ vetoed' = vetoed
  BY DEF Commit, engineVars, vetoVars
<1>2. \A p \in Pairs : status'[p] = IF p \in ids THEN s ELSE status[p]
  BY DEF Commit
<1>3. \A p \in Pairs : p \in Stopping \/ (p \in ids /\ s # "confirmed") => p \in Stopping'
  BY <1>1 DEF Stopping
<1>4. \A p \in Pairs : status'[p] # "confirmed" /\ p \notin Stopping'
                         => status[p] # "confirmed" /\ p \notin Stopping
  BY <1>2, <1>3
<1>5. RejectedIsNotTraded'
  BY <1>1, <1>4 DEF RejectIInv, RejectedIsNotTraded
<1>6. PendingIsCurrent'
  <2> SUFFICES ASSUME NEW e \in deciding', NEW p \in e.ids PROVE status'[p] = e.status
    BY DEF PendingIsCurrent
  <2>1. CASE e = d
    BY <2>1, <1>2, WatchAssumption
  <2>2. CASE e \in deciding
    <3>1. p \notin ids /\ p \in Pairs
      BY <2>2 DEF Commit, WatchTypeOK, Decision
    <3> QED
      BY <3>1, <2>2, <1>2 DEF RejectIInv, PendingIsCurrent
  <2> QED
    BY <2>1, <2>2, <1>1
<1>7. StaleRowsAreVetoed'
  <2>1. \A p \in reload.rows : p \in Pairs
    BY DEF WatchTypeOK, Reload
  <2> QED
    BY <2>1, <1>1, <1>4 DEF RejectIInv, StaleRowsAreVetoed, Vetoed
<1> QED
  BY <1>5, <1>6, <1>7 DEF RejectIInv

LEMMA FollowConfirmedKeepsReject ==
  ASSUME WatchTypeOK, RejectIInv, NEW d \in deciding, FollowConfirmed(d)
  PROVE  RejectIInv'
<1>1. d.status = "confirmed" /\ deciding' = deciding \ {d} /\ UNCHANGED <<status, monitor, reload>>
  BY DEF FollowConfirmed, engineVars
<1>2. Stopping' = Stopping
  BY <1>1 DEF Stopping
<1>3. \A p \in Pairs : status[p] # "confirmed" => vetoed'[p] = vetoed[p]
  <2>1. \A p \in d.ids : status[p] = "confirmed"
    BY <1>1 DEF RejectIInv, PendingIsCurrent
  <2> QED
    BY <2>1 DEF FollowConfirmed, Pardoned
<1>4. RejectedIsNotTraded'
  BY <1>1, <1>2 DEF RejectIInv, RejectedIsNotTraded
<1>5. PendingIsCurrent'
  BY <1>1 DEF RejectIInv, PendingIsCurrent
<1>6. StaleRowsAreVetoed'
  BY <1>1, <1>2, <1>3 DEF RejectIInv, StaleRowsAreVetoed, Vetoed
<1> QED
  BY <1>4, <1>5, <1>6 DEF RejectIInv

LEMMA FollowStopKeepsReject ==
  ASSUME WatchTypeOK, RejectIInv, NEW d \in deciding, FollowStop(d)
  PROVE  RejectIInv'
<1>1. /\ deciding' = deciding \ {d} /\ UNCHANGED <<status, reload>>
      /\ monitor' = monitor \ d.ids
  BY DEF FollowStop
<1>2. \A p \in Pairs : p \in Stopping => p \in Stopping' \/ p \in d.ids
  BY <1>1 DEF Stopping
<1>3. decisionSeq + 1 # 0
  BY DEF WatchTypeOK
<1>4. \A p \in Pairs : vetoed'[p] = IF LockHeld /\ p \in d.ids THEN decisionSeq + 1 ELSE vetoed[p]
  BY DEF FollowStop
<1>5. RejectedIsNotTraded'
  BY <1>1, <1>2 DEF RejectIInv, RejectedIsNotTraded
<1>6. PendingIsCurrent'
  BY <1>1 DEF RejectIInv, PendingIsCurrent
<1>7. StaleRowsAreVetoed'
  <2> SUFFICES ASSUME reload'.phase = "read", NEW p \in reload'.rows,
                      status'[p] # "confirmed", p \notin Stopping'
               PROVE  p \in Vetoed'
    BY DEF StaleRowsAreVetoed
  <2>1. p \in Pairs /\ reload.phase = "read" /\ LockHeld
    BY <1>1 DEF WatchTypeOK, Reload, LockHeld
  <2>2. CASE p \in d.ids
    BY <2>1, <2>2, <1>3, <1>4 DEF Vetoed
  <2>3. CASE p \notin d.ids
    <3>1. p \notin Stopping
      BY <2>1, <2>3, <1>2
    <3>2. p \in Vetoed
      BY <3>1, <1>1, <2>1 DEF RejectIInv, StaleRowsAreVetoed
    <3> QED
      BY <3>2, <2>1, <2>3, <1>4 DEF Vetoed
  <2> QED
    BY <2>2, <2>3
<1> QED
  BY <1>5, <1>6, <1>7 DEF RejectIInv

LEMMA ReadKeepsReject ==
  ASSUME WatchTypeOK, RejectIInv, Read
  PROVE  RejectIInv'
<1>1. UNCHANGED <<status, deciding, monitor>> /\ reload'.rows = Watched
  BY DEF Read, engineVars, WatchTypeOK, Reload
<1>2. Stopping' = Stopping
  BY <1>1 DEF Stopping
<1>3. RejectedIsNotTraded'
  BY <1>1, <1>2 DEF RejectIInv, RejectedIsNotTraded
<1>4. PendingIsCurrent'
  BY <1>1 DEF RejectIInv, PendingIsCurrent
<1>5. StaleRowsAreVetoed'
  BY <1>1 DEF StaleRowsAreVetoed, Watched, Confirmed
<1> QED
  BY <1>3, <1>4, <1>5 DEF RejectIInv

LEMMA InstallKeepsReject ==
  ASSUME WatchTypeOK, RejectIInv, Install
  PROVE  RejectIInv'
<1>1. /\ UNCHANGED <<status, deciding>> /\ reload.phase = "read"
      /\ monitor' = (reload.rows \ over) \ Vetoed
  BY DEF Install, Installable, Loaded
<1>2. reload'.phase = "resync"
  BY DEF Install, Free
<1>3. Stopping' = Stopping
  BY <1>1 DEF Stopping
<1>4. RejectedIsNotTraded'
  BY <1>1, <1>3 DEF RejectIInv, RejectedIsNotTraded, StaleRowsAreVetoed
<1>5. PendingIsCurrent'
  BY <1>1 DEF RejectIInv, PendingIsCurrent
<1>6. StaleRowsAreVetoed'
  BY <1>2 DEF StaleRowsAreVetoed
<1> QED
  BY <1>4, <1>5, <1>6 DEF RejectIInv

LEMMA WatchStepRejects == WatchTypeOK /\ RejectIInv /\ [WatchNext]_vars => RejectIInv'
<1> SUFFICES ASSUME WatchTypeOK, RejectIInv, [WatchNext]_vars PROVE RejectIInv'
  OBVIOUS
<1>1. ASSUME NEW p \in Pairs, Settles(p) PROVE RejectIInv'
  BY <1>1, RejectFrame DEF Settles, engineVars, vetoVars
<1>2. ASSUME NEW ids \in Batches, NEW s \in Statuses, Commit(ids, s) PROVE RejectIInv'
  BY <1>2, CommitKeepsReject
<1>3. ASSUME NEW d \in deciding, FollowConfirmed(d) \/ FollowStop(d) PROVE RejectIInv'
  BY <1>3, FollowConfirmedKeepsReject, FollowStopKeepsReject
<1>4. ASSUME NEW o \in Operators, NEW ids \in Batches, PlanTrack(o, ids) \/ PlanUntrack(o, ids)
      PROVE  RejectIInv'
  BY <1>4, RejectFrame DEF PlanTrack, PlanUntrack, Planned, engineVars, vetoVars
<1>5. ASSUME NEW o \in Operators, NEW wanted \in SUBSET Pairs, PlanTop(o, wanted)
      PROVE  RejectIInv'
  BY <1>5, RejectFrame DEF PlanTop, Planned, engineVars, vetoVars
<1>6. ASSUME NEW o \in Operators, Write(o) \/ Finish(o) PROVE RejectIInv'
  BY <1>6, RejectFrame DEF Write, Finish, engineVars, vetoVars
<1>7. CASE Begin
  BY <1>7, RejectFrame DEF Begin, engineVars, vetoVars
<1>8. CASE Read
  BY <1>8, ReadKeepsReject
<1>9. CASE Install
  BY <1>9, InstallKeepsReject
<1>10. CASE Resynced
  BY <1>10, RejectFrame DEF Resynced, Free, engineVars, vetoVars
<1>11. CASE RequestFails \/ ReconcileFails
  BY <1>11, RejectFrame DEF RequestFails, ReconcileFails, Fails, Free, vetoVars
<1>12. CASE UNCHANGED vars
  BY <1>12, RejectFrame DEF vars, engineVars, vetoVars
<1> QED
  BY <1>1, <1>2, <1>3, <1>4, <1>5, <1>6, <1>7, <1>8, <1>9, <1>10, <1>11, <1>12 DEF WatchNext

\* Once after_decision has run, a pair that is not confirmed is not in the
\* monitor, whatever reloads were in flight (after_decision, ui/control.py).
THEOREM RejectedPairsStopTrading == WatchSpec => []RejectedIsNotTraded
<1>1. WatchInit => RejectIInv
  BY DEF WatchInit, RejectIInv, RejectedIsNotTraded, PendingIsCurrent, StaleRowsAreVetoed,
         Watched, Confirmed, Free
<1>2. WatchTypeOK /\ RejectIInv /\ [WatchNext]_vars => RejectIInv'
  BY WatchStepRejects
<1>3. RejectIInv => RejectedIsNotTraded
  BY DEF RejectIInv
<1> QED
  BY <1>1, <1>2, <1>3, WatchTypeCorrect, PTL DEF WatchSpec

-----------------------------------------------------------------------------
(* What is quoted, polled and subscribed *)

\* A step that leaves the engine and the reload alone and only adds to the
\* queue for the lock keeps the agreement.
LEMMA LegsFrame ==
  ASSUME LegsIInv, UNCHANGED <<engineVars, reload>>,
         Reconciling => Reconciling'
  PROVE  LegsIInv'
BY DEF LegsIInv, engineVars

\* Whoever waits for the lock still waits after another has joined.
LEMMA JoinKeepsReconciling ==
  ASSUME WatchTypeOK, NEW k \in {"control", "reconcile"}, waiting' = Append(waiting, k)
  PROVE  /\ \A i \in 1..Len(waiting) : i \in 1..Len(waiting') /\ waiting'[i] = waiting[i]
         /\ Len(waiting') \in 1..Len(waiting') /\ waiting'[Len(waiting')] = k
BY AppendProperties, LenProperties DEF WatchTypeOK

LEMMA WatchStepLegs == WatchTypeOK /\ LegsIInv /\ [WatchNext]_vars => LegsIInv'
<1> SUFFICES ASSUME WatchTypeOK, LegsIInv, [WatchNext]_vars PROVE LegsIInv'
  OBVIOUS
<1>1. ASSUME NEW p \in Pairs, Settles(p) PROVE LegsIInv'
  BY <1>1, LegsFrame DEF Settles, Reconciling
<1>2. ASSUME NEW ids \in Batches, NEW s \in Statuses, Commit(ids, s) PROVE LegsIInv'
  BY <1>2, LegsFrame DEF Commit, Reconciling
<1>3. ASSUME NEW d \in deciding, FollowConfirmed(d) PROVE LegsIInv'
  BY <1>3, LegsFrame DEF FollowConfirmed, Reconciling
<1>4. ASSUME NEW d \in deciding, FollowStop(d) PROVE LegsIInv'
  <2>1. UNCHANGED <<legs, subscribed, reload>> /\ monitor' = monitor \ d.ids
    BY <1>4 DEF FollowStop
  <2>2. CASE monitor \intersect d.ids = {}
    <3>1. monitor' = monitor /\ waiting' = waiting
      BY <1>4, <2>1, <2>2 DEF FollowStop, AfterStopping
    <3> QED
      BY <2>1, <3>1 DEF LegsIInv, Reconciling
  <2>3. CASE monitor \intersect d.ids # {}
    <3>1. waiting' = Append(waiting, "reconcile")
      BY <1>4, <2>3 DEF FollowStop, AfterStopping
    <3>2. Reconciling'
      BY <3>1, JoinKeepsReconciling DEF Reconciling
    <3> QED
      BY <2>1, <3>2 DEF LegsIInv
  <2> QED
    BY <2>2, <2>3
<1>5. ASSUME NEW o \in Operators, NEW ids \in Batches, PlanTrack(o, ids) \/ PlanUntrack(o, ids)
      PROVE  LegsIInv'
  BY <1>5, LegsFrame DEF PlanTrack, PlanUntrack, Planned, Reconciling
<1>6. ASSUME NEW o \in Operators, NEW wanted \in SUBSET Pairs, PlanTop(o, wanted)
      PROVE  LegsIInv'
  BY <1>6, LegsFrame DEF PlanTop, Planned, Reconciling
<1>7. ASSUME NEW o \in Operators, Write(o) PROVE LegsIInv'
  BY <1>7, LegsFrame DEF Write, Reconciling
<1>8. ASSUME NEW o \in Operators, Finish(o) PROVE LegsIInv'
  <2>1. UNCHANGED <<engineVars, reload>>
    BY <1>8 DEF Finish
  <2>2. waiting' = waiting \/ waiting' = Append(waiting, "control")
    BY <1>8 DEF Finish
  <2>3. Reconciling => Reconciling'
    BY <2>1, <2>2, JoinKeepsReconciling DEF Reconciling
  <2> QED
    BY <2>1, <2>3, LegsFrame
<1>9. CASE Begin
  <2>1. /\ UNCHANGED engineVars /\ reload'.phase = "begun" /\ reload'.kind = Head(waiting)
        /\ waiting # <<>> /\ waiting' = Tail(waiting) /\ reload.phase = "free"
    BY <1>9 DEF Begin, LockHeld
  <2>2. Reconciling => Reconciling'
    <3> SUFFICES ASSUME NEW i \in 1..Len(waiting), waiting[i] = "reconcile"
                 PROVE  Reconciling'
      BY <2>1 DEF Reconciling
    <3>1. CASE i = 1
      <4>1. Head(waiting) = "reconcile"
        BY <3>1
      <4> QED
        BY <2>1, <4>1 DEF Reconciling
    <3>2. CASE i # 1
      <4>1. i - 1 \in 1..Len(waiting') /\ waiting'[i - 1] = "reconcile"
        BY <3>2, <2>1, HeadTailProperties, LenProperties DEF WatchTypeOK
      <4> QED
        BY <4>1 DEF Reconciling
    <3> QED
      BY <3>1, <3>2
  <2> QED
    BY <2>1, <2>2 DEF LegsIInv, engineVars
<1>10. CASE Read
  <2>1. UNCHANGED <<engineVars, waiting>>
    BY <1>10 DEF Read
  <2>2. Reconciling => Reconciling'
    BY <1>10 DEF Read, Reconciling, WatchTypeOK, Reload
  <2> QED
    BY <2>1, <2>2 DEF LegsIInv, engineVars
<1>11. CASE Install
  BY <1>11 DEF Install, Follows, LegsIInv
<1>12. CASE Resynced
  BY <1>12 DEF Resynced, Reconciling, LegsIInv, engineVars
<1>13. CASE RequestFails
  BY <1>13 DEF RequestFails, Fails, Reconciling, LegsIInv
<1>14. CASE ReconcileFails
  BY <1>14 DEF ReconcileFails, Fails, Follows, LegsIInv
<1>15. CASE UNCHANGED vars
  BY <1>15, LegsFrame DEF vars, Reconciling
<1> QED
  BY <1>1, <1>2, <1>3, <1>4, <1>5, <1>6, <1>7, <1>8, <1>9, <1>10, <1>11, <1>12, <1>13,
     <1>14, <1>15 DEF WatchNext

\* What is quoted is polled, what is polled for nothing is about to be
\* dropped, and the Kalshi subscription is the poll set unless that is empty
\* (_reload_tracked_locked and _reconcile_after_decision, ui/control.py).
THEOREM LegsAgree == WatchSpec => []LegsFollowMonitor
<1>1. WatchInit => LegsIInv
  BY DEF WatchInit, LegsIInv
<1>2. WatchTypeOK /\ LegsIInv /\ [WatchNext]_vars => LegsIInv'
  BY WatchStepLegs
<1>3. LegsIInv => LegsFollowMonitor
  <2>1. Quiet => ~Reconciling
    BY DEF Quiet, Reconciling, Free
  <2> QED
    BY <2>1 DEF LegsIInv, LegsFollowMonitor
<1> QED
  BY <1>1, <1>2, <1>3, WatchTypeCorrect, PTL DEF WatchSpec

-----------------------------------------------------------------------------
(* What the database says and what is quoted.                                *)

\* A reload that was asked for, or is about to be, and has not read the database yet.
Reloading ==
  \/ \E i \in 1..Len(waiting) : waiting[i] = "control"
  \/ reload.phase = "begun" /\ reload.kind = "control"
  \/ \E o \in Operators : request[o].phase = "written" /\ request[o].changed

\* A veto outlives a new confirmation only until after_decision has run.
VetoesHold == \A p \in Vetoed : status[p] = "confirmed" => p \in Confirming

\* What a reload in flight has read is what the database says, but for the pairs
\* stopped since, vetoed or confirmed again, unless another one will read it again.
RowsAreCurrent ==
  reload.phase = "read" /\ ~Reloading =>
     /\ reload.rows \ Watched \subseteq Stopping \union Vetoed \union lifted
     /\ Watched \subseteq reload.rows

\* So is what is quoted, but for the pairs the last install got wrong, unless a
\* reload is to come or the last one failed.
MonitorIsCurrent ==
  ~behind /\ ~Reloading /\ ~(reload.phase = "read" /\ reload.kind = "control") =>
     /\ monitor \ Watched \subseteq Stopping \union astray
     /\ Watched \ monitor \subseteq settled \union astray

MonitorIInv == PendingIsCurrent /\ VetoesHold /\ RowsAreCurrent /\ MonitorIsCurrent

LEMMA WatchedAreTracked == WatchTypeOK => Watched = {p \in Pairs : tracked[p]}
BY DEF WatchTypeOK, Watched, Confirmed

LEMMA WatchedIsRead ==
  ASSUME UNCHANGED <<status, tracked>>
  PROVE  Watched' = Watched
BY DEF Watched, Confirmed

\* Whatever is to reload keeps it so when the queue for the lock grows.
LEMMA JoinKeepsReloading ==
  ASSUME WatchTypeOK, NEW k \in {"control", "reconcile"}, waiting' = Append(waiting, k),
         \A o \in Operators : request[o].phase = "written" /\ request[o].changed
                                => request'[o] = request[o] \/ k = "control",
         reload' = reload
  PROVE  /\ Reloading => Reloading'
         /\ k = "control" => Reloading'
<1>1. /\ \A i \in 1..Len(waiting) : i \in 1..Len(waiting') /\ waiting'[i] = waiting[i]
      /\ Len(waiting') \in 1..Len(waiting') /\ waiting'[Len(waiting')] = k
  BY JoinKeepsReconciling
<1> QED
  BY <1>1 DEF Reloading

\* A step that leaves the tables, the decisions and the monitor alone.
LEMMA MonitorFrame ==
  ASSUME MonitorIInv,
         UNCHANGED <<status, tracked, deciding, monitor, settled, vetoed, behind, mishaps>>,
         reload'.phase = "read" => UNCHANGED reload,
         reload.phase = "read" /\ reload.kind = "control" => UNCHANGED reload,
         Reloading => Reloading'
  PROVE  MonitorIInv'
<1>1. /\ Watched' = Watched /\ Stopping' = Stopping /\ Vetoed' = Vetoed
      /\ Confirming' = Confirming /\ lifted' = lifted /\ astray' = astray
  BY WatchedIsRead DEF Stopping, Confirming, Vetoed, mishaps
<1>2. PendingIsCurrent'
  BY DEF MonitorIInv, PendingIsCurrent
<1>3. VetoesHold'
  BY <1>1 DEF MonitorIInv, VetoesHold
<1>4. RowsAreCurrent'
  BY <1>1 DEF MonitorIInv, RowsAreCurrent
<1>5. MonitorIsCurrent'
  BY <1>1 DEF MonitorIInv, MonitorIsCurrent
<1> QED
  BY <1>2, <1>3, <1>4, <1>5 DEF MonitorIInv

LEMMA CommitKeepsMonitor ==
  ASSUME WatchTypeOK, MonitorIInv,
         NEW ids \in Batches, NEW s \in Statuses, Commit(ids, s)
  PROVE  MonitorIInv'
<1> DEFINE d == [ids |-> ids, status |-> s]
<1>1. /\ deciding' = deciding \union {d}
      /\ UNCHANGED <<monitor, reload, vetoed, settled, behind, lifted, astray, request, waiting>>
  BY DEF Commit, engineVars, vetoVars, mishaps
<1>2. /\ \A p \in Pairs : status'[p] = IF p \in ids THEN s ELSE status[p]
      /\ \A p \in Pairs : tracked'[p] = (tracked[p] /\ (p \in ids => s = "confirmed"))
      /\ WatchTypeOK'
  <2>1. WatchTypeOK'
    BY WatchStepTypes DEF WatchNext
  <2> QED
    BY <2>1 DEF Commit
<1>3. Vetoed' = Vetoed /\ (Reloading' <=> Reloading)
  BY <1>1 DEF Vetoed, Reloading
<1>4. /\ Stopping \subseteq Stopping' /\ (s # "confirmed" => ids \subseteq Stopping')
      /\ Confirming \subseteq Confirming' /\ (s = "confirmed" => ids \subseteq Confirming')
  BY <1>1 DEF Stopping, Confirming
<1>5. Watched' \subseteq Watched /\ Watched \ Watched' \subseteq Stopping'
  <2>1. Watched' = {p \in Pairs : tracked'[p]}
    BY <1>2 DEF WatchTypeOK, Watched, Confirmed
  <2>2. Watched = {p \in Pairs : tracked[p]}
    BY WatchedAreTracked
  <2>3. /\ \A p \in Pairs : tracked'[p] => tracked[p]
        /\ \A p \in Pairs : tracked[p] /\ ~tracked'[p] => p \in ids /\ s # "confirmed"
    BY <1>2
  <2>4. ASSUME NEW p \in Watched'
        PROVE  p \in Watched
    <3>1. p \in Pairs /\ tracked'[p]
      BY <2>1
    <3> QED
      BY <2>2, <2>3, <3>1
  <2>5. ASSUME NEW p \in Watched, p \notin Watched'
        PROVE  p \in Stopping'
    <3>1. p \in ids /\ s # "confirmed"
      BY <2>1, <2>2, <2>3, <2>5, Zenon
    <3> QED
      BY <1>4, <3>1
  <2> QED
    BY <2>4, <2>5
<1>6. PendingIsCurrent'
  <2> SUFFICES ASSUME NEW e \in deciding', NEW p \in e.ids PROVE status'[p] = e.status
    BY DEF PendingIsCurrent
  <2>1. CASE e = d
    BY <2>1, <1>2, WatchAssumption
  <2>2. CASE e \in deciding
    <3>1. p \notin ids /\ p \in Pairs
      BY <2>2 DEF Commit, WatchTypeOK, Decision
    <3> QED
      BY <3>1, <2>2, <1>2 DEF MonitorIInv, PendingIsCurrent
  <2> QED
    BY <2>1, <2>2, <1>1
<1>7. VetoesHold'
  <2> SUFFICES ASSUME NEW p \in Vetoed, status'[p] = "confirmed"
               PROVE  p \in Confirming'
    BY <1>3 DEF VetoesHold
  <2>1. p \in Pairs
    BY DEF Vetoed
  <2>2. CASE status[p] = "confirmed"
    BY <1>4, <2>2 DEF MonitorIInv, VetoesHold
  <2>3. CASE status[p] # "confirmed"
    <3>1. p \in ids /\ s = "confirmed"
      BY <1>2, <2>1, <2>3
    <3> QED
      BY <1>4, <3>1
  <2> QED
    BY <2>2, <2>3
<1>8. RowsAreCurrent'
  BY <1>1, <1>3, <1>4, <1>5 DEF MonitorIInv, RowsAreCurrent
<1>9. MonitorIsCurrent'
  BY <1>1, <1>3, <1>4, <1>5 DEF MonitorIInv, MonitorIsCurrent
<1> QED
  BY <1>6, <1>7, <1>8, <1>9 DEF MonitorIInv

LEMMA FollowConfirmedKeepsMonitor ==
  ASSUME WatchTypeOK, MonitorIInv, NEW d \in deciding, FollowConfirmed(d)
  PROVE  MonitorIInv'
<1>1. /\ d.status = "confirmed" /\ deciding' = deciding \ {d}
      /\ UNCHANGED <<status, tracked, monitor, reload, settled, behind, astray, request, waiting>>
  BY DEF FollowConfirmed, engineVars
<1>2. Stopping' = Stopping /\ Watched' = Watched /\ (Reloading' <=> Reloading)
  BY <1>1, WatchedIsRead DEF Stopping, Reloading
<1>3. Vetoed' = Vetoed \ d.ids /\ lifted' = lifted \union (d.ids \intersect Vetoed)
  BY DEF FollowConfirmed, Pardoned, Vetoed
<1>4. Confirming \subseteq Confirming' \union d.ids
  BY <1>1 DEF Confirming
<1>5. PendingIsCurrent'
  BY <1>1 DEF MonitorIInv, PendingIsCurrent
<1>6. VetoesHold'
  BY <1>1, <1>3, <1>4 DEF MonitorIInv, VetoesHold
<1>7. RowsAreCurrent'
  BY <1>1, <1>2, <1>3 DEF MonitorIInv, RowsAreCurrent
<1>8. MonitorIsCurrent'
  BY <1>1, <1>2 DEF MonitorIInv, MonitorIsCurrent
<1> QED
  BY <1>5, <1>6, <1>7, <1>8 DEF MonitorIInv

LEMMA FollowStopKeepsMonitor ==
  ASSUME WatchTypeOK, MonitorIInv, NEW d \in deciding, FollowStop(d)
  PROVE  MonitorIInv'
<1>1. /\ d.status # "confirmed" /\ deciding' = deciding \ {d} /\ monitor' = monitor \ d.ids
      /\ UNCHANGED <<status, tracked, reload, settled, behind, lifted, astray, request>>
      /\ d.ids \subseteq Pairs
  BY DEF FollowStop, WatchTypeOK, Decision, mishaps
<1>2. /\ Watched' = Watched /\ Stopping \subseteq Stopping' \union d.ids
      /\ Confirming' = Confirming
  BY <1>1, WatchedIsRead DEF Stopping, Confirming
<1>3. \A p \in d.ids : status[p] # "confirmed"
  BY <1>1 DEF MonitorIInv, PendingIsCurrent
<1>4. d.ids \intersect Watched = {}
  BY <1>3 DEF Watched, Confirmed
<1>5. Vetoed' = IF LockHeld THEN Vetoed \union d.ids ELSE Vetoed
  <2>1. decisionSeq + 1 # 0
    BY DEF WatchTypeOK
  <2> QED
    BY <1>1, <2>1 DEF FollowStop, Vetoed
<1>6. Reloading => Reloading'
  <2>1. CASE waiting' = waiting
    BY <1>1, <2>1 DEF Reloading
  <2>2. CASE waiting' = Append(waiting, "reconcile")
    BY <1>1, <2>2, JoinKeepsReloading
  <2> QED
    BY <2>1, <2>2 DEF FollowStop, AfterStopping
<1>7. PendingIsCurrent'
  BY <1>1 DEF MonitorIInv, PendingIsCurrent
<1>8. VetoesHold'
  BY <1>1, <1>2, <1>3, <1>5 DEF MonitorIInv, VetoesHold
<1>9. RowsAreCurrent'
  BY <1>1, <1>2, <1>5, <1>6 DEF MonitorIInv, RowsAreCurrent, LockHeld
<1>10. MonitorIsCurrent'
  BY <1>1, <1>2, <1>4, <1>6 DEF MonitorIInv, MonitorIsCurrent
<1> QED
  BY <1>7, <1>8, <1>9, <1>10 DEF MonitorIInv

LEMMA PlannedKeepsMonitor ==
  ASSUME WatchTypeOK, MonitorIInv, NEW o \in Operators, NEW kind, NEW ids, NEW wanted,
         MayAsk(o), Planned(o, kind, ids, wanted)
  PROVE  MonitorIInv'
<1>1. request[o].phase = "none"
  BY DEF MayAsk
<1>2. \A q \in Operators : q # o => request'[q] = request[q]
  BY DEF Planned, WatchTypeOK
<1>3. UNCHANGED <<status, tracked, deciding, monitor, settled, vetoed, behind, mishaps,
                  reload, waiting>>
  BY DEF Planned, engineVars, vetoVars
<1>4. Reloading => Reloading'
  BY <1>1, <1>2, <1>3 DEF Reloading
<1> QED
  BY <1>3, <1>4, MonitorFrame

LEMMA WriteKeepsMonitor ==
  ASSUME WatchTypeOK, MonitorIInv, NEW o \in Operators, Write(o)
  PROVE  MonitorIInv'
<1>1. UNCHANGED <<status, deciding, monitor, settled, vetoed, behind, mishaps, reload, waiting>>
  BY DEF Write, engineVars, vetoVars
<1>2. /\ request[o].phase = "planned" /\ request[o] \in Request
      /\ \A q \in Operators : q # o => request'[q] = request[q]
      /\ request'[o].phase = "written" /\ request'[o].changed = (tracked' # tracked)
  BY DEF Write, WatchTypeOK, NoRequest
<1>3. Reloading => Reloading'
  BY <1>1, <1>2 DEF Reloading
<1>4. CASE tracked' = tracked
  BY <1>1, <1>3, <1>4, MonitorFrame
<1>5. CASE tracked' # tracked
  <2>1. Reloading'
    BY <1>2, <1>5 DEF Reloading
  <2>2. PendingIsCurrent'
    BY <1>1 DEF MonitorIInv, PendingIsCurrent
  <2>3. VetoesHold'
    BY <1>1 DEF MonitorIInv, VetoesHold, Vetoed, Confirming
  <2> QED
    BY <2>1, <2>2, <2>3 DEF MonitorIInv, RowsAreCurrent, MonitorIsCurrent
<1> QED
  BY <1>4, <1>5

LEMMA FinishKeepsMonitor ==
  ASSUME WatchTypeOK, MonitorIInv, NEW o \in Operators, Finish(o)
  PROVE  MonitorIInv'
<1>1. UNCHANGED <<status, tracked, deciding, monitor, settled, vetoed, behind, mishaps, reload>>
  BY DEF Finish, engineVars, vetoVars
<1>2. \A q \in Operators : q # o => request'[q] = request[q]
  BY DEF Finish, WatchTypeOK
<1>3. Reloading => Reloading'
  <2>1. CASE waiting' = Append(waiting, "control")
    BY <1>1, <2>1, JoinKeepsReloading
  <2>2. CASE waiting' = waiting /\ ~request[o].changed
    BY <1>1, <1>2, <2>2 DEF Reloading
  <2> QED
    BY <2>1, <2>2 DEF Finish, NothingToDo
<1> QED
  BY <1>1, <1>3, MonitorFrame

LEMMA BeginKeepsMonitor ==
  ASSUME WatchTypeOK, MonitorIInv, Begin
  PROVE  MonitorIInv'
<1>1. /\ UNCHANGED <<status, tracked, deciding, monitor, settled, vetoed, behind, mishaps, request>>
      /\ reload.phase = "free" /\ reload'.phase = "begun" /\ reload'.kind = Head(waiting)
      /\ waiting # <<>> /\ waiting' = Tail(waiting)
  BY DEF Begin, engineVars, vetoVars, LockHeld
<1>2. Reloading => Reloading'
  <2>1. ASSUME NEW i \in 1..Len(waiting), waiting[i] = "control"
        PROVE  Reloading'
    <3>1. CASE i = 1
      <4>1. Head(waiting) = "control"
        BY <2>1, <3>1
      <4> QED
        BY <1>1, <4>1 DEF Reloading
    <3>2. CASE i # 1
      <4>1. i - 1 \in 1..Len(waiting') /\ waiting'[i - 1] = "control"
        BY <1>1, <2>1, <3>2, HeadTailProperties, LenProperties DEF WatchTypeOK
      <4> QED
        BY <4>1 DEF Reloading
    <3> QED
      BY <3>1, <3>2
  <2> QED
    BY <1>1, <2>1 DEF Reloading
<1> QED
  BY <1>1, <1>2, MonitorFrame

LEMMA ReadKeepsMonitor ==
  ASSUME WatchTypeOK, MonitorIInv, Read
  PROVE  MonitorIInv'
<1>1. /\ UNCHANGED <<status, tracked, deciding, monitor, settled, vetoed, behind, astray,
                     request, waiting>>
      /\ reload.phase = "begun" /\ reload'.phase = "read" /\ reload'.kind = reload.kind
      /\ reload'.rows = Watched
  BY DEF Read, engineVars, vetoVars, WatchTypeOK, Reload
<1>2. /\ Watched' = Watched /\ Stopping' = Stopping /\ Vetoed' = Vetoed
      /\ Confirming' = Confirming
  BY <1>1, WatchedIsRead DEF Stopping, Confirming, Vetoed
<1>3. PendingIsCurrent'
  BY <1>1 DEF MonitorIInv, PendingIsCurrent
<1>4. VetoesHold'
  BY <1>1, <1>2 DEF MonitorIInv, VetoesHold
<1>5. RowsAreCurrent'
  BY <1>1, <1>2 DEF RowsAreCurrent
<1>6. MonitorIsCurrent'
  BY <1>1, <1>2 DEF MonitorIInv, MonitorIsCurrent, Reloading
<1> QED
  BY <1>3, <1>4, <1>5, <1>6 DEF MonitorIInv

LEMMA InstallKeepsMonitor ==
  ASSUME WatchTypeOK, MonitorIInv, Install
  PROVE  MonitorIInv'
<1>1. /\ UNCHANGED <<status, tracked, deciding, request, waiting>>
      /\ reload.phase = "read" /\ reload'.phase = "resync"
      /\ monitor' = (reload.rows \ over) \ Vetoed
      /\ settled' = settled \union (reload.rows \intersect over)
      /\ astray' = (lifted \intersect monitor')
                     \union (Vetoed \intersect Confirming \intersect Watched)
  BY DEF Install, Installable, Loaded, Misled, Free
<1>2. Watched' = Watched /\ Stopping' = Stopping /\ Confirming' = Confirming
  BY <1>1, WatchedIsRead DEF Stopping, Confirming
<1>3. Vetoed' \subseteq Vetoed
  BY DEF Install, Vetoed
<1>4. Reloading => Reloading'
  BY <1>1 DEF Reloading
<1>5. Vetoed \intersect Watched \subseteq Confirming
  BY DEF MonitorIInv, VetoesHold, Watched, Confirmed
<1>6. PendingIsCurrent'
  BY <1>1 DEF MonitorIInv, PendingIsCurrent
<1>7. VetoesHold'
  BY <1>1, <1>2, <1>3 DEF MonitorIInv, VetoesHold
<1>8. RowsAreCurrent'
  BY <1>1 DEF RowsAreCurrent
<1>9. MonitorIsCurrent'
  BY <1>1, <1>2, <1>4, <1>5 DEF MonitorIInv, RowsAreCurrent, MonitorIsCurrent
<1> QED
  BY <1>6, <1>7, <1>8, <1>9 DEF MonitorIInv

LEMMA FailsKeepsMonitor ==
  ASSUME WatchTypeOK, MonitorIInv, RequestFails \/ ReconcileFails
  PROVE  MonitorIInv'
<1>1. /\ UNCHANGED <<status, tracked, deciding, monitor, settled, vetoed, astray, request, waiting>>
      /\ reload'.phase = "free"
      /\ behind' \/ (behind' = behind /\ reload.kind = "reconcile")
  BY DEF RequestFails, ReconcileFails, Fails, Free, vetoVars, mishaps
<1>2. /\ Watched' = Watched /\ Stopping' = Stopping /\ Vetoed' = Vetoed
      /\ Confirming' = Confirming
  BY <1>1, WatchedIsRead DEF Stopping, Confirming, Vetoed
<1>3. PendingIsCurrent'
  BY <1>1 DEF MonitorIInv, PendingIsCurrent
<1>4. VetoesHold'
  BY <1>1, <1>2 DEF MonitorIInv, VetoesHold
<1>5. RowsAreCurrent'
  BY <1>1 DEF RowsAreCurrent
<1>6. MonitorIsCurrent'
  BY <1>1, <1>2 DEF MonitorIInv, MonitorIsCurrent, Reloading
<1> QED
  BY <1>3, <1>4, <1>5, <1>6 DEF MonitorIInv

LEMMA WatchStepMonitor ==
  ASSUME WatchTypeOK, MonitorIInv, [WatchNext]_vars
  PROVE  MonitorIInv'
<1>1. ASSUME NEW p \in Pairs, Settles(p) PROVE MonitorIInv'
  BY <1>1, MonitorFrame DEF Settles, engineVars, vetoVars, Reloading
<1>2. ASSUME NEW ids \in Batches, NEW s \in Statuses, Commit(ids, s) PROVE MonitorIInv'
  BY <1>2, CommitKeepsMonitor
<1>3. ASSUME NEW d \in deciding, FollowConfirmed(d) \/ FollowStop(d) PROVE MonitorIInv'
  BY <1>3, FollowConfirmedKeepsMonitor, FollowStopKeepsMonitor
<1>4. ASSUME NEW o \in Operators, NEW ids \in Batches, PlanTrack(o, ids) \/ PlanUntrack(o, ids)
      PROVE  MonitorIInv'
  BY <1>4, PlannedKeepsMonitor DEF PlanTrack, PlanUntrack
<1>5. ASSUME NEW o \in Operators, NEW wanted \in SUBSET Pairs, PlanTop(o, wanted)
      PROVE  MonitorIInv'
  BY <1>5, PlannedKeepsMonitor DEF PlanTop
<1>6. ASSUME NEW o \in Operators, Write(o) \/ Finish(o) PROVE MonitorIInv'
  BY <1>6, WriteKeepsMonitor, FinishKeepsMonitor
<1>7. CASE Begin \/ Read \/ Install \/ RequestFails \/ ReconcileFails
  BY <1>7, BeginKeepsMonitor, ReadKeepsMonitor, InstallKeepsMonitor, FailsKeepsMonitor
<1>8. CASE Resynced
  BY <1>8, MonitorFrame DEF Resynced, Free, engineVars, vetoVars, Reloading
<1>9. CASE UNCHANGED vars
  BY <1>9, MonitorFrame DEF vars, engineVars, vetoVars, Reloading
<1> QED
  BY <1>1, <1>2, <1>3, <1>4, <1>5, <1>6, <1>7, <1>8, <1>9 DEF WatchNext

\* The monitor ends up with what the database says, whatever order decisions,
\* requests, reloads and their failures come in, but for the pairs that were
\* confirmed again under their veto while the reload that last installed ran
\* (_reload_tracked_locked, after_decision, ui/control.py).
THEOREM MonitorAgrees == WatchSpec => []MonitorFollowsDatabase
<1>1. WatchInit => MonitorIInv
  <2> SUFFICES ASSUME WatchInit PROVE MonitorIInv
    OBVIOUS
  <2>1. PendingIsCurrent
    BY DEF WatchInit, PendingIsCurrent
  <2>2. VetoesHold
    BY DEF WatchInit, VetoesHold, Vetoed
  <2>3. RowsAreCurrent /\ MonitorIsCurrent
    BY DEF WatchInit, RowsAreCurrent, MonitorIsCurrent, Free
  <2> QED
    BY <2>1, <2>2, <2>3 DEF MonitorIInv
<1>2. WatchTypeOK /\ MonitorIInv /\ [WatchNext]_vars => MonitorIInv'
  BY WatchStepMonitor
<1>3. WatchTypeOK /\ MonitorIInv => MonitorFollowsDatabase
  <2>1. Quiet => ~Reloading /\ Stopping = {} /\ reload.phase # "read"
    BY DEF Quiet, Reloading, Stopping, Free
  <2> QED
    BY <2>1 DEF MonitorIInv, MonitorIsCurrent, MonitorFollowsDatabase
<1> QED
  BY <1>1, <1>2, <1>3, WatchTypeCorrect, PTL DEF WatchSpec
=============================================================================
