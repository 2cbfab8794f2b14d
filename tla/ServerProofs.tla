---------------------------- MODULE ServerProofs ----------------------------
(***************************************************************************)
(* What src/arb/ui/server.py owes to those outside, for any number of      *)
(* signals, tabs, markets and frames.                                      *)
(*                                                                         *)
(* Of its shutdown: no polite signal loses what was recorded, and the      *)
(* process reports what happened to it.  The first invariant follows the   *)
(* cleanup step by step and says what each of its ways out has behind it;  *)
(* the second keeps the account of the cancellations of the main task and  *)
(* says which signal each stands for.                                      *)
(*                                                                         *)
(* Of its fan-out: a tab that is kept is followed.  What a tab shows after *)
(* its queue is told from the last frame of each kind in it, and a queue   *)
(* that is appended to ends in what its two parts end in one after the     *)
(* other; so a step only has to say what its own frames end in.            *)
(***************************************************************************)
EXTENDS Shutdown, Fanout, FiniteSetTheorems, WellFoundedInduction, TLAPS

-----------------------------------------------------------------------------
(* The shutdown *)

\* Before the drain the writer is alive, after it the writer had its time.
WriterIsServed ==
    \/ forced
    \/ step \in {"jobs", "tasks", "drain"} /\ writer
    \/ step \in {"writer", "dispose"} /\ waited

\* A cleanup that is over was forced, was ended by a dead task, or did it all.
InnerEnds ==
    /\ struck \/ teardown \/ inner = "cancelled" => forced
    /\ inner = "done" => forced \/ step = "dispose"
    /\ inner = "failed" => forced \/ task = "dead"

\* The process ends without a cleanup before its handler is there, or by force.
MainEndsLast ==
    /\ pc = "boot" => inner = "none" /\ sigterms = 0 /\ interrupts = 0
    /\ pc = "exited" =>
          \/ forced
          \/ inner \in {"done", "failed", "cancelled"}
          \/ inner = "none" /\ sigterms = 0 /\ interrupts = 0

Cleaned ==
    /\ step \in Steps
    /\ inner \in {"none", "running", "done", "failed", "cancelled"}
    /\ WriterIsServed /\ InnerEnds /\ MainEndsLast

LEMMA CleanedInit == ShutdownInit => Cleaned
  BY DEF ShutdownInit, Cleaned, WriterIsServed, InnerEnds, MainEndsLast, Steps

\* The steps of startup, serving and the main task.
LEMMA MainKeepsCleaned ==
  ASSUME Cleaned, RunEnds \/ Starting \/ MainStep \/ Fails
  PROVE  Cleaned'
<1> USE DEF Cleaned, WriterIsServed, InnerEnds, MainEndsLast, Steps, mainVars, handlerVars,
            serverVars, cleanupVars, taskVars, endVars, sentVars, otherVars, Goes
<1>1. CASE RunEnds
  BY <1>1 DEF RunEnds
<1>2. CASE Starting
  BY <1>2 DEF Starting, Install, Spawn, Check, Enter, Capture
<1>3. CASE Told \/ Served \/ Replayed \/ Fails
  BY <1>3 DEF Told, Served, Replayed, Fails, MainEnds
<1>4. CASE Replay
  <2>1. pc = "replay" /\ UNCHANGED <<step, waited>>
    BY <1>4 DEF Replay, Quiet
  <2>2. CASE OnSigterm /\ UNCHANGED <<pc, raising, inner, struck, writer, task, endVars>>
    BY <2>1, <2>2
  <2>3. CASE OnSigint
    <3>1. CASE UNCHANGED <<pc, raising, inner, struck, writer, task, teardown, forced, status>>
      BY <2>1, <3>1
    <3>2. CASE Abandons
      BY <2>1, <3>2 DEF Abandons
    <3>3. CASE BreaksMain
      BY <2>1, <3>3 DEF BreaksMain, MainEnds
    <3>4. CASE BreaksLoop
      BY <2>1, <3>4 DEF BreaksLoop
    <3> QED
      BY <2>3, <3>1, <3>2, <3>3, <3>4 DEF OnSigint
  <2> QED
    BY <1>4, <2>2, <2>3 DEF Replay
<1>5. CASE Absorb
  BY <1>5 DEF Absorb
<1>6. CASE Hold
  BY <1>6 DEF Hold
<1>7. CASE Exit
  BY <1>7 DEF Exit
<1> QED
  BY <1>1, <1>2, <1>3, <1>4, <1>5, <1>6, <1>7 DEF MainStep

\* The steps of the cleanup.
LEMMA CleanupKeepsCleaned ==
  ASSUME Cleaned, CleanupStep
  PROVE  Cleaned'
<1> USE DEF Cleaned, WriterIsServed, InnerEnds, MainEndsLast, Steps, mainVars, handlerVars,
            endVars, CleanupGoesOn
<1>1. CASE CloseJobs
  BY <1>1 DEF CloseJobs
<1>2. CASE CloseTasks
  BY <1>2 DEF CloseTasks
<1>3. CASE Drain
  BY <1>3 DEF Drain
<1>4. CASE CloseWriter
  BY <1>4 DEF CloseWriter
<1>5. CASE Dispose
  BY <1>5 DEF Dispose
<1>6. CASE Struck
  BY <1>6 DEF Struck, taskVars
<1> QED
  BY <1>1, <1>2, <1>3, <1>4, <1>5, <1>6 DEF CleanupStep

\* A signal at any point.
LEMMA SignalsKeepCleaned ==
  ASSUME Cleaned, SigTerm \/ SigInt
  PROVE  Cleaned'
<1> USE DEF Cleaned, WriterIsServed, InnerEnds, MainEndsLast, Steps
<1>1. UNCHANGED <<step, waited>> /\ pc # "exited"
  BY DEF SigTerm, SigInt, Quiet
<1>2. ASSUME NEW sig, Captured(sig), pc = "serving"
      PROVE  Cleaned'
  BY <1>1, <1>2 DEF Captured, mainVars, handlerVars, endVars
<1>3. ASSUME NEW how, BootEnds(how), pc = "boot"
      PROVE  Cleaned'
  BY <1>1, <1>3 DEF BootEnds, handlerVars
<1>4. CASE SigTerm
  <2>1. CASE OnSigterm /\ UNCHANGED <<pc, inner, struck, writer, task, endVars>> /\ pc # "boot"
    BY <1>1, <2>1 DEF endVars
  <2> QED
    BY <1>2, <1>3, <1>4, <2>1 DEF SigTerm
<1>5. CASE SigInt
  <2>1. CASE OnSigint /\ pc # "boot"
    <3>1. CASE UNCHANGED <<pc, raising, inner, struck, writer, task, teardown, forced, status>>
      BY <1>1, <2>1, <3>1
    <3>2. CASE Abandons
      BY <1>1, <3>2 DEF Abandons
    <3>3. CASE BreaksMain
      BY <1>1, <3>3 DEF BreaksMain, MainEnds
    <3>4. CASE BreaksLoop
      BY <1>1, <3>4 DEF BreaksLoop
    <3> QED
      BY <2>1, <3>1, <3>2, <3>3, <3>4 DEF OnSigint
  <2> QED
    BY <1>2, <1>3, <1>5, <2>1 DEF SigInt
<1> QED
  BY <1>4, <1>5

THEOREM CleanedInvariant == ShutdownSpec => []Cleaned
<1>1. Cleaned /\ UNCHANGED shutdownVars => Cleaned'
  BY DEF Cleaned, WriterIsServed, InnerEnds, MainEndsLast, shutdownVars, mainVars, handlerVars,
         cleanupVars, taskVars, endVars
<1>2. Cleaned /\ [ShutdownNext]_shutdownVars => Cleaned'
  BY <1>1, MainKeepsCleaned, CleanupKeepsCleaned, SignalsKeepCleaned DEF ShutdownNext
<1> QED
  BY CleanedInit, <1>2, PTL DEF ShutdownSpec

\* No polite signal loses what was recorded (shutdown.py:244-269, server.py:1490-1514).
THEOREM NothingRecordedIsLost == ShutdownSpec => []FlushedUnlessForced
<1>1. Cleaned => FlushedUnlessForced
  BY DEF Cleaned, WriterIsServed, InnerEnds, MainEndsLast, FlushedUnlessForced, Steps
<1> QED
  BY CleanedInvariant, <1>1, PTL

-----------------------------------------------------------------------------
(* What the process reports: every cancellation of the main task is counted, *)
(* and the count says whose they were.                                       *)

One(b) == IF b THEN 1 ELSE 0

\* An interrupt that was handled, raised or captured was sent.
InterruptsWereSent ==
    /\ interrupts > 0 \/ raising = "interrupt" => ints > 0
    /\ \A i \in 1 .. Len(captured) : captured[i] = "INT" => ints > 0

\* A cancellation not told yet, or not claimed yet, is counted.
CancelsAreCounted == pc # "exited" /\ (pending \/ outstanding) => cancelling >= 1

\* Up to the end of main() there is one cancellation for a SIGTERM and one for an
\* interrupt; one of them that main() was not told of is pending, and after it was
\* told of one the other has to be.
CountedInMain ==
    pc \notin {"cleanup", "exited"} =>
        /\ inner = "none" /\ ~ held
        /\ pc # "absorb" => raising = "nothing"
        /\ pc = "replay" => ~ outstanding
        /\ outstanding \/ interrupts > 0 => pending \/ raising = "cancelled"
        /\ ~ teardown =>
              /\ cancelling = One(outstanding) + One(interrupts > 0)
              /\ pending => outstanding \/ interrupts > 0
              /\ raising = "cancelled" => outstanding \/ interrupts > 0
              /\ raising = "cancelled" /\ pending => outstanding /\ interrupts > 0

\* During the cleanup only a SIGTERM that main() was told of is still to be claimed,
\* and beside it there is the one cancellation of an interrupt, or none.
CountedInCleanup ==
    pc = "cleanup" /\ ~ teardown =>
        /\ outstanding => raising = "cancelled"
        /\ interrupts = 0 => cancelling = One(outstanding) /\ ~ pending /\ ~ held
        /\ pending \/ held => cancelling = One(outstanding) + 1
        /\ raising = "cancelled" =>
              /\ cancelling = One(outstanding) + One(interrupts > 0)
              /\ outstanding \/ interrupts > 0

\* Only the teardown of the loop reaches into the cleanup, or leaves it running.
Unstruck ==
    ~ teardown => /\ ~ struck /\ inner # "cancelled"
                  /\ pc = "exited" => inner # "running"

Reported ==
    /\ pc # "exited" => status = "running"
    /\ Polite /\ ints = 0 => status = "clean"
    /\ Polite /\ raising = "nothing" /\ ~ held /\ ~ pending => status = "clean"
    /\ Polite /\ interrupts > 0 /\ (held \/ raising = "cancelled") => status = "interrupted"
    /\ status # "cancelled"

Counted == CancelsAreCounted /\ CountedInMain /\ CountedInCleanup /\ Unstruck
EndsInv == ShutdownTypeOK /\ InterruptsWereSent /\ Counted /\ Reported

LEMMA EndsInit == ShutdownInit => EndsInv
<1> SUFFICES ASSUME ShutdownInit PROVE EndsInv
  OBVIOUS
<1>1. ShutdownTypeOK
  <2>1. captured \in Seq({"TERM", "INT"})
    BY DEF ShutdownInit
  <2> QED
    BY <2>1 DEF ShutdownInit, ShutdownTypeOK, Pcs, Raised, Steps, Ends
<1>2. InterruptsWereSent
  BY DEF ShutdownInit, InterruptsWereSent
<1>3. Counted
  BY DEF ShutdownInit, Counted, CancelsAreCounted, CountedInMain, CountedInCleanup, Unstruck, One
<1>4. Reported
  BY DEF ShutdownInit, Reported, Polite
<1> QED
  BY <1>1, <1>2, <1>3, <1>4 DEF EndsInv

\* A step of the cleanup, or aside of it: it neither counts nor reports.
Aside ==
    /\ UNCHANGED <<pc, raising, pending, cancelling, outstanding, interrupts, captured, held,
                   teardown, status, ints>>
    /\ inner' # inner => inner = "running" /\ inner' \in {"done", "failed", "cancelled"}
    /\ inner' = "cancelled" => inner = "cancelled" \/ struck
    /\ struck' \in {struck, FALSE}

LEMMA AsideKeepsEnds ==
  ASSUME EndsInv, ShutdownTypeOK',
         Aside
  PROVE  EndsInv'
<1>1. InterruptsWereSent'
  BY DEF Aside, EndsInv, InterruptsWereSent
<1>2. Counted'
  <2> USE DEF Aside, EndsInv, Counted
  <2>1. CancelsAreCounted'
    BY DEF CancelsAreCounted
  <2>2. CountedInMain'
    BY DEF CountedInMain
  <2>3. CountedInCleanup'
    BY DEF CountedInCleanup
  <2>4. Unstruck'
    BY DEF Unstruck
  <2> QED
    BY <2>1, <2>2, <2>3, <2>4
<1>3. Reported'
  <2>1. inner' = inner \/ pc # "exited" \/ teardown
    BY DEF Aside, EndsInv, Counted, Unstruck
  <2> QED
    BY <2>1 DEF Aside, EndsInv, Reported, Polite
<1> QED
  BY <1>1, <1>2, <1>3 DEF EndsInv

\* The steps of the supervised task and of the cleanup.
LEMMA TasksKeepEnds ==
  ASSUME EndsInv, RunEnds \/ Spawn \/ CleanupStep
  PROVE  EndsInv'
<1> USE DEF mainVars, handlerVars, serverVars, cleanupVars, taskVars, endVars, sentVars,
            CleanupGoesOn
<1>1. ShutdownTypeOK
  BY DEF EndsInv
<1>2. CASE RunEnds
  <2>1. ShutdownTypeOK'
    BY <1>1, <1>2 DEF RunEnds, ShutdownTypeOK
  <2>2. Aside
    BY <1>2 DEF Aside, RunEnds
  <2> QED
    BY <2>1, <2>2, AsideKeepsEnds
<1>3. CASE Spawn
  <2>1. ShutdownTypeOK'
    BY <1>1, <1>3 DEF Spawn, ShutdownTypeOK
  <2>2. Aside
    BY <1>3 DEF Aside, Spawn
  <2> QED
    BY <2>1, <2>2, AsideKeepsEnds
<1>4. CASE CloseJobs
  <2>1. ShutdownTypeOK'
    BY <1>1, <1>4 DEF CloseJobs, ShutdownTypeOK, Steps
  <2>2. Aside
    BY <1>4 DEF Aside, CloseJobs
  <2> QED
    BY <2>1, <2>2, AsideKeepsEnds
<1>5. CASE CloseTasks
  <2>1. ShutdownTypeOK'
    BY <1>1, <1>5 DEF CloseTasks, ShutdownTypeOK, Steps
  <2>2. Aside
    BY <1>5 DEF Aside, CloseTasks
  <2> QED
    BY <2>1, <2>2, AsideKeepsEnds
<1>6. CASE Drain
  <2>1. ShutdownTypeOK'
    BY <1>1, <1>6 DEF Drain, ShutdownTypeOK, Steps
  <2>2. Aside
    BY <1>6 DEF Aside, Drain
  <2> QED
    BY <2>1, <2>2, AsideKeepsEnds
<1>7. CASE CloseWriter
  <2>1. ShutdownTypeOK'
    BY <1>1, <1>7 DEF CloseWriter, ShutdownTypeOK, Steps
  <2>2. Aside
    BY <1>7 DEF Aside, CloseWriter
  <2> QED
    BY <2>1, <2>2, AsideKeepsEnds
<1>8. CASE Dispose
  <2>1. ShutdownTypeOK'
    BY <1>1, <1>8 DEF Dispose, ShutdownTypeOK
  <2>2. Aside
    BY <1>8 DEF Aside, Dispose
  <2> QED
    BY <2>1, <2>2, AsideKeepsEnds
<1>9. CASE Struck
  <2>1. ShutdownTypeOK'
    <3>1. step' \in Steps /\ inner' \in {inner, "cancelled"} /\ writer' \in BOOLEAN
          /\ struck' = FALSE
      BY <1>1, <1>9 DEF Struck, ShutdownTypeOK, Steps
    <3>2. UNCHANGED <<mainVars, handlerVars, serverVars, held, waited, taskVars, endVars, sentVars>>
      BY <1>9 DEF Struck
    <3>3. UNCHANGED <<pc, raising, pending, cancelling, outstanding, sigterms, interrupts,
                      captured, exiting, held, waited, task, attempts, teardown, forced, status,
                      terms, ints>>
      BY <3>2
    <3>4. inner' \in {"none", "running", "done", "failed", "cancelled"} /\ struck' \in BOOLEAN
      BY <1>1, <3>1 DEF ShutdownTypeOK
    <3> QED
      BY <1>1, <3>1, <3>3, <3>4 DEF ShutdownTypeOK
  <2>2. Aside
    BY <1>9 DEF Aside, Struck
  <2> QED
    BY <2>1, <2>2, AsideKeepsEnds
<1> QED
  BY <1>2, <1>3, <1>4, <1>5, <1>6, <1>7, <1>8, <1>9 DEF CleanupStep

\* The steps of the main task that end nothing.
LEMMA GoingKeepsEnds ==
  ASSUME EndsInv, Install \/ Check \/ Enter \/ Capture \/ Served \/ Hold
  PROVE  EndsInv'
<1> USE DEF mainVars, handlerVars, serverVars, cleanupVars, taskVars, endVars, sentVars,
            otherVars, Goes
<1>1. ShutdownTypeOK'
  <2>0. ShutdownTypeOK
    BY DEF EndsInv
  <2>1. CASE Hold
    <3>1. pending' \in BOOLEAN /\ held' \in BOOLEAN
      BY <2>1 DEF Hold
    <3>2. UNCHANGED <<pc, raising, cancelling, outstanding, sigterms, interrupts, captured,
                      exiting, inner, step, struck, writer, waited, task, attempts, teardown,
                      forced, status, terms, ints>>
      BY <2>1 DEF Hold
    <3> QED
      BY <2>0, <3>1, <3>2 DEF ShutdownTypeOK
  <2>2. CASE Install \/ Check \/ Enter \/ Capture \/ Served
    <3>1. pc' \in Pcs
      BY <2>2 DEF Install, Check, Enter, Capture, Served, Pcs
    <3>2. UNCHANGED <<raising, pending, otherVars>>
      BY <2>2 DEF Install, Check, Enter, Capture, Served
    <3> QED
      BY <2>0, <3>1, <3>2 DEF ShutdownTypeOK
  <2> QED
    BY <2>1, <2>2
<1>2. InterruptsWereSent'
  BY DEF EndsInv, InterruptsWereSent, Install, Check, Enter, Capture, Served, Hold
<1>3. CASE Hold
  <2>1. Counted'
    BY <1>3 DEF EndsInv, Hold, Counted, CancelsAreCounted, CountedInMain, CountedInCleanup,
                Unstruck
  <2>2. Reported'
    BY <1>3 DEF EndsInv, Hold, Reported, Polite
  <2> QED
    BY <1>1, <1>2, <2>1, <2>2 DEF EndsInv
<1>4. CASE Install \/ Check \/ Enter \/ Capture \/ Served
  <2>1. /\ pc \in {"boot", "startup", "checked", "entering", "serving"}
        /\ pc' \in {"startup", "checked", "gate", "entering", "serving", "replay"}
        /\ pc' = "replay" => ~ pending
        /\ UNCHANGED <<raising, pending, cancelling, outstanding, interrupts, captured, held,
                       inner, struck, teardown, status, ints>>
    BY <1>4 DEF Install, Check, Enter, Capture, Served
  <2>2. Counted'
    <3> USE DEF EndsInv, Counted
    <3>1. CancelsAreCounted'
      BY <2>1 DEF CancelsAreCounted
    <3>2. CountedInMain'
      BY <2>1 DEF CountedInMain
    <3>3. CountedInCleanup' /\ Unstruck'
      BY <2>1 DEF CountedInCleanup, Unstruck
    <3> QED
      BY <3>1, <3>2, <3>3
  <2>3. Reported'
    BY <2>1 DEF EndsInv, Reported, Polite
  <2> QED
    BY <1>1, <1>2, <2>2, <2>3 DEF EndsInv
<1> QED
  BY <1>3, <1>4

\* The ends of main(): told of a cancellation, by an error, or served.
LEMMA MainEndsKeepsEnds ==
  ASSUME EndsInv, Told \/ Fails \/ Replayed
  PROVE  EndsInv'
<1> USE DEF handlerVars, serverVars, cleanupVars, taskVars, endVars, sentVars, otherVars, MainEnds
<1>1. /\ pc \in {"startup", "gate", "serving", "replay"} /\ pc' = "absorb"
      /\ raising' \in {"nothing", "cancelled", "error"}
      /\ raising' = "cancelled" => pending /\ pending' = FALSE
      /\ raising' # "cancelled" => pending' = pending
      /\ UNCHANGED <<cancelling, outstanding, sigterms, interrupts, captured, exiting, held, inner,
                     step, struck, writer, waited, task, attempts, teardown, forced, status, terms,
                     ints>>
  BY DEF Told, Fails, Replayed
<1>2. ShutdownTypeOK'
  <2>1. pending' \in BOOLEAN
    BY <1>1 DEF EndsInv, ShutdownTypeOK
  <2>2. raising' \in Raised /\ pc' \in Pcs
    BY <1>1 DEF Raised, Pcs
  <2> QED
    BY <1>1, <2>1, <2>2 DEF EndsInv, ShutdownTypeOK
<1>3. InterruptsWereSent'
  BY <1>1 DEF EndsInv, InterruptsWereSent
<1>4. CountedInMain'
  <2>1. CountedInMain /\ pending \in BOOLEAN
    BY DEF EndsInv, Counted, ShutdownTypeOK
  <2> QED
    BY <1>1, <2>1 DEF CountedInMain
<1>5. CancelsAreCounted' /\ CountedInCleanup' /\ Unstruck'
  BY <1>1 DEF EndsInv, Counted, CancelsAreCounted, CountedInCleanup, Unstruck
<1>6. Reported'
  BY <1>1 DEF EndsInv, Reported, Polite
<1> QED
  BY <1>2, <1>3, <1>4, <1>5, <1>6 DEF EndsInv, Counted

LEMMA AbsorbKeepsEnds ==
  ASSUME EndsInv, Absorb
  PROVE  EndsInv'
<1>1. /\ pc = "absorb" /\ pc' = "cleanup" /\ inner' = "running" /\ pending' = FALSE
      /\ cancelling' = IF pending THEN cancelling - 1 ELSE cancelling
      /\ outstanding' = (outstanding /\ ~ pending)
      /\ UNCHANGED <<raising, sigterms, interrupts, captured, exiting, held, step, struck, writer,
                     waited, task, attempts, teardown, forced, status, terms, ints>>
  BY DEF Absorb, serverVars, taskVars, endVars, sentVars
<1>2. ShutdownTypeOK /\ CountedInMain /\ CancelsAreCounted
  BY DEF EndsInv, Counted
<1>3. /\ cancelling \in Nat /\ pending \in BOOLEAN /\ outstanding \in BOOLEAN /\ interrupts \in Nat
      /\ pending \/ outstanding => cancelling >= 1
  BY <1>1, <1>2 DEF ShutdownTypeOK, CancelsAreCounted
<1>4. /\ cancelling' \in Nat /\ outstanding' \in BOOLEAN /\ (outstanding' => cancelling' >= 1)
      /\ pending => cancelling' = cancelling - 1 /\ outstanding' = FALSE
      /\ ~ pending => cancelling' = cancelling /\ outstanding' = outstanding
  <2>1. CASE pending
    <3>1. cancelling' = cancelling - 1 /\ cancelling' \in Nat
      BY <1>1, <1>3, <2>1
    <3>2. outstanding' = FALSE
      BY <1>1, <2>1
    <3> QED
      BY <2>1, <3>1, <3>2
  <2>2. CASE ~ pending
    <3>1. cancelling' = cancelling
      BY <1>1, <2>2
    <3>2. outstanding' = outstanding
      BY <1>1, <1>3, <2>2, Zenon
    <3> QED
      BY <1>3, <2>2, <3>1, <3>2
  <2> QED
    BY <1>3, <2>1, <2>2
<1>5. ShutdownTypeOK'
  BY <1>1, <1>2, <1>4 DEF ShutdownTypeOK, Pcs
<1>6. InterruptsWereSent'
  BY <1>1 DEF EndsInv, InterruptsWereSent
<1>7. CountedInCleanup'
  <2>1. ~ held /\ (outstanding \/ interrupts > 0 => pending \/ raising = "cancelled")
    BY <1>1, <1>2 DEF CountedInMain
  <2>2. ASSUME ~ teardown
        PROVE  /\ cancelling = One(outstanding) + One(interrupts > 0)
               /\ pending => outstanding \/ interrupts > 0
               /\ raising = "cancelled" => outstanding \/ interrupts > 0
               /\ raising = "cancelled" /\ pending => outstanding /\ interrupts > 0
    BY <1>1, <1>2, <2>2 DEF CountedInMain
  <2>3. CASE pending
    BY <1>1, <1>3, <1>4, <2>1, <2>2, <2>3 DEF CountedInCleanup, One
  <2>4. CASE ~ pending
    BY <1>1, <1>3, <1>4, <2>1, <2>2, <2>4 DEF CountedInCleanup, One
  <2> QED
    BY <2>3, <2>4
<1>8. CancelsAreCounted' /\ CountedInMain' /\ Unstruck'
  BY <1>1, <1>4 DEF EndsInv, Counted, CancelsAreCounted, CountedInMain, Unstruck
<1>9. Reported'
  BY <1>1 DEF EndsInv, Reported, Polite
<1> QED
  BY <1>5, <1>6, <1>7, <1>8, <1>9 DEF EndsInv, Counted

\* The one step that reports: whose the last cancellations are is told by the count.
LEMMA ExitKeepsEnds ==
  ASSUME EndsInv, Exit
  PROVE  EndsInv'
<1> DEFINE claims  == Leaving = "cancelled" /\ outstanding
           left    == IF claims THEN cancelling - 1 ELSE cancelling
           leaving == IF Leaving = "cancelled" /\ Claimed THEN "nothing" ELSE Leaving
           how     == IF leaving = "nothing" /\ pending THEN "cancelled" ELSE leaving
<1>1. /\ pc = "cleanup" /\ inner \notin {"none", "running"} /\ pc' = "exited"
      /\ cancelling' = left /\ outstanding' = (outstanding /\ ~ claims)
      /\ status' = EndsAs(how, left)
      /\ UNCHANGED <<raising, pending, sigterms, interrupts, captured, exiting, held, inner, step,
                     struck, writer, waited, task, attempts, teardown, forced, terms, ints>>
  BY DEF Exit, serverVars, cleanupVars, taskVars, sentVars
<1>2. ShutdownTypeOK /\ InterruptsWereSent
      /\ CancelsAreCounted /\ CountedInCleanup /\ Unstruck
  BY DEF EndsInv, Counted
<1>3. /\ cancelling \in Nat /\ pending \in BOOLEAN /\ outstanding \in BOOLEAN /\ interrupts \in Nat
      /\ outstanding => cancelling >= 1
      /\ raising \in {"nothing", "cancelled", "error", "interrupt"} /\ held \in BOOLEAN
      /\ teardown \in BOOLEAN
      /\ inner \in {"done", "failed", "cancelled"}
  BY <1>1, <1>2 DEF ShutdownTypeOK, CancelsAreCounted, Raised
<1>4. left \in Nat /\ outstanding' \in BOOLEAN
  BY <1>1, <1>3
<1>5. /\ Leaving \in {"nothing", "cancelled", "error", "interrupt"}
      /\ how \in {"nothing", "cancelled", "error", "interrupt"}
  BY <1>3 DEF Leaving
<1>6. ASSUME ~ teardown
      PROVE  /\ how = "cancelled" => interrupts > 0 /\ left = 1
             /\ inner = "done" /\ raising # "error" =>
                   /\ interrupts = 0 /\ raising # "interrupt" => how = "nothing"
                   /\ raising = "nothing" /\ ~ held /\ ~ pending => how = "nothing"
                   /\ interrupts > 0 /\ (held \/ raising = "cancelled") => how = "cancelled"
  <2>1. inner # "cancelled"
    BY <1>2, <1>6 DEF Unstruck
  <2>2. /\ outstanding => raising = "cancelled"
        /\ interrupts = 0 => cancelling = One(outstanding) /\ ~ pending /\ ~ held
        /\ pending \/ held => cancelling = One(outstanding) + 1
        /\ raising = "cancelled" =>
              /\ cancelling = One(outstanding) + One(interrupts > 0)
              /\ outstanding \/ interrupts > 0
    BY <1>1, <1>2, <1>6 DEF CountedInCleanup
  <2>3. CASE outstanding
    BY <1>3, <2>1, <2>2, <2>3 DEF Leaving, Claimed, One
  <2>4. CASE ~ outstanding
    BY <1>3, <2>1, <2>2, <2>4 DEF Leaving, Claimed, One
  <2> QED
    BY <2>3, <2>4
<1> HIDE DEF claims, left, leaving, how
<1>7. status' \in {"clean", "interrupted", "failed"}
  <2>1. CASE teardown
    BY <1>1, <2>1 DEF EndsAs
  <2>3. CASE ~ teardown /\ how # "cancelled"
    BY <1>1, <1>5, <2>3 DEF EndsAs
  <2>2. CASE ~ teardown /\ how = "cancelled"
    BY <1>1, <1>6, <2>2 DEF EndsAs
  <2> QED
    BY <2>1, <2>2, <2>3
<1>8. ShutdownTypeOK'
  BY <1>1, <1>2, <1>4, <1>7 DEF ShutdownTypeOK, Pcs, Ends
<1>9. Reported'
  <2>1. ints = 0 => interrupts = 0 /\ raising # "interrupt"
    BY <1>2, <1>3 DEF InterruptsWereSent
  <2>2. ASSUME Polite'
        PROVE  ~ teardown /\ inner = "done" /\ raising # "error"
    BY <1>1, <2>2 DEF Polite
  <2>3. Polite' /\ how = "nothing" => status' = "clean"
    BY <1>1, <2>2 DEF EndsAs
  <2>4. Polite' /\ how = "cancelled" => status' = "interrupted"
    BY <1>1, <1>6, <2>2 DEF EndsAs
  <2> QED
    BY <1>1, <1>6, <1>7, <2>1, <2>2, <2>3, <2>4 DEF Reported
<1>10. InterruptsWereSent'
  BY <1>1, <1>2 DEF InterruptsWereSent
<1>11. CancelsAreCounted' /\ CountedInMain' /\ CountedInCleanup' /\ Unstruck'
  BY <1>1, <1>2 DEF CancelsAreCounted, CountedInMain, CountedInCleanup, Unstruck
<1> QED
  BY <1>8, <1>9, <1>10, <1>11 DEF EndsInv, Counted

\* A SIGTERM that reaches the handler of the program, during the startup a
\* cancellation unless one is already asked for.
LEMMA SigtermKeepsEnds ==
  ASSUME EndsInv, OnSigterm, pc # "exited", InterruptsWereSent', Quiet,
         UNCHANGED <<pc, raising, inner, struck, writer, task, endVars>>,
         captured' \in Seq({"TERM", "INT"}), terms' \in Nat, ints' \in Nat
  PROVE  EndsInv'
<1>1. /\ sigterms' = sigterms + 1 /\ exiting' = (exiting \/ ServerSet)
      /\ UNCHANGED <<pc, raising, interrupts, held, inner, step, struck, writer, waited, task,
                     attempts, teardown, forced, status>>
  BY DEF OnSigterm, Quiet, endVars
<1>2. \/ InStartup /\ ~ outstanding /\ outstanding' = TRUE /\ pending' = TRUE
         /\ cancelling' = cancelling + 1
      \/ ~ (InStartup /\ ~ outstanding) /\ UNCHANGED <<outstanding, pending, cancelling>>
  BY DEF OnSigterm, Cancel
<1>3. ShutdownTypeOK /\ CancelsAreCounted /\ CountedInMain /\ CountedInCleanup /\ Unstruck
      /\ Reported
  BY DEF EndsInv, Counted
<1>4. cancelling \in Nat /\ interrupts \in Nat /\ outstanding \in BOOLEAN /\ pending \in BOOLEAN
  BY <1>3 DEF ShutdownTypeOK
<1>5. ShutdownTypeOK'
  <2>1. outstanding' \in BOOLEAN /\ pending' \in BOOLEAN /\ cancelling' \in Nat
    <3>1. CASE UNCHANGED <<outstanding, pending, cancelling>>
      BY <1>4, <3>1
    <3>2. CASE outstanding' = TRUE /\ pending' = TRUE /\ cancelling' = cancelling + 1
      BY <1>4, <3>2
    <3> QED
      BY <1>2, <3>1, <3>2
  <2>2. exiting' \in BOOLEAN /\ sigterms' \in Nat
    BY <1>1, <1>3 DEF ShutdownTypeOK, ServerSet
  <2> QED
    BY <1>1, <1>3, <2>1, <2>2 DEF ShutdownTypeOK
<1>6. CASE InStartup /\ ~ outstanding /\ outstanding' = TRUE /\ pending' = TRUE
           /\ cancelling' = cancelling + 1
  <2>0. pc # "cleanup" /\ cancelling' >= 1
    BY <1>4, <1>6 DEF InStartup
  <2>1. CancelsAreCounted' /\ CountedInCleanup' /\ Unstruck'
    BY <1>1, <1>3, <2>0 DEF CancelsAreCounted, CountedInCleanup, Unstruck
  <2>2. CountedInMain'
    BY <1>1, <1>3, <1>4, <1>6 DEF CountedInMain, InStartup, One
  <2> QED
    BY <2>1, <2>2, <1>1, <1>3, <1>5, <1>6 DEF EndsInv, Counted, Reported, Polite, InStartup
<1>7. CASE UNCHANGED <<outstanding, pending, cancelling>>
  <2>1. CancelsAreCounted' /\ CountedInCleanup' /\ Unstruck'
    BY <1>1, <1>3, <1>7 DEF CancelsAreCounted, CountedInCleanup, Unstruck
  <2>2. CountedInMain'
    BY <1>1, <1>3, <1>7 DEF CountedInMain
  <2> QED
    BY <2>1, <2>2, <1>1, <1>3, <1>5, <1>7 DEF EndsInv, Counted, Reported, Polite
<1> QED
  BY <1>2, <1>6, <1>7

\* An interrupt that reaches the handler of the Runner.
LEMMA SigintKeepsEnds ==
  ASSUME EndsInv, OnSigint, InterruptsWereSent', Quiet,
         pc \notin {"boot", "serving", "exited"},
         captured' \in Seq({"TERM", "INT"}), terms' \in Nat, ints' \in Nat
  PROVE  EndsInv'
<1>1. /\ interrupts' = interrupts + 1
      /\ UNCHANGED <<outstanding, sigterms, exiting, held, step, waited, attempts>>
  BY DEF OnSigint, Quiet
<1>2. ShutdownTypeOK /\ CancelsAreCounted /\ CountedInMain /\ CountedInCleanup /\ Unstruck
      /\ Reported
  BY DEF EndsInv, Counted
<1>3. cancelling \in Nat /\ interrupts \in Nat /\ outstanding \in BOOLEAN /\ pending \in BOOLEAN
      /\ teardown \in BOOLEAN
  BY <1>2 DEF ShutdownTypeOK
<1>4. interrupts' \in Nat /\ interrupts' > 0
  BY <1>1, <1>3
<1>5. ASSUME interrupts = 0, Cancel,
             UNCHANGED <<pc, raising, inner, struck, writer, task, teardown, forced, status>>
      PROVE  EndsInv'
  <2>1. pending' = TRUE /\ cancelling' = cancelling + 1
    BY <1>5 DEF Cancel
  <2>2. ShutdownTypeOK'
    BY <1>1, <1>2, <1>3, <1>4, <1>5, <2>1 DEF ShutdownTypeOK
  <2>3. CancelsAreCounted' /\ Unstruck'
    BY <1>1, <1>2, <1>3, <1>5, <2>1 DEF CancelsAreCounted, Unstruck
  <2>4. CountedInMain'
    BY <1>1, <1>2, <1>3, <1>5, <2>1 DEF CountedInMain, One
  <2>5. CountedInCleanup'
    BY <1>1, <1>2, <1>3, <1>5, <2>1 DEF CountedInCleanup, One
  <2>6. Reported'
    BY <1>2, <1>5 DEF Reported, Polite
  <2> QED
    BY <2>2, <2>3, <2>4, <2>5, <2>6 DEF EndsInv, Counted
<1>6. ASSUME teardown, Abandons
      PROVE  EndsInv'
  <2>1. pc' = "exited" /\ forced' = TRUE /\ status' = "interrupted"
        /\ UNCHANGED <<raising, pending, cancelling, inner, struck, writer, task, teardown>>
    BY <1>6 DEF Abandons
  <2>2. ShutdownTypeOK'
    BY <1>1, <1>2, <1>4, <2>1 DEF ShutdownTypeOK, Pcs, Ends
  <2>3. Counted'
    BY <1>2, <1>6, <2>1 DEF Counted, CancelsAreCounted, CountedInMain, CountedInCleanup, Unstruck
  <2>4. Reported'
    BY <1>6, <2>1 DEF Reported, Polite
  <2> QED
    BY <2>2, <2>3, <2>4 DEF EndsInv
<1>7. ASSUME interrupts > 0, BreaksMain
      PROVE  EndsInv'
  <2>1. /\ pc \in {"startup", "checked", "gate", "entering", "replay", "absorb"}
        /\ \/ pc' = "absorb" /\ raising' = "interrupt" /\ UNCHANGED <<forced, status>>
              /\ pc # "absorb"
           \/ pc' = "exited" /\ forced' = TRUE /\ status' = "interrupted" /\ raising' = raising
        /\ UNCHANGED <<pending, cancelling, inner, struck, writer, task, teardown>>
    BY <1>7 DEF BreaksMain, MainEnds
  <2>2. ShutdownTypeOK'
    <3>1. pc' \in Pcs /\ raising' \in Raised /\ forced' \in BOOLEAN /\ status' \in Ends
      BY <1>2, <2>1 DEF ShutdownTypeOK, Pcs, Raised, Ends
    <3> QED
      BY <1>1, <1>2, <1>4, <2>1, <3>1 DEF ShutdownTypeOK
  <2>3. inner = "none"
    BY <1>2, <2>1 DEF CountedInMain
  <2>4. CancelsAreCounted' /\ CountedInCleanup' /\ Unstruck'
    BY <1>1, <1>2, <2>1, <2>3 DEF CancelsAreCounted, CountedInCleanup, Unstruck
  <2>5. CountedInMain'
    BY <1>1, <1>2, <1>3, <1>7, <2>1 DEF CountedInMain, One
  <2>6. Reported'
    BY <1>2, <2>1, <2>3 DEF Reported, Polite
  <2> QED
    BY <2>2, <2>4, <2>5, <2>6 DEF EndsInv, Counted
<1>8. ASSUME interrupts > 0, BreaksLoop
      PROVE  EndsInv'
  <2>1. /\ pc \in {"startup", "gate", "absorb", "cleanup"}
        /\ teardown' = TRUE /\ forced' = TRUE /\ writer' = FALSE
        /\ pending' = TRUE /\ cancelling' = cancelling + 1
        /\ inner' = inner \/ (inner = "running" /\ inner' = "failed")
        /\ UNCHANGED <<pc, raising, status>>
    BY <1>8 DEF BreaksLoop, Cancel
  <2>2. ShutdownTypeOK'
    <3>1. struck' \in BOOLEAN /\ task' \in {"none", "up", "dead", "cancelled"}
          /\ inner' \in {"none", "running", "done", "failed", "cancelled"}
      BY <1>2, <1>8 DEF ShutdownTypeOK, BreaksLoop
    <3>2. /\ pending' \in BOOLEAN /\ teardown' \in BOOLEAN /\ forced' \in BOOLEAN
          /\ writer' \in BOOLEAN
      BY <2>1
    <3>4. cancelling' \in Nat
      <4>1. cancelling' = cancelling + 1
        BY <2>1
      <4> QED
        BY <1>3, <4>1
    <3>3. UNCHANGED <<pc, raising, status, outstanding, sigterms, exiting, held, step, waited,
                      attempts>>
      BY <1>1, <2>1
    <3> QED
      BY <1>2, <1>4, <3>1, <3>2, <3>3, <3>4 DEF ShutdownTypeOK
  <2>3. Counted'
    BY <1>1, <1>2, <1>3, <2>1
       DEF Counted, CancelsAreCounted, CountedInMain, CountedInCleanup, Unstruck
  <2>4. Reported'
    BY <1>2, <2>1 DEF Reported, Polite
  <2> QED
    BY <2>2, <2>3, <2>4 DEF EndsInv
<1> QED
  BY <1>3, <1>5, <1>6, <1>7, <1>8 DEF OnSigint

\* The signals as they arrive, and as uvicorn replays them.
LEMMA SignalsKeepEnds ==
  ASSUME EndsInv, SigTerm \/ SigInt
  PROVE  EndsInv'
<1>1. ShutdownTypeOK /\ InterruptsWereSent /\ Counted /\ Reported
  BY DEF EndsInv
<1>2. /\ pc # "exited" /\ Quiet /\ terms' \in Nat /\ ints' \in Nat /\ ints' >= ints
      /\ captured \in Seq({"TERM", "INT"}) /\ ints \in Nat
      /\ SigInt => ints' > 0
      /\ SigTerm => terms' = terms + 1
  BY <1>1 DEF SigTerm, SigInt, ShutdownTypeOK
<1>3. ASSUME NEW sig \in {"TERM", "INT"}, sig = "INT" => ints' > 0, Captured(sig), pc = "serving"
      PROVE  EndsInv'
  <2>1. /\ captured' = Append(captured, sig) /\ exiting' = TRUE
        /\ UNCHANGED <<pc, raising, pending, cancelling, outstanding, sigterms, interrupts, held,
                       inner, step, struck, writer, waited, task, attempts, teardown, forced,
                       status>>
    BY <1>2, <1>3 DEF Captured, Quiet, mainVars, handlerVars, endVars
  <2>2. captured' \in Seq({"TERM", "INT"})
    BY <1>2, <2>1
  <2>3. ShutdownTypeOK'
    BY <1>1, <1>2, <2>1, <2>2 DEF ShutdownTypeOK
  <2>4. InterruptsWereSent'
    <3>1. interrupts > 0 \/ raising = "interrupt" => ints' > 0
      BY <1>1, <1>2 DEF InterruptsWereSent
    <3>2. ASSUME NEW i \in 1 .. Len(captured'), captured'[i] = "INT"
          PROVE  ints' > 0
      BY <1>1, <1>2, <1>3, <2>1, <3>2 DEF InterruptsWereSent
    <3> QED
      BY <2>1, <3>1, <3>2 DEF InterruptsWereSent
  <2>5. Counted'
    BY <1>1, <2>1
       DEF Counted, CancelsAreCounted, CountedInMain, CountedInCleanup, Unstruck
  <2>6. Reported'
    BY <1>1, <1>3, <2>1 DEF Reported, Polite
  <2> QED
    BY <2>3, <2>4, <2>5, <2>6 DEF EndsInv
<1>4. ASSUME NEW how \in {"killed", "interrupted"}, BootEnds(how), pc = "boot", captured' = captured
      PROVE  EndsInv'
  <2>1. /\ pc' = "exited" /\ status' = how
        /\ UNCHANGED <<raising, pending, cancelling, outstanding, sigterms, interrupts, captured,
                       exiting, held, inner, step, struck, writer, waited, task, attempts,
                       teardown, forced>>
    BY <1>2, <1>4 DEF BootEnds, Quiet, handlerVars
  <2>2. inner = "none"
    BY <1>1, <1>4 DEF Counted, CountedInMain
  <2>3. ShutdownTypeOK'
    BY <1>1, <1>2, <1>4, <2>1 DEF ShutdownTypeOK, Pcs, Ends
  <2>4. InterruptsWereSent'
    BY <1>1, <1>2, <2>1 DEF InterruptsWereSent
  <2>5. Counted'
    BY <1>1, <2>1, <2>2
       DEF Counted, CancelsAreCounted, CountedInMain, CountedInCleanup, Unstruck
  <2>6. Reported'
    BY <1>4, <2>1, <2>2 DEF Reported, Polite
  <2> QED
    BY <2>3, <2>4, <2>5, <2>6 DEF EndsInv
<1>5. CASE SigTerm
  <2>1. ints' = ints
    BY <1>5 DEF SigTerm
  <2>2. CASE /\ pc \notin {"boot", "serving"} /\ OnSigterm
             /\ UNCHANGED <<pc, raising, captured, inner, struck, writer, task, endVars>>
    <3>1. interrupts' = interrupts /\ captured' = captured /\ raising' = raising
      BY <2>2 DEF OnSigterm
    <3>2. InterruptsWereSent'
      BY <1>1, <2>1, <3>1 DEF InterruptsWereSent
    <3> QED
      BY <1>2, <2>2, <3>1, <3>2, SigtermKeepsEnds
  <2> QED
    BY <1>2, <1>3, <1>4, <1>5, <2>2 DEF SigTerm
<1>6. CASE SigInt
  <2>1. CASE pc \notin {"boot", "serving"} /\ OnSigint /\ captured' = captured
    <3>1. InterruptsWereSent'
      BY <1>2, <1>6, <2>1 DEF InterruptsWereSent
    <3> QED
      BY <1>2, <2>1, <3>1, SigintKeepsEnds
  <2> QED
    BY <1>2, <1>3, <1>4, <1>6, <2>1 DEF SigInt
<1> QED
  BY <1>5, <1>6

LEMMA ReplayKeepsEnds ==
  ASSUME EndsInv, Replay
  PROVE  EndsInv'
<1>1. ShutdownTypeOK /\ InterruptsWereSent
  BY DEF EndsInv
<1>2. /\ pc = "replay" /\ Quiet /\ captured # <<>>
      /\ captured' = SubSeq(captured, 1, Len(captured) - 1)
      /\ terms' = terms /\ ints' = ints
  BY DEF Replay, sentVars
<1>3. /\ captured \in Seq({"TERM", "INT"}) /\ terms \in Nat /\ ints \in Nat
      /\ interrupts \in Nat
  BY <1>1 DEF ShutdownTypeOK
<1>4. /\ captured' \in Seq({"TERM", "INT"}) /\ Len(captured) \in Nat /\ Len(captured) > 0
      /\ Len(captured') = Len(captured) - 1
      /\ \A i \in 1 .. Len(captured') : captured'[i] = captured[i]
  <2>1. Len(captured) \in Nat /\ Len(captured) > 0
    BY <1>2, <1>3
  <2> DEFINE n == Len(captured) - 1
  <2>2. n \in Nat /\ n \in 0 .. Len(captured)
    BY <2>1
  <2>3. captured' = SubSeq(captured, 1, n)
    BY <1>2
  <2> HIDE DEF n
  <2>4. /\ captured' \in Seq({"TERM", "INT"}) /\ Len(captured') = n
        /\ \A i \in 1 .. n : captured'[i] = captured[i]
    BY <1>3, <2>1, <2>2, <2>3
  <2> QED
    BY <2>1, <2>4 DEF n
<1>5. \A i \in 1 .. Len(captured') : captured'[i] = "INT" => ints' > 0
  BY <1>1, <1>2, <1>4 DEF InterruptsWereSent
<1>6. CASE OnSigterm /\ UNCHANGED <<pc, raising, inner, struck, writer, task, endVars>>
  <2>1. InterruptsWereSent'
    <3>1. interrupts' = interrupts /\ raising' = raising
      BY <1>6 DEF OnSigterm
    <3> QED
      BY <1>1, <1>2, <1>5, <3>1 DEF InterruptsWereSent
  <2> QED
    BY <1>2, <1>3, <1>4, <1>6, <2>1, SigtermKeepsEnds
<1>7. CASE captured[Len(captured)] # "TERM" /\ OnSigint
  <2>1. captured[Len(captured)] = "INT" /\ Len(captured) \in 1 .. Len(captured)
    BY <1>3, <1>4, <1>7
  <2>2. ints > 0
    BY <1>1, <2>1 DEF InterruptsWereSent
  <2>3. InterruptsWereSent'
    BY <1>2, <1>5, <2>2 DEF InterruptsWereSent
  <2> QED
    BY <1>2, <1>3, <1>4, <1>7, <2>3, SigintKeepsEnds
<1> QED
  BY <1>6, <1>7 DEF Replay

THEOREM EndsInvariant == ShutdownSpec => []EndsInv
<1>1. EndsInv /\ UNCHANGED shutdownVars => EndsInv'
  <2> SUFFICES ASSUME EndsInv, UNCHANGED shutdownVars PROVE EndsInv'
    OBVIOUS
  <2>1. ShutdownTypeOK' /\ Aside
    BY DEF EndsInv, ShutdownTypeOK, Aside, shutdownVars, mainVars, handlerVars, serverVars,
           cleanupVars, taskVars, endVars, sentVars
  <2> QED
    BY <2>1, AsideKeepsEnds
<1>2. EndsInv /\ ShutdownNext => EndsInv'
  BY TasksKeepEnds, GoingKeepsEnds, MainEndsKeepsEnds, AbsorbKeepsEnds, ExitKeepsEnds,
     SignalsKeepEnds, ReplayKeepsEnds
     DEF ShutdownNext, Starting, MainStep
<1> QED
  BY EndsInit, <1>1, <1>2, PTL DEF ShutdownSpec

\* What the process reports is what happened to it (shutdown.py:165-241, cli.py:150-175).
THEOREM ExitIsTold == ShutdownSpec => []ExitTellsWhatHappened
<1>1. EndsInv => ExitTellsWhatHappened
  BY DEF EndsInv, Reported, ExitTellsWhatHappened
<1> QED
  BY EndsInvariant, <1>1, PTL
-----------------------------------------------------------------------------
(* The last frame of a queue that belongs to a set of frames *)

\* What the server may send.
Frame ==
    [t : {"hello"}, markets : SUBSET Markets]
        \cup [t : {"book"}, market : Markets, book : Content]
        \cup [t : {"arb"}, quotes : UNION {[M -> Content] : M \in SUBSET Markets}]
        \cup [t : {"control"}, control : Nat]
        \cup [t : {"other"}]

IsLast(q, K, i) ==
    /\ i \in 0 .. Len(q)
    /\ i # 0 => q[i] \in K
    /\ \A j \in i + 1 .. Len(q) : q[j] \notin K

\* Zero where none does.
LastIn(q, K) == CHOOSE i \in 0 .. Len(q) : IsLast(q, K, i)

LEMMA LeastOf ==
    ASSUME NEW T \in SUBSET Nat, T # {}
    PROVE  \E x \in T : \A y \in T : x <= y
<1>1. PICK x \in T : \A y \in T : ~ (<<y, x>> \in OpToRel(<, Nat))
    BY NatLessThanWellFounded, WFMin
<1>2. \A y \in T : ~ (y < x)
    BY <1>1 DEF OpToRel
<1> QED BY <1>2

LEMMA LastNat ==
    ASSUME NEW n \in Nat, NEW T \in SUBSET (0 .. n), T # {}
    PROVE  \E x \in T : \A y \in T : y <= x
<1> DEFINE U == {n - x : x \in T}
<1>1. U \subseteq Nat /\ U # {}
    <2>1. \A x \in T : n - x \in Nat
        OBVIOUS
    <2>2. PICK x \in T : TRUE
        OBVIOUS
    <2>3. n - x \in U
        OBVIOUS
    <2> QED BY <2>1, <2>3
<1>2. \E u \in U : \A w \in U : ~ (<<w, u>> \in OpToRel(<, Nat))
    <2> HIDE DEF U
    <2> QED BY <1>1, NatLessThanWellFounded, WFMin
<1>3. PICK u \in U : \A w \in U : ~ (w < u)
    BY <1>1, <1>2 DEF OpToRel
<1>4. PICK x \in T : u = n - x
    OBVIOUS
<1>5. \A y \in T : ~ (n - y < n - x)
    BY <1>3, <1>4
<1> QED BY <1>5

LEMMA LastExists ==
    ASSUME NEW q \in Seq(Frame), NEW K
    PROVE  IsLast(q, K, LastIn(q, K))
<1> DEFINE H == {i \in 1 .. Len(q) : q[i] \in K}
<1>1. CASE H = {}
    <2>1. IsLast(q, K, 0)
        BY <1>1 DEF IsLast
    <2> QED BY <2>1 DEF LastIn
<1>2. CASE H # {}
    <2>1. H \in SUBSET (0 .. Len(q)) /\ Len(q) \in Nat
        OBVIOUS
    <2>2. PICK i \in H : \A j \in H : j <= i
        <3> HIDE DEF H
        <3> QED BY <1>2, <2>1, LastNat
    <2>3. IsLast(q, K, i)
        BY <2>2 DEF IsLast
    <2>4. i \in 0 .. Len(q)
        BY <2>2
    <2> QED BY <2>3, <2>4 DEF LastIn
<1> QED BY <1>1, <1>2

LEMMA LastIsUnique ==
    ASSUME NEW q \in Seq(Frame), NEW K, NEW i, IsLast(q, K, i)
    PROVE  LastIn(q, K) = i
<1> DEFINE l == LastIn(q, K)
<1>1. IsLast(q, K, l)
    BY LastExists
<1> HIDE DEF l
<1>2. Len(q) \in Nat /\ l \in 0 .. Len(q) /\ i \in 0 .. Len(q)
    BY <1>1 DEF IsLast
<1>3. ~ (i < l) /\ ~ (l < i)
    BY <1>1, <1>2 DEF IsLast
<1> QED BY <1>2, <1>3 DEF l

\* Of two parts of a queue the later one decides.
LEMMA LastOfConcat ==
    ASSUME NEW q \in Seq(Frame), NEW r \in Seq(Frame), NEW K
    PROVE  /\ LastIn(r, K) = 0 => LastIn(q \o r, K) = LastIn(q, K)
           /\ LastIn(r, K) # 0 => LastIn(q \o r, K) = Len(q) + LastIn(r, K)
<1>1. q \o r \in Seq(Frame) /\ Len(q \o r) = Len(q) + Len(r)
      /\ Len(q) \in Nat /\ Len(r) \in Nat
    OBVIOUS
<1>2. \A i \in 1 .. Len(q) : (q \o r)[i] = q[i]
    OBVIOUS
<1>3. \A i \in Len(q) + 1 .. Len(q) + Len(r) : (q \o r)[i] = r[i - Len(q)]
    OBVIOUS
<1>4. IsLast(q, K, LastIn(q, K)) /\ IsLast(r, K, LastIn(r, K))
    BY LastExists
<1>5. ASSUME LastIn(r, K) = 0
      PROVE  LastIn(q \o r, K) = LastIn(q, K)
    <2> DEFINE l == LastIn(q, K)
    <2>1. l \in 0 .. Len(q) /\ (l # 0 => q[l] \in K)
          /\ \A j \in l + 1 .. Len(q) : q[j] \notin K
        BY <1>4 DEF IsLast
    <2>2. \A j \in 1 .. Len(r) : r[j] \notin K
        BY <1>4, <1>5 DEF IsLast
    <2> HIDE DEF l
    <2>3. \A j \in l + 1 .. Len(q) + Len(r) : (q \o r)[j] \notin K
        <3> SUFFICES ASSUME NEW j \in l + 1 .. Len(q) + Len(r) PROVE (q \o r)[j] \notin K
            OBVIOUS
        <3>1. CASE j <= Len(q)
            BY <1>1, <1>2, <2>1, <3>1
        <3>2. CASE j > Len(q)
            <4>1. j - Len(q) \in 1 .. Len(r) /\ j \in Len(q) + 1 .. Len(q) + Len(r)
                BY <1>1, <2>1, <3>2
            <4> QED BY <1>3, <2>2, <4>1
        <3> QED BY <1>1, <2>1, <3>1, <3>2
    <2>4. l # 0 => (q \o r)[l] \in K
        BY <1>1, <1>2, <2>1
    <2>5. l \in 0 .. Len(q \o r)
        BY <1>1, <2>1
    <2>6. IsLast(q \o r, K, l)
        BY <1>1, <2>3, <2>4, <2>5 DEF IsLast
    <2> QED BY <1>1, <2>6, LastIsUnique DEF l
<1>6. ASSUME LastIn(r, K) # 0
      PROVE  LastIn(q \o r, K) = Len(q) + LastIn(r, K)
    <2> DEFINE l == LastIn(r, K)
    <2>1. l \in 1 .. Len(r) /\ r[l] \in K
          /\ \A j \in l + 1 .. Len(r) : r[j] \notin K
        BY <1>4, <1>6 DEF IsLast
    <2> HIDE DEF l
    <2>2. (q \o r)[Len(q) + l] \in K
        <3>1. Len(q) + l \in Len(q) + 1 .. Len(q) + Len(r) /\ Len(q) + l - Len(q) = l
            BY <1>1, <2>1
        <3> QED BY <1>3, <2>1, <3>1
    <2>3. \A j \in Len(q) + l + 1 .. Len(q) + Len(r) : (q \o r)[j] \notin K
        <3> SUFFICES ASSUME NEW j \in Len(q) + l + 1 .. Len(q) + Len(r)
                     PROVE  (q \o r)[j] \notin K
            OBVIOUS
        <3>1. j - Len(q) \in l + 1 .. Len(r) /\ j \in Len(q) + 1 .. Len(q) + Len(r)
            BY <1>1, <2>1
        <3> QED BY <1>3, <2>1, <3>1
    <2>4. Len(q) + l \in 0 .. Len(q \o r)
        BY <1>1, <2>1
    <2>5. IsLast(q \o r, K, Len(q) + l)
        BY <1>1, <2>2, <2>3, <2>4 DEF IsLast
    <2> QED BY <1>1, <2>5, LastIsUnique DEF l
<1> QED BY <1>5, <1>6

-----------------------------------------------------------------------------
(* What a tab shows in the end *)

HelloKind == [t : {"hello"}, markets : SUBSET Markets]
ArbKind == [t : {"arb"}, quotes : UNION {[M -> Content] : M \in SUBSET Markets}]
ControlKind == [t : {"control"}, control : Nat]

\* The frames that set what a tab shows of market m, and what they set it to.
About(m) == {f \in Frame : \/ f.t = "book" /\ f.market = m
                           \/ f.t = "hello" /\ m \notin f.markets}

Given(f) == IF f.t = "book" THEN f.book ELSE None

\* What becomes of d, shown now, by the frames of q.
KnownEnd(q, d) ==
    IF LastIn(q, HelloKind) = 0 THEN d ELSE q[LastIn(q, HelloKind)].markets
QuotesEnd(q, d) ==
    IF LastIn(q, ArbKind) = 0 THEN d ELSE q[LastIn(q, ArbKind)].quotes
ControlEnd(q, d) ==
    IF LastIn(q, ControlKind) = 0 THEN d ELSE q[LastIn(q, ControlKind)].control
BookEnd(q, m, d) ==
    IF LastIn(q, About(m)) = 0 THEN d ELSE Given(q[LastIn(q, About(m))])

\* Tab w is what v becomes by the frames of q.
Agrees(w, q, v) ==
    /\ w.known = KnownEnd(q, v.known)
    /\ w.quotes = QuotesEnd(q, v.quotes)
    /\ w.control = ControlEnd(q, v.control)
    /\ \A m \in Markets : w.books[m] = BookEnd(q, m, v.books[m])

LEMMA ConcatIndex ==
    ASSUME NEW q \in Seq(Frame), NEW r \in Seq(Frame), NEW K, LastIn(r, K) # 0
    PROVE  (q \o r)[LastIn(q \o r, K)] = r[LastIn(r, K)]
<1>1. LastIn(q \o r, K) = Len(q) + LastIn(r, K)
    BY LastOfConcat
<1>2. LastIn(r, K) \in 1 .. Len(r) /\ Len(q) \in Nat
    BY LastExists DEF IsLast
<1>3. (q \o r)[Len(q) + LastIn(r, K)] = r[LastIn(r, K)]
    <2> DEFINE l == LastIn(r, K)
    <2>1. l \in 1 .. Len(r) /\ Len(q) \in Nat
        BY <1>2
    <2> HIDE DEF l
    <2>2. (q \o r)[Len(q) + l] = r[l]
        BY <2>1
    <2> QED BY <2>2 DEF l
<1> QED BY <1>1, <1>3

LEMMA ConcatStays ==
    ASSUME NEW q \in Seq(Frame), NEW r \in Seq(Frame), NEW K, LastIn(r, K) = 0,
           LastIn(q, K) # 0
    PROVE  (q \o r)[LastIn(q \o r, K)] = q[LastIn(q, K)]
<1>1. LastIn(q \o r, K) = LastIn(q, K)
    BY LastOfConcat
<1> DEFINE l == LastIn(q, K)
<1>2. l \in 1 .. Len(q)
    BY LastExists DEF IsLast
<1> HIDE DEF l
<1>3. (q \o r)[l] = q[l]
    BY <1>2
<1> QED BY <1>1, <1>3 DEF l

\* The frames of a queue do one after the other what they do together.
LEMMA EndsOfConcat ==
    ASSUME NEW q \in Seq(Frame), NEW r \in Seq(Frame), NEW d
    PROVE  /\ KnownEnd(q \o r, d) = KnownEnd(r, KnownEnd(q, d))
           /\ QuotesEnd(q \o r, d) = QuotesEnd(r, QuotesEnd(q, d))
           /\ ControlEnd(q \o r, d) = ControlEnd(r, ControlEnd(q, d))
           /\ \A m : BookEnd(q \o r, m, d) = BookEnd(r, m, BookEnd(q, m, d))
<1>1. \A K : LastIn(r, K) = 0 => LastIn(q \o r, K) = LastIn(q, K)
    BY LastOfConcat
<1>2. \A K : LastIn(r, K) # 0 =>
                LastIn(q \o r, K) # 0 /\ (q \o r)[LastIn(q \o r, K)] = r[LastIn(r, K)]
    <2> SUFFICES ASSUME NEW K, LastIn(r, K) # 0
                 PROVE  LastIn(q \o r, K) # 0
                        /\ (q \o r)[LastIn(q \o r, K)] = r[LastIn(r, K)]
        OBVIOUS
    <2>1. LastIn(r, K) \in Nat /\ Len(q) \in Nat
        BY LastExists DEF IsLast
    <2>2. LastIn(q \o r, K) = Len(q) + LastIn(r, K)
        BY LastOfConcat
    <2>3. LastIn(q \o r, K) # 0
        BY <2>1, <2>2
    <2> QED BY <2>3, ConcatIndex
<1>3. \A K : LastIn(r, K) = 0 /\ LastIn(q, K) # 0 =>
                (q \o r)[LastIn(q \o r, K)] = q[LastIn(q, K)]
    BY ConcatStays
<1>4. KnownEnd(q \o r, d) = KnownEnd(r, KnownEnd(q, d))
    BY <1>1, <1>2, <1>3, Zenon DEF KnownEnd
<1>5. QuotesEnd(q \o r, d) = QuotesEnd(r, QuotesEnd(q, d))
    BY <1>1, <1>2, <1>3, Zenon DEF QuotesEnd
<1>6. ControlEnd(q \o r, d) = ControlEnd(r, ControlEnd(q, d))
    BY <1>1, <1>2, <1>3, Zenon DEF ControlEnd
<1>7. ASSUME NEW m PROVE BookEnd(q \o r, m, d) = BookEnd(r, m, BookEnd(q, m, d))
    BY <1>1, <1>2, <1>3, Zenon DEF BookEnd
<1> QED BY <1>4, <1>5, <1>6, <1>7

LEMMA AgreesOfConcat ==
    ASSUME NEW q \in Seq(Frame), NEW r \in Seq(Frame), NEW v, NEW w, NEW x,
           Agrees(w, q, v), Agrees(x, r, w)
    PROVE  Agrees(x, q \o r, v)
<1>1. /\ x.known = KnownEnd(q \o r, v.known)
      /\ x.quotes = QuotesEnd(q \o r, v.quotes)
      /\ x.control = ControlEnd(q \o r, v.control)
    <2>1. \A d : /\ KnownEnd(q \o r, d) = KnownEnd(r, KnownEnd(q, d))
                 /\ QuotesEnd(q \o r, d) = QuotesEnd(r, QuotesEnd(q, d))
                 /\ ControlEnd(q \o r, d) = ControlEnd(r, ControlEnd(q, d))
        BY EndsOfConcat
    <2> QED BY <2>1, Zenon DEF Agrees
<1>2. ASSUME NEW m \in Markets PROVE x.books[m] = BookEnd(q \o r, m, v.books[m])
    <2>1. \A d : \A n : BookEnd(q \o r, n, d) = BookEnd(r, n, BookEnd(q, n, d))
        BY EndsOfConcat, Zenon
    <2>2. w.books[m] = BookEnd(q, m, v.books[m]) /\ x.books[m] = BookEnd(r, m, w.books[m])
        BY DEF Agrees
    <2> QED BY <2>1, <2>2
<1> QED BY <1>1, <1>2 DEF Agrees

LEMMA LastOfOne ==
    ASSUME NEW f \in Frame, NEW K
    PROVE  LastIn(<<f>>, K) = IF f \in K THEN 1 ELSE 0
<1>1. <<f>> \in Seq(Frame) /\ Len(<<f>>) = 1 /\ <<f>>[1] = f
    OBVIOUS
<1>2. CASE f \in K
    <2>1. IsLast(<<f>>, K, 1)
        BY <1>1, <1>2 DEF IsLast
    <2> QED BY <1>1, <1>2, <2>1, LastIsUnique
<1>3. CASE f \notin K
    <2>1. IsLast(<<f>>, K, 0)
        BY <1>1, <1>3 DEF IsLast
    <2> QED BY <1>1, <1>3, <2>1, LastIsUnique
<1> QED BY <1>2, <1>3

\* What onHello, onBook and the others do to a tab.
LEMMA ShownIsView ==
    ASSUME NEW v \in View, NEW f \in Frame
    PROVE  /\ Shown(v, f) \in View
           /\ Agrees(Shown(v, f), <<f>>, v)
<1> DEFINE w == Shown(v, f)
<1>1. /\ v.books \in [Markets -> Content] /\ v.known \in SUBSET Markets
      /\ v.quotes \in UNION {[M -> Content] : M \in SUBSET Markets}
      /\ v.control \in Nat
      /\ v = [books |-> v.books, known |-> v.known, quotes |-> v.quotes,
              control |-> v.control]
    BY DEF View
<1>2. /\ KnownEnd(<<f>>, v.known) = IF f \in HelloKind THEN f.markets ELSE v.known
      /\ QuotesEnd(<<f>>, v.quotes) = IF f \in ArbKind THEN f.quotes ELSE v.quotes
      /\ ControlEnd(<<f>>, v.control) = IF f \in ControlKind THEN f.control ELSE v.control
      /\ \A m \in Markets : BookEnd(<<f>>, m, v.books[m]) =
                                IF f \in About(m) THEN Given(f) ELSE v.books[m]
    <2>1. \A K : LastIn(<<f>>, K) = IF f \in K THEN 1 ELSE 0
        BY LastOfOne
    <2>2. <<f>>[1] = f
        OBVIOUS
    <2> QED BY <2>1, <2>2 DEF KnownEnd, QuotesEnd, ControlEnd, BookEnd
<1>3. CASE f.t = "hello"
    <2>1. /\ f \in HelloKind /\ f.markets \in SUBSET Markets
          /\ f \notin ArbKind /\ f \notin ControlKind
        BY <1>3 DEF Frame, HelloKind, ArbKind, ControlKind
    <2>2. \A m : f \in About(m) <=> m \notin f.markets
        BY <1>3 DEF About
    <2>3. w = [v EXCEPT !.known = f.markets,
                        !.books = [m \in Markets |-> IF m \in f.markets THEN v.books[m] ELSE None]]
        BY <1>3 DEF Shown
    <2>4. /\ w.known = f.markets /\ w.quotes = v.quotes /\ w.control = v.control
          /\ w.books = [m \in Markets |-> IF m \in f.markets THEN v.books[m] ELSE None]
        BY <1>1, <2>3
    <2>5. Given(f) = None
        BY <1>3 DEF Given
    <2>6. None \in Content
        BY FanoutAssumption DEF None, Content
    <2>7. w = [books |-> w.books, known |-> w.known, quotes |-> w.quotes,
               control |-> w.control]
        BY <1>1, <2>3
    <2>8. w \in View
        BY <1>1, <2>1, <2>4, <2>6, <2>7 DEF View
    <2>9. Agrees(w, <<f>>, v)
        BY <1>2, <2>1, <2>2, <2>4, <2>5 DEF Agrees
    <2> QED BY <2>8, <2>9
<1>4. CASE f.t = "book"
    <2>1. f.market \in Markets /\ f.book \in Content
          /\ f \notin HelloKind /\ f \notin ArbKind /\ f \notin ControlKind
        BY <1>4 DEF Frame, HelloKind, ArbKind, ControlKind
    <2>2. \A m : f \in About(m) <=> m = f.market
        BY <1>4 DEF About
    <2>3. w = [v EXCEPT !.books[f.market] = f.book]
        BY <1>4 DEF Shown
    <2>4. /\ w.known = v.known /\ w.quotes = v.quotes /\ w.control = v.control
          /\ w.books = [v.books EXCEPT ![f.market] = f.book]
        BY <1>1, <2>3
    <2>5. w = [books |-> w.books, known |-> w.known, quotes |-> w.quotes,
               control |-> w.control]
        BY <1>1, <2>3
    <2>6. w \in View
        BY <1>1, <2>1, <2>4, <2>5 DEF View
    <2>7. \A m \in Markets : w.books[m] = IF m = f.market THEN f.book ELSE v.books[m]
        BY <1>1, <2>4
    <2>8. Given(f) = f.book
        BY <1>4 DEF Given
    <2>9. Agrees(w, <<f>>, v)
        BY <1>2, <2>1, <2>2, <2>4, <2>7, <2>8 DEF Agrees
    <2> QED BY <2>6, <2>9
<1>5. CASE f.t \in {"arb", "control", "other"}
    <2>1. \A m : f \notin About(m)
        BY <1>5 DEF About
    <2>2. f \notin HelloKind
        BY <1>5 DEF HelloKind
    <2>3. CASE f.t = "arb"
        <3>1. f \in ArbKind /\ f \notin ControlKind
              /\ f.quotes \in UNION {[M -> Content] : M \in SUBSET Markets}
            BY <2>3 DEF Frame, ArbKind, ControlKind
        <3>2. w = [v EXCEPT !.quotes = f.quotes]
            BY <2>3 DEF Shown
        <3>3. /\ w.known = v.known /\ w.quotes = f.quotes /\ w.control = v.control
              /\ w.books = v.books
            BY <1>1, <3>2
        <3>4. w \in View
            BY <1>1, <3>1, <3>2 DEF View
        <3> QED BY <1>2, <2>1, <2>2, <3>1, <3>3, <3>4 DEF Agrees
    <2>4. CASE f.t = "control"
        <3>1. f \in ControlKind /\ f \notin ArbKind /\ f.control \in Nat
            BY <2>4 DEF Frame, ArbKind, ControlKind
        <3>2. w = [v EXCEPT !.control = f.control]
            BY <2>4 DEF Shown
        <3>3. /\ w.known = v.known /\ w.quotes = v.quotes /\ w.control = f.control
              /\ w.books = v.books
            BY <1>1, <3>2
        <3>4. w \in View
            BY <1>1, <3>1, <3>2 DEF View
        <3> QED BY <1>2, <2>1, <2>2, <3>1, <3>3, <3>4 DEF Agrees
    <2>5. CASE f.t = "other"
        <3>1. f \notin ControlKind /\ f \notin ArbKind
            BY <2>5 DEF ArbKind, ControlKind
        <3>2. w = v
            BY <2>5 DEF Shown
        <3> QED BY <1>2, <2>1, <2>2, <3>1, <3>2 DEF Agrees
    <2> QED BY <1>5, <2>3, <2>4, <2>5
<1>6. f.t \in {"hello", "book", "arb", "control", "other"}
    BY DEF Frame
<1> QED BY <1>3, <1>4, <1>5, <1>6

\* The tab after each frame of a queue.
IsRun(v, q, f) ==
    f = [n \in 0 .. Len(q) |-> IF n = 0 THEN v ELSE Shown(f[n - 1], q[n])]

\* A queue can be read to its end: a run of n frames goes on to one more.
LEMMA RunExists ==
    ASSUME NEW v, NEW q \in Seq(Frame)
    PROVE  \E f : IsRun(v, q, f)
<1> DEFINE Upto(n, f) ==
               f = [k \in 0 .. n |-> IF k = 0 THEN v ELSE Shown(f[k - 1], q[k])]
           Bad == {n \in Nat : ~ \E f : Upto(n, f)}
<1>1. Len(q) \in Nat
    OBVIOUS
<1>2. ASSUME NEW n \in Bad, \A k \in Bad : n <= k
      PROVE  FALSE
    <2>1. n \in Nat /\ ~ \E f : Upto(n, f)
        OBVIOUS
    <2>2. CASE n = 0
        <3>1. Upto(n, [k \in 0 .. n |-> v])
            BY <2>2
        <3> QED BY <2>1, <3>1
    <2>3. CASE n # 0
        <3>1. n - 1 \in Nat /\ n - 1 \notin Bad
            <4>1. n - 1 \in Nat /\ ~ (n <= n - 1)
                BY <2>1, <2>3
            <4> HIDE DEF Bad
            <4> QED BY <1>2, <4>1
        <3>2. PICK g : Upto(n - 1, g)
            BY <3>1
        <3> DEFINE h == [k \in 0 .. n |-> IF k = n THEN Shown(g[n - 1], q[n]) ELSE g[k]]
        <3>3. \A k \in 0 .. n - 1 : /\ k \in 0 .. n /\ k # n
                                    /\ g[k] = IF k = 0 THEN v ELSE Shown(g[k - 1], q[k])
            BY <2>1, <3>2
        <3>4. \A k \in 0 .. n - 1 : h[k] = g[k]
            BY <3>3
        <3>5. \A k \in 0 .. n : h[k] = IF k = 0 THEN v ELSE Shown(h[k - 1], q[k])
            <4> SUFFICES ASSUME NEW k \in 0 .. n
                         PROVE  h[k] = IF k = 0 THEN v ELSE Shown(h[k - 1], q[k])
                OBVIOUS
            <4>1. CASE k = n
                <5>1. h[k] = Shown(g[n - 1], q[n])
                    BY <4>1
                <5>2. k - 1 \in 0 .. n - 1 /\ k # 0
                    BY <2>1, <2>3, <4>1
                <5>3. h[k - 1] = g[k - 1]
                    BY <3>4, <5>2
                <5> HIDE DEF h
                <5> QED BY <4>1, <5>1, <5>2, <5>3
            <4>2. CASE k # n /\ k = 0
                <5>1. k \in 0 .. n - 1
                    BY <2>1, <4>2
                <5>2. h[k] = g[k] /\ g[k] = v
                    BY <3>3, <3>4, <4>2, <5>1
                <5> HIDE DEF h
                <5> QED BY <4>2, <5>2
            <4>3. CASE k # n /\ k # 0
                <5>1. k \in 0 .. n - 1 /\ k - 1 \in 0 .. n - 1
                    BY <2>1, <4>3
                <5>2. h[k] = g[k] /\ g[k] = Shown(g[k - 1], q[k]) /\ h[k - 1] = g[k - 1]
                    BY <3>3, <3>4, <4>3, <5>1
                <5> HIDE DEF h
                <5> QED BY <4>3, <5>2
            <4> QED BY <4>1, <4>2, <4>3
        <3>6. h = [k \in 0 .. n |-> h[k]]
            OBVIOUS
        <3> HIDE DEF h
        <3>7. Upto(n, h)
            BY <3>5, <3>6
        <3> QED BY <2>1, <3>7
    <2> QED BY <2>2, <2>3
<1>3. Bad = {}
    <2> SUFFICES ASSUME Bad # {} PROVE FALSE
        OBVIOUS
    <2>1. Bad \in SUBSET Nat
        OBVIOUS
    <2> HIDE DEF Bad
    <2> QED BY <1>2, <2>1, LeastOf
<1>4. \E f : Upto(Len(q), f)
    BY <1>1, <1>3
<1> QED BY <1>4 DEF IsRun

\* Read to its end, a queue shows what its last frames say.
LEMMA RunAgrees ==
    ASSUME NEW v \in View, NEW q \in Seq(Frame), NEW f, IsRun(v, q, f)
    PROVE  f[Len(q)] \in View /\ Agrees(f[Len(q)], q, v)
<1> DEFINE Good(n) == f[n] \in View /\ Agrees(f[n], SubSeq(q, 1, n), v)
           Bad == {n \in 0 .. Len(q) : ~ Good(n)}
<1>1. Len(q) \in Nat
    OBVIOUS
<1>2. \A n \in 0 .. Len(q) : f[n] = IF n = 0 THEN v ELSE Shown(f[n - 1], q[n])
    BY DEF IsRun
<1>3. ASSUME NEW n \in Bad, \A k \in Bad : n <= k
      PROVE  FALSE
    <2>1. n \in 0 .. Len(q) /\ ~ Good(n)
        OBVIOUS
    <2>2. CASE n = 0
        <3>1. f[n] = v /\ SubSeq(q, 1, n) = <<>> /\ <<>> \in Seq(Frame) /\ Len(<<>>) = 0
            BY <1>1, <1>2, <2>2
        <3>2. \A K : LastIn(<<>>, K) = 0
            <4> SUFFICES ASSUME NEW K PROVE LastIn(<<>>, K) = 0
                OBVIOUS
            <4>1. IsLast(<<>>, K, LastIn(<<>>, K))
                BY <3>1, LastExists
            <4> QED BY <3>1, <4>1 DEF IsLast
        <3>3. Agrees(v, <<>>, v)
            BY <3>2 DEF Agrees, KnownEnd, QuotesEnd, ControlEnd, BookEnd
        <3> QED BY <2>1, <3>1, <3>3
    <2>3. CASE n # 0
        <3>1. n - 1 \in 0 .. Len(q) /\ n \in 1 .. Len(q) /\ n - 1 \notin Bad
            BY <1>1, <1>3, <2>1, <2>3
        <3> DEFINE w == f[n - 1]
                   p == SubSeq(q, 1, n - 1)
        <3>2. w \in View /\ Agrees(w, p, v)
            BY <3>1
        <3>3. f[n] = Shown(w, q[n]) /\ q[n] \in Frame
            BY <1>2, <3>1
        <3>4. SubSeq(q, 1, n) = p \o <<q[n]>> /\ p \in Seq(Frame) /\ <<q[n]>> \in Seq(Frame)
            BY <1>1, <3>1
        <3> HIDE DEF w, p
        <3>5. f[n] \in View /\ Agrees(f[n], <<q[n]>>, w)
            BY <3>2, <3>3, ShownIsView
        <3>6. Agrees(f[n], p \o <<q[n]>>, v)
            BY <3>2, <3>4, <3>5, AgreesOfConcat
        <3> QED BY <2>1, <3>4, <3>5, <3>6
    <2> QED BY <2>2, <2>3
<1>4. Bad = {}
    <2> SUFFICES ASSUME Bad # {} PROVE FALSE
        OBVIOUS
    <2>1. Bad \in SUBSET Nat
        BY <1>1
    <2> HIDE DEF Bad
    <2> QED BY <1>3, <2>1, LeastOf
<1>5. Good(Len(q))
    BY <1>1, <1>4
<1>6. SubSeq(q, 1, Len(q)) = q
    OBVIOUS
<1> HIDE DEF Bad
<1> QED BY <1>5, <1>6

LEMMA InTheEndAgrees ==
    ASSUME NEW t \in Tabs, queue[t] \in Seq(Frame), view[t] \in View
    PROVE  InTheEnd(t) \in View /\ Agrees(InTheEnd(t), queue[t], view[t])
<1> DEFINE f == CHOOSE f : IsRun(view[t], queue[t], f)
<1>1. IsRun(view[t], queue[t], f)
    BY RunExists
<1>2. InTheEnd(t) = f[Len(queue[t])]
    BY DEF InTheEnd, IsRun
<1> HIDE DEF f
<1> QED BY <1>1, <1>2, RunAgrees

-----------------------------------------------------------------------------
(* The frames the server makes *)

LEMMA SequenceOfSet ==
    ASSUME NEW S, IsFiniteSet(S)
    PROVE  /\ SetToSeq(S) \in Seq(S)
           /\ \A x \in S : \E i \in 1 .. Len(SetToSeq(S)) : SetToSeq(S)[i] = x
<1> DEFINE n == Cardinality(S)
           s == SetToSeq(S)
<1>1. n \in Nat /\ IsFiniteSet(1 .. n) /\ Cardinality(1 .. n) = n
    BY FS_CardinalityType, FS_Interval
<1>2. \E f \in [1 .. n -> S] : IsInjective(f)
    <2>1. ExistsBijection(1 .. n, S)
        BY FS_CardinalityType
    <2> QED BY <2>1 DEF ExistsBijection, Bijection, Injection
<1>3. s \in [1 .. n -> S] /\ IsInjective(s)
    BY <1>2 DEF SetToSeq
<1>4. s \in Injection(1 .. n, S)
    BY <1>3 DEF Injection
<1>5. s \in Surjection(1 .. n, S)
    BY <1>1, <1>4, FS_Injection
<1> HIDE DEF s, n
<1>6. s \in Seq(S) /\ Len(s) = n
    BY <1>1, <1>3
<1>7. \A x \in S : \E i \in 1 .. n : s[i] = x
    BY <1>5 DEF Surjection
<1> QED BY <1>6, <1>7 DEF s

LEMMA FrameTypes ==
    ASSUME NEW B \in [Markets -> Content]
    PROVE  /\ \A L \in SUBSET Markets : Hello(L) \in HelloKind
           /\ \A m \in Markets : BookFrame(m, B) \in Frame
           /\ \A M \in SUBSET Markets : ArbFrame(M, B) \in ArbKind
           /\ \A c \in Nat : ControlFrame(c) \in ControlKind
           /\ OtherFrame \in Frame
           /\ HelloKind \subseteq Frame /\ ArbKind \subseteq Frame
           /\ ControlKind \subseteq Frame
<1>1. ASSUME NEW M \in SUBSET Markets PROVE ArbFrame(M, B) \in ArbKind
    <2>1. Quotes(M, B) \in [M -> Content]
        BY DEF Quotes
    <2>2. Quotes(M, B) \in UNION {[N -> Content] : N \in SUBSET Markets}
        BY <2>1
    <2> QED BY <2>2 DEF ArbFrame, ArbKind
<1>2. \A m \in Markets : BookFrame(m, B) \in Frame
    BY DEF BookFrame, Frame
<1>3. OtherFrame \in Frame
    BY DEF OtherFrame, Frame
<1>4. HelloKind \subseteq Frame /\ ArbKind \subseteq Frame /\ ControlKind \subseteq Frame
    BY DEF HelloKind, ArbKind, ControlKind, Frame
<1> QED BY <1>1, <1>2, <1>3, <1>4 DEF Hello, HelloKind, ControlFrame, ControlKind

\* The books of a set, each in a frame of its own, and what they end in.
LEMMA BookFramesEnd ==
    ASSUME NEW S \in SUBSET Markets, NEW B \in [Markets -> Content]
    PROVE  LET r == BookFrames(S, B)
           IN  /\ r \in Seq(Frame)
               /\ \A d : KnownEnd(r, d) = d /\ QuotesEnd(r, d) = d /\ ControlEnd(r, d) = d
               /\ \A m \in Markets : \A d :
                     BookEnd(r, m, d) = IF m \in S /\ B[m] # None THEN B[m] ELSE d
<1> DEFINE A == {m \in S : B[m] # None}
           s == SetToSeq(A)
           r == BookFrames(S, B)
<1>1. IsFiniteSet(A)
    BY FanoutAssumption, FS_Subset
<1>2. s \in Seq(A) /\ \A x \in A : \E i \in 1 .. Len(s) : s[i] = x
    <2> HIDE DEF A
    <2> QED BY <1>1, SequenceOfSet
<1>3. r = [i \in DOMAIN s |-> BookFrame(s[i], B)]
    BY DEF BookFrames
<1>4. /\ Len(s) \in Nat /\ DOMAIN s = 1 .. Len(s)
      /\ \A i \in 1 .. Len(s) : s[i] \in S /\ s[i] \in Markets /\ B[s[i]] # None
    <2>1. \A x \in A : x \in S /\ x \in Markets /\ B[x] # None
        OBVIOUS
    <2> HIDE DEF s, A
    <2>2. Len(s) \in Nat /\ DOMAIN s = 1 .. Len(s) /\ \A i \in 1 .. Len(s) : s[i] \in A
        BY <1>2
    <2> QED BY <2>1, <2>2
<1> HIDE DEF s, A, r
<1>5. /\ r \in Seq(Frame) /\ Len(r) = Len(s)
      /\ \A i \in 1 .. Len(s) : r[i] = BookFrame(s[i], B)
    <2>1. \A i \in 1 .. Len(s) : BookFrame(s[i], B) \in Frame
        BY <1>4, FrameTypes
    <2> QED BY <1>3, <1>4, <2>1
<1>6. \A i \in 1 .. Len(r) : r[i].t = "book" /\ r[i].market = s[i] /\ r[i].book = B[s[i]]
    <2> SUFFICES ASSUME NEW i \in 1 .. Len(r)
                 PROVE  r[i].t = "book" /\ r[i].market = s[i] /\ r[i].book = B[s[i]]
        OBVIOUS
    <2>1. r[i] = BookFrame(s[i], B)
        BY <1>5
    <2> QED BY <2>1 DEF BookFrame
<1>7. ASSUME NEW K, \A i \in 1 .. Len(r) : r[i] \notin K
      PROVE  LastIn(r, K) = 0
    <2>1. IsLast(r, K, 0)
        BY <1>4, <1>5, <1>7 DEF IsLast
    <2> QED BY <1>5, <2>1, LastIsUnique
<1>8. LastIn(r, HelloKind) = 0 /\ LastIn(r, ArbKind) = 0 /\ LastIn(r, ControlKind) = 0
    <2>1. \A i \in 1 .. Len(r) : r[i] \notin HelloKind /\ r[i] \notin ArbKind
                                 /\ r[i] \notin ControlKind
        BY <1>6 DEF HelloKind, ArbKind, ControlKind
    <2> QED BY <1>7, <2>1
<1>9. ASSUME NEW m \in Markets, NEW d
      PROVE  BookEnd(r, m, d) = IF m \in S /\ B[m] # None THEN B[m] ELSE d
    <2> DEFINE l == LastIn(r, About(m))
    <2>1. IsLast(r, About(m), l)
        BY <1>5, LastExists
    <2>2. \A i \in 1 .. Len(r) : r[i] \in About(m) <=> s[i] = m
        BY <1>5, <1>6 DEF About
    <2> HIDE DEF l
    <2>3. l \in 0 .. Len(r) /\ Len(r) \in Nat
        BY <1>4, <1>5, <2>1 DEF IsLast
    <2>4. CASE m \in S /\ B[m] # None
        <3>1. PICK i \in 1 .. Len(s) : s[i] = m
            BY <1>2, <2>4 DEF A
        <3>2. l # 0
            BY <1>5, <2>1, <2>2, <3>1 DEF IsLast
        <3>3. l \in 1 .. Len(r) /\ r[l] \in About(m)
            BY <2>1, <2>3, <3>2 DEF IsLast
        <3>4. Given(r[l]) = B[m]
            BY <1>6, <2>2, <3>3 DEF Given
        <3> QED BY <2>4, <3>2, <3>4 DEF BookEnd, l
    <2>5. CASE ~ (m \in S /\ B[m] # None)
        <3>1. \A i \in 1 .. Len(r) : r[i] \notin About(m)
            BY <1>4, <1>5, <2>2, <2>5
        <3>2. l = 0
            BY <1>7, <3>1 DEF l
        <3> QED BY <2>5, <3>2 DEF BookEnd, l
    <2> QED BY <2>4, <2>5
<1> QED BY <1>5, <1>8, <1>9 DEF KnownEnd, QuotesEnd, ControlEnd, r

LEMMA NoFrames ==
    /\ <<>> \in Seq(Frame)
    /\ \A d : KnownEnd(<<>>, d) = d /\ QuotesEnd(<<>>, d) = d /\ ControlEnd(<<>>, d) = d
    /\ \A m, d : BookEnd(<<>>, m, d) = d
<1>1. <<>> \in Seq(Frame) /\ Len(<<>>) = 0
    OBVIOUS
<1>2. ASSUME NEW K PROVE LastIn(<<>>, K) = 0
    <2>1. IsLast(<<>>, K, LastIn(<<>>, K))
        BY <1>1, LastExists
    <2> QED BY <1>1, <2>1 DEF IsLast
<1> QED BY <1>1, <1>2 DEF KnownEnd, QuotesEnd, ControlEnd, BookEnd

\* What one frame of each kind ends in.
LEMMA OneFrame ==
    ASSUME NEW f \in Frame
    PROVE  /\ <<f>> \in Seq(Frame)
           /\ \A d : /\ KnownEnd(<<f>>, d) = IF f.t = "hello" THEN f.markets ELSE d
                     /\ QuotesEnd(<<f>>, d) = IF f.t = "arb" THEN f.quotes ELSE d
                     /\ ControlEnd(<<f>>, d) = IF f.t = "control" THEN f.control ELSE d
           /\ f.t # "book" => \A m, d :
                 BookEnd(<<f>>, m, d) = IF f.t = "hello" /\ m \notin f.markets THEN None ELSE d
<1>1. <<f>> \in Seq(Frame) /\ <<f>>[1] = f
    OBVIOUS
<1>2. \A K : LastIn(<<f>>, K) = IF f \in K THEN 1 ELSE 0
    BY LastOfOne
<1>3. /\ f \in HelloKind <=> f.t = "hello"
      /\ f \in ArbKind <=> f.t = "arb"
      /\ f \in ControlKind <=> f.t = "control"
    BY DEF Frame, HelloKind, ArbKind, ControlKind
<1>4. \A m : f.t # "book" =>
         (f \in About(m) <=> f.t = "hello" /\ m \notin f.markets) /\ Given(f) = None
    BY DEF About, Given
<1>5. \A d : /\ KnownEnd(<<f>>, d) = IF f.t = "hello" THEN f.markets ELSE d
             /\ QuotesEnd(<<f>>, d) = IF f.t = "arb" THEN f.quotes ELSE d
             /\ ControlEnd(<<f>>, d) = IF f.t = "control" THEN f.control ELSE d
    BY <1>1, <1>2, <1>3 DEF KnownEnd, QuotesEnd, ControlEnd
<1>6. ASSUME f.t # "book", NEW m, NEW d
      PROVE  BookEnd(<<f>>, m, d) = IF f.t = "hello" /\ m \notin f.markets THEN None ELSE d
    BY <1>1, <1>2, <1>4, <1>6 DEF BookEnd
<1> QED BY <1>1, <1>5, <1>6

LEMMA ServerFrames ==
    ASSUME books \in [Markets -> Content], settings \in Nat
    PROVE  /\ \A L \in SUBSET Markets : Hello(L) \in Frame /\ Hello(L).t = "hello"
                                        /\ Hello(L).markets = L
           /\ \A M \in SUBSET Markets : ArbFrame(M, books) \in Frame
                                        /\ ArbFrame(M, books).t = "arb"
                                        /\ ArbFrame(M, books).quotes = Quotes(M, books)
           /\ ControlFrame(settings) \in Frame /\ ControlFrame(settings).t = "control"
           /\ ControlFrame(settings).control = settings
           /\ OtherFrame \in Frame /\ OtherFrame.t = "other"
<1>1. /\ \A L \in SUBSET Markets : Hello(L) \in Frame
      /\ \A M \in SUBSET Markets : ArbFrame(M, books) \in Frame
      /\ ControlFrame(settings) \in Frame
      /\ OtherFrame \in Frame
    BY FrameTypes
<1>2. \A L : Hello(L).t = "hello" /\ Hello(L).markets = L
    BY DEF Hello
<1>3. \A M : ArbFrame(M, books).t = "arb" /\ ArbFrame(M, books).quotes = Quotes(M, books)
    BY DEF ArbFrame
<1>4. ControlFrame(settings).t = "control" /\ ControlFrame(settings).control = settings
    BY DEF ControlFrame
<1>5. OtherFrame.t = "other"
    BY DEF OtherFrame
<1> QED BY <1>1, <1>2, <1>3, <1>4, <1>5

\* The list, the control state, every book there is and the quotes: a tab that is
\* greeted is told everything.
LEMMA GreetingEnds ==
    ASSUME books \in [Markets -> Content], listed \subseteq Markets,
           monitor \subseteq listed, settings \in Nat
    PROVE  /\ Greeting \in Seq(Frame)
           /\ \A d : /\ KnownEnd(Greeting, d) = listed
                     /\ QuotesEnd(Greeting, d) = Quotes(monitor, books)
                     /\ ControlEnd(Greeting, d) = settings
           /\ \A m \in Markets : \A d :
                 BookEnd(Greeting, m, d) = IF books[m] # None THEN books[m]
                                           ELSE IF m \notin listed THEN None ELSE d
<1> DEFINE h == Hello(listed)
           c == ControlFrame(settings)
           a == ArbFrame(monitor, books)
           r == BookFrames(Markets, books)
           g == <<h>> \o <<c>>
<1>1. /\ h \in Frame /\ h.t = "hello" /\ h.markets = listed
      /\ c \in Frame /\ c.t = "control" /\ c.control = settings
      /\ a \in Frame /\ a.t = "arb" /\ a.quotes = Quotes(monitor, books)
    BY ServerFrames
<1>2. /\ r \in Seq(Frame)
      /\ \A d : KnownEnd(r, d) = d /\ QuotesEnd(r, d) = d /\ ControlEnd(r, d) = d
      /\ \A m \in Markets : \A d : BookEnd(r, m, d) = IF books[m] # None THEN books[m] ELSE d
    BY BookFramesEnd
<1>3. Greeting = (g \o r) \o <<a>>
    <2>1. <<h, c>> = <<h>> \o <<c>>
        OBVIOUS
    <2> QED BY <2>1 DEF Greeting
<1> HIDE DEF h, c, a, r
<1>4. /\ <<h>> \in Seq(Frame) /\ <<c>> \in Seq(Frame) /\ <<a>> \in Seq(Frame)
      /\ \A d : KnownEnd(<<h>>, d) = listed
      /\ \A d : KnownEnd(<<c>>, d) = d /\ ControlEnd(<<c>>, d) = settings
      /\ \A d : KnownEnd(<<a>>, d) = d /\ ControlEnd(<<a>>, d) = d
                /\ QuotesEnd(<<a>>, d) = Quotes(monitor, books)
      /\ \A m, d : BookEnd(<<h>>, m, d) = IF m \notin listed THEN None ELSE d
      /\ \A m, d : BookEnd(<<c>>, m, d) = d /\ BookEnd(<<a>>, m, d) = d
    BY <1>1, OneFrame
<1>5. /\ g \in Seq(Frame)
      /\ \A d : KnownEnd(g, d) = listed /\ ControlEnd(g, d) = settings
      /\ \A m, d : BookEnd(g, m, d) = IF m \notin listed THEN None ELSE d
    <2>1. \A d : /\ KnownEnd(g, d) = KnownEnd(<<c>>, KnownEnd(<<h>>, d))
                 /\ QuotesEnd(g, d) = QuotesEnd(<<c>>, QuotesEnd(<<h>>, d))
                 /\ ControlEnd(g, d) = ControlEnd(<<c>>, ControlEnd(<<h>>, d))
                 /\ \A m : BookEnd(g, m, d) = BookEnd(<<c>>, m, BookEnd(<<h>>, m, d))
        BY <1>4, EndsOfConcat, Zenon
    <2>2. g \in Seq(Frame)
        BY <1>4
    <2> HIDE DEF g
    <2> QED BY <1>4, <2>1, <2>2
<1> HIDE DEF g
<1> DEFINE b == g \o r
<1>6. /\ b \in Seq(Frame)
      /\ \A d : KnownEnd(b, d) = listed /\ ControlEnd(b, d) = settings
      /\ \A m \in Markets : \A d : BookEnd(b, m, d) =
            IF books[m] # None THEN books[m] ELSE IF m \notin listed THEN None ELSE d
    <2>1. \A d : /\ KnownEnd(b, d) = KnownEnd(r, KnownEnd(g, d))
                 /\ QuotesEnd(b, d) = QuotesEnd(r, QuotesEnd(g, d))
                 /\ ControlEnd(b, d) = ControlEnd(r, ControlEnd(g, d))
                 /\ \A m : BookEnd(b, m, d) = BookEnd(r, m, BookEnd(g, m, d))
        BY <1>2, <1>5, EndsOfConcat, Zenon
    <2>2. b \in Seq(Frame)
        BY <1>2, <1>5
    <2> HIDE DEF b
    <2> QED BY <1>2, <1>5, <2>1, <2>2
<1> HIDE DEF b
<1>7. \A d : /\ KnownEnd(b \o <<a>>, d) = KnownEnd(<<a>>, KnownEnd(b, d))
             /\ QuotesEnd(b \o <<a>>, d) = QuotesEnd(<<a>>, QuotesEnd(b, d))
             /\ ControlEnd(b \o <<a>>, d) = ControlEnd(<<a>>, ControlEnd(b, d))
             /\ \A m : BookEnd(b \o <<a>>, m, d) = BookEnd(<<a>>, m, BookEnd(b, m, d))
    BY <1>4, <1>6, EndsOfConcat
<1>8. Greeting = b \o <<a>> /\ b \o <<a>> \in Seq(Frame)
    BY <1>3, <1>4, <1>6 DEF b
<1> QED BY <1>4, <1>6, <1>7, <1>8

LEMMA FlushEnds ==
    ASSUME books \in [Markets -> Content], dirty \subseteq Markets,
           monitor \subseteq Markets, settings \in Nat
    PROVE  /\ FlushFrames \in Seq(Frame)
           /\ \A d : /\ KnownEnd(FlushFrames, d) = d
                     /\ QuotesEnd(FlushFrames, d) =
                            IF QuotesAffected(dirty) THEN Quotes(monitor, books) ELSE d
                     /\ ControlEnd(FlushFrames, d) = d
           /\ \A m \in Markets : \A d :
                 BookEnd(FlushFrames, m, d) =
                     IF m \in dirty /\ books[m] # None THEN books[m] ELSE d
<1> DEFINE a == ArbFrame(monitor, books)
           r == BookFrames(dirty, books)
           e == IF QuotesAffected(dirty) THEN <<a>> ELSE <<>>
<1>1. a \in Frame /\ a.t = "arb" /\ a.quotes = Quotes(monitor, books)
    BY ServerFrames
<1>2. /\ r \in Seq(Frame)
      /\ \A d : KnownEnd(r, d) = d /\ QuotesEnd(r, d) = d /\ ControlEnd(r, d) = d
      /\ \A m \in Markets : \A d :
            BookEnd(r, m, d) = IF m \in dirty /\ books[m] # None THEN books[m] ELSE d
    BY BookFramesEnd
<1>3. FlushFrames = r \o e
    BY DEF FlushFrames
<1> HIDE DEF a, r
<1>4. /\ e \in Seq(Frame)
      /\ \A d : /\ KnownEnd(e, d) = d /\ ControlEnd(e, d) = d
                /\ QuotesEnd(e, d) =
                        IF QuotesAffected(dirty) THEN Quotes(monitor, books) ELSE d
      /\ \A m, d : BookEnd(e, m, d) = d
    <2>1. CASE QuotesAffected(dirty)
        <3>1. e = <<a>>
            BY <2>1
        <3> HIDE DEF e
        <3> QED BY <1>1, <2>1, <3>1, OneFrame
    <2>2. CASE ~ QuotesAffected(dirty)
        <3>1. e = <<>>
            BY <2>2
        <3> HIDE DEF e
        <3> QED BY <2>2, <3>1, NoFrames
    <2> QED BY <2>1, <2>2
<1> HIDE DEF e
<1>5. \A d : /\ KnownEnd(r \o e, d) = KnownEnd(e, KnownEnd(r, d))
             /\ QuotesEnd(r \o e, d) = QuotesEnd(e, QuotesEnd(r, d))
             /\ ControlEnd(r \o e, d) = ControlEnd(e, ControlEnd(r, d))
             /\ \A m : BookEnd(r \o e, m, d) = BookEnd(e, m, BookEnd(r, m, d))
    BY <1>2, <1>4, EndsOfConcat
<1>6. r \o e \in Seq(Frame)
    BY <1>2, <1>4
<1> QED BY <1>2, <1>3, <1>4, <1>5, <1>6

\* As many greetings as venues changed: what they do together is what one does.
LEMMA HellosEnd ==
    ASSUME NEW L \in SUBSET Markets, listed \subseteq Markets,
           books \in [Markets -> Content], settings \in Nat
    PROVE  /\ Hellos(L) \in Seq(Frame)
           /\ \A d : /\ KnownEnd(Hellos(L), d) = IF L = listed THEN d ELSE L
                     /\ QuotesEnd(Hellos(L), d) = d
                     /\ ControlEnd(Hellos(L), d) = d
           /\ \A m, d : BookEnd(Hellos(L), m, d) =
                            IF L # listed /\ m \notin L THEN None ELSE d
<1> DEFINE h == Hello(L)
           P == L \cap Polled # listed \cap Polled
           K == L \ Polled # listed \ Polled
           p == IF P THEN <<h>> ELSE <<>>
           k == IF K THEN <<h>> ELSE <<>>
<1>1. h \in Frame /\ h.t = "hello" /\ h.markets = L
    BY ServerFrames
<1>2. Hellos(L) = p \o k
    BY DEF Hellos
<1>3. L # listed <=> P \/ K
    OBVIOUS
<1> HIDE DEF h, P, K
<1>4. /\ <<h>> \in Seq(Frame)
      /\ \A d : KnownEnd(<<h>>, d) = L /\ QuotesEnd(<<h>>, d) = d /\ ControlEnd(<<h>>, d) = d
      /\ \A m, d : BookEnd(<<h>>, m, d) = IF m \notin L THEN None ELSE d
    BY <1>1, OneFrame
<1>5. /\ p \in Seq(Frame)
      /\ \A d : /\ KnownEnd(p, d) = IF P THEN L ELSE d
                /\ QuotesEnd(p, d) = d /\ ControlEnd(p, d) = d
      /\ \A m, d : BookEnd(p, m, d) = IF P /\ m \notin L THEN None ELSE d
    <2>1. CASE P
        <3>1. p = <<h>>
            BY <2>1
        <3> HIDE DEF p
        <3> QED BY <1>4, <2>1, <3>1
    <2>2. CASE ~ P
        <3>1. p = <<>>
            BY <2>2
        <3> HIDE DEF p
        <3> QED BY <2>2, <3>1, NoFrames
    <2> QED BY <2>1, <2>2
<1>6. /\ k \in Seq(Frame)
      /\ \A d : /\ KnownEnd(k, d) = IF K THEN L ELSE d
                /\ QuotesEnd(k, d) = d /\ ControlEnd(k, d) = d
      /\ \A m, d : BookEnd(k, m, d) = IF K /\ m \notin L THEN None ELSE d
    <2>1. CASE K
        <3>1. k = <<h>>
            BY <2>1
        <3> HIDE DEF k
        <3> QED BY <1>4, <2>1, <3>1
    <2>2. CASE ~ K
        <3>1. k = <<>>
            BY <2>2
        <3> HIDE DEF k
        <3> QED BY <2>2, <3>1, NoFrames
    <2> QED BY <2>1, <2>2
<1> HIDE DEF p, k
<1>7. \A d : /\ KnownEnd(p \o k, d) = KnownEnd(k, KnownEnd(p, d))
             /\ QuotesEnd(p \o k, d) = QuotesEnd(k, QuotesEnd(p, d))
             /\ ControlEnd(p \o k, d) = ControlEnd(k, ControlEnd(p, d))
             /\ \A m : BookEnd(p \o k, m, d) = BookEnd(k, m, BookEnd(p, m, d))
    BY <1>5, <1>6, EndsOfConcat
<1>8. p \o k \in Seq(Frame)
    BY <1>5, <1>6
<1>9. \A d : KnownEnd(p \o k, d) = IF L = listed THEN d ELSE L
    BY <1>3, <1>5, <1>6, <1>7
<1>10. \A m, d : BookEnd(p \o k, m, d) = IF L # listed /\ m \notin L THEN None ELSE d
    BY <1>3, <1>5, <1>6, <1>7
<1> QED BY <1>2, <1>5, <1>6, <1>7, <1>8, <1>9, <1>10

-----------------------------------------------------------------------------
(* What a tab that is followed will show *)

ServerTypes ==
    /\ books \in [Markets -> Content] /\ changes \in Content
    /\ listed \subseteq Markets /\ monitor \subseteq listed
    /\ dirty \subseteq Markets /\ unshown \subseteq Markets
    /\ flush \in {"sleeps", "persists"}
    /\ settings \in Nat /\ unsaid \in Nat /\ silent \in BOOLEAN

TabTypes ==
    /\ socket \in [Tabs -> {"dialing", "open", "closing", "closed"}]
    /\ clients = {t \in Tabs : socket[t] = "open"}
    /\ queue \in [Tabs -> Seq(Frame)]
    /\ \A t \in Tabs : /\ Len(queue[t]) <= QueueMax
                       /\ socket[t] \in {"dialing", "closed"} => queue[t] = <<>>
    /\ view \in [Tabs -> View]

\* x, which a tab will show of market m, is right until the next flush.
BookIsRight(m, x, B, L, D, U) ==
    /\ m \notin D /\ B[m] # None => x = B[m] \/ (m \in U /\ x = None)
    /\ m \notin L /\ B[m] = None => x = None

\* EveryTabIsFollowed, of the last frame of each kind instead of all in turn.
Followed(t) ==
    /\ KnownEnd(queue[t], view[t].known) = listed
    /\ \A m \in Markets : BookIsRight(m, BookEnd(queue[t], m, view[t].books[m]),
                                      books, listed, dirty, unshown)
    /\ ~ QuotesAffected(dirty) =>
            QuotesEnd(queue[t], view[t].quotes) = Quotes(monitor, books)
    /\ unsaid = 0 /\ ~ silent => ControlEnd(queue[t], view[t].control) = settings

FanoutInv == ServerTypes /\ TabTypes /\ \A t \in clients : Followed(t)

LEMMA FirstOfAll ==
    ASSUME NEW s \in Seq(Frame), NEW n \in Nat
    PROVE  /\ FirstOf(s, n) \in Seq(Frame) /\ Len(FirstOf(s, n)) <= n
           /\ Len(s) <= n => FirstOf(s, n) = s
<1> DEFINE l == Len(s)
           k == Min({n, l})
<1>1. l \in Nat
    OBVIOUS
<1>2. k \in {n, l} /\ \A y \in {n, l} : k <= y
    <2> HIDE DEF l
    <2>1. \E x \in {n, l} : \A y \in {n, l} : x <= y
        BY <1>1
    <2> QED BY <2>1, Zenon DEF Min
<1>3. FirstOf(s, n) = SubSeq(s, 1, k)
    BY DEF FirstOf
<1> HIDE DEF k
<1>4. k \in 0 .. Len(s) /\ k <= n /\ (Len(s) <= n => k = Len(s))
    BY <1>1, <1>2
<1>5. SubSeq(s, 1, k) \in Seq(Frame) /\ Len(SubSeq(s, 1, k)) = k
    BY <1>4
<1>6. SubSeq(s, 1, Len(s)) = s
    OBVIOUS
<1> QED BY <1>3, <1>4, <1>5, <1>6

\* A client that a broadcast does not drop has all of it queued.
LEMMA BroadcastQueues ==
    ASSUME TabTypes, NEW F \in Seq(Frame), Broadcast(F)
    PROVE  /\ TabTypes'
           /\ \A t \in clients' : /\ t \in clients /\ t \in Tabs
                                  /\ queue'[t] = queue[t] \o F /\ view'[t] = view[t]
<1>1. /\ socket \in [Tabs -> {"dialing", "open", "closing", "closed"}]
      /\ clients = {t \in Tabs : socket[t] = "open"}
      /\ queue \in [Tabs -> Seq(Frame)]
      /\ \A t \in Tabs : /\ Len(queue[t]) <= QueueMax
                         /\ socket[t] \in {"dialing", "closed"} => queue[t] = <<>>
      /\ view \in [Tabs -> View]
    BY DEF TabTypes
<1>2. /\ queue' = Queued(F) /\ clients' = clients \ Slow(F) /\ view' = view
      /\ socket' = [t \in Tabs |-> IF t \in Slow(F) THEN "closing" ELSE socket[t]]
    BY DEF Broadcast
<1>3. ASSUME NEW t \in Tabs
      PROVE  Room(t) \in Nat /\ Room(t) = QueueMax - Len(queue[t]) /\ Len(queue[t]) \in Nat
    <2>1. queue[t] \in Seq(Frame) /\ Len(queue[t]) <= QueueMax
        BY <1>1
    <2>2. Len(queue[t]) \in Nat /\ QueueMax \in Nat
        BY <2>1, FanoutAssumption
    <2> QED BY <2>1, <2>2 DEF Room
<1>4. ASSUME NEW t \in Tabs
      PROVE  /\ FirstOf(F, Room(t)) \in Seq(Frame) /\ Len(FirstOf(F, Room(t))) <= Room(t)
             /\ Len(F) <= Room(t) => FirstOf(F, Room(t)) = F
    BY <1>3, FirstOfAll
<1>5. ASSUME NEW t \in Tabs
      PROVE  /\ queue'[t] \in Seq(Frame) /\ Len(queue'[t]) <= QueueMax
             /\ t \notin clients => queue'[t] = queue[t]
             /\ t \in clients /\ t \notin Slow(F) => queue'[t] = queue[t] \o F
    <2> DEFINE q == queue[t]
               e == FirstOf(F, Room(t))
    <2>1. queue'[t] = IF t \in clients THEN q \o e ELSE q
        BY <1>2 DEF Queued
    <2>2. q \in Seq(Frame) /\ Len(q) <= QueueMax
        BY <1>1
    <2>3. e \in Seq(Frame) /\ Len(e) <= QueueMax - Len(q) /\ QueueMax \in Nat
        BY <1>3, <1>4, FanoutAssumption
    <2>4. t \in clients /\ t \notin Slow(F) => e = F
        <3>1. t \in clients /\ t \notin Slow(F) => ~ (Len(F) > Room(t))
            BY DEF Slow
        <3>2. ~ (Len(F) > Room(t)) => Len(F) <= Room(t)
            <4>1. Len(F) \in Nat /\ Room(t) \in Nat
                BY <1>3
            <4> QED BY <4>1
        <3> QED BY <1>4, <3>1, <3>2
    <2> HIDE DEF q, e
    <2>5. q \o e \in Seq(Frame) /\ Len(q \o e) <= QueueMax
        <3>1. q \o e \in Seq(Frame) /\ Len(q \o e) = Len(q) + Len(e)
              /\ Len(q) \in Nat /\ Len(e) \in Nat
            BY <2>2, <2>3
        <3> QED BY <2>3, <3>1
    <2> QED BY <2>1, <2>2, <2>4, <2>5 DEF q
<1>6. \A t \in Slow(F) : t \in clients
    BY DEF Slow
<1>7. /\ socket' \in [Tabs -> {"dialing", "open", "closing", "closed"}]
      /\ clients' = {t \in Tabs : socket'[t] = "open"}
      /\ \A t \in Tabs : socket'[t] \in {"dialing", "closed"} => t \notin clients /\ queue[t] = <<>>
    BY <1>1, <1>2, <1>6
<1>8. queue' \in [Tabs -> Seq(Frame)]
    <2>1. queue' = [t \in Tabs |-> queue'[t]]
        BY <1>2 DEF Queued
    <2> QED BY <1>5, <2>1
<1>9. TabTypes'
    <2>1. \A t \in Tabs : /\ Len(queue'[t]) <= QueueMax
                          /\ socket'[t] \in {"dialing", "closed"} => queue'[t] = <<>>
        BY <1>5, <1>7
    <2> QED BY <1>1, <1>2, <1>7, <1>8, <2>1 DEF TabTypes
<1>10. \A t \in clients' : /\ t \in clients /\ t \in Tabs
                           /\ queue'[t] = queue[t] \o F /\ view'[t] = view[t]
    BY <1>1, <1>2, <1>5
<1> QED BY <1>9, <1>10

LEMMA BroadcastEnds ==
    ASSUME TabTypes, NEW F \in Seq(Frame), Broadcast(F), NEW t \in clients'
    PROVE  /\ KnownEnd(queue'[t], view'[t].known) =
                  KnownEnd(F, KnownEnd(queue[t], view[t].known))
           /\ QuotesEnd(queue'[t], view'[t].quotes) =
                  QuotesEnd(F, QuotesEnd(queue[t], view[t].quotes))
           /\ ControlEnd(queue'[t], view'[t].control) =
                  ControlEnd(F, ControlEnd(queue[t], view[t].control))
           /\ \A m : BookEnd(queue'[t], m, view'[t].books[m]) =
                         BookEnd(F, m, BookEnd(queue[t], m, view[t].books[m]))
<1> DEFINE q == queue[t]
           v == view[t]
<1>1. t \in clients /\ t \in Tabs /\ queue'[t] = q \o F /\ view'[t] = v
    BY BroadcastQueues
<1>2. q \in Seq(Frame)
    BY <1>1 DEF TabTypes
<1> HIDE DEF q, v
<1>3. \A d : /\ KnownEnd(q \o F, d) = KnownEnd(F, KnownEnd(q, d))
             /\ QuotesEnd(q \o F, d) = QuotesEnd(F, QuotesEnd(q, d))
             /\ ControlEnd(q \o F, d) = ControlEnd(F, ControlEnd(q, d))
             /\ \A m : BookEnd(q \o F, m, d) = BookEnd(F, m, BookEnd(q, m, d))
    BY <1>2, EndsOfConcat, Zenon
<1>4. \A m : BookEnd(q \o F, m, v.books[m]) = BookEnd(F, m, BookEnd(q, m, v.books[m]))
    BY <1>3, Zenon
<1>5. /\ KnownEnd(q \o F, v.known) = KnownEnd(F, KnownEnd(q, v.known))
      /\ QuotesEnd(q \o F, v.quotes) = QuotesEnd(F, QuotesEnd(q, v.quotes))
      /\ ControlEnd(q \o F, v.control) = ControlEnd(F, ControlEnd(q, v.control))
    BY <1>3, Zenon
<1> QED BY <1>1, <1>4, <1>5 DEF q, v

\* A tab whose queue and view a step leaves alone, and what it shows too.
LEMMA UntouchedTab ==
    ASSUME NEW t, Followed(t), queue'[t] = queue[t], view'[t] = view[t],
           UNCHANGED <<stateVars, controlVars>>
    PROVE  Followed(t)'
<1>1. UNCHANGED <<books, listed, monitor, dirty, unshown, settings, unsaid, silent>>
    BY DEF stateVars, controlVars
<1> QED BY <1>1 DEF Followed, BookIsRight, QuotesAffected, Quotes

LEMMA FollowedMeans ==
    ASSUME FanoutInv
    PROVE  EveryTabIsFollowed
<1>1. ServerTypes /\ TabTypes /\ \A t \in clients : Followed(t)
    BY DEF FanoutInv
<1>2. FanoutTypeOK
    BY <1>1 DEF ServerTypes, TabTypes, FanoutTypeOK
<1>3. ASSUME NEW t \in clients
      PROVE  LET v == InTheEnd(t)
             IN  ShowsTheBooks(v) /\ ShowsTheQuotes(v) /\ ShowsTheSettings(v)
    <2> DEFINE v == InTheEnd(t)
    <2>1. t \in Tabs /\ queue[t] \in Seq(Frame) /\ view[t] \in View
        BY <1>1 DEF TabTypes
    <2>2. Agrees(v, queue[t], view[t])
        BY <2>1, InTheEndAgrees
    <2> HIDE DEF v
    <2>3. /\ v.known = KnownEnd(queue[t], view[t].known)
          /\ v.quotes = QuotesEnd(queue[t], view[t].quotes)
          /\ v.control = ControlEnd(queue[t], view[t].control)
          /\ \A m \in Markets : v.books[m] = BookEnd(queue[t], m, view[t].books[m])
        BY <2>2 DEF Agrees
    <2>4. Followed(t)
        BY <1>1
    <2>5. ShowsTheBooks(v)
        BY <2>3, <2>4 DEF Followed, BookIsRight, ShowsTheBooks
    <2>6. ShowsTheQuotes(v)
        BY <2>3, <2>4 DEF Followed, ShowsTheQuotes
    <2>7. ShowsTheSettings(v)
        BY <2>3, <2>4 DEF Followed, ShowsTheSettings
    <2> QED BY <2>5, <2>6, <2>7 DEF v
<1> QED BY <1>2, <1>3 DEF EveryTabIsFollowed

-----------------------------------------------------------------------------
(* The steps *)

LEMMA BlankIsView == Blank \in View
<1>1. None \in Content
    BY FanoutAssumption DEF None, Content
<1>2. [m \in Markets |-> None] \in [Markets -> Content]
    BY <1>1
<1>3. <<>> \in UNION {[M -> Content] : M \in SUBSET Markets}
    <2>1. <<>> \in [{} -> Content]
        OBVIOUS
    <2> QED BY <2>1
<1>4. None \in Nat
    BY DEF None
<1> QED BY <1>2, <1>3, <1>4 DEF Blank, View

LEMMA FanoutStart ==
    ASSUME FanoutInit
    PROVE  FanoutInv
<1>1. ServerTypes
    <2>1. None \in Content /\ 0 \in Content
        BY FanoutAssumption DEF None, Content
    <2> QED BY <2>1 DEF FanoutInit, ServerTypes
<1>2. TabTypes
    <2>1. QueueMax \in Nat
        BY FanoutAssumption
    <2>2. /\ queue \in [Tabs -> Seq(Frame)]
          /\ \A t \in Tabs : queue[t] = <<>> /\ Len(queue[t]) <= QueueMax
        BY <2>1 DEF FanoutInit
    <2> QED BY <2>2, BlankIsView DEF FanoutInit, TabTypes
<1>3. clients = {}
    BY DEF FanoutInit
<1> QED BY <1>1, <1>2, <1>3 DEF FanoutInv

\* What becomes of the tabs when the server changes nothing: those that stay
\* clients keep what they have.
LEMMA TabsStay ==
    ASSUME FanoutInv, UNCHANGED <<stateVars, controlVars, flush>>, TabTypes',
           \A t \in clients' : \/ Followed(t)'
                               \/ t \in clients /\ queue'[t] = queue[t] /\ view'[t] = view[t]
    PROVE  FanoutInv'
<1>1. ServerTypes'
    <2>1. UNCHANGED <<books, changes, listed, monitor, dirty, unshown, settings, unsaid,
                      silent, flush>>
        BY DEF stateVars, controlVars
    <2> QED BY <2>1 DEF FanoutInv, ServerTypes
<1>2. ASSUME NEW t \in clients' PROVE Followed(t)'
    <2>1. CASE t \in clients /\ queue'[t] = queue[t] /\ view'[t] = view[t]
        <3>1. Followed(t)
            BY <2>1 DEF FanoutInv
        <3> QED BY <2>1, <3>1, UntouchedTab
    <2> QED BY <2>1
<1> QED BY <1>1, <1>2 DEF FanoutInv

LEMMA AcceptFollows ==
    ASSUME FanoutInv, NEW t \in Tabs, Accept(t)
    PROVE  FanoutInv'
<1>1. ServerTypes /\ TabTypes
    BY DEF FanoutInv
<1>2. /\ socket[t] = "dialing" /\ Len(Greeting) <= QueueMax
      /\ clients' = clients \cup {t}
      /\ queue' = [queue EXCEPT ![t] = Greeting]
      /\ socket' = [socket EXCEPT ![t] = "open"]
      /\ UNCHANGED <<stateVars, controlVars, view, flush, others, leaves>>
    BY DEF Accept
<1>3. UNCHANGED <<books, listed, monitor, dirty, unshown, settings, unsaid, silent, view, flush>>
    BY <1>2 DEF stateVars, controlVars
<1>4. /\ Greeting \in Seq(Frame)
      /\ \A d : /\ KnownEnd(Greeting, d) = listed
                /\ QuotesEnd(Greeting, d) = Quotes(monitor, books)
                /\ ControlEnd(Greeting, d) = settings
      /\ \A m \in Markets : \A d :
            BookEnd(Greeting, m, d) = IF books[m] # None THEN books[m]
                                      ELSE IF m \notin listed THEN None ELSE d
    BY <1>1, GreetingEnds DEF ServerTypes
<1>5. /\ queue' \in [Tabs -> Seq(Frame)] /\ queue'[t] = Greeting
      /\ \A u \in Tabs \ {t} : queue'[u] = queue[u] /\ socket'[u] = socket[u]
      /\ socket'[t] = "open"
    BY <1>1, <1>2, <1>4 DEF TabTypes
<1>6. TabTypes'
    <2>1. /\ socket' \in [Tabs -> {"dialing", "open", "closing", "closed"}]
          /\ clients' = {u \in Tabs : socket'[u] = "open"}
        BY <1>1, <1>2, <1>5 DEF TabTypes
    <2>2. \A u \in Tabs : /\ Len(queue'[u]) <= QueueMax
                          /\ socket'[u] \in {"dialing", "closed"} => queue'[u] = <<>>
        BY <1>1, <1>2, <1>5 DEF TabTypes
    <2>3. view' \in [Tabs -> View]
        BY <1>1, <1>3 DEF TabTypes
    <2> QED BY <1>5, <2>1, <2>2, <2>3 DEF TabTypes
<1>7. Followed(t)'
    <2>1. /\ KnownEnd(queue'[t], view'[t].known) = listed'
          /\ QuotesEnd(queue'[t], view'[t].quotes) = Quotes(monitor', books')
          /\ ControlEnd(queue'[t], view'[t].control) = settings'
        BY <1>3, <1>4, <1>5
    <2>2. ASSUME NEW m \in Markets
          PROVE  BookIsRight(m, BookEnd(queue'[t], m, view'[t].books[m]),
                             books', listed', dirty', unshown')
        <3>1. BookEnd(queue'[t], m, view'[t].books[m]) =
                  IF books[m] # None THEN books[m]
                  ELSE IF m \notin listed THEN None ELSE view'[t].books[m]
            BY <1>4, <1>5
        <3> QED BY <1>3, <3>1 DEF BookIsRight
    <2> QED BY <2>1, <2>2 DEF Followed
<1>8. \A u \in clients' : u = t \/ (u \in clients /\ queue'[u] = queue[u] /\ view'[u] = view[u])
    BY <1>1, <1>2, <1>3, <1>5 DEF TabTypes
<1> QED BY <1>2, <1>6, <1>7, <1>8, TabsStay

\* A tab that is refused, or dials again, is no client before and after.
LEMMA RefuseFollows ==
    ASSUME FanoutInv, NEW t \in Tabs, Refuse(t)
    PROVE  FanoutInv'
<1>1. /\ socket[t] = "dialing" /\ socket' = [socket EXCEPT ![t] = "closed"]
      /\ UNCHANGED <<stateVars, controlVars, clients, queue, view, flush>>
    BY DEF Refuse
<1>2. TabTypes
    BY DEF FanoutInv
<1>3. TabTypes'
    BY <1>1, <1>2 DEF TabTypes
<1> QED BY <1>1, <1>3, TabsStay

LEMMA RedialFollows ==
    ASSUME FanoutInv, NEW t \in Tabs, Redial(t)
    PROVE  FanoutInv'
<1>1. /\ socket[t] = "closed" /\ socket' = [socket EXCEPT ![t] = "dialing"]
      /\ view' = view \/ view' = [view EXCEPT ![t] = Blank]
      /\ UNCHANGED <<stateVars, controlVars, clients, queue, flush>>
    BY DEF Redial
<1>2. TabTypes
    BY DEF FanoutInv
<1>3. view' \in [Tabs -> View] /\ \A u \in Tabs \ {t} : view'[u] = view[u]
    BY <1>1, <1>2, BlankIsView DEF TabTypes
<1>4. TabTypes'
    BY <1>1, <1>2, <1>3 DEF TabTypes
<1>5. \A u \in clients' : u \in clients /\ queue'[u] = queue[u] /\ view'[u] = view[u]
    BY <1>1, <1>2, <1>3 DEF TabTypes
<1> QED BY <1>1, <1>4, <1>5, TabsStay

LEMMA GoneFollows ==
    ASSUME FanoutInv, NEW t \in Tabs, Gone(t)
    PROVE  FanoutInv'
<1>1. /\ socket' = [socket EXCEPT ![t] = "closed"]
      /\ clients' = clients \ {t}
      /\ queue' = [queue EXCEPT ![t] = <<>>]
      /\ UNCHANGED <<stateVars, controlVars, view, flush>>
    BY DEF Gone
<1>2. TabTypes
    BY DEF FanoutInv
<1>3. /\ queue' \in [Tabs -> Seq(Frame)] /\ queue'[t] = <<>>
      /\ \A u \in Tabs \ {t} : queue'[u] = queue[u] /\ socket'[u] = socket[u]
      /\ socket'[t] = "closed"
    BY <1>1, <1>2 DEF TabTypes
<1>4. TabTypes'
    <2>1. /\ socket' \in [Tabs -> {"dialing", "open", "closing", "closed"}]
          /\ clients' = {u \in Tabs : socket'[u] = "open"}
        BY <1>1, <1>2, <1>3 DEF TabTypes
    <2>2. \A u \in Tabs : /\ Len(queue'[u]) <= QueueMax
                          /\ socket'[u] \in {"dialing", "closed"} => queue'[u] = <<>>
        <3>1. Len(<<>>) <= QueueMax
            BY FanoutAssumption
        <3> QED BY <1>2, <1>3, <3>1 DEF TabTypes
    <2>3. view' \in [Tabs -> View]
        BY <1>1, <1>2 DEF TabTypes
    <2> QED BY <1>3, <2>1, <2>2, <2>3 DEF TabTypes
<1>5. \A u \in clients' : u \in clients /\ queue'[u] = queue[u] /\ view'[u] = view[u]
    BY <1>1, <1>2, <1>3 DEF TabTypes
<1> QED BY <1>1, <1>4, <1>5, TabsStay

\* The frame a tab is sent moves from its queue to what it shows.
LEMMA DeliverFollows ==
    ASSUME FanoutInv, NEW t \in Tabs, Deliver(t)
    PROVE  FanoutInv'
<1> DEFINE q == queue[t]
           v == view[t]
           h == Head(q)
           r == Tail(q)
           w == Shown(v, h)
<1>1. TabTypes
    BY DEF FanoutInv
<1>2. /\ socket[t] \in {"open", "closing"} /\ q # <<>>
      /\ view' = [view EXCEPT ![t] = w]
      /\ queue' = [queue EXCEPT ![t] = r]
      /\ UNCHANGED <<stateVars, controlVars, clients, socket, flush>>
    BY DEF Deliver
<1>3. q \in Seq(Frame) /\ v \in View /\ Len(q) <= QueueMax
    BY <1>1 DEF TabTypes
<1>4. /\ h \in Frame /\ r \in Seq(Frame) /\ q = <<h>> \o r /\ Len(r) <= Len(q)
      /\ <<h>> \in Seq(Frame)
    <2> HIDE DEF q
    <2> QED BY <1>2, <1>3
<1>5. w \in View /\ Agrees(w, <<h>>, v)
    <2> HIDE DEF h, v
    <2> QED BY <1>3, <1>4, ShownIsView
<1>6. /\ queue' \in [Tabs -> Seq(Frame)] /\ queue'[t] = r /\ Len(r) <= QueueMax
      /\ view' \in [Tabs -> View] /\ view'[t] = w
      /\ \A u \in Tabs \ {t} : queue'[u] = queue[u] /\ view'[u] = view[u]
    <2>1. /\ queue' \in [Tabs -> Seq(Frame)] /\ queue'[t] = r
          /\ view' \in [Tabs -> View] /\ view'[t] = w
          /\ \A u \in Tabs \ {t} : queue'[u] = queue[u] /\ view'[u] = view[u]
        <3> HIDE DEF r, w
        <3> QED BY <1>1, <1>2, <1>4, <1>5 DEF TabTypes
    <2>2. Len(r) <= QueueMax
        <3>1. Len(r) \in Nat /\ Len(q) \in Nat /\ QueueMax \in Nat
            <4> HIDE DEF q, r
            <4> QED BY <1>3, <1>4, FanoutAssumption
        <3> HIDE DEF q, r
        <3> QED BY <1>3, <1>4, <3>1
    <2> QED BY <2>1, <2>2
<1>7. TabTypes'
    <2>1. /\ socket' \in [Tabs -> {"dialing", "open", "closing", "closed"}]
          /\ clients' = {u \in Tabs : socket'[u] = "open"}
        BY <1>1, <1>2 DEF TabTypes
    <2>2. \A u \in Tabs : /\ Len(queue'[u]) <= QueueMax
                          /\ socket'[u] \in {"dialing", "closed"} => queue'[u] = <<>>
        <3> HIDE DEF r
        <3> QED BY <1>1, <1>2, <1>6 DEF TabTypes
    <2> QED BY <1>6, <2>1, <2>2 DEF TabTypes
<1>8. ASSUME t \in clients PROVE Followed(t)'
    <2> HIDE DEF q, v, h, r, w
    <2> DEFINE p == <<h>> \o r
    <2>1. \A d : /\ KnownEnd(q, d) = KnownEnd(r, KnownEnd(<<h>>, d))
                 /\ QuotesEnd(q, d) = QuotesEnd(r, QuotesEnd(<<h>>, d))
                 /\ ControlEnd(q, d) = ControlEnd(r, ControlEnd(<<h>>, d))
                 /\ \A m : BookEnd(q, m, d) = BookEnd(r, m, BookEnd(<<h>>, m, d))
        <3>1. \A d : /\ KnownEnd(p, d) = KnownEnd(r, KnownEnd(<<h>>, d))
                     /\ QuotesEnd(p, d) = QuotesEnd(r, QuotesEnd(<<h>>, d))
                     /\ ControlEnd(p, d) = ControlEnd(r, ControlEnd(<<h>>, d))
                     /\ \A m : BookEnd(p, m, d) = BookEnd(r, m, BookEnd(<<h>>, m, d))
            BY <1>4, EndsOfConcat, Zenon
        <3>2. q = p
            BY <1>4
        <3> HIDE DEF p
        <3> QED BY <3>1, <3>2
    <2>2. /\ w.known = KnownEnd(<<h>>, v.known)
          /\ w.quotes = QuotesEnd(<<h>>, v.quotes)
          /\ w.control = ControlEnd(<<h>>, v.control)
          /\ \A m \in Markets : w.books[m] = BookEnd(<<h>>, m, v.books[m])
        BY <1>5 DEF Agrees
    <2>3. /\ KnownEnd(r, w.known) = KnownEnd(q, v.known)
          /\ QuotesEnd(r, w.quotes) = QuotesEnd(q, v.quotes)
          /\ ControlEnd(r, w.control) = ControlEnd(q, v.control)
          /\ \A m \in Markets : BookEnd(r, m, w.books[m]) = BookEnd(q, m, v.books[m])
        <3>1. \A m, d : BookEnd(q, m, d) = BookEnd(r, m, BookEnd(<<h>>, m, d))
            BY <2>1, Zenon
        <3> QED BY <2>1, <2>2, <3>1
    <2>4. Followed(t)
        BY <1>8 DEF FanoutInv
    <2>5. /\ KnownEnd(q, v.known) = listed
          /\ \A m \in Markets : BookIsRight(m, BookEnd(q, m, v.books[m]),
                                            books, listed, dirty, unshown)
          /\ ~ QuotesAffected(dirty) => QuotesEnd(q, v.quotes) = Quotes(monitor, books)
          /\ unsaid = 0 /\ ~ silent => ControlEnd(q, v.control) = settings
        BY <2>4 DEF Followed, q, v
    <2>6. UNCHANGED <<books, listed, monitor, dirty, unshown, settings, unsaid, silent>>
        BY <1>2 DEF stateVars, controlVars
    <2> QED BY <1>6, <2>3, <2>5, <2>6 DEF Followed, QuotesAffected, Quotes
<1>9. \A u \in clients' : u \in clients
         /\ (u = t \/ (queue'[u] = queue[u] /\ view'[u] = view[u]))
    BY <1>1, <1>2, <1>6 DEF TabTypes
<1> QED BY <1>2, <1>7, <1>8, <1>9, TabsStay

\* A step that broadcasts F, and what must be shown of each tab it leaves a client.
LEMMA TabsAreTold ==
    ASSUME FanoutInv, ServerTypes', NEW F \in Seq(Frame), Broadcast(F),
           \A d : d = listed => KnownEnd(F, d) = listed',
           \A m \in Markets : \A x :
               BookIsRight(m, x, books, listed, dirty, unshown)
                   => BookIsRight(m, BookEnd(F, m, x), books', listed', dirty', unshown'),
           \A d : (~ QuotesAffected(dirty) => d = Quotes(monitor, books))
                      => (~ QuotesAffected(dirty)' => QuotesEnd(F, d) = Quotes(monitor', books')),
           \A d : (unsaid = 0 /\ ~ silent => d = settings)
                      => (unsaid' = 0 /\ ~ silent' => ControlEnd(F, d) = settings')
    PROVE  FanoutInv'
<1>1. TabTypes
    BY DEF FanoutInv
<1>2. /\ TabTypes'
      /\ \A t \in clients' : t \in clients
    BY <1>1, BroadcastQueues
<1>3. ASSUME NEW t \in clients'
      PROVE  Followed(t)'
    <2> DEFINE k == KnownEnd(queue[t], view[t].known)
               a == QuotesEnd(queue[t], view[t].quotes)
               c == ControlEnd(queue[t], view[t].control)
    <2>1. Followed(t)
        BY <1>2 DEF FanoutInv
    <2>2. /\ KnownEnd(queue'[t], view'[t].known) = KnownEnd(F, k)
          /\ QuotesEnd(queue'[t], view'[t].quotes) = QuotesEnd(F, a)
          /\ ControlEnd(queue'[t], view'[t].control) = ControlEnd(F, c)
          /\ \A m : BookEnd(queue'[t], m, view'[t].books[m]) =
                        BookEnd(F, m, BookEnd(queue[t], m, view[t].books[m]))
        BY <1>1, BroadcastEnds
    <2>3. /\ k = listed
          /\ ~ QuotesAffected(dirty) => a = Quotes(monitor, books)
          /\ unsaid = 0 /\ ~ silent => c = settings
        BY <2>1 DEF Followed
    <2> HIDE DEF k, a, c
    <2>4. KnownEnd(queue'[t], view'[t].known) = listed'
        BY <2>2, <2>3
    <2>5. ~ QuotesAffected(dirty)' =>
              QuotesEnd(queue'[t], view'[t].quotes) = Quotes(monitor', books')
        BY <2>2, <2>3
    <2>6. unsaid' = 0 /\ ~ silent' => ControlEnd(queue'[t], view'[t].control) = settings'
        BY <2>2, <2>3
    <2>7. ASSUME NEW m \in Markets
          PROVE  BookIsRight(m, BookEnd(queue'[t], m, view'[t].books[m]),
                             books', listed', dirty', unshown')
        <3> DEFINE x == BookEnd(queue[t], m, view[t].books[m])
        <3>1. BookIsRight(m, x, books, listed, dirty, unshown)
            BY <2>1 DEF Followed
        <3>2. BookEnd(queue'[t], m, view'[t].books[m]) = BookEnd(F, m, x)
            BY <2>2
        <3> HIDE DEF x
        <3> QED BY <3>1, <3>2
    <2> QED BY <2>4, <2>5, <2>6, <2>7 DEF Followed
<1> QED BY <1>2, <1>3 DEF FanoutInv

LEMMA ChangeFollows ==
    ASSUME FanoutInv, NEW n \in Markets, Change(n)
    PROVE  FanoutInv'
<1>1. /\ changes < MaxChanges /\ changes' = changes + 1
      /\ books' = [books EXCEPT ![n] = changes + 1]
      /\ dirty' = dirty \cup {n}
      /\ unshown' = unshown \ {n}
      /\ UNCHANGED <<listed, monitor, settings, unsaid, silent,
                    clients, queue, socket, view, flush>>
    BY DEF Change, MarkDirty, controlVars, tabVars
<1>2. ServerTypes /\ TabTypes
    BY DEF FanoutInv
<1>3. changes + 1 \in Content /\ changes + 1 # None
    <2>1. changes \in 0 .. MaxChanges /\ MaxChanges \in Nat
        BY <1>2, FanoutAssumption DEF ServerTypes, Content
    <2> QED BY <1>1, <2>1 DEF Content, None
<1>4. ServerTypes'
    BY <1>1, <1>2, <1>3 DEF ServerTypes
<1>5. TabTypes'
    BY <1>1, <1>2 DEF TabTypes
<1>6. books'[n] # None /\ \A m \in Markets \ {n} : books'[m] = books[m]
    BY <1>1, <1>2, <1>3 DEF ServerTypes
<1>7. ASSUME NEW t \in clients' PROVE Followed(t)'
    <2>1. Followed(t)
        BY <1>1 DEF FanoutInv
    <2>2. ASSUME NEW m \in Markets
          PROVE  BookIsRight(m, BookEnd(queue'[t], m, view'[t].books[m]),
                             books', listed', dirty', unshown')
        <3> DEFINE x == BookEnd(queue[t], m, view[t].books[m])
        <3>1. BookIsRight(m, x, books, listed, dirty, unshown)
            BY <2>1 DEF Followed
        <3>2. BookEnd(queue'[t], m, view'[t].books[m]) = x
            BY <1>1
        <3> HIDE DEF x
        <3>3. CASE m = n
            BY <1>1, <1>6, <3>2, <3>3 DEF BookIsRight
        <3>4. CASE m # n
            BY <1>1, <1>6, <3>1, <3>2, <3>4 DEF BookIsRight
        <3> QED BY <3>3, <3>4
    <2>3. ASSUME ~ QuotesAffected(dirty)'
          PROVE  QuotesEnd(queue'[t], view'[t].quotes) = Quotes(monitor', books')
        <3>1. n \notin monitor /\ ~ QuotesAffected(dirty)
            BY <1>1, <2>3 DEF QuotesAffected
        <3>2. \A m \in monitor : books'[m] = books[m]
            BY <1>2, <1>6, <3>1 DEF ServerTypes
        <3>3. Quotes(monitor', books') = Quotes(monitor, books)
            BY <1>1, <3>2 DEF Quotes
        <3> QED BY <1>1, <2>1, <3>1, <3>3 DEF Followed
    <2>4. KnownEnd(queue'[t], view'[t].known) = listed'
        BY <1>1, <2>1 DEF Followed
    <2>5. unsaid' = 0 /\ ~ silent' => ControlEnd(queue'[t], view'[t].control) = settings'
        BY <1>1, <2>1 DEF Followed
    <2> QED BY <2>2, <2>3, <2>4, <2>5 DEF Followed
<1> QED BY <1>4, <1>5, <1>7 DEF FanoutInv

LEMMA FlushFollows ==
    ASSUME FanoutInv, Flush
    PROVE  FanoutInv'
<1> DEFINE F == FlushFrames
<1>1. /\ dirty' = {} /\ Broadcast(F)
      /\ flush' \in {"sleeps", "persists"}
      /\ UNCHANGED <<books, changes, listed, monitor, unshown, settings, unsaid, silent>>
    BY DEF Flush, controlVars
<1>2. ServerTypes
    BY DEF FanoutInv
<1>3. ServerTypes'
    BY <1>1, <1>2 DEF ServerTypes
<1>4. /\ F \in Seq(Frame)
      /\ \A d : /\ KnownEnd(F, d) = d
                /\ QuotesEnd(F, d) =
                       IF QuotesAffected(dirty) THEN Quotes(monitor, books) ELSE d
                /\ ControlEnd(F, d) = d
      /\ \A m \in Markets : \A d :
            BookEnd(F, m, d) = IF m \in dirty /\ books[m] # None THEN books[m] ELSE d
    <2>1. monitor \subseteq Markets
        BY <1>2 DEF ServerTypes
    <2> QED BY <1>2, <2>1, FlushEnds DEF ServerTypes
<1> HIDE DEF F
<1>5. \A d : d = listed => KnownEnd(F, d) = listed'
    BY <1>1, <1>4
<1>6. ASSUME NEW m \in Markets, NEW x, BookIsRight(m, x, books, listed, dirty, unshown)
      PROVE  BookIsRight(m, BookEnd(F, m, x), books', listed', dirty', unshown')
    <2>1. BookEnd(F, m, x) = IF m \in dirty /\ books[m] # None THEN books[m] ELSE x
        BY <1>4
    <2>2. CASE m \in dirty /\ books[m] # None
        BY <1>1, <2>1, <2>2 DEF BookIsRight
    <2>3. CASE ~ (m \in dirty /\ books[m] # None)
        BY <1>1, <1>6, <2>1, <2>3 DEF BookIsRight
    <2> QED BY <2>2, <2>3
<1>7. \A d : (~ QuotesAffected(dirty) => d = Quotes(monitor, books))
                 => (~ QuotesAffected(dirty)' => QuotesEnd(F, d) = Quotes(monitor', books'))
    BY <1>1, <1>4
<1>8. \A d : (unsaid = 0 /\ ~ silent => d = settings)
                 => (unsaid' = 0 /\ ~ silent' => ControlEnd(F, d) = settings')
    BY <1>1, <1>4
<1> QED BY <1>1, <1>3, <1>4, <1>5, <1>6, <1>7, <1>8, TabsAreTold

\* A frame that shows no book, quote or switch.
LEMMA OtherFrameFollows ==
    ASSUME FanoutInv, Broadcast(<<OtherFrame>>), UNCHANGED <<stateVars, controlVars>>,
           flush' \in {"sleeps", "persists"}
    PROVE  FanoutInv'
<1>1. UNCHANGED <<books, changes, listed, monitor, dirty, unshown, settings, unsaid, silent>>
    BY DEF stateVars, controlVars
<1>2. ServerTypes
    BY DEF FanoutInv
<1>3. ServerTypes'
    BY <1>1, <1>2 DEF ServerTypes
<1> DEFINE F == <<OtherFrame>>
<1>4. /\ F \in Seq(Frame)
      /\ \A d : KnownEnd(F, d) = d /\ QuotesEnd(F, d) = d /\ ControlEnd(F, d) = d
      /\ \A m, d : BookEnd(F, m, d) = d
    <2>1. OtherFrame \in Frame /\ OtherFrame.t = "other"
        BY <1>2, ServerFrames DEF ServerTypes
    <2> DEFINE f == OtherFrame
    <2> HIDE DEF f
    <2>2. f \in Frame /\ f.t = "other" /\ F = <<f>>
        BY <2>1 DEF f
    <2> HIDE DEF F
    <2> QED BY <2>2, OneFrame
<1>5. Broadcast(F)
    OBVIOUS
<1> HIDE DEF F
<1>6. \A d : d = listed => KnownEnd(F, d) = listed'
    BY <1>1, <1>4
<1>7. \A m \in Markets : \A x :
          BookIsRight(m, x, books, listed, dirty, unshown)
              => BookIsRight(m, BookEnd(F, m, x), books', listed', dirty', unshown')
    BY <1>1, <1>4
<1>8. \A d : (~ QuotesAffected(dirty) => d = Quotes(monitor, books))
                 => (~ QuotesAffected(dirty)' => QuotesEnd(F, d) = Quotes(monitor', books'))
    BY <1>1, <1>4 DEF QuotesAffected
<1>9. \A d : (unsaid = 0 /\ ~ silent => d = settings)
                 => (unsaid' = 0 /\ ~ silent' => ControlEnd(F, d) = settings')
    BY <1>1, <1>4
<1> QED BY <1>3, <1>4, <1>5, <1>6, <1>7, <1>8, <1>9, TabsAreTold

LEMMA AnnounceFollows ==
    ASSUME FanoutInv, Announce
    PROVE  FanoutInv'
<1> DEFINE F == <<ControlFrame(settings)>>
<1>1. /\ unsaid > 0 /\ unsaid' = unsaid - 1 /\ silent' = FALSE /\ Broadcast(F)
      /\ UNCHANGED <<books, changes, listed, monitor, dirty, unshown, settings, flush>>
    BY DEF Announce, stateVars
<1>2. ServerTypes
    BY DEF FanoutInv
<1>3. ServerTypes'
    <2>1. unsaid' \in Nat
        BY <1>1, <1>2 DEF ServerTypes
    <2> QED BY <1>1, <1>2, <2>1 DEF ServerTypes
<1>4. /\ F \in Seq(Frame)
      /\ \A d : KnownEnd(F, d) = d /\ QuotesEnd(F, d) = d /\ ControlEnd(F, d) = settings
      /\ \A m, d : BookEnd(F, m, d) = d
    <2> DEFINE f == ControlFrame(settings)
    <2>1. f \in Frame /\ f.t = "control" /\ f.control = settings
        BY <1>2, ServerFrames DEF ServerTypes
    <2>2. F = <<f>>
        OBVIOUS
    <2> HIDE DEF f, F
    <2> QED BY <2>1, <2>2, OneFrame
<1> HIDE DEF F
<1>5. \A d : d = listed => KnownEnd(F, d) = listed'
    BY <1>1, <1>4
<1>6. \A m \in Markets : \A x :
          BookIsRight(m, x, books, listed, dirty, unshown)
              => BookIsRight(m, BookEnd(F, m, x), books', listed', dirty', unshown')
    BY <1>1, <1>4
<1>7. \A d : (~ QuotesAffected(dirty) => d = Quotes(monitor, books))
                 => (~ QuotesAffected(dirty)' => QuotesEnd(F, d) = Quotes(monitor', books'))
    BY <1>1, <1>4 DEF QuotesAffected
<1>8. \A d : (unsaid = 0 /\ ~ silent => d = settings)
                 => (unsaid' = 0 /\ ~ silent' => ControlEnd(F, d) = settings')
    BY <1>1, <1>4
<1> QED BY <1>1, <1>3, <1>4, <1>5, <1>6, <1>7, <1>8, TabsAreTold

\* What the payload of the watched pairs ends in.
LEMMA PublishedEnds ==
    ASSUME books \in [Markets -> Content], settings \in Nat, NEW M \in SUBSET Markets
    PROVE  /\ Published(M) \in Seq(Frame)
           /\ \A d : /\ KnownEnd(Published(M), d) = d
                     /\ QuotesEnd(Published(M), d) = Quotes(M, books)
                     /\ ControlEnd(Published(M), d) = d
           /\ \A m, d : BookEnd(Published(M), m, d) = d
<1> DEFINE f == ArbFrame(M, books)
<1>1. f \in Frame /\ f.t = "arb" /\ f.quotes = Quotes(M, books)
    BY ServerFrames
<1>2. Published(M) = <<f>>
    BY DEF Published
<1> HIDE DEF f
<1> QED BY <1>1, <1>2, OneFrame

LEMMA StopFollows ==
    ASSUME FanoutInv, NEW M, Stop(M)
    PROVE  FanoutInv'
<1> DEFINE F == Published(M)
<1>1. /\ unsaid' = unsaid + 1 /\ settings' = settings + 1
      /\ M \subseteq monitor /\ monitor' = M /\ Broadcast(F)
      /\ UNCHANGED <<books, changes, listed, dirty, unshown, silent, flush>>
    BY DEF Stop, Requested
<1>2. ServerTypes
    BY DEF FanoutInv
<1>3. ServerTypes' /\ unsaid' # 0 /\ M \in SUBSET Markets
    BY <1>1, <1>2 DEF ServerTypes
<1>4. /\ F \in Seq(Frame)
      /\ \A d : KnownEnd(F, d) = d /\ QuotesEnd(F, d) = Quotes(M, books)
      /\ \A m, d : BookEnd(F, m, d) = d
    BY <1>2, <1>3, PublishedEnds DEF ServerTypes
<1> HIDE DEF F
<1>5. \A d : d = listed => KnownEnd(F, d) = listed'
    BY <1>1, <1>4
<1>6. \A m \in Markets : \A x :
          BookIsRight(m, x, books, listed, dirty, unshown)
              => BookIsRight(m, BookEnd(F, m, x), books', listed', dirty', unshown')
    BY <1>1, <1>4
<1>7. \A d : (~ QuotesAffected(dirty) => d = Quotes(monitor, books))
                 => (~ QuotesAffected(dirty)' => QuotesEnd(F, d) = Quotes(monitor', books'))
    BY <1>1, <1>4
<1>8. \A d : (unsaid = 0 /\ ~ silent => d = settings)
                 => (unsaid' = 0 /\ ~ silent' => ControlEnd(F, d) = settings')
    BY <1>3
<1> QED BY <1>1, <1>3, <1>4, <1>5, <1>6, <1>7, <1>8, TabsAreTold

\* A switch, or an action that fails half-way, tells the tabs nothing yet.
LEMMA UntoldFollows ==
    ASSUME FanoutInv, settings' = settings + 1, UNCHANGED <<stateVars, tabVars, flush>>,
           unsaid' \in Nat, silent' \in BOOLEAN, unsaid' # 0 \/ silent'
    PROVE  FanoutInv'
<1>1. UNCHANGED <<books, changes, listed, monitor, dirty, unshown, flush,
                  clients, queue, socket, view>>
    BY DEF stateVars, tabVars
<1>2. ServerTypes /\ TabTypes
    BY DEF FanoutInv
<1>3. ServerTypes'
    BY <1>1, <1>2 DEF ServerTypes
<1>4. TabTypes'
    BY <1>1, <1>2 DEF TabTypes
<1>5. ASSUME NEW t \in clients' PROVE Followed(t)'
    <2>1. Followed(t)
        BY <1>1 DEF FanoutInv
    <2> QED BY <1>1, <2>1 DEF Followed, BookIsRight, QuotesAffected, Quotes
<1> QED BY <1>3, <1>4, <1>5 DEF FanoutInv

\* A change of the listed markets: what it leaves of the books, and of what a tab
\* must show of them.
LEMMA UniverseKeeps ==
    ASSUME ServerTypes, NEW L \in SUBSET Markets, ApplyUniverse(L)
    PROVE  /\ listed' = L /\ books' \in [Markets -> Content] /\ changes' \in Content
           /\ dirty' \subseteq Markets /\ unshown' \subseteq Markets /\ dirty \subseteq dirty'
           /\ \A m \in L \ dirty' : books'[m] = books[m]
           /\ \A m \in Markets : \A x :
                 BookIsRight(m, x, books, listed, dirty, unshown)
                     => BookIsRight(m, IF L # listed /\ m \notin L THEN None ELSE x,
                                    books', listed', dirty', unshown')
<1> DEFINE moved == Retuned(L)
           gone == Dropped(L)
<1>1. /\ listed' = L
      /\ moved # {} => changes < MaxChanges
      /\ changes' = IF moved = {} THEN changes ELSE changes + 1
      /\ books' = [m \in Markets |-> CASE m \in gone -> None
                                       [] m \in moved -> changes + 1
                                       [] OTHER -> books[m]]
      /\ dirty' = dirty \cup moved
      /\ unshown' = IF L = listed THEN unshown
                    ELSE {m \in (unshown \cup (Markets \ L)) \ dirty' : books'[m] # None}
    BY DEF ApplyUniverse, MarkDirty
<1>2. moved \subseteq L /\ gone \cap L = {} /\ (L = listed => moved = {} /\ gone = {})
    BY DEF Retuned, Dropped
<1>3. /\ books \in [Markets -> Content] /\ changes \in Content
      /\ listed \subseteq Markets /\ dirty \subseteq Markets /\ unshown \subseteq Markets
    BY DEF ServerTypes
<1> HIDE DEF moved, gone
<1>4. None \in Content /\ changes' \in Content /\ (moved # {} => changes + 1 \in Content)
    BY <1>1, <1>3, FanoutAssumption DEF Content, None
<1>5. \A m \in Markets : /\ m \in gone => books'[m] = None
                         /\ m \notin gone /\ m \in moved => books'[m] = changes + 1
                         /\ m \notin gone /\ m \notin moved => books'[m] = books[m]
    BY <1>1, <1>2
<1>6. books' \in [Markets -> Content]
    <2>1. \A m \in Markets : books'[m] \in Content
        BY <1>3, <1>4, <1>5
    <2>2. books' = [m \in Markets |-> books'[m]]
        BY <1>1
    <2> QED BY <2>1, <2>2
<1>7. dirty' \subseteq Markets /\ dirty \subseteq dirty' /\ unshown' \subseteq Markets
    BY <1>1, <1>2, <1>3
<1>8. \A m \in L \ dirty' : books'[m] = books[m]
    BY <1>1, <1>2, <1>5
<1>9. ASSUME NEW m \in Markets, NEW x, BookIsRight(m, x, books, listed, dirty, unshown)
      PROVE  BookIsRight(m, IF L # listed /\ m \notin L THEN None ELSE x,
                         books', listed', dirty', unshown')
    <2>1. CASE L = listed
        <3>1. books'[m] = books[m] /\ dirty' = dirty /\ unshown' = unshown /\ listed' = listed
            BY <1>1, <1>2, <1>5, <2>1
        <3> QED BY <1>9, <2>1, <3>1 DEF BookIsRight
    <2>2. CASE L # listed /\ m \notin L
        <3>1. m \notin dirty' /\ books'[m] # None => m \in unshown'
            BY <1>1, <2>2
        <3> QED BY <2>2, <3>1 DEF BookIsRight
    <2>3. CASE L # listed /\ m \in L
        <3>1. ASSUME m \notin dirty', books'[m] # None
              PROVE  x = books'[m] \/ (m \in unshown' /\ x = None)
            <4>1. m \notin dirty /\ books'[m] = books[m]
                BY <1>7, <1>8, <2>3, <3>1
            <4>2. x = books[m] \/ (m \in unshown /\ x = None)
                BY <1>9, <3>1, <4>1 DEF BookIsRight
            <4>3. m \in unshown => m \in unshown'
                BY <1>1, <2>3, <3>1
            <4> QED BY <4>1, <4>2, <4>3
        <3> QED BY <1>1, <2>3, <3>1 DEF BookIsRight
    <2> QED BY <2>1, <2>2, <2>3
<1> QED BY <1>1, <1>4, <1>6, <1>7, <1>8, <1>9

LEMMA UniverseFollows ==
    ASSUME FanoutInv, NEW L \in SUBSET Markets, Universe(L)
    PROVE  FanoutInv'
<1> DEFINE F == Hellos(L)
<1>1. /\ unsaid' = unsaid + 1 /\ settings' = settings + 1 /\ monitor \subseteq L
      /\ ApplyUniverse(L) /\ Broadcast(F)
      /\ UNCHANGED <<monitor, silent, flush>>
    BY DEF Universe, Requested
<1>2. ServerTypes
    BY DEF FanoutInv
<1>3. /\ listed' = L /\ books' \in [Markets -> Content] /\ changes' \in Content
      /\ dirty' \subseteq Markets /\ unshown' \subseteq Markets /\ dirty \subseteq dirty'
      /\ \A m \in L \ dirty' : books'[m] = books[m]
      /\ \A m \in Markets : \A x :
            BookIsRight(m, x, books, listed, dirty, unshown)
                => BookIsRight(m, IF L # listed /\ m \notin L THEN None ELSE x,
                               books', listed', dirty', unshown')
    BY <1>1, <1>2, UniverseKeeps
<1>4. ServerTypes' /\ unsaid' # 0
    BY <1>1, <1>2, <1>3 DEF ServerTypes
<1>5. /\ F \in Seq(Frame)
      /\ \A d : KnownEnd(F, d) = (IF L = listed THEN d ELSE L) /\ QuotesEnd(F, d) = d
      /\ \A m, d : BookEnd(F, m, d) = IF L # listed /\ m \notin L THEN None ELSE d
    BY <1>2, HellosEnd DEF ServerTypes
<1> HIDE DEF F
<1>6. \A d : d = listed => KnownEnd(F, d) = listed'
    BY <1>3, <1>5
<1>7. \A m \in Markets : \A x :
          BookIsRight(m, x, books, listed, dirty, unshown)
              => BookIsRight(m, BookEnd(F, m, x), books', listed', dirty', unshown')
    BY <1>3, <1>5
<1>8. ASSUME NEW d, ~ QuotesAffected(dirty) => d = Quotes(monitor, books),
             ~ QuotesAffected(dirty)'
      PROVE  QuotesEnd(F, d) = Quotes(monitor', books')
    <2>1. ~ QuotesAffected(dirty) /\ monitor \cap dirty' = {}
        BY <1>1, <1>3, <1>8 DEF QuotesAffected
    <2>2. \A m \in monitor : books'[m] = books[m]
        BY <1>1, <1>3, <2>1
    <2>3. Quotes(monitor', books') = Quotes(monitor, books)
        BY <1>1, <2>2 DEF Quotes
    <2> QED BY <1>5, <1>8, <2>1, <2>3
<1>9. \A d : (unsaid = 0 /\ ~ silent => d = settings)
                 => (unsaid' = 0 /\ ~ silent' => ControlEnd(F, d) = settings')
    BY <1>4
<1> QED BY <1>1, <1>4, <1>5, <1>6, <1>7, <1>8, <1>9, TabsAreTold

\* The quotes of the new pairs go out on the books before the universe moves, and
\* are those of the books after it unless one was marked dirty.
LEMMA ReloadFollows ==
    ASSUME FanoutInv, NEW M, NEW L \in SUBSET Markets, Reload(M, L)
    PROVE  FanoutInv'
<1> DEFINE p == Published(M)
           h == Hellos(L)
           F == p \o h
<1>1. /\ unsaid' = unsaid + 1 /\ settings' = settings + 1
      /\ M \subseteq L /\ monitor' = M
      /\ ApplyUniverse(L) /\ Broadcast(F)
      /\ UNCHANGED <<silent, flush>>
    BY DEF Reload, Requested
<1>2. ServerTypes
    BY DEF FanoutInv
<1>3. /\ listed' = L /\ books' \in [Markets -> Content] /\ changes' \in Content
      /\ dirty' \subseteq Markets /\ unshown' \subseteq Markets /\ dirty \subseteq dirty'
      /\ \A m \in L \ dirty' : books'[m] = books[m]
      /\ \A m \in Markets : \A x :
            BookIsRight(m, x, books, listed, dirty, unshown)
                => BookIsRight(m, IF L # listed /\ m \notin L THEN None ELSE x,
                               books', listed', dirty', unshown')
    BY <1>1, <1>2, UniverseKeeps
<1>4. ServerTypes' /\ unsaid' # 0 /\ M \in SUBSET Markets
    BY <1>1, <1>2, <1>3 DEF ServerTypes
<1>5. /\ h \in Seq(Frame)
      /\ \A d : KnownEnd(h, d) = (IF L = listed THEN d ELSE L) /\ QuotesEnd(h, d) = d
      /\ \A m, d : BookEnd(h, m, d) = IF L # listed /\ m \notin L THEN None ELSE d
    BY <1>2, HellosEnd DEF ServerTypes
<1>6. /\ p \in Seq(Frame)
      /\ \A d : KnownEnd(p, d) = d /\ QuotesEnd(p, d) = Quotes(M, books)
      /\ \A m, d : BookEnd(p, m, d) = d
    BY <1>2, <1>4, PublishedEnds DEF ServerTypes
<1> HIDE DEF p, h
<1>7. /\ F \in Seq(Frame)
      /\ \A d : KnownEnd(F, d) = (IF L = listed THEN d ELSE L)
                /\ QuotesEnd(F, d) = Quotes(M, books)
      /\ \A m, d : BookEnd(F, m, d) = IF L # listed /\ m \notin L THEN None ELSE d
    <2>1. \A d : /\ KnownEnd(F, d) = KnownEnd(h, KnownEnd(p, d))
                 /\ QuotesEnd(F, d) = QuotesEnd(h, QuotesEnd(p, d))
                 /\ ControlEnd(F, d) = ControlEnd(h, ControlEnd(p, d))
                 /\ \A m : BookEnd(F, m, d) = BookEnd(h, m, BookEnd(p, m, d))
        BY <1>5, <1>6, EndsOfConcat, Zenon
    <2>2. F \in Seq(Frame)
        BY <1>5, <1>6
    <2> HIDE DEF F
    <2>3. \A d : KnownEnd(F, d) = (IF L = listed THEN d ELSE L)
                 /\ QuotesEnd(F, d) = Quotes(M, books)
        BY <1>5, <1>6, <2>1
    <2>4. \A m, d : BookEnd(F, m, d) = IF L # listed /\ m \notin L THEN None ELSE d
        BY <1>5, <1>6, <2>1
    <2> QED BY <2>2, <2>3, <2>4
<1> HIDE DEF F
<1>8. \A d : d = listed => KnownEnd(F, d) = listed'
    BY <1>3, <1>7
<1>9. \A m \in Markets : \A x :
          BookIsRight(m, x, books, listed, dirty, unshown)
              => BookIsRight(m, BookEnd(F, m, x), books', listed', dirty', unshown')
    BY <1>3, <1>7
<1>10. ASSUME NEW d, ~ QuotesAffected(dirty)'
       PROVE  QuotesEnd(F, d) = Quotes(monitor', books')
    <2>1. M \cap dirty' = {}
        BY <1>1, <1>10 DEF QuotesAffected
    <2>2. \A m \in M : books'[m] = books[m]
        BY <1>1, <1>3, <2>1
    <2>3. Quotes(monitor', books') = Quotes(M, books)
        BY <1>1, <2>2 DEF Quotes
    <2> QED BY <1>7, <2>3
<1>11. \A d : (unsaid = 0 /\ ~ silent => d = settings)
                 => (unsaid' = 0 /\ ~ silent' => ControlEnd(F, d) = settings')
    BY <1>4
<1> QED BY <1>1, <1>4, <1>7, <1>8, <1>9, <1>10, <1>11, TabsAreTold

LEMMA FanoutStep ==
    ASSUME FanoutInv, [FanoutNext]_fanoutVars
    PROVE  FanoutInv'
<1>1. ASSUME NEW t \in Tabs, TabStep(t) \/ Leaves(t) PROVE FanoutInv'
    <2>1. CASE Accept(t)
        BY <2>1, AcceptFollows
    <2>2. CASE Refuse(t)
        BY <2>2, RefuseFollows
    <2>3. CASE Closes(t) \/ Leaves(t)
        <3>1. Gone(t)
            BY <2>3 DEF Closes, Leaves
        <3> QED BY <3>1, GoneFollows
    <2>4. CASE Deliver(t)
        BY <2>4, DeliverFollows
    <2>5. CASE Redial(t)
        BY <2>5, RedialFollows
    <2> QED BY <1>1, <2>1, <2>2, <2>3, <2>4, <2>5 DEF TabStep
<1>2. ASSUME NEW m \in Markets, Change(m) PROVE FanoutInv'
    BY <1>2, ChangeFollows
<1>3. CASE Flush
    BY <1>3, FlushFollows
<1>4. CASE Persisted \/ Other
    <2>1. /\ Broadcast(<<OtherFrame>>) /\ UNCHANGED <<stateVars, controlVars>>
          /\ flush' = "sleeps" \/ flush' = flush
        BY <1>4 DEF Persisted, Other
    <2>2. flush \in {"sleeps", "persists"}
        BY DEF FanoutInv, ServerTypes
    <2> QED BY <2>1, <2>2, OtherFrameFollows
<1>5. ASSUME NEW M \in WatchSets, Stop(M) PROVE FanoutInv'
    BY <1>5, StopFollows
<1>6. ASSUME NEW L \in SUBSET Markets, Universe(L) PROVE FanoutInv'
    BY <1>6, UniverseFollows
<1>7. ASSUME NEW L \in SUBSET Markets, NEW M \in WatchSets, Reload(M, L) PROVE FanoutInv'
    BY <1>7, ReloadFollows
<1>8. CASE Switch \/ FailsHalfway
    <2>1. unsaid \in Nat /\ silent \in BOOLEAN
        BY DEF FanoutInv, ServerTypes
    <2>2. /\ settings' = settings + 1 /\ UNCHANGED <<stateVars, tabVars, flush>>
          /\ \/ unsaid' = unsaid + 1 /\ silent' = silent
             \/ unsaid' = unsaid /\ silent' = TRUE
        BY <1>8 DEF Switch, FailsHalfway, Requested
    <2>3. CASE unsaid' = unsaid + 1 /\ silent' = silent
        <3>1. unsaid' \in Nat /\ unsaid' # 0
            BY <2>1, <2>3
        <3> QED BY <2>1, <2>2, <2>3, <3>1, UntoldFollows
    <2>4. CASE unsaid' = unsaid /\ silent' = TRUE
        <3>1. unsaid' \in Nat /\ silent' \in BOOLEAN /\ silent'
            BY <2>1, <2>4
        <3> QED BY <2>2, <3>1, UntoldFollows
    <2> QED BY <2>2, <2>3, <2>4
<1>9. CASE Announce
    BY <1>9, AnnounceFollows
<1>10. CASE UNCHANGED fanoutVars
    <2>1. /\ UNCHANGED <<stateVars, controlVars, flush>>
          /\ UNCHANGED <<clients, queue, socket, view>>
        BY <1>10 DEF fanoutVars, tabVars
    <2>2. TabTypes
        BY DEF FanoutInv
    <2>3. TabTypes'
        BY <2>1, <2>2 DEF TabTypes
    <2>4. \A t \in clients' : t \in clients /\ queue'[t] = queue[t] /\ view'[t] = view[t]
        BY <2>1
    <2> QED BY <2>1, <2>3, <2>4, TabsStay
<1> QED BY <1>1, <1>2, <1>3, <1>4, <1>5, <1>6, <1>7, <1>8, <1>9, <1>10 DEF FanoutNext

\* Whatever the feeds, the operator and the network do, and however many tabs and
\* markets there are, a tab the server has not dropped is followed: what it shows
\* after its queue is what the server has (broadcast and the snapshot of a new
\* client in ui/server.py, the universe changes and broadcast_state of ui/control.py).
THEOREM TabsAreFollowed == FanoutSpec => []EveryTabIsFollowed
<1>1. FanoutInit => FanoutInv
    BY FanoutStart
<1>2. FanoutInv /\ [FanoutNext]_fanoutVars => FanoutInv'
    BY FanoutStep
<1>3. FanoutInv => EveryTabIsFollowed
    BY FollowedMeans
<1> QED BY <1>1, <1>2, <1>3, PTL DEF FanoutSpec
=============================================================================
