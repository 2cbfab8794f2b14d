------------------------------ MODULE Shutdown ------------------------------
(***************************************************************************)
(* The way out of arb ui: src/arb/shutdown.py around the startup, the      *)
(* serving and the cleanup of run_ui (src/arb/ui/server.py), under signals *)
(* at any point.  asyncio.Runner, which answers the first interrupt with a *)
(* cancellation of the main task and every further one with a              *)
(* KeyboardInterrupt, and uvicorn, which captures the signals while it     *)
(* serves and replays them afterwards, are modelled as the code uses them. *)
(*                                                                         *)
(* One supervised task (src/arb/supervise.py) stands for the feeds and     *)
(* loops that cleanup awaits: its backoff can overflow, which ends it.     *)
(***************************************************************************)
EXTENDS Integers, Sequences

CONSTANTS
    OverflowAt, \* the attempt whose delay no float can hold
    MaxTerms,   \* bound on the SIGTERMs sent
    MaxInts     \* bound on the SIGINTs sent

ASSUME ShutdownAssumption == {OverflowAt, MaxTerms, MaxInts} \subseteq Nat

VARIABLES
    pc,          \* where the main task is
    raising,     \* what is on its way out of main()
    pending,     \* the main task was cancelled and has not been told yet
    cancelling,  \* Task.cancelling() of the main task
    outstanding, \* Shutdown._cancel_outstanding
    sigterms,    \* Shutdown._sigterms
    interrupts,  \* Runner._interrupt_count
    captured,    \* by uvicorn, to be replayed
    exiting,     \* Server.should_exit
    held,        \* a cancellation waits for the cleanup to finish
    inner,       \* the task cleanup runs in
    step,        \* what cleanup does next
    struck,      \* the cleanup task was cancelled and has not been told yet
    teardown,    \* a KeyboardInterrupt broke the loop: every task was cancelled
    writer,      \* the writer of the recorder is alive
    task, attempts, \* the supervised task and the attempts of its Backoff
    waited,      \* cleanup gave the writer its time to write the queue
    forced,      \* a KeyboardInterrupt cut the cleanup off
    status,      \* how the process ended
    terms, ints  \* signals sent

mainVars    == <<pc, raising, pending, cancelling>>
handlerVars == <<outstanding, sigterms, interrupts>>
serverVars  == <<captured, exiting>>
cleanupVars == <<held, inner, step, struck, writer, waited>>
taskVars    == <<task, attempts>>
endVars     == <<teardown, forced, status>>
sentVars    == <<terms, ints>>
shutdownVars == <<mainVars, handlerVars, serverVars, cleanupVars, taskVars, endVars, sentVars>>

Pcs == {"boot", "startup", "checked", "gate", "entering", "serving", "replay",
        "absorb", "cleanup", "exited"}
Steps == {"jobs", "tasks", "drain", "writer", "dispose"}
Raised == {"nothing", "cancelled", "error", "interrupt"}
Ends == {"running", "clean", "interrupted", "cancelled", "failed", "killed"}

ShutdownInit ==
    /\ pc = "boot" /\ raising = "nothing" /\ pending = FALSE /\ cancelling = 0
    /\ outstanding = FALSE /\ sigterms = 0 /\ interrupts = 0
    /\ captured = <<>> /\ exiting = FALSE
    /\ held = FALSE /\ inner = "none" /\ step = "jobs" /\ struck = FALSE
    /\ writer = TRUE /\ waited = FALSE
    /\ task = "none" /\ attempts = 0
    /\ teardown = FALSE /\ forced = FALSE /\ status = "running"
    /\ terms = 0 /\ ints = 0

-----------------------------------------------------------------------------
(* The supervised task *)

Spawn ==
    /\ pc = "startup" /\ task = "none"
    /\ task' = "up"
    /\ UNCHANGED <<mainVars, handlerVars, serverVars, cleanupVars, attempts, endVars, sentVars>>

\* A run that ends: the attempts start anew after a healthy one, and next_delay
\* raises on an attempt too many, outside the try of supervise.
RunEnds ==
    /\ task = "up"
    /\ \E attempt \in {0, attempts} :
           IF attempt >= OverflowAt
             THEN task' = "dead" /\ UNCHANGED attempts
             ELSE attempts' = attempt + 1 /\ UNCHANGED task
    /\ UNCHANGED <<mainVars, handlerVars, serverVars, cleanupVars, endVars, sentVars>>

-----------------------------------------------------------------------------
(* The main task *)

otherVars == <<cancelling, handlerVars, serverVars, cleanupVars, taskVars, endVars, sentVars>>

Goes(to) == pc' = to /\ UNCHANGED <<raising, pending, otherVars>>

Install == pc = "boot" /\ Goes("startup")

\* Shutdown.serve: its test for a SIGTERM, and the server it remembers.
Check == pc = "startup" /\ task # "none" /\ Goes(IF sigterms > 0 THEN "gate" ELSE "checked")

Enter == pc = "checked" /\ Goes("entering")

\* capture_signals: from here on both signals are uvicorn's.
Capture == pc = "entering" /\ Goes("serving")

\* uvicorn has closed its connections: what it captured is replayed, last first.
Served == pc = "serving" /\ exiting /\ ~ pending /\ Goes("replay")

\* main() ends, with an exception or not.
MainEnds(how) == pc' = "absorb" /\ raising' = how

\* The await at which a cancelled main task is told: in serve() after a SIGTERM of
\* the startup the sleep(0), which only a cancelled task gets to.
Told ==
    /\ pending /\ pending' = FALSE
    /\ pc \in {"startup", "gate", "serving"}
    /\ MainEnds("cancelled")
    /\ UNCHANGED otherVars

Fails ==
    /\ pc \in {"startup", "serving"}
    /\ MainEnds("error")
    /\ UNCHANGED <<pending, otherVars>>

Replayed ==
    /\ pc = "replay" /\ captured = <<>>
    /\ MainEnds("nothing")
    /\ UNCHANGED <<pending, otherVars>>

\* _absorb_pending_cancel, and the task of the cleanup.
Absorb ==
    /\ pc = "absorb"
    /\ pc' = "cleanup" /\ inner' = "running"
    /\ pending' = FALSE
    /\ cancelling' = IF pending THEN cancelling - 1 ELSE cancelling
    /\ outstanding' = (outstanding /\ ~ pending)
    /\ UNCHANGED <<raising, sigterms, interrupts, serverVars, held, step, struck, writer,
                   waited, taskVars, endVars, sentVars>>

-----------------------------------------------------------------------------
(* The cleanup of run_ui, in a task of its own *)

\* Mutant: cleanup is awaited as it is, and a cancellation lands in it.
HoldPassesOn ==
    /\ pc = "cleanup" /\ pending
    /\ pending' = FALSE /\ held' = TRUE /\ struck' = (inner = "running")
    /\ UNCHANGED <<pc, raising, cancelling, handlerVars, serverVars, inner, step, writer,
                   waited, taskVars, endVars, sentVars>>

Hold ==
    /\ pc = "cleanup" /\ pending
    /\ pending' = FALSE /\ held' = TRUE
    /\ UNCHANGED <<pc, raising, cancelling, handlerVars, serverVars, inner, step, struck,
                   writer, waited, taskVars, endVars, sentVars>>

CleanupGoesOn(s) ==
    /\ inner = "running" /\ ~ struck /\ step = s
    /\ UNCHANGED <<mainVars, handlerVars, serverVars, held, struck, attempts, endVars, sentVars>>

\* Jobs are cancelled and waited for, whatever they raise.
CloseJobs ==
    /\ CleanupGoesOn("jobs")
    /\ step' = "tasks"
    /\ UNCHANGED <<inner, writer, waited, task>>

\* Feeds and loops are cancelled; one that died of an exception raises it here.
CloseTasks ==
    /\ CleanupGoesOn("tasks")
    /\ IF task = "dead" THEN inner' = "failed" /\ UNCHANGED <<step, task>>
                        ELSE /\ step' = "drain" /\ UNCHANGED inner
                             /\ task' = IF task = "none" THEN "none" ELSE "cancelled"
    /\ UNCHANGED <<writer, waited>>

\* The drain ends with its queue or with its time.
Drain ==
    /\ CleanupGoesOn("drain")
    /\ step' = "writer" /\ waited' = writer
    /\ UNCHANGED <<inner, writer, task>>

CloseWriter ==
    /\ CleanupGoesOn("writer")
    /\ step' = "dispose" /\ writer' = FALSE
    /\ UNCHANGED <<inner, waited, task>>

Dispose ==
    /\ CleanupGoesOn("dispose")
    /\ inner' = "done"
    /\ UNCHANGED <<step, writer, waited, task>>

\* Told that it is cancelled, cleanup goes on where a task is awaited under
\* suppress(CancelledError), and ends elsewhere.
Struck ==
    /\ inner = "running" /\ struck
    /\ struck' = FALSE
    /\ CASE step = "jobs"   -> step' = "tasks" /\ UNCHANGED <<inner, writer>>
         [] step = "tasks"  -> step' = "drain" /\ UNCHANGED <<inner, writer>>
         [] step = "writer" -> step' = "dispose" /\ writer' = FALSE /\ UNCHANGED inner
         [] OTHER           -> inner' = "cancelled" /\ UNCHANGED <<step, writer>>
    /\ UNCHANGED <<mainVars, handlerVars, serverVars, held, waited, taskVars, endVars, sentVars>>

-----------------------------------------------------------------------------
(* The end *)

\* What leaves serve_then_cleanup once its cleanup is over.
Leaving ==
    IF inner = "failed" THEN "error"
    ELSE IF inner = "cancelled" \/ held THEN "cancelled" ELSE raising

\* Mutant: every cancellation is taken for the one SIGTERM asked for.
ClaimedAny == outstanding

Claimed == outstanding /\ cancelling = 1

\* Runner.run and the command line: an interrupt exits 130 once every cancellation
\* is accounted for.
EndsAs(how, left) ==
    IF teardown THEN "interrupted"
    ELSE CASE how = "interrupt" -> "interrupted"
           [] how = "error"     -> "failed"
           [] how = "nothing"   -> "clean"
           [] how = "cancelled" -> IF interrupts > 0 /\ left = 1 THEN "interrupted"
                                                                 ELSE "cancelled"

\* The main task ends: a claimed cancellation ends it as if nothing had been
\* raised, one that is still pending then cancels it after all.
Exit ==
    /\ pc = "cleanup" /\ inner \notin {"none", "running"}
    /\ pc' = "exited"
    /\ LET claims  == Leaving = "cancelled" /\ outstanding
           left    == IF claims THEN cancelling - 1 ELSE cancelling
           leaving == IF Leaving = "cancelled" /\ Claimed THEN "nothing" ELSE Leaving
       IN  /\ cancelling' = left
           /\ outstanding' = (outstanding /\ ~ claims)
           /\ status' = EndsAs(IF leaving = "nothing" /\ pending THEN "cancelled" ELSE leaving,
                               left)
    /\ UNCHANGED <<raising, pending, sigterms, interrupts, serverVars, cleanupVars, taskVars,
                   teardown, forced, sentVars>>

-----------------------------------------------------------------------------
(* Signals *)

Cancel == pending' = TRUE /\ cancelling' = cancelling + 1

InStartup == pc \in {"startup", "checked", "gate"}
ServerSet == pc \in {"entering", "serving", "replay"}

\* Mutant: a SIGTERM beside uvicorn's capture window does not reach the server.
OnSigtermUnheard ==
    /\ sigterms' = sigterms + 1
    /\ UNCHANGED exiting
    /\ IF InStartup /\ ~ outstanding THEN outstanding' = TRUE /\ Cancel
                                     ELSE UNCHANGED <<outstanding, pending, cancelling>>
    /\ UNCHANGED interrupts

\* Shutdown._on_sigterm, between two bytecodes of anything.
OnSigterm ==
    /\ sigterms' = sigterms + 1
    /\ exiting' = (exiting \/ ServerSet)
    /\ IF InStartup /\ ~ outstanding THEN outstanding' = TRUE /\ Cancel
                                     ELSE UNCHANGED <<outstanding, pending, cancelling>>
    /\ UNCHANGED interrupts

\* Where the KeyboardInterrupt of a further interrupt leaves the main task.
BreaksMain ==
    /\ pc \in {"startup", "checked", "gate", "entering", "replay", "absorb"}
    /\ IF pc = "absorb"
         THEN pc' = "exited" /\ forced' = TRUE /\ status' = "interrupted" /\ UNCHANGED raising
         ELSE MainEnds("interrupt") /\ UNCHANGED <<forced, status>>
    /\ UNCHANGED <<pending, cancelling, inner, struck, writer, task, teardown>>

\* ... or the loop, or the cleanup: Runner.close cancels every task there is.
BreaksLoop ==
    /\ pc \in {"startup", "gate", "absorb", "cleanup"}
    /\ teardown' = TRUE /\ forced' = TRUE
    /\ Cancel
    /\ writer' = FALSE
    /\ task' = IF task = "up" THEN "cancelled" ELSE task
    /\ \/ struck' = (inner = "running") /\ UNCHANGED inner
       \/ inner = "running" /\ inner' = "failed" /\ UNCHANGED struck
    /\ UNCHANGED <<pc, raising, status>>

\* During the teardown the default handler is back: it abandons everything.
Abandons ==
    /\ pc' = "exited" /\ forced' = TRUE /\ status' = "interrupted"
    /\ UNCHANGED <<raising, pending, cancelling, inner, struck, writer, task, teardown>>

\* Runner._on_sigint.
OnSigint ==
    /\ interrupts' = interrupts + 1
    /\ CASE interrupts = 0 -> Cancel /\ UNCHANGED <<pc, raising, inner, struck, writer, task,
                                                    teardown, forced, status>>
         [] interrupts > 0 /\ teardown -> Abandons
         [] OTHER -> BreaksMain \/ BreaksLoop
    /\ UNCHANGED <<outstanding, sigterms, exiting>>

\* Before the handler is there a signal ends a process with nothing to flush.
BootEnds(how) ==
    /\ pc' = "exited" /\ status' = how
    /\ UNCHANGED <<raising, pending, cancelling, handlerVars, exiting, inner, struck, writer,
                   task, teardown, forced>>

\* uvicorn's handle_exit.
Captured(sig) ==
    /\ captured' = Append(captured, sig) /\ exiting' = TRUE
    /\ UNCHANGED <<mainVars, handlerVars, inner, struck, writer, task, endVars>>

Quiet == UNCHANGED <<held, step, waited, attempts>>

SigTerm ==
    /\ pc # "exited" /\ terms < MaxTerms
    /\ terms' = terms + 1
    /\ CASE pc = "boot"    -> BootEnds("killed") /\ UNCHANGED captured
         [] pc = "serving" -> Captured("TERM")
         [] OTHER          -> OnSigterm /\ UNCHANGED <<pc, raising, captured, inner, struck,
                                                       writer, task, endVars>>
    /\ Quiet /\ UNCHANGED ints

SigInt ==
    /\ pc # "exited" /\ ints < MaxInts
    /\ ints' = ints + 1
    /\ CASE pc = "boot"    -> BootEnds("interrupted") /\ UNCHANGED captured
         [] pc = "serving" -> Captured("INT")
         [] OTHER          -> OnSigint /\ UNCHANGED captured
    /\ Quiet /\ UNCHANGED terms

Replay ==
    /\ pc = "replay" /\ captured # <<>>
    /\ captured' = SubSeq(captured, 1, Len(captured) - 1)
    /\ CASE captured[Len(captured)] = "TERM" ->
                OnSigterm /\ UNCHANGED <<pc, raising, inner, struck, writer, task, endVars>>
         [] OTHER -> OnSigint
    /\ Quiet /\ UNCHANGED sentVars

-----------------------------------------------------------------------------

MainStep == Told \/ Served \/ Replay \/ Replayed \/ Absorb \/ Hold \/ Exit
Starting == Install \/ Spawn \/ Check \/ Enter \/ Capture
CleanupStep == CloseJobs \/ CloseTasks \/ Drain \/ CloseWriter \/ Dispose \/ Struck

ShutdownNext ==
    \/ RunEnds \/ Starting \/ MainStep \/ CleanupStep \/ Fails
    \/ SigTerm \/ SigInt

\* The loop runs its tasks, uvicorn's graceful shutdown and the drain have their
\* timeouts, jobs end when they are cancelled.
ShutdownFairness ==
    /\ WF_shutdownVars(MainStep) /\ WF_shutdownVars(CleanupStep)
    /\ WF_shutdownVars(Enter) /\ WF_shutdownVars(Capture)

ShutdownSpec == ShutdownInit /\ [][ShutdownNext]_shutdownVars
FairShutdownSpec == ShutdownSpec /\ ShutdownFairness

-----------------------------------------------------------------------------
(* Properties *)

ShutdownTypeOK ==
    /\ pc \in Pcs /\ raising \in Raised /\ pending \in BOOLEAN /\ cancelling \in Nat
    /\ outstanding \in BOOLEAN /\ sigterms \in Nat /\ interrupts \in Nat
    /\ captured \in Seq({"TERM", "INT"}) /\ exiting \in BOOLEAN
    /\ held \in BOOLEAN /\ step \in Steps /\ struck \in BOOLEAN
    /\ inner \in {"none", "running", "done", "failed", "cancelled"}
    /\ writer \in BOOLEAN /\ waited \in BOOLEAN
    /\ task \in {"none", "up", "dead", "cancelled"} /\ attempts \in Nat
    /\ teardown \in BOOLEAN /\ forced \in BOOLEAN /\ status \in Ends
    /\ terms \in Nat /\ ints \in Nat

\* No polite signal loses what was recorded: however main() ends and whatever is
\* sent while the cleanup runs, a process that got to install its handler does not
\* end before the writer was given its time, unless a second Ctrl+C forced it or a
\* supervised task died of its own backoff.
FlushedUnlessForced ==
    pc = "exited" => \/ waited
                     \/ forced \/ task = "dead"
                     \/ inner = "none" /\ sigterms = 0 /\ interrupts = 0

Polite == pc = "exited" /\ inner = "done" /\ ~ teardown /\ raising # "error"

\* What the process reports: a stop by SIGTERM alone is a clean exit in every
\* phase, as is an interrupt that uvicorn served to its end; an interrupt of the
\* startup or of the cleanup is 130, once the cleanup is over; and no cancellation
\* ever comes out of the program as a traceback.
ExitTellsWhatHappened ==
    /\ ShutdownTypeOK
    /\ Polite /\ ints = 0 => status = "clean"
    /\ Polite /\ raising = "nothing" /\ ~ held /\ ~ pending => status = "clean"
    /\ Polite /\ interrupts > 0 /\ (held \/ raising = "cancelled") => status = "interrupted"
    /\ status # "cancelled"

\* A signal that arrives once the handler is there stops the process, whichever
\* phase it finds and whatever follows it.
StopsWhenAsked == (terms + ints > 0) ~> (pc = "exited")
=============================================================================
