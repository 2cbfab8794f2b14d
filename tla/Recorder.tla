------------------------------ MODULE Recorder ------------------------------
(***************************************************************************)
(* The raw-message recorder (src/arb/recorder.py) with what surrounds it:  *)
(* the ingest sequence of the run (run.py), the sink the sources call and  *)
(* its recording switch (ui/server.py, ui/control.py), the insert that     *)
(* writes a batch (storage/db.py) and the drain of a shutdown.             *)
(*                                                                         *)
(* A message is its ingest_seq.  The bulk insert is one transaction, so a  *)
(* batch reaches the archive whole or not at all.  AmbiguousCommit says    *)
(* whether the database may commit it and the client still get an error    *)
(* (the connection breaks while COMMIT is being answered).  Every retry of *)
(* a batch that is already there breaks UNIQUE (run_id, ingest_seq).       *)
(*                                                                         *)
(* The delay before a retry is 2.0 ** attempt seconds or so, cut to a      *)
(* maximum only after the power is taken: the power of a double overflows  *)
(* at attempt OverflowAt (1024), and the OverflowError leaves run() with   *)
(* the batch (supervise.py).                                               *)
(***************************************************************************)
EXTENDS Naturals, Sequences, Functions

CONSTANTS QueueMax, BatchMax,
          AmbiguousCommit,
          OverflowAt,    \* the attempt whose delay cannot be computed
          MaxMessages,   \* bound on the messages of the run
          MaxFailures    \* bound on the failed writes

ASSUME RecorderAssumption ==
    /\ QueueMax \in Nat \ {0}
    /\ BatchMax \in Nat \ {0}
    /\ AmbiguousCommit \in BOOLEAN
    /\ OverflowAt \in Nat
    /\ MaxMessages \in Nat
    /\ MaxFailures \in Nat

VARIABLES
    nextSeq,     \* RunContext._next_seq
    recording,   \* the live switch the sink reads for every message
    queue,       \* messages accepted and not yet taken by the writer
    unfinished,  \* the queue's count of messages without their task_done
    batch,       \* the batch the writer is writing, empty when it has none
    attempt,     \* Backoff._attempt: how often this batch has failed
    landed,      \* has the batch been committed behind a reported failure?
    archive,     \* raw_messages, in insertion order
    phase,       \* "serving", "draining", "drained", "timed_out", "stopped"
    failures

recorderVars == <<nextSeq, recording, queue, unfinished, batch, attempt,
                  landed, archive, phase, failures>>

Numbers == 0 .. MaxMessages - 1

RecorderTypeOK ==
    /\ nextSeq \in 0 .. MaxMessages
    /\ recording \in BOOLEAN
    /\ queue \in Seq(Numbers) /\ Len(queue) <= QueueMax
    /\ unfinished \in Nat
    /\ batch \in Seq(Numbers) /\ Len(batch) <= BatchMax
    /\ attempt \in 0 .. OverflowAt
    /\ landed \in BOOLEAN
    /\ archive \in Seq(Numbers)
    /\ phase \in {"serving", "draining", "drained", "timed_out", "stopped"}
    /\ failures \in 0 .. MaxFailures

RecorderInit ==
    /\ nextSeq = 0
    /\ recording \in BOOLEAN
    /\ queue = <<>> /\ unfinished = 0
    /\ batch = <<>> /\ attempt = 0 /\ landed = FALSE
    /\ archive = <<>>
    /\ phase = "serving"
    /\ failures = 0

-----------------------------------------------------------------------------

\* put_nowait: refused when the queue is full.
Enqueue(n) ==
    IF Len(queue) < QueueMax
    THEN queue' = Append(queue, n) /\ unfinished' = unfinished + 1
    ELSE UNCHANGED <<queue, unfinished>>

\* A source stamps a message and hands it to the sink, in one step.  The
\* number is spent even when the message is not recorded.
Arrive ==
    /\ phase = "serving"
    /\ nextSeq < MaxMessages
    /\ nextSeq' = nextSeq + 1
    /\ IF recording THEN Enqueue(nextSeq) ELSE UNCHANGED <<queue, unfinished>>
    /\ UNCHANGED <<recording, batch, attempt, landed, archive, phase,
                   failures>>

SetRecording(on) ==
    /\ phase = "serving"
    /\ recording' = on
    /\ UNCHANGED <<nextSeq, queue, unfinished, batch, attempt, landed,
                   archive, phase, failures>>

WriterAlive == phase # "stopped"

\* How many messages the writer takes: as many as there are, up to a batch.
TakeSize == IF Len(queue) < BatchMax THEN Len(queue) ELSE BatchMax

TakeBatch ==
    /\ WriterAlive
    /\ batch = <<>> /\ queue # <<>>
    /\ batch' = SubSeq(queue, 1, TakeSize)
    /\ queue' = SubSeq(queue, TakeSize + 1, Len(queue))
    /\ attempt' = 0
    /\ UNCHANGED <<nextSeq, recording, unfinished, landed, archive, phase,
                   failures>>

\* The insert succeeds, and every message of the batch gets its task_done.
WriteSucceeds ==
    /\ WriterAlive
    /\ batch # <<>> /\ ~ landed
    /\ archive' = archive \o batch
    /\ batch' = <<>>
    /\ unfinished' = unfinished - Len(batch)
    /\ UNCHANGED <<nextSeq, recording, queue, attempt, landed, phase,
                   failures>>

\* Mutants: a batch that failed goes to the end of the queue; it is dropped.
WriteFailsRequeues ==
    /\ WriterAlive
    /\ batch # <<>>
    /\ failures < MaxFailures
    /\ failures' = failures + 1
    /\ queue' = queue \o batch
    /\ batch' = <<>>
    /\ UNCHANGED <<nextSeq, recording, unfinished, attempt, landed, archive,
                   phase>>

WriteFailsDrops ==
    /\ WriterAlive
    /\ batch # <<>>
    /\ failures < MaxFailures
    /\ failures' = failures + 1
    /\ batch' = <<>>
    /\ unfinished' = unfinished - Len(batch)
    /\ UNCHANGED <<nextSeq, recording, queue, attempt, landed, archive, phase>>

\* The insert raises: the writer keeps the batch and will try it again.
WriteFails ==
    /\ WriterAlive
    /\ batch # <<>>
    /\ failures < MaxFailures /\ failures' = failures + 1
    /\ attempt < OverflowAt /\ attempt' = attempt + 1
    /\ \/ UNCHANGED <<landed, archive>>
       \/ /\ AmbiguousCommit /\ ~ landed
          /\ landed' = TRUE
          /\ archive' = archive \o batch
    /\ UNCHANGED <<nextSeq, recording, queue, unfinished, batch, phase>>

\* One failure too many: the exception ends run(), the batch it held is gone
\* and never gets its task_done, and the supervisor starts run() again.
WriterCrashes ==
    /\ WriterAlive
    /\ batch # <<>>
    /\ failures < MaxFailures /\ failures' = failures + 1
    /\ attempt = OverflowAt
    /\ batch' = <<>>
    /\ landed' = FALSE
    /\ \/ UNCHANGED archive
       \/ AmbiguousCommit /\ ~ landed /\ archive' = archive \o batch
    /\ UNCHANGED <<nextSeq, recording, queue, unfinished, attempt, phase>>

\* cleanup(): the jobs and the feeds are gone, join() is being waited for.
StopFeeds ==
    /\ phase = "serving"
    /\ phase' = "draining"
    /\ UNCHANGED <<nextSeq, recording, queue, unfinished, batch, attempt,
                   landed, archive, failures>>

\* Mutant: an empty queue passes for a finished one.
DrainedWhenEmpty ==
    /\ phase = "draining" /\ queue = <<>>
    /\ phase' = "drained"
    /\ UNCHANGED <<nextSeq, recording, queue, unfinished, batch, attempt,
                   landed, archive, failures>>

Drained ==
    /\ phase = "draining" /\ unfinished = 0
    /\ phase' = "drained"
    /\ UNCHANGED <<nextSeq, recording, queue, unfinished, batch, attempt,
                   landed, archive, failures>>

\* Mutant: join() is waited for without a timeout.
DrainWaitsForever == FALSE /\ UNCHANGED recorderVars

DrainTimesOut ==
    /\ phase = "draining"
    /\ phase' = "timed_out"
    /\ UNCHANGED <<nextSeq, recording, queue, unfinished, batch, attempt,
                   landed, archive, failures>>

\* The writer is cancelled.  The insert this may interrupt is committed or not.
StopWriter ==
    /\ phase \in {"drained", "timed_out"}
    /\ phase' = "stopped"
    /\ \/ UNCHANGED <<landed, archive>>
       \/ /\ batch # <<>> /\ ~ landed
          /\ landed' = TRUE
          /\ archive' = archive \o batch
    /\ UNCHANGED <<nextSeq, recording, queue, unfinished, batch, attempt,
                   failures>>

-----------------------------------------------------------------------------

RecorderNext ==
    \/ Arrive
    \/ \E on \in BOOLEAN : SetRecording(on)
    \/ TakeBatch
    \/ WriteSucceeds
    \/ WriteFails
    \/ WriterCrashes
    \/ StopFeeds
    \/ Drained
    \/ DrainTimesOut
    \/ StopWriter

RecorderSpec == RecorderInit /\ [][RecorderNext]_recorderVars

\* The writer task runs, a write that can succeed does after finitely many
\* failures, and the shutdown, once begun, goes on.
RecorderFairness ==
    /\ WF_recorderVars(TakeBatch)
    /\ WF_recorderVars(WriteSucceeds)
    /\ WF_recorderVars(Drained \/ DrainTimesOut)
    /\ WF_recorderVars(StopWriter)

FairRecorderSpec == RecorderSpec /\ RecorderFairness

-----------------------------------------------------------------------------
(* Properties *)

\* What the writer holds that is not in the archive yet.
Pending == IF landed THEN <<>> ELSE batch

Accepted == archive \o Pending \o queue

Log == INSTANCE RawLog WITH accepted <- Accepted, archived <- archive

\* The archive is always a prefix of what enqueue accepted, in ingest_seq
\* order and without a duplicate: "batches are never reordered or silently
\* discarded", however failures, retries, a full queue, the recording switch
\* and a shutdown that cancels a write in flight come together.  The one step
\* that may break it is the crash of the writer.
ImplementsLog == Log!Init /\ [][Log!Next \/ WriterCrashes]_(Log!logVars)

\* A drain that reports success leaves nothing unwritten, up to the end.
DrainedMeansWritten ==
    phase = "drained" => Pending = <<>> /\ queue = <<>>

\* A message enqueue accepted reaches the archive, or a shutdown begins, but for
\* the two ways the writer can get stuck: a batch committed behind an error, and
\* one that failed until its delay overflowed.  No other failure, retry or full
\* queue keeps a message from the archive.
WrittenUnlessStuck ==
    \A n \in Numbers :
        n \in Range(queue) ~>
            (\/ n \in Range(archive) \/ phase # "serving"
             \/ landed \/ attempt = OverflowAt)

\* A shutdown ends, even when the writer is stuck with a batch the database
\* will never take.
ShutdownEnds == (phase = "draining") ~> (phase = "stopped")

=============================================================================
