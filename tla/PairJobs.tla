------------------------------ MODULE PairJobs ------------------------------
(***************************************************************************)
(* The jobs that fill the pairs table: propose and backfill                *)
(* (src/arb/pairs/run.py), the discovery they page through                 *)
(* (src/arb/venues/*/discovery.py) and the statements they write with      *)
(* (src/arb/pairs/store.py), beside the decisions of the operator.  A job  *)
(* runs in the process of the UI, which lends it its engine, or in one of  *)
(* the command line with an engine and a recorder of its own; the slot of  *)
(* arb/pairs/run.py is one per process, the table is one for all.          *)
(*                                                                         *)
(* What the venues say of a pair is numbered by the propose that read it:  *)
(* a row holds the number its score and the one its detail come from.      *)
(* Number 0 stands for the rows stored before the matcher kept event       *)
(* slugs.  The database is read committed with locks on rows.              *)
(***************************************************************************)
EXTENDS Integers, FiniteSets

CONSTANTS
    Pairs,
    Ui, Cli,       \* the two processes
    MaxPages,      \* KALSHI_MAX_PAGES and MAX_PAGES
    MaxRetries,    \* RATE_LIMIT_RETRIES
    MaxJobs,       \* bound on the jobs started
    MaxDecisions   \* bound on the decisions

ASSUME PairJobsAssumption ==
    /\ Ui # Cli
    /\ {MaxPages, MaxRetries, MaxJobs, MaxDecisions} \subseteq Nat /\ MaxPages > 0

Processes == {Ui, Cli}

VARIABLES
    rows,       \* the table, as it is committed
    job,        \* what holds the slot of each process
    txn,        \* the transaction of each job
    orphans,    \* worker threads whose job was cancelled, per process
    started, decided,
    verdict,    \* history: the last decision about each pair
    asked,      \* history: the pairs each propose set out to write
    crossed     \* history: pairs a backfill read before another's propose wrote them

jobsVars == <<rows, job, txn, orphans, started, decided, verdict, asked, crossed>>

Statuses == {"proposed", "confirmed", "rejected"}
Numbers  == 0 .. MaxJobs
Row      == [status : Statuses, score : Numbers, of : Numbers, slug : BOOLEAN]
Absent   == [status |-> "proposed", score |-> 0, of |-> 0, slug |-> FALSE]

\* The rows of a table: pairs that were never proposed have none.
Tables == UNION {[S -> Row] : S \in SUBSET Pairs}
Stored == DOMAIN rows

Idle == [kind |-> "none", phase |-> "idle", number |-> 0, page |-> 0, attempt |-> 0]
NoTxn == [read |-> {}, todo |-> {}, done |-> <<>>]

JobsInit ==
    /\ rows \in UNION {[S -> [status : Statuses, score : {0}, of : {0}, slug : {FALSE}]] :
                          S \in SUBSET Pairs}
    /\ job = [p \in Processes |-> Idle] /\ txn = [p \in Processes |-> NoTxn]
    /\ orphans = [p \in Processes |-> 0]
    /\ started = 0 /\ decided = 0
    /\ verdict = [r \in Pairs |-> IF r \in Stored THEN rows[r].status ELSE "proposed"]
    /\ asked = [n \in 1 .. MaxJobs |-> {}] /\ crossed = {}

tableVars   == <<rows, verdict, asked, crossed>>
countedVars == <<started, decided>>

-----------------------------------------------------------------------------
(* A job from its slot to its candidates *)

Start(p, kind) ==
    /\ job[p] = Idle /\ started < MaxJobs
    /\ started' = started + 1
    /\ job' = [job EXCEPT ![p] = [kind |-> kind, phase |-> "kalshi",
                                  number |-> started + 1, page |-> 0, attempt |-> 0]]
    /\ UNCHANGED <<tableVars, txn, orphans, decided>>

Fetching(p) == job[p].phase \in {"kalshi", "polymarket"}

AfterFetch(phase) == IF phase = "kalshi" THEN "polymarket" ELSE "score"

\* A page that was answered: the last one, by its cursor, its length or the bound,
\* ends the fetch.
Page(p, last) ==
    /\ Fetching(p)
    /\ IF last \/ job[p].page + 1 = MaxPages
         THEN job' = [job EXCEPT ![p].phase = AfterFetch(@), ![p].page = 0,
                                 ![p].attempt = 0]
         ELSE job' = [job EXCEPT ![p].page = @ + 1, ![p].attempt = 0]
    /\ UNCHANGED <<tableVars, txn, orphans, countedVars>>

\* Mutant: the same page is asked for until the limiter lets it through.
PageLimitedAgain(p) ==
    /\ job[p].phase = "polymarket"
    /\ job' = [job EXCEPT ![p].attempt = (@ + 1) % (MaxRetries + 1)]
    /\ UNCHANGED <<tableVars, txn, orphans, countedVars>>

\* A 429 of Polymarket US is waited out and asked again, so many times.
PageLimited(p) ==
    /\ job[p].phase = "polymarket" /\ job[p].attempt < MaxRetries
    /\ job' = [job EXCEPT ![p].attempt = @ + 1]
    /\ UNCHANGED <<tableVars, txn, orphans, countedVars>>

\* The worker thread is done: what it found goes to the table.  Nothing found is
\* nothing to write, of either job.
Scored(p, found) ==
    /\ job[p].phase = "score"
    /\ asked' = [asked EXCEPT ![job[p].number] = IF job[p].kind = "propose" THEN found ELSE {}]
    /\ txn' = [txn EXCEPT ![p] = [NoTxn EXCEPT !.todo = found]]
    /\ job' = [job EXCEPT ![p].phase = IF found = {} THEN "teardown"
                                        ELSE IF job[p].kind = "propose" THEN "persist"
                                                                        ELSE "read"]
    /\ UNCHANGED <<rows, verdict, crossed, orphans, countedVars>>

-----------------------------------------------------------------------------
(* The transaction of a job *)

Holds(p)   == DOMAIN txn[p].done
Locked(r)  == \E p \in Processes : r \in Holds(p)

\* backfill_event_slugs reads the whole table, and works on what it read.
Read(p) ==
    /\ job[p].phase = "read"
    /\ txn' = [txn EXCEPT ![p].read = {<<r, rows[r]>> : r \in Stored},
                          ![p].todo = {r \in @ \cap Stored : ~ rows[r].slug}]
    /\ job' = [job EXCEPT ![p].phase = "persist"]
    /\ UNCHANGED <<tableVars, orphans, countedVars>>

\* Mutant: a conflict updates every column of the row.
UpsertedWhole(p, r) ==
    [status |-> "proposed", score |-> job[p].number, of |-> job[p].number, slug |-> TRUE]

\* ON CONFLICT: the score and the detail of the new proposal, no decision.
Upserted(p, r) ==
    [status |-> IF r \in Stored THEN rows[r].status ELSE "proposed",
     score |-> job[p].number, of |-> job[p].number, slug |-> TRUE]

\* The detail that was read, with the slug in it.
Filled(p, r) ==
    LET was == CHOOSE x \in txn[p].read : x[1] = r
    IN  [rows[r] EXCEPT !.of = was[2].of, !.slug = TRUE]

Written(p, r) == IF job[p].kind = "propose" THEN Upserted(p, r) ELSE Filled(p, r)

\* Mutant: every chunk of rows is a transaction of its own.
WriteAlone(p, r) ==
    /\ job[p].phase = "persist" /\ r \in txn[p].todo /\ ~ Locked(r)
    /\ txn' = [txn EXCEPT ![p].todo = @ \ {r}]
    /\ rows' = [x \in Stored \cup {r} |-> IF x = r THEN Written(p, r) ELSE rows[x]]
    /\ UNCHANGED <<verdict, asked, crossed, job, orphans, countedVars>>

\* One row of a statement; it waits for whoever else has written the row.
Write(p, r) ==
    /\ job[p].phase = "persist" /\ r \in txn[p].todo /\ ~ Locked(r)
    /\ txn' = [txn EXCEPT ![p].todo = @ \ {r},
                          ![p].done = [x \in Holds(p) \cup {r} |->
                                          IF x = r THEN Written(p, r) ELSE @[x]]]
    /\ UNCHANGED <<tableVars, job, orphans, countedVars>>

\* What the backfill of another process has read and not yet written.
ReadByOther(p) ==
    UNION {txn[q].todo : q \in {q \in Processes \ {p} : job[q].kind = "backfill"
                                                      /\ job[q].phase = "persist"}}

Committed(p) ==
    /\ rows' = [x \in Stored \cup Holds(p) |->
                    IF x \in Holds(p) THEN txn[p].done[x] ELSE rows[x]]
    /\ crossed' = IF job[p].kind = "propose"
                    THEN (crossed \ Holds(p)) \cup (ReadByOther(p) \cap Holds(p))
                    ELSE crossed
    /\ UNCHANGED <<verdict, asked>>

\* What ends a job: the runtime it built is torn down, a borrowed one is not.
Ends(p) ==
    /\ job' = [job EXCEPT ![p].phase = "teardown"]
    /\ txn' = [txn EXCEPT ![p] = NoTxn]

\* A cancel that comes while the commit is on its way changes nothing of it.
Commit(p) ==
    /\ job[p].phase = "persist" /\ txn[p].todo = {}
    /\ Committed(p) /\ Ends(p)
    /\ UNCHANGED <<orphans, countedVars>>

-----------------------------------------------------------------------------
(* The other ways out *)

\* A response that is no page, or a statement that fails: nothing is committed.
\* Postgres also fails one of two transactions that wait for each other.
Fails(p) ==
    /\ Fetching(p) \/ job[p].phase \in {"read", "persist"}
    /\ Ends(p)
    /\ UNCHANGED <<tableVars, orphans, countedVars>>

\* A cancel at any await.  The scoring thread cannot be interrupted: it is told,
\* and left to find out.
Cancelled(p) ==
    /\ job[p].phase \notin {"idle", "teardown"}
    /\ Ends(p)
    /\ orphans' = [orphans EXCEPT ![p] = IF job[p].phase = "score" THEN @ + 1 ELSE @]
    /\ UNCHANGED <<tableVars, countedVars>>

\* The thread reads its event before the next comparison and raises into a future
\* nobody waits for.
OrphanEnds(p) ==
    /\ orphans[p] > 0
    /\ orphans' = [orphans EXCEPT ![p] = @ - 1]
    /\ UNCHANGED <<tableVars, job, txn, countedVars>>

\* The drain of an owned recorder ends with its queue or with its time; then the
\* slot is free.
TornDown(p) ==
    /\ job[p].phase = "teardown"
    /\ job' = [job EXCEPT ![p] = Idle]
    /\ txn' = [txn EXCEPT ![p] = NoTxn]
    /\ UNCHANGED <<tableVars, orphans, countedVars>>

\* decide: its update waits for a row that a job has written.
Decide(r, s) ==
    /\ r \in Stored /\ ~ Locked(r) /\ decided < MaxDecisions
    /\ decided' = decided + 1
    /\ rows' = [rows EXCEPT ![r].status = s]
    /\ verdict' = [verdict EXCEPT ![r] = s]
    /\ UNCHANGED <<job, txn, orphans, started, asked, crossed>>

-----------------------------------------------------------------------------

JobStep(p) ==
    \/ \E last \in BOOLEAN : Page(p, last)
    \/ PageLimited(p)
    \/ \E found \in SUBSET Pairs : Scored(p, found)
    \/ Read(p)
    \/ \E r \in Pairs : Write(p, r)
    \/ Commit(p) \/ Fails(p)
    \/ TornDown(p) \/ OrphanEnds(p)

JobsNext ==
    \/ \E p \in Processes :
        \/ \E kind \in {"propose", "backfill"} : Start(p, kind)
        \/ JobStep(p) \/ Cancelled(p)
    \/ \E r \in Pairs, s \in Statuses : Decide(r, s)

\* Every request has a timeout, a thread runs, the database answers and breaks
\* deadlocks; nobody has to start, cancel or decide anything.
JobsFairness == \A p \in Processes : WF_jobsVars(JobStep(p))

JobsSpec == JobsInit /\ [][JobsNext]_jobsVars
FairJobsSpec == JobsSpec /\ JobsFairness

-----------------------------------------------------------------------------
(* Properties *)

Phases == {"idle", "kalshi", "polymarket", "score", "read", "persist", "teardown"}

JobsTypeOK ==
    /\ rows \in Tables
    /\ job \in [Processes -> [kind : {"none", "propose", "backfill"}, phase : Phases,
                              number : Numbers, page : Nat, attempt : 0 .. MaxRetries]]
    /\ \A p \in Processes : /\ txn[p].todo \subseteq Pairs
                            /\ txn[p].done \in Tables
                            /\ txn[p].read \subseteq Pairs \X Row
    /\ orphans \in [Processes -> Nat]
    /\ started \in Numbers /\ decided \in Nat
    /\ verdict \in [Pairs -> Statuses] /\ asked \in [1 .. MaxJobs -> SUBSET Pairs]
    /\ crossed \subseteq Pairs

\* No job ever touches a decision: whatever is fetched, cancelled, rolled back or
\* committed around it, a pair has the status its last decision gave it, and a
\* pair nobody decided is proposed.
DecisionsStand ==
    /\ JobsTypeOK
    /\ \A r \in Stored : rows[r].status = verdict[r]

\* What the table says of a pair is one proposal: its score and its detail come
\* from the same run, and a run's proposals are there together or not at all, but
\* for later ones.  A backfill in the other process may put the detail it had read
\* back over a newer one; with one process there is no such pair.
ProposalsAreWhole ==
    /\ \A r \in Stored \ crossed : rows[r].score = rows[r].of
    /\ \A n \in 1 .. MaxJobs : \/ \A r \in asked[n] : r \in Stored /\ rows[r].score > 0
                               \/ \A r \in Stored : rows[r].score # n

\* Every job gives its slot back and no thread outlives its job for long, through
\* rate limits, failures, deadlocks and cancellations.
JobsEnd == \A p \in Processes : []<>(job[p] = Idle /\ orphans[p] = 0)
=============================================================================
