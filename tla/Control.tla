------------------------------ MODULE Control ------------------------------
(***************************************************************************)
(* The control plane (src/arb/ui/control.py): the executor every runtime   *)
(* change goes through, the confirm tokens that a database-writing job     *)
(* needs, and the runner of the long jobs.                                 *)
(*                                                                         *)
(* An order is an action with its validated parameters, what a token is    *)
(* bound to.  Requests interleave at their awaits only, which for the jobs *)
(* are the writes of audit rows: between them a handler is atomic.  The    *)
(* actions on the watch set, which also await their pricing, are those of  *)
(* WatchSet.  Rows other than those of armings are written best-effort and *)
(* read by nothing, so a handler in "recording" only takes its time.       *)
(***************************************************************************)
EXTENDS Integers, FiniteSets

CONSTANTS
    Handlers,        \* the requests served at one time
    Orders,
    Confirmed,       \* orders that need a confirm token
    Harmless,        \* orders whose action does not mutate
    Spawned,         \* orders whose job is a child process
    Groups, GroupOf, \* jobs are single-flight per group
    Ttl, MaxPending, \* of the tokens
    History,         \* JOB_HISTORY_MAX
    MaxRequests,     \* bound on the requests that arrive
    MaxTime          \* bound on the clock

ASSUME ControlAssumption ==
    /\ Confirmed \subseteq Orders /\ Harmless \subseteq Orders
    /\ Spawned \subseteq Orders /\ Orders # {}
    /\ GroupOf \in [Orders -> Groups]
    /\ Ttl \in Nat /\ MaxPending \in Nat \ {0} /\ History \in Nat
    /\ MaxRequests \in Nat /\ MaxTime \in Nat

VARIABLES
    readOnly,    \* how the server was started
    phase,       \* "serving", "closing" the connections, then the "cleanup"
    now,
    requests,    \* how many arrived
    handler,
    tokens,      \* armed and not yet spent, evicted or pruned
    minted,      \* how many tokens there were; their ids count up
    jobs,        \* JobRunner._jobs: the ids it still answers for
    active,      \* per group, the job that holds it or NoJob
    stage,       \* of each job
    orderOf,     \* of each job started
    \* History variables:
    armings,     \* "armed" rows committed, per order
    ran,         \* jobs started, per order
    presented    \* the tokens any request tried to spend

tokenVars == <<tokens, minted, armings, presented>>
jobVars == <<jobs, active, stage, orderOf, ran>>
serverVars == <<readOnly, phase, now, requests>>
controlVars == <<serverVars, handler, tokenVars, jobVars>>

NoJob == 0
NoToken == 0
JobIds == 1 .. MaxRequests

Idle == [pc |-> "idle"]
Recording == [pc |-> "recording"]
Arming(o) == [pc |-> "arming", order |-> o]

Alive == {"body", "cancelling", "terminating", "killed"}
Over == {"ok", "error", "cancelled"}

Running(j) == stage[j] \in Alive
Started == {j \in JobIds : stage[j] # "unborn"}

Token == [id : Nat, order : Orders, expires : Nat]

ServerTypeOK ==
    /\ readOnly \in BOOLEAN
    /\ phase \in {"serving", "closing", "cleanup"}
    /\ now \in 0 .. MaxTime /\ requests \in 0 .. MaxRequests
    /\ handler \in [Handlers -> {Idle, Recording} \cup {Arming(o) : o \in Orders}]

TokensTypeOK ==
    /\ tokens \subseteq Token /\ Cardinality(tokens) <= MaxPending
    /\ minted \in Nat /\ presented \subseteq Nat
    /\ armings \in [Orders -> Nat]

JobsTypeOK ==
    /\ jobs \subseteq JobIds
    /\ active \in [Groups -> JobIds \cup {NoJob}]
    /\ stage \in [JobIds -> {"unborn"} \cup Alive \cup Over]
    /\ orderOf \in [JobIds -> Orders]
    /\ ran \in [Orders -> Nat]

ControlTypeOK == ServerTypeOK /\ TokensTypeOK /\ JobsTypeOK

ControlInit ==
    /\ readOnly \in BOOLEAN
    /\ phase = "serving" /\ now = 0 /\ requests = 0
    /\ handler = [h \in Handlers |-> Idle]
    /\ tokens = {} /\ minted = 0
    /\ jobs = {} /\ active = [g \in Groups |-> NoJob]
    /\ stage = [j \in JobIds |-> "unborn"]
    /\ orderOf = [j \in JobIds |-> CHOOSE o \in Orders : TRUE]
    /\ armings = [o \in Orders |-> 0] /\ ran = [o \in Orders |-> 0]
    /\ presented = {}

-----------------------------------------------------------------------------
(* ConfirmRegistry *)

Unexpired(T) == {t \in T : t.expires > now}

Newer(T, t) == {u \in T : u.id > t.id}

\* The oldest go until there is room for one more.
RoomLeft(T) == {t \in T : Cardinality(Newer(T, t)) < MaxPending - 1}

Mint(o) ==
    /\ minted' = minted + 1
    /\ tokens' = RoomLeft(Unexpired(tokens))
                    \cup {[id |-> minted + 1, order |-> o, expires |-> now + Ttl]}

Grants(o, c) == \E t \in Unexpired(tokens) : t.id = c /\ t.order = o

\* consume(): whether it grants the order or not, the token is gone.
Spend(c) ==
    /\ tokens' = {t \in Unexpired(tokens) : t.id # c}
    /\ presented' = presented \cup {c}
    /\ UNCHANGED <<minted, armings>>

-----------------------------------------------------------------------------
(* JobRunner *)

\* Mutant: the oldest go, running or not.
PrunedOldest(J, st) ==
    {j \in J : Cardinality({k \in J : k <= j}) > Cardinality(J) - History}

\* The oldest finished jobs go while the history is over its budget.
Pruned(J, st) ==
    {j \in J : \/ st[j] \in Alive
               \/ Cardinality({k \in J : k <= j /\ st[k] \notin Alive})
                     > Cardinality(J) - History}

Launch(o, j) ==
    /\ stage' = [stage EXCEPT ![j] = "body"]
    /\ orderOf' = [orderOf EXCEPT ![j] = o]
    /\ active' = [active EXCEPT ![GroupOf[o]] = j]
    /\ jobs' = Pruned(jobs \cup {j}, stage')
    /\ ran' = [ran EXCEPT ![o] = @ + 1]

\* start(): a new id, or JobBusy.
Start(o) ==
    IF active[GroupOf[o]] = NoJob
    THEN \E j \in JobIds : j = Cardinality(Started) + 1 /\ Launch(o, j)
    ELSE UNCHANGED jobVars

\* _run is left: the record is finished and the group is free.
Finish(j, outcome) ==
    /\ stage' = [stage EXCEPT ![j] = outcome]
    /\ active' = [active EXCEPT ![GroupOf[orderOf[j]]] = IF @ = j THEN NoJob ELSE @]
    /\ UNCHANGED <<jobs, orderOf, ran, serverVars, handler, tokenVars>>

\* What task.cancel() comes to: a body is thrown out of its await; one that
\* waits for its terminated child kills it.  One that waits for a killed
\* child stops waiting, which ends it as the child's end does.
Cancelled(st) ==
    CASE st = "body"        -> "cancelling"
      [] st = "terminating" -> "killed"
      [] OTHER              -> st

BodyEnds(j) ==
    /\ stage[j] = "body"
    /\ \E outcome \in {"ok", "error"} : Finish(j, outcome)

\* The cancellation arrives; a child that still runs is told to terminate.
CancelLands(j) ==
    /\ stage[j] = "cancelling"
    /\ \/ Finish(j, "cancelled")
       \/ /\ orderOf[j] \in Spawned
          /\ stage' = [stage EXCEPT ![j] = "terminating"]
          /\ UNCHANGED <<jobs, active, orderOf, ran, serverVars, handler, tokenVars>>

ChildEnds(j) ==
    /\ stage[j] \in {"terminating", "killed"}
    /\ Finish(j, "cancelled")

\* Mutant: the child is asked to terminate once more.
GraceIsLonger(j) == stage[j] = "terminating" /\ UNCHANGED controlVars

\* JOB_TERMINATE_GRACE_S is over: SIGKILL.
GraceEnds(j) ==
    /\ stage[j] = "terminating"
    /\ stage' = [stage EXCEPT ![j] = "killed"]
    /\ UNCHANGED <<jobs, active, orderOf, ran, serverVars, handler, tokenVars>>

-----------------------------------------------------------------------------
(* execute() *)

Arrives(h) ==
    /\ phase = "serving" /\ handler[h] = Idle
    /\ requests < MaxRequests /\ requests' = requests + 1
    /\ UNCHANGED <<readOnly, phase, now>>

Goes(h, state) == handler' = [handler EXCEPT ![h] = state]

Refused(o) == readOnly /\ o \notin Harmless

Refuse(h, o) ==
    /\ Arrives(h) /\ Refused(o)
    /\ Goes(h, Recording)
    /\ UNCHANGED <<tokenVars, jobVars>>

\* Without a token: the audit row first.
Arm(h, o) ==
    /\ Arrives(h) /\ ~ Refused(o) /\ o \in Confirmed
    /\ Goes(h, Arming(o))
    /\ UNCHANGED <<tokenVars, jobVars>>

\* Mutant: a refused confirmation leaves the token for another guess.
ConfirmInvalidKept(h, o, c) ==
    /\ Arrives(h) /\ ~ Refused(o) /\ o \in Confirmed
    /\ c # NoToken /\ ~ Grants(o, c)
    /\ tokens' = Unexpired(tokens) /\ presented' = presented \cup {c}
    /\ UNCHANGED <<minted, armings, handler, jobVars>>

\* An unknown, expired or foreign token: no row, and the token is burnt.
ConfirmInvalid(h, o, c) ==
    /\ Arrives(h) /\ ~ Refused(o) /\ o \in Confirmed
    /\ c # NoToken /\ ~ Grants(o, c)
    /\ Spend(c)
    /\ UNCHANGED <<handler, jobVars>>

\* The job is started, or the runner is busy; either goes on record.
Run(h, o, c) ==
    /\ Arrives(h) /\ ~ Refused(o)
    /\ IF o \in Confirmed THEN Grants(o, c) /\ Spend(c) ELSE UNCHANGED tokenVars
    /\ Start(o)
    /\ Goes(h, Recording)

\* Mutant: arming is best-effort too.
ArmedAnyway(h) ==
    \E o \in Orders :
        /\ handler[h] = Arming(o)
        /\ \/ armings' = [armings EXCEPT ![o] = @ + 1]
           \/ UNCHANGED armings
        /\ Mint(o)
        /\ Goes(h, Idle)
        /\ UNCHANGED <<presented, serverVars, jobVars>>

\* The "armed" row: committed, and the token is minted; or the write fails,
\* before or after the commit, and there is no token.
Armed(h) ==
    \E o \in Orders :
        /\ handler[h] = Arming(o)
        /\ \/ armings' = [armings EXCEPT ![o] = @ + 1] /\ Mint(o)
           \/ armings' = [armings EXCEPT ![o] = @ + 1] /\ UNCHANGED <<tokens, minted>>
           \/ UNCHANGED <<armings, tokens, minted>>
        /\ Goes(h, Idle)
        /\ UNCHANGED <<presented, serverVars, jobVars>>

Recorded(h) ==
    /\ handler[h] = Recording
    /\ Goes(h, Idle)
    /\ UNCHANGED <<serverVars, tokenVars, jobVars>>

\* jobs.cancel of an id the runner answers for, or of one it forgot.
CancelJob(h, j) ==
    /\ Arrives(h)
    /\ stage' = [stage EXCEPT ![j] = IF j \in jobs /\ ~ readOnly THEN Cancelled(@) ELSE @]
    /\ Goes(h, Recording)
    /\ UNCHANGED <<tokenVars, jobs, active, orderOf, ran>>

-----------------------------------------------------------------------------
(* Time and the shutdown *)

Tick ==
    /\ now < MaxTime /\ now' = now + 1
    /\ UNCHANGED <<readOnly, phase, requests, handler, tokenVars, jobVars>>

StopServing ==
    /\ phase = "serving" /\ phase' = "closing"
    /\ UNCHANGED <<readOnly, now, requests, handler, tokenVars, jobVars>>

\* The server cancels the requests that outlast its graceful timeout; the
\* row being written may be in the table or not.
Abandon(h) ==
    /\ phase = "closing" /\ handler[h] # Idle
    /\ \/ \E o \in Orders : /\ handler[h] = Arming(o)
                            /\ armings' = [armings EXCEPT ![o] = @ + 1]
       \/ UNCHANGED armings
    /\ Goes(h, Idle)
    /\ UNCHANGED <<serverVars, tokens, minted, presented, jobVars>>

\* JobRunner.shutdown(): every task is cancelled, then waited for.
CleanUp ==
    /\ phase = "closing" /\ \A h \in Handlers : handler[h] = Idle
    /\ phase' = "cleanup"
    /\ stage' = [j \in JobIds |-> Cancelled(stage[j])]
    /\ UNCHANGED <<readOnly, now, requests, handler, tokenVars>>
    /\ UNCHANGED <<jobs, active, orderOf, ran>>

-----------------------------------------------------------------------------

Request(h) ==
    \/ \E o \in Orders :
          \/ Refuse(h, o)
          \/ Arm(h, o)
          \/ \E c \in {NoToken} \cup (1 .. minted) :
                Run(h, o, c) \/ ConfirmInvalid(h, o, c)
    \/ \E j \in Started : CancelJob(h, j)

JobStep(j) == BodyEnds(j) \/ CancelLands(j) \/ ChildEnds(j) \/ GraceEnds(j)

ControlNext ==
    \/ \E h \in Handlers : Request(h) \/ Armed(h) \/ Recorded(h) \/ Abandon(h)
    \/ \E j \in JobIds : JobStep(j)
    \/ Tick \/ StopServing \/ CleanUp

\* A cancellation is delivered, a grace ends and a killed child dies; a
\* body or a terminated child owes nobody its end.
ControlFairness ==
    \A j \in JobIds :
        /\ WF_controlVars(CancelLands(j))
        /\ WF_controlVars(GraceEnds(j))
        /\ WF_controlVars(stage[j] = "killed" /\ ChildEnds(j))

ControlSpec == ControlInit /\ [][ControlNext]_controlVars /\ ControlFairness

-----------------------------------------------------------------------------
(* Properties *)

Pending(T, o) == {t \in T : t.order = o}

\* Each "armed" row authorises at most one run: the jobs started from an
\* order that needs confirming, with those its tokens could still start,
\* never outnumber the rows, though tokens are evicted, expire, and are
\* presented by several requests, for other orders, or while the runner is
\* busy (execute: "an action that cannot be recorded must not become
\* available to confirm").
EachRunWasArmed ==
    \A o \in Confirmed : ran[o] + Cardinality(Pending(tokens, o)) <= armings[o]

\* A token presented once, in vain or not, is never live again ("any failed
\* attempt also burns it").
NoneSpentTwice == \A t \in tokens : t.id \notin presented

\* A job that needs confirming starts in the step that takes a token of
\* exactly its order, unexpired at that moment, off the registry.
RunsSpendTheirToken ==
    [][\A o \in Confirmed :
          ran'[o] # ran[o] =>
             \E t \in tokens \ tokens' : t.order = o /\ t.expires > now]_controlVars

\* A running job holds its group, so there is one per group, and stays
\* listed, so it can be cancelled; a group is held by a running job only,
\* so no failure or cancellation leaves it busy for good.
JobsHoldTheirGroups ==
    /\ \A j \in JobIds :
          Running(j) => j \in jobs /\ active[GroupOf[orderOf[j]]] = j
    /\ \A g \in Groups :
          active[g] # NoJob => Running(active[g]) /\ GroupOf[orderOf[active[g]]] = g

\* A cancelled job ends, also when its child ignores SIGTERM; so does the
\* shutdown, which waits for them all.
CancelledJobsEnd ==
    \A j \in JobIds :
        stage[j] \in {"cancelling", "terminating", "killed"} ~> stage[j] \in Over

=============================================================================
