--------------------------- MODULE PairJobsProofs ---------------------------
(***************************************************************************)
(* That no job of the pairs table ever touches a decision, and that what a *)
(* run proposes reaches the table whole, for any number of pairs, jobs,    *)
(* decisions and pages.  The invariants say what a transaction that is not *)
(* committed yet would make of the rows it holds, and of which run the     *)
(* numbers in it are.                                                      *)
(***************************************************************************)
EXTENDS PairJobs, TLAPS

\* What the table says of a pair, one nobody proposed yet included.
StatusOf(r) == IF r \in Stored THEN rows[r].status ELSE "proposed"

TxnTypeOK ==
    txn \in [Processes -> [read : SUBSET (Pairs \X Row), todo : SUBSET Pairs,
                           done : Tables]]

TypesInv == JobsTypeOK /\ TxnTypeOK

\* A slot that is not idle holds a job of a kind.
KindsInv == \A p \in Processes : job[p].kind = "none" => job[p].phase = "idle"

\* A backfill writes what it has read, and rows never go.
BackfillInv ==
    \A p \in Processes :
        job[p].phase = "persist" /\ job[p].kind = "backfill" =>
            \A r \in txn[p].todo : r \in Stored /\ \E x \in txn[p].read : x[1] = r

\* A row that is written and not committed keeps the status the table has, and
\* nobody else has written it.
HoldInv ==
    \A p \in Processes : \A r \in Holds(p) :
        /\ txn[p].done[r].status = StatusOf(r)
        /\ \A q \in Processes : r \in Holds(q) => q = p

VerdictInv == \A r \in Pairs : verdict[r] = StatusOf(r)

DecisionsIInv == TypesInv /\ KindsInv /\ BackfillInv /\ HoldInv /\ VerdictInv

-----------------------------------------------------------------------------

\* Membership in Tables, both ways.
LEMMA TableMembership ==
  ASSUME NEW t
  PROVE  t \in Tables <=> \E S \in SUBSET Pairs : t \in [S -> Row]
  BY DEF Tables

LEMMA TableFacts ==
  ASSUME NEW t \in Tables
  PROVE  DOMAIN t \subseteq Pairs /\ t \in [DOMAIN t -> Row]
  BY TableMembership

LEMMA TableOf ==
  ASSUME NEW S \in SUBSET Pairs, NEW t \in [S -> Row]
  PROVE  t \in Tables /\ DOMAIN t = S
  BY TableMembership

\* A row added to or replaced in a table.
LEMMA TablePut ==
  ASSUME NEW t \in Tables, NEW r \in Pairs, NEW w \in Row
  PROVE  LET u == [x \in DOMAIN t \cup {r} |-> IF x = r THEN w ELSE t[x]]
         IN  u \in Tables /\ DOMAIN u = DOMAIN t \cup {r}
<1> DEFINE S == DOMAIN t \cup {r}
           u == [x \in S |-> IF x = r THEN w ELSE t[x]]
<1>1. DOMAIN t \subseteq Pairs /\ t \in [DOMAIN t -> Row]
  BY TableFacts
<1>2. S \in SUBSET Pairs
  BY <1>1
<1>3. u \in [S -> Row]
  BY <1>1
<1> QED
  BY <1>2, <1>3, TableOf

\* One table over another.
LEMMA TableOver ==
  ASSUME NEW t \in Tables, NEW d \in Tables
  PROVE  LET u == [x \in DOMAIN t \cup DOMAIN d |-> IF x \in DOMAIN d THEN d[x] ELSE t[x]]
         IN  u \in Tables /\ DOMAIN u = DOMAIN t \cup DOMAIN d
<1> DEFINE S == DOMAIN t \cup DOMAIN d
           u == [x \in S |-> IF x \in DOMAIN d THEN d[x] ELSE t[x]]
<1>1. /\ DOMAIN t \subseteq Pairs /\ t \in [DOMAIN t -> Row]
      /\ DOMAIN d \subseteq Pairs /\ d \in [DOMAIN d -> Row]
  BY TableFacts
<1>2. S \in SUBSET Pairs
  BY <1>1
<1>3. u \in [S -> Row]
  BY <1>1
<1> QED
  BY <1>2, <1>3, TableOf

LEMMA NoTable == <<>> \in Tables /\ DOMAIN <<>> = {}
<1>1. <<>> \in [{} -> Row] /\ DOMAIN <<>> = {}
  OBVIOUS
<1> QED
  BY <1>1, TableMembership

-----------------------------------------------------------------------------

LEMMA DecisionsInit == JobsInit => DecisionsIInv
<1> SUFFICES ASSUME JobsInit PROVE DecisionsIInv
  OBVIOUS
<1> USE PairJobsAssumption
<1>1. PICK S \in SUBSET Pairs :
        rows \in [S -> [status : Statuses, score : {0}, of : {0}, slug : {FALSE}]]
  BY DEF JobsInit
<1>2. rows \in [S -> Row]
  <2>1. 0 \in Numbers /\ FALSE \in BOOLEAN
    BY DEF Numbers
  <2>2. [status : Statuses, score : {0}, of : {0}, slug : {FALSE}] \subseteq Row
    BY <2>1 DEF Row
  <2> QED
    BY <1>1, <2>2
<1>3. rows \in Tables /\ Stored = S
  BY <1>2, TableOf DEF Stored
<1>4. \A r \in Pairs : verdict[r] = StatusOf(r)
  BY <1>3 DEF JobsInit, StatusOf
<1>5. \A r \in Pairs : StatusOf(r) \in Statuses
  BY <1>2, <1>3 DEF StatusOf, Row, Statuses
<1>6. verdict \in [Pairs -> Statuses]
  BY <1>4, <1>5 DEF JobsInit
<1>7. txn = [p \in Processes |-> NoTxn] /\ NoTxn.done \in Tables /\ DOMAIN NoTxn.done = {}
  BY NoTable DEF JobsInit, NoTxn
<1>8. TxnTypeOK
  BY <1>7, NoTable DEF TxnTypeOK, NoTxn
<1>9. JobsTypeOK
  BY <1>3, <1>6, <1>7, <1>8 DEF JobsTypeOK, JobsInit, Idle, Phases, Numbers, TxnTypeOK, NoTxn
<1>10. KindsInv /\ BackfillInv
  BY DEF KindsInv, BackfillInv, JobsInit, Idle
<1>11. HoldInv
  BY <1>7 DEF HoldInv, Holds
<1> QED
  BY <1>4, <1>8, <1>9, <1>10, <1>11 DEF DecisionsIInv, TypesInv, VerdictInv

-----------------------------------------------------------------------------
(* What a job writes *)

\* A written row has the status the table has.
LEMMA WrittenKeepsStatus ==
  ASSUME DecisionsIInv, NEW p \in Processes, NEW r \in Pairs,
         job[p].phase = "persist", r \in txn[p].todo
  PROVE  Written(p, r) \in Row /\ Written(p, r).status = StatusOf(r)
<1> USE PairJobsAssumption
<1>1. rows \in [Stored -> Row] /\ job[p].number \in Numbers
      /\ job[p].kind \in {"none", "propose", "backfill"}
  BY TableFacts DEF DecisionsIInv, TypesInv, JobsTypeOK, Stored
<1>2. job[p].kind # "none"
  BY DEF DecisionsIInv, KindsInv
<1>3. CASE job[p].kind = "propose"
  BY <1>1, <1>3 DEF Written, Upserted, StatusOf, Row, Statuses
<1>4. CASE job[p].kind = "backfill"
  <2>1. r \in Stored /\ \E x \in txn[p].read : x[1] = r
    BY <1>4 DEF DecisionsIInv, BackfillInv
  <2> DEFINE was == CHOOSE x \in txn[p].read : x[1] = r
  <2>2. was \in txn[p].read
    BY <2>1
  <2>3. was[2] \in Row
    BY <2>2 DEF DecisionsIInv, TypesInv, TxnTypeOK
  <2>4. was[2].of \in Numbers
    BY <2>3 DEF Row
  <2>5. Written(p, r) = [rows[r] EXCEPT !.of = was[2].of, !.slug = TRUE]
    BY <1>4 DEF Written, Filled
  <2> HIDE DEF was
  <2>6. rows[r] \in Row
    BY <1>1, <2>1
  <2>7. Written(p, r) \in Row
    BY <2>4, <2>5, <2>6 DEF Row
  <2>8. Written(p, r).status = rows[r].status
    BY <2>5, <2>6 DEF Row
  <2> QED
    BY <2>1, <2>7, <2>8 DEF StatusOf
<1> QED
  BY <1>1, <1>2, <1>3, <1>4

-----------------------------------------------------------------------------
(* Steps that neither write a row nor commit one *)

\* The table and the verdicts stay, and no transaction gains or changes a row.
LEMMA HoldsWithoutWriting ==
  ASSUME DecisionsIInv, UNCHANGED <<rows, verdict>>,
         \A p \in Processes : txn'[p].done \in {txn[p].done, <<>>}
  PROVE  HoldInv' /\ VerdictInv'
<1>1. VerdictInv'
  BY DEF DecisionsIInv, VerdictInv, StatusOf, Stored
<1>2. \A p \in Processes : DOMAIN txn'[p].done \subseteq DOMAIN txn[p].done
  BY NoTable
<1>3. \A p \in Processes : \A r \in DOMAIN txn'[p].done : txn'[p].done = txn[p].done
  BY NoTable
<1>4. HoldInv'
  BY <1>2, <1>3 DEF DecisionsIInv, HoldInv, Holds, StatusOf, Stored
<1> QED
  BY <1>1, <1>4

\* A job moves from page to page: nothing but its slot changes.
LEMMA SlotSteps ==
  ASSUME DecisionsIInv, NEW p \in Processes,
         \/ \E kind \in {"propose", "backfill"} : Start(p, kind)
         \/ \E last \in BOOLEAN : Page(p, last)
         \/ PageLimited(p)
  PROVE  DecisionsIInv'
<1> USE PairJobsAssumption
<1>1. UNCHANGED <<rows, txn, orphans, decided, verdict, asked, crossed>>
  BY DEF Start, Page, PageLimited, tableVars, countedVars
<1>2. started' \in Numbers
  BY DEF Start, Page, PageLimited, countedVars, DecisionsIInv, TypesInv, JobsTypeOK, Numbers
<1>3. \A q \in Processes :
        /\ job'[q] \in [kind : {"none", "propose", "backfill"}, phase : Phases,
                        number : Numbers, page : Nat, attempt : 0 .. MaxRetries]
        /\ job'[q].kind = "none" => job'[q].phase = "idle"
        /\ job'[q] = job[q] \/ job'[q].phase # "persist"
  <2>0. job \in [Processes -> [kind : {"none", "propose", "backfill"}, phase : Phases,
                              number : Numbers, page : Nat, attempt : 0 .. MaxRetries]]
        /\ \A q \in Processes : job[q].kind = "none" => job[q].phase = "idle"
    BY DEF DecisionsIInv, TypesInv, JobsTypeOK, KindsInv
  <2>1. CASE \E kind \in {"propose", "backfill"} : Start(p, kind)
    <3>1. PICK kind \in {"propose", "backfill"} : Start(p, kind)
      BY <2>1
    <3>2. started + 1 \in Numbers
      BY <3>1 DEF Start, DecisionsIInv, TypesInv, JobsTypeOK, Numbers
    <3> QED
      BY <2>0, <3>1, <3>2 DEF Start, Phases
  <2>2. CASE \E last \in BOOLEAN : Page(p, last)
    BY <2>0, <2>2 DEF Page, Fetching, AfterFetch, Phases
  <2>3. CASE PageLimited(p)
    BY <2>0, <2>3 DEF PageLimited, Phases
  <2> QED
    BY <2>1, <2>2, <2>3
<1>4. job' \in [Processes -> [kind : {"none", "propose", "backfill"}, phase : Phases,
                             number : Numbers, page : Nat, attempt : 0 .. MaxRetries]]
  <2>1. \E w : job' = [job EXCEPT ![p] = w]
    BY DEF Start, Page, PageLimited
  <2>2. DOMAIN job' = Processes /\ job' = [q \in Processes |-> job'[q]]
    BY <2>1 DEF DecisionsIInv, TypesInv, JobsTypeOK
  <2> QED
    BY <1>3, <2>2
<1>5. TypesInv'
  BY <1>1, <1>2, <1>4 DEF DecisionsIInv, TypesInv, JobsTypeOK, TxnTypeOK
<1>6. KindsInv' /\ BackfillInv'
  BY <1>1, <1>3 DEF DecisionsIInv, KindsInv, BackfillInv, Stored
<1>7. HoldInv' /\ VerdictInv'
  BY <1>1, HoldsWithoutWriting
<1> QED
  BY <1>5, <1>6, <1>7 DEF DecisionsIInv

Slots == [kind : {"none", "propose", "backfill"}, phase : Phases,
          number : Numbers, page : Nat, attempt : 0 .. MaxRetries]

Txns == [read : SUBSET (Pairs \X Row), todo : SUBSET Pairs, done : Tables]

LEMMA NoTxnType == NoTxn \in Txns /\ NoTxn.done = <<>>
  BY NoTable DEF NoTxn, Txns

LEMMA IdleType == Idle \in Slots
  BY PairJobsAssumption DEF Idle, Slots, Phases, Numbers

\* The other steps change a slot and its transaction, each for one that is typed,
\* and leave the rows it has written or give them up.
LEMMA QuietSteps ==
  ASSUME DecisionsIInv, NEW p \in Processes,
         UNCHANGED <<rows, verdict, crossed, started, decided>>,
         orphans' \in [Processes -> Nat], asked' \in [1 .. MaxJobs -> SUBSET Pairs],
         NEW slot \in Slots, NEW t \in Txns,
         job' = [job EXCEPT ![p] = slot], txn' = [txn EXCEPT ![p] = t],
         t.done \in {txn[p].done, <<>>},
         slot.kind = "none" => slot.phase = "idle",
         slot.phase = "persist" /\ slot.kind = "backfill" =>
             \A r \in t.todo : r \in Stored /\ \E x \in t.read : x[1] = r
  PROVE  DecisionsIInv'
<1>1. job \in [Processes -> Slots] /\ txn \in [Processes -> Txns]
  BY DEF DecisionsIInv, TypesInv, JobsTypeOK, TxnTypeOK, Slots, Txns
<1>2. job' \in [Processes -> Slots] /\ txn' \in [Processes -> Txns]
  BY <1>1
<1>3. TypesInv'
  <2>1. JobsTypeOK'
    BY <1>2 DEF DecisionsIInv, TypesInv, JobsTypeOK, Slots, Txns
  <2> QED
    BY <1>2, <2>1 DEF TypesInv, TxnTypeOK, Txns
<1>4. KindsInv'
  BY <1>1 DEF DecisionsIInv, KindsInv
<1>5. BackfillInv'
  BY <1>1 DEF DecisionsIInv, BackfillInv, Stored
<1>6. HoldInv' /\ VerdictInv'
  BY <1>1, HoldsWithoutWriting
<1> QED
  BY <1>3, <1>4, <1>5, <1>6 DEF DecisionsIInv

LEMMA ScoredStep ==
  ASSUME DecisionsIInv, NEW p \in Processes, NEW found \in SUBSET Pairs, Scored(p, found)
  PROVE  DecisionsIInv'
<1> DEFINE phase == IF found = {} THEN "teardown"
                    ELSE IF job[p].kind = "propose" THEN "persist" ELSE "read"
           slot == [job[p] EXCEPT !.phase = phase]
           t == [NoTxn EXCEPT !.todo = found]
<1>1. job \in [Processes -> Slots] /\ txn \in [Processes -> Txns]
  BY DEF DecisionsIInv, TypesInv, JobsTypeOK, TxnTypeOK, Slots, Txns
<1>2. job[p].kind \in {"propose", "backfill"}
  BY <1>1 DEF Scored, DecisionsIInv, KindsInv, Slots
<1>3. /\ phase \in {"teardown", "persist", "read"}
      /\ phase = "persist" => job[p].kind = "propose"
  BY <1>2
<1>4. slot \in Slots /\ slot.kind = job[p].kind /\ slot.phase = phase
  BY <1>1, <1>3 DEF Slots, Phases
<1>5. t \in Txns /\ t.done = <<>>
  BY NoTxnType DEF Txns, NoTxn
<1>6. asked' \in [1 .. MaxJobs -> SUBSET Pairs]
  BY DEF Scored, DecisionsIInv, TypesInv, JobsTypeOK
<1>7. job' = [job EXCEPT ![p] = slot] /\ txn' = [txn EXCEPT ![p] = t]
  BY <1>1 DEF Scored
<1>8. UNCHANGED <<rows, verdict, crossed, orphans, started, decided>>
  BY DEF Scored, countedVars
<1>9. orphans' \in [Processes -> Nat]
  BY <1>8 DEF DecisionsIInv, TypesInv, JobsTypeOK
<1> HIDE DEF slot, t, phase
<1> QED
  BY <1>2, <1>3, <1>4, <1>5, <1>6, <1>7, <1>8, <1>9, QuietSteps

LEMMA ReadStep ==
  ASSUME DecisionsIInv, NEW p \in Processes, Read(p)
  PROVE  DecisionsIInv'
<1> DEFINE slot == [job[p] EXCEPT !.phase = "persist"]
           read == {<<r, rows[r]>> : r \in Stored}
           todo == {r \in txn[p].todo \cap Stored : ~ rows[r].slug}
           t == [txn[p] EXCEPT !.read = read, !.todo = todo]
<1>1. job \in [Processes -> Slots] /\ txn \in [Processes -> Txns]
  BY DEF DecisionsIInv, TypesInv, JobsTypeOK, TxnTypeOK, Slots, Txns
<1>2. slot \in Slots /\ slot.kind = job[p].kind /\ slot.phase = "persist"
  BY <1>1 DEF Slots, Phases
<1>3. read \subseteq Pairs \X Row
  BY TableFacts DEF DecisionsIInv, TypesInv, JobsTypeOK, Stored
<1>4. todo \subseteq Pairs
  BY <1>1 DEF Txns
<1>5. t \in Txns /\ t.done = txn[p].done /\ t.read = read /\ t.todo = todo
  BY <1>1, <1>3, <1>4 DEF Txns
<1>6. \A r \in todo : r \in Stored /\ \E x \in read : x[1] = r
  <2> TAKE r \in todo
  <2>1. <<r, rows[r]>> \in read /\ <<r, rows[r]>>[1] = r
    OBVIOUS
  <2> QED
    BY <2>1
<1>7. job' = [job EXCEPT ![p] = slot] /\ txn' = [txn EXCEPT ![p] = t]
  BY <1>1 DEF Read
<1>8. UNCHANGED <<rows, verdict, asked, crossed, orphans, started, decided>>
  BY DEF Read, tableVars, countedVars
<1>9. orphans' \in [Processes -> Nat] /\ asked' \in [1 .. MaxJobs -> SUBSET Pairs]
  BY <1>8 DEF DecisionsIInv, TypesInv, JobsTypeOK
<1>10. job[p].kind # "none"
  BY DEF Read, DecisionsIInv, KindsInv
<1> HIDE DEF slot, t, read, todo
<1> QED
  BY <1>2, <1>5, <1>6, <1>7, <1>8, <1>9, <1>10, QuietSteps

LEMMA EndingSteps ==
  ASSUME DecisionsIInv, NEW p \in Processes, Fails(p) \/ Cancelled(p) \/ TornDown(p)
  PROVE  DecisionsIInv'
<1>1. job \in [Processes -> Slots] /\ txn \in [Processes -> Txns]
      /\ orphans \in [Processes -> Nat]
  BY DEF DecisionsIInv, TypesInv, JobsTypeOK, TxnTypeOK, Slots, Txns
<1>2. UNCHANGED <<rows, verdict, asked, crossed, started, decided>>
  BY DEF Fails, Cancelled, TornDown, tableVars, countedVars
<1>3. asked' \in [1 .. MaxJobs -> SUBSET Pairs]
  BY <1>2 DEF DecisionsIInv, TypesInv, JobsTypeOK
<1>4. orphans' \in [Processes -> Nat]
  BY <1>1 DEF Fails, Cancelled, TornDown, countedVars
<1>5. txn' = [txn EXCEPT ![p] = NoTxn]
  BY DEF Fails, Cancelled, TornDown, Ends
<1>6. NoTxn.todo = {}
  BY DEF NoTxn
<1>7. CASE Fails(p) \/ Cancelled(p)
  <2> DEFINE slot == [job[p] EXCEPT !.phase = "teardown"]
  <2>1. slot \in Slots /\ slot.kind = job[p].kind /\ slot.phase = "teardown"
    BY <1>1 DEF Slots, Phases
  <2>2. job' = [job EXCEPT ![p] = slot]
    BY <1>1, <1>7 DEF Fails, Cancelled, Ends
  <2>3. job[p].kind # "none"
    BY <1>1, <1>7 DEF Fails, Fetching, Cancelled, DecisionsIInv, KindsInv
  <2> HIDE DEF slot
  <2> QED
    BY <1>2, <1>3, <1>4, <1>5, <1>6, <2>1, <2>2, <2>3, NoTxnType, QuietSteps
<1>8. CASE TornDown(p)
  <2>1. job' = [job EXCEPT ![p] = Idle]
    BY <1>8 DEF TornDown
  <2>2. Idle.kind = "none" /\ Idle.phase = "idle"
    BY DEF Idle
  <2> QED
    BY <1>2, <1>3, <1>4, <1>5, <1>6, <2>1, <2>2, IdleType, NoTxnType, QuietSteps
<1> QED
  BY <1>7, <1>8

LEMMA OrphanStep ==
  ASSUME DecisionsIInv, NEW p \in Processes, OrphanEnds(p)
  PROVE  DecisionsIInv'
<1>1. UNCHANGED <<rows, verdict, asked, crossed, job, txn, started, decided>>
  BY DEF OrphanEnds, tableVars, countedVars
<1>2. orphans' \in [Processes -> Nat]
  BY DEF OrphanEnds, DecisionsIInv, TypesInv, JobsTypeOK
<1> QED
  BY <1>1, <1>2 DEF DecisionsIInv, TypesInv, JobsTypeOK, TxnTypeOK, KindsInv, BackfillInv,
                    HoldInv, Holds, VerdictInv, StatusOf, Stored

-----------------------------------------------------------------------------
(* The steps that write, commit and decide *)

LEMMA WriteStep ==
  ASSUME DecisionsIInv, NEW p \in Processes, NEW r \in Pairs, Write(p, r)
  PROVE  DecisionsIInv'
<1> DEFINE w == Written(p, r)
           done == [x \in Holds(p) \cup {r} |-> IF x = r THEN w ELSE txn[p].done[x]]
           t == [txn[p] EXCEPT !.todo = @ \ {r}, !.done = done]
<1>1. txn \in [Processes -> Txns]
  BY DEF DecisionsIInv, TypesInv, TxnTypeOK, Txns
<1>2. w \in Row /\ w.status = StatusOf(r)
  BY WrittenKeepsStatus DEF Write
<1>3. done \in Tables /\ DOMAIN done = Holds(p) \cup {r}
  <2>1. txn[p].done \in Tables /\ Holds(p) = DOMAIN txn[p].done
    BY <1>1 DEF Holds, Txns
  <2> QED BY ONLY <1>2, <2>1, TablePut
<1>4. t \in Txns /\ t.read = txn[p].read /\ t.todo = txn[p].todo \ {r} /\ t.done = done
  BY <1>1, <1>3 DEF Txns
<1>5. txn' = [txn EXCEPT ![p] = t]
  BY <1>1 DEF Write, Txns
<1>6. UNCHANGED <<rows, verdict, asked, crossed, job, orphans, started, decided>>
  BY DEF Write, tableVars, countedVars
<1> HIDE DEF w, t
<1>7. TypesInv'
  <2>1. txn' \in [Processes -> Txns]
    BY <1>1, <1>4, <1>5
  <2> QED
    BY <1>6, <2>1 DEF DecisionsIInv, TypesInv, JobsTypeOK, TxnTypeOK, Txns
<1>8. KindsInv' /\ VerdictInv'
  BY <1>6 DEF DecisionsIInv, KindsInv, VerdictInv, StatusOf, Stored
<1>9. BackfillInv'
  BY <1>1, <1>4, <1>5, <1>6 DEF DecisionsIInv, BackfillInv, Stored
<1>10. HoldInv'
  <2> SUFFICES ASSUME NEW q \in Processes, NEW x \in DOMAIN txn'[q].done
               PROVE  /\ txn'[q].done[x].status = StatusOf(x)
                      /\ \A o \in Processes : x \in DOMAIN txn'[o].done => o = q
    BY <1>6 DEF HoldInv, Holds, StatusOf, Stored
  <2>1. \A o \in Processes : o # p => txn'[o] = txn[o]
    BY <1>1, <1>5
  <2>2. txn'[p].done = done
    BY <1>1, <1>4, <1>5
  <2>3. \A o \in Processes : r \notin DOMAIN txn[o].done
    BY DEF Write, Locked, Holds
  <2>4. \A o \in Processes : \A y \in DOMAIN txn[o].done :
            /\ txn[o].done[y].status = StatusOf(y)
            /\ \A o2 \in Processes : y \in DOMAIN txn[o2].done => o2 = o
    BY DEF DecisionsIInv, HoldInv, Holds
  <2>5. CASE x = r
    BY <1>2, <1>3, <2>1, <2>2, <2>3, <2>5
  <2>6. CASE x # r
    <3>1. x \in DOMAIN txn[q].done /\ txn'[q].done[x] = txn[q].done[x]
      BY <1>3, <2>1, <2>2, <2>6 DEF Holds
    <3>2. \A o \in Processes : x \in DOMAIN txn'[o].done => x \in DOMAIN txn[o].done
      BY <1>3, <2>1, <2>2, <2>6 DEF Holds
    <3> QED
      BY <2>4, <3>1, <3>2
  <2> QED
    BY <2>5, <2>6
<1> QED
  BY <1>7, <1>8, <1>9, <1>10 DEF DecisionsIInv

\* What is committed has the status the table had, so no status changes.
LEMMA CommitStep ==
  ASSUME DecisionsIInv, NEW p \in Processes, Commit(p)
  PROVE  DecisionsIInv'
<1> DEFINE done == txn[p].done
           slot == [job[p] EXCEPT !.phase = "teardown"]
<1>1. job \in [Processes -> Slots] /\ txn \in [Processes -> Txns] /\ rows \in Tables
  BY DEF DecisionsIInv, TypesInv, JobsTypeOK, TxnTypeOK, Slots, Txns
<1>2. done \in Tables
  BY <1>1 DEF Txns
<1>3. /\ rows' = [x \in DOMAIN rows \cup DOMAIN done |->
                    IF x \in DOMAIN done THEN done[x] ELSE rows[x]]
      /\ UNCHANGED <<verdict, asked, orphans, started, decided>>
  BY DEF Commit, Committed, countedVars, Holds, Stored
<1>4. job' = [job EXCEPT ![p] = slot] /\ txn' = [txn EXCEPT ![p] = NoTxn]
  BY <1>1 DEF Commit, Ends
<1>5. rows' \in Tables /\ DOMAIN rows' = DOMAIN rows \cup DOMAIN done
  BY <1>1, <1>2, <1>3, TableOver
<1>6. slot \in Slots /\ slot.kind = job[p].kind /\ slot.phase = "teardown"
  BY <1>1 DEF Slots, Phases
<1>7. \A x \in DOMAIN done : done[x].status = StatusOf(x)
  BY DEF DecisionsIInv, HoldInv, Holds
<1>8. \A x : StatusOf(x)' = StatusOf(x)
  BY <1>3, <1>5, <1>7 DEF StatusOf, Stored
<1>9. crossed' \subseteq Pairs
  <2>1. DOMAIN done \subseteq Pairs
    BY <1>2, TableFacts
  <2>2. crossed \subseteq Pairs
    BY DEF DecisionsIInv, TypesInv, JobsTypeOK
  <2> QED
    BY <2>1, <2>2 DEF Commit, Committed, Holds
<1> HIDE DEF slot
<1>10. TypesInv'
  <2>1. job' \in [Processes -> Slots] /\ txn' \in [Processes -> Txns]
    BY <1>1, <1>4, <1>6, NoTxnType
  <2>2. JobsTypeOK'
    BY <1>3, <1>5, <1>9, <2>1 DEF DecisionsIInv, TypesInv, JobsTypeOK, Slots, Txns
  <2> QED
    BY <2>1, <2>2 DEF TypesInv, TxnTypeOK, Txns
<1>11. KindsInv'
  <2>1. job[p].kind # "none"
    BY DEF Commit, DecisionsIInv, KindsInv
  <2> QED
    BY <1>1, <1>4, <1>6, <2>1 DEF DecisionsIInv, KindsInv
<1>12. BackfillInv'
  BY <1>1, <1>4, <1>5, <1>6 DEF DecisionsIInv, BackfillInv, Stored
<1>13. VerdictInv'
  BY <1>3, <1>8 DEF DecisionsIInv, VerdictInv
<1>14. HoldInv'
  <2>1. \A q \in Processes : DOMAIN txn'[q].done \subseteq DOMAIN txn[q].done
    BY <1>1, <1>4, NoTxnType, NoTable
  <2>2. \A q \in Processes : \A x \in DOMAIN txn'[q].done : txn'[q].done = txn[q].done
    BY <1>1, <1>4, NoTxnType, NoTable
  <2> QED
    BY <1>8, <2>1, <2>2 DEF DecisionsIInv, HoldInv, Holds
<1> QED
  BY <1>10, <1>11, <1>12, <1>13, <1>14 DEF DecisionsIInv

\* A decision waits for the row, so no transaction holds what it changes.
LEMMA DecideStep ==
  ASSUME DecisionsIInv, NEW r \in Pairs, NEW s \in Statuses, Decide(r, s)
  PROVE  DecisionsIInv'
<1>1. rows \in Tables /\ verdict \in [Pairs -> Statuses] /\ decided \in Nat
  BY DEF DecisionsIInv, TypesInv, JobsTypeOK
<1>2. DOMAIN rows \subseteq Pairs /\ rows \in [DOMAIN rows -> Row] /\ r \in DOMAIN rows
  BY <1>1, TableFacts DEF Decide, Stored
<1>3. rows' = [rows EXCEPT ![r].status = s] /\ verdict' = [verdict EXCEPT ![r] = s]
      /\ decided' = decided + 1 /\ UNCHANGED <<job, txn, orphans, started, asked, crossed>>
  BY DEF Decide
<1>4. [rows[r] EXCEPT !.status = s] \in Row /\ [rows[r] EXCEPT !.status = s].status = s
  BY <1>2 DEF Row
<1>5. rows' \in [DOMAIN rows -> Row]
  BY <1>2, <1>3, <1>4
<1>6. rows' \in Tables /\ DOMAIN rows' = DOMAIN rows
  BY <1>2, <1>5, TableOf
<1>7. StatusOf(r)' = s /\ \A x : x # r => StatusOf(x)' = StatusOf(x)
  BY <1>2, <1>3, <1>4, <1>6 DEF StatusOf, Stored
<1>8. TypesInv'
  BY <1>1, <1>3, <1>6 DEF DecisionsIInv, TypesInv, JobsTypeOK, TxnTypeOK
<1>9. KindsInv' /\ BackfillInv'
  BY <1>3, <1>6 DEF DecisionsIInv, KindsInv, BackfillInv, Stored
<1>10. VerdictInv'
  BY <1>1, <1>3, <1>7 DEF DecisionsIInv, VerdictInv
<1>11. \A p \in Processes : r \notin DOMAIN txn[p].done
  BY DEF Decide, Locked, Holds
<1>12. HoldInv'
  BY <1>3, <1>7, <1>11 DEF DecisionsIInv, HoldInv, Holds
<1> QED
  BY <1>8, <1>9, <1>10, <1>12 DEF DecisionsIInv

-----------------------------------------------------------------------------

LEMMA DecisionsNext == DecisionsIInv /\ [JobsNext]_jobsVars => DecisionsIInv'
<1> SUFFICES ASSUME DecisionsIInv, [JobsNext]_jobsVars PROVE DecisionsIInv'
  OBVIOUS
<1>1. CASE UNCHANGED jobsVars
  BY <1>1 DEF jobsVars, DecisionsIInv, TypesInv, JobsTypeOK, TxnTypeOK, KindsInv,
              BackfillInv, HoldInv, Holds, VerdictInv, StatusOf, Stored
<1>2. CASE \E r \in Pairs, s \in Statuses : Decide(r, s)
  BY <1>2, DecideStep
<1>3. ASSUME NEW p \in Processes,
             (\E kind \in {"propose", "backfill"} : Start(p, kind)) \/ JobStep(p) \/ Cancelled(p)
      PROVE  DecisionsIInv'
  <2>1. CASE \/ \E kind \in {"propose", "backfill"} : Start(p, kind)
             \/ \E last \in BOOLEAN : Page(p, last)
             \/ PageLimited(p)
    BY <2>1, SlotSteps
  <2>2. CASE \E found \in SUBSET Pairs : Scored(p, found)
    BY <2>2, ScoredStep
  <2>3. CASE Read(p)
    BY <2>3, ReadStep
  <2>4. CASE \E r \in Pairs : Write(p, r)
    BY <2>4, WriteStep
  <2>5. CASE Commit(p)
    BY <2>5, CommitStep
  <2>6. CASE Fails(p) \/ Cancelled(p) \/ TornDown(p)
    BY <2>6, EndingSteps
  <2>7. CASE OrphanEnds(p)
    BY <2>7, OrphanStep
  <2> QED
    BY <1>3, <2>1, <2>2, <2>3, <2>4, <2>5, <2>6, <2>7 DEF JobStep
<1> QED
  BY <1>1, <1>2, <1>3 DEF JobsNext

\* Every pair of the table keeps the status its last decision gave it, and one that
\* nobody decided is proposed (upsert_pairs and backfill_event_slugs of
\* pairs/store.py): for any number of pairs, runs and decisions, and whatever fails,
\* is cancelled or is rolled back around them.
THEOREM NoJobDecides == JobsSpec => []DecisionsStand
<1>1. JobsInit => DecisionsIInv
  BY DecisionsInit
<1>2. DecisionsIInv /\ [JobsNext]_jobsVars => DecisionsIInv'
  BY DecisionsNext
<1>3. DecisionsIInv => DecisionsStand
  <2> SUFFICES ASSUME DecisionsIInv PROVE DecisionsStand
    OBVIOUS
  <2>1. Stored \subseteq Pairs
    BY TableFacts DEF DecisionsIInv, TypesInv, JobsTypeOK, Stored
  <2> QED
    BY <2>1 DEF DecisionsIInv, TypesInv, VerdictInv, StatusOf, DecisionsStand
<1> QED
  BY <1>1, <1>2, <1>3, PTL DEF JobsSpec


-----------------------------------------------------------------------------
(* Proposals.  A run's number is in no row until its transaction is          *)
(* committed, and then in all it set out to write.                           *)

Active(p) == job[p].phase \notin {"idle", "teardown"}

\* The jobs under way have numbers of their own, that no row has yet.
NumbersInv ==
    /\ \A r \in Stored : rows[r].score <= started
    /\ \A p \in Processes : Active(p) =>
          /\ job[p].number \in 1 .. started
          /\ \A q \in Processes : Active(q) /\ job[q].number = job[p].number => q = p
          /\ \A r \in Stored : rows[r].score # job[p].number

\* Rows are written in one phase only, and only a backfill reads the table.
HandsInv ==
    \A p \in Processes : /\ job[p].phase # "persist" => Holds(p) = {}
                         /\ job[p].phase = "read" => job[p].kind = "backfill"

\* A propose writes what it set out to, its score and its detail together.
ProposeInv ==
    \A p \in Processes : job[p].phase = "persist" /\ job[p].kind = "propose" =>
        /\ asked[job[p].number] \subseteq txn[p].todo \cup Holds(p)
        /\ \A r \in Holds(p) : /\ txn[p].done[r].score = job[p].number
                               /\ txn[p].done[r].of = job[p].number

\* A backfill writes the score the table has, and the detail it has unless the
\* pair is a crossed one.
FillInv ==
    \A p \in Processes : job[p].phase = "persist" /\ job[p].kind = "backfill" =>
        /\ \A r \in txn[p].todo \ crossed : \A x \in txn[p].read :
              x[1] = r => x[2].of = rows[r].of
        /\ \A r \in Holds(p) : /\ r \in Stored /\ txn[p].done[r].score = rows[r].score
                               /\ r \notin crossed => txn[p].done[r].of = rows[r].of

WholeInv == NumbersInv /\ HandsInv /\ ProposeInv /\ FillInv /\ ProposalsAreWhole

LEMMA SlotsAndTxns ==
  ASSUME DecisionsIInv
  PROVE  /\ job \in [Processes -> Slots] /\ txn \in [Processes -> Txns]
         /\ rows \in Tables /\ Stored \subseteq Pairs /\ rows \in [Stored -> Row]
         /\ started \in 0 .. MaxJobs /\ MaxJobs \in Nat
         /\ asked \in [1 .. MaxJobs -> SUBSET Pairs] /\ crossed \subseteq Pairs
<1>1. /\ job \in [Processes -> Slots] /\ txn \in [Processes -> Txns] /\ rows \in Tables
      /\ started \in 0 .. MaxJobs /\ asked \in [1 .. MaxJobs -> SUBSET Pairs]
      /\ crossed \subseteq Pairs
  BY DEF DecisionsIInv, TypesInv, JobsTypeOK, TxnTypeOK, Slots, Txns, Numbers
<1> QED
  BY <1>1, TableFacts, PairJobsAssumption DEF Stored

\* A step that commits nothing changes a slot and its transaction: the job goes on
\* with its number or is a new one, and what it holds is what it should.
LEMMA WholeWithoutCommit ==
  ASSUME DecisionsIInv, WholeInv, NEW p \in Processes, NEW slot \in Slots, NEW t \in Txns,
         job' = [job EXCEPT ![p] = slot], txn' = [txn EXCEPT ![p] = t],
         UNCHANGED <<rows, crossed>>,
         \/ started' = started /\ (slot.phase \notin {"idle", "teardown"} =>
                                     Active(p) /\ slot.number = job[p].number)
         \/ started' = started + 1 /\ slot.number = started + 1,
         \A n \in 1 .. MaxJobs :
             asked'[n] = asked[n] \/ (Active(p) /\ n = job[p].number),
         slot.phase # "persist" => DOMAIN t.done = {},
         slot.phase = "read" => slot.kind = "backfill",
         slot.phase = "persist" /\ slot.kind = "propose" =>
             /\ asked'[slot.number] \subseteq t.todo \cup DOMAIN t.done
             /\ \A r \in DOMAIN t.done : /\ t.done[r].score = slot.number
                                         /\ t.done[r].of = slot.number,
         slot.phase = "persist" /\ slot.kind = "backfill" =>
             /\ \A r \in t.todo \ crossed : \A x \in t.read : x[1] = r => x[2].of = rows[r].of
             /\ \A r \in DOMAIN t.done :
                   /\ r \in Stored /\ t.done[r].score = rows[r].score
                   /\ r \notin crossed => t.done[r].of = rows[r].of
  PROVE  WholeInv'
<1>1. /\ job'[p] = slot /\ txn'[p] = t
      /\ \A q \in Processes : q # p => job'[q] = job[q] /\ txn'[q] = txn[q]
  BY SlotsAndTxns
<1>2. /\ started \in Nat /\ MaxJobs \in Nat /\ started <= MaxJobs
      /\ started' \in {started, started + 1}
      /\ \A r \in Stored : rows[r].score \in Nat /\ rows[r].score <= started
  <2>1. \A r \in Stored : rows[r].score \in Nat
    BY SlotsAndTxns DEF Row, Numbers
  <2> QED
    BY <2>1, SlotsAndTxns DEF WholeInv, NumbersInv
<1>3. Stored' = Stored
  BY DEF Stored
<1>4. \A q \in Processes : Active(q) =>
         /\ job[q].number \in 1 .. started
         /\ \A o \in Processes : Active(o) /\ job[o].number = job[q].number => o = q
         /\ \A r \in Stored : rows[r].score # job[q].number
  BY DEF WholeInv, NumbersInv
<1>5. NumbersInv'
  <2> SUFFICES ASSUME NEW q \in Processes, Active(q)'
               PROVE  /\ job'[q].number \in 1 .. started'
                      /\ \A o \in Processes :
                            Active(o)' /\ job'[o].number = job'[q].number => o = q
                      /\ \A r \in Stored : rows[r].score # job'[q].number
    BY <1>2, <1>3 DEF NumbersInv
  <2>1. \A o \in Processes : Active(o)' /\ o # p => Active(o) /\ job'[o].number = job[o].number
    BY <1>1 DEF Active
  <2>2. Active(p)' => \/ started' = started /\ Active(p) /\ job'[p].number = job[p].number
                      \/ started' = started + 1 /\ job'[p].number = started + 1
    BY <1>1 DEF Active
  <2>3. CASE q # p
    <3>1. Active(q) /\ job'[q].number = job[q].number
      BY <2>1, <2>3
    <3> QED
      BY <1>2, <1>4, <2>1, <2>2, <2>3, <3>1
  <2>4. CASE q = p
    BY <1>2, <1>4, <2>1, <2>2, <2>4
  <2> QED
    BY <2>3, <2>4
<1>6. HandsInv'
  BY <1>1 DEF WholeInv, HandsInv, Holds
<1>7. ProposeInv'
  <2> SUFFICES ASSUME NEW q \in Processes, job'[q].phase = "persist", job'[q].kind = "propose"
               PROVE  /\ asked'[job'[q].number] \subseteq txn'[q].todo \cup DOMAIN txn'[q].done
                      /\ \A r \in DOMAIN txn'[q].done :
                            /\ txn'[q].done[r].score = job'[q].number
                            /\ txn'[q].done[r].of = job'[q].number
    BY DEF ProposeInv, Holds
  <2>1. CASE q = p
    BY <1>1, <2>1
  <2>2. CASE q # p
    <3>1. /\ job'[q] = job[q] /\ txn'[q] = txn[q] /\ Active(q)
      BY <1>1, <2>2 DEF Active
    <3>2. asked'[job[q].number] = asked[job[q].number]
      BY <1>2, <1>4, <2>2, <3>1
    <3> QED
      BY <3>1, <3>2 DEF WholeInv, ProposeInv, Holds
  <2> QED
    BY <2>1, <2>2
<1>8. FillInv'
  <2> SUFFICES ASSUME NEW q \in Processes, job'[q].phase = "persist", job'[q].kind = "backfill"
               PROVE  /\ \A r \in txn'[q].todo \ crossed : \A x \in txn'[q].read :
                            x[1] = r => x[2].of = rows[r].of
                      /\ \A r \in DOMAIN txn'[q].done :
                            /\ r \in Stored /\ txn'[q].done[r].score = rows[r].score
                            /\ r \notin crossed => txn'[q].done[r].of = rows[r].of
    BY <1>3 DEF FillInv, Holds
  <2>1. CASE q = p
    BY <1>1, <2>1
  <2>2. CASE q # p
    BY <1>1, <2>2 DEF WholeInv, FillInv, Holds
  <2> QED
    BY <2>1, <2>2
<1>9. ProposalsAreWhole'
  <2>1. \A n \in 1 .. MaxJobs : \/ \A r \in asked'[n] : r \in Stored /\ rows[r].score > 0
                                \/ \A r \in Stored : rows[r].score # n
    BY <1>4 DEF WholeInv, ProposalsAreWhole
  <2> QED
    BY <1>3, <2>1 DEF WholeInv, ProposalsAreWhole
<1> QED
  BY <1>5, <1>6, <1>7, <1>8, <1>9 DEF WholeInv

\* From the slot to the candidates.
LEMMA WholeSlotSteps ==
  ASSUME DecisionsIInv, WholeInv, NEW p \in Processes,
         \/ \E kind \in {"propose", "backfill"} : Start(p, kind)
         \/ \E last \in BOOLEAN : Page(p, last)
         \/ PageLimited(p)
  PROVE  WholeInv'
<1>1. job[p] \in Slots /\ txn[p] \in Txns /\ txn' = [txn EXCEPT ![p] = txn[p]]
      /\ UNCHANGED <<rows, crossed, asked>>
  BY SlotsAndTxns DEF Start, Page, PageLimited, tableVars
<1>2. DOMAIN txn[p].done = {}
  <2>1. job[p].phase # "persist"
    BY DEF Start, Page, PageLimited, Fetching, Idle
  <2> QED
    BY <2>1 DEF WholeInv, HandsInv, Holds
<1>3. PICK slot : job' = [job EXCEPT ![p] = slot]
  BY DEF Start, Page, PageLimited
<1>4. /\ job'[p] = slot /\ DecisionsIInv'
  BY <1>3, SlotsAndTxns, SlotSteps
<1>5. slot \in Slots
  BY <1>4 DEF DecisionsIInv, TypesInv, JobsTypeOK, Slots
<1>6. slot.phase \notin {"persist", "read"}
      /\ \/ started' = started /\ Active(p) /\ slot.number = job[p].number
         \/ started' = started + 1 /\ slot.number = started + 1
  <2>1. CASE \E kind \in {"propose", "backfill"} : Start(p, kind)
    <3>1. PICK kind \in {"propose", "backfill"} : Start(p, kind)
      BY <2>1
    <3> QED
      BY <1>3, <1>4, <3>1, SlotsAndTxns DEF Start
  <2>2. CASE \E last \in BOOLEAN : Page(p, last)
    BY <1>1, <1>3, <1>4, <2>2, SlotsAndTxns
       DEF Page, Fetching, AfterFetch, Slots, Active, countedVars
  <2>3. CASE PageLimited(p)
    <3>0. p \in DOMAIN job
      BY SlotsAndTxns
    <3>1. job[p].phase = "polymarket" /\ slot = [job[p] EXCEPT !.attempt = @ + 1]
          /\ started' = started
      BY <1>1, <1>4, <2>3, <3>0 DEF PageLimited, Slots, countedVars
    <3>2. slot.phase = "polymarket" /\ slot.number = job[p].number
      BY <1>1, <3>1 DEF Slots
    <3> QED
      BY <3>1, <3>2 DEF Active
  <2> QED
    BY <2>1, <2>2, <2>3
<1> QED
  BY <1>1, <1>2, <1>3, <1>5, <1>6, WholeWithoutCommit

LEMMA WholeScored ==
  ASSUME DecisionsIInv, WholeInv, NEW p \in Processes, NEW found \in SUBSET Pairs,
         Scored(p, found)
  PROVE  WholeInv'
<1> DEFINE phase == IF found = {} THEN "teardown"
                    ELSE IF job[p].kind = "propose" THEN "persist" ELSE "read"
           slot == [job[p] EXCEPT !.phase = phase]
           t == [NoTxn EXCEPT !.todo = found]
<1>1. /\ job[p] \in Slots /\ job[p].kind \in {"propose", "backfill"} /\ Active(p)
      /\ job[p].number \in 1 .. MaxJobs
  <2>1. job[p] \in Slots /\ Active(p)
    BY SlotsAndTxns DEF Scored, Active
  <2>2. job[p].number \in 1 .. started /\ started \in 0 .. MaxJobs /\ MaxJobs \in Nat
    BY <2>1, SlotsAndTxns DEF WholeInv, NumbersInv
  <2> QED
    BY <2>1, <2>2 DEF Scored, DecisionsIInv, KindsInv, Slots
<1>2. /\ phase \in {"teardown", "persist", "read"}
      /\ phase = "persist" => job[p].kind = "propose"
      /\ phase = "read" => job[p].kind = "backfill"
  BY <1>1
<1>3. /\ slot \in Slots /\ slot.kind = job[p].kind /\ slot.phase = phase
      /\ slot.number = job[p].number
  BY <1>1, <1>2 DEF Slots, Phases
<1>4. t \in Txns /\ DOMAIN t.done = {} /\ t.todo = found
  BY NoTxnType, NoTable DEF Txns, NoTxn
<1>5. job' = [job EXCEPT ![p] = slot] /\ txn' = [txn EXCEPT ![p] = t]
      /\ UNCHANGED <<rows, crossed, started>>
  BY SlotsAndTxns DEF Scored, countedVars
<1>6. /\ \A n \in 1 .. MaxJobs : asked'[n] = asked[n] \/ n = job[p].number
      /\ job[p].kind = "propose" => asked'[job[p].number] = found
  BY <1>1, SlotsAndTxns DEF Scored
<1> HIDE DEF slot, t, phase
<1> QED
  BY <1>1, <1>2, <1>3, <1>4, <1>5, <1>6, WholeWithoutCommit

LEMMA WholeRead ==
  ASSUME DecisionsIInv, WholeInv, NEW p \in Processes, Read(p)
  PROVE  WholeInv'
<1> DEFINE slot == [job[p] EXCEPT !.phase = "persist"]
           read == {<<r, rows[r]>> : r \in Stored}
           todo == {r \in txn[p].todo \cap Stored : ~ rows[r].slug}
           t == [txn[p] EXCEPT !.read = read, !.todo = todo]
<1>1. /\ job[p] \in Slots /\ txn[p] \in Txns /\ Active(p) /\ job[p].kind = "backfill"
      /\ DOMAIN txn[p].done = {}
  BY SlotsAndTxns DEF Read, Active, WholeInv, HandsInv, Holds
<1>2. /\ slot \in Slots /\ slot.kind = "backfill" /\ slot.phase = "persist"
      /\ slot.number = job[p].number
  BY <1>1 DEF Slots, Phases
<1>3. read \subseteq Pairs \X Row /\ todo \subseteq Pairs
  BY <1>1, SlotsAndTxns DEF Txns
<1>4. t \in Txns /\ DOMAIN t.done = {} /\ t.read = read /\ t.todo = todo
  BY <1>1, <1>3 DEF Txns
<1>5. job' = [job EXCEPT ![p] = slot] /\ txn' = [txn EXCEPT ![p] = t]
      /\ UNCHANGED <<rows, crossed, started, asked>>
  BY SlotsAndTxns DEF Read, tableVars, countedVars
<1>6. \A r : \A x \in read : x[1] = r => x[2].of = rows[r].of
  OBVIOUS
<1> HIDE DEF slot, t, read, todo
<1> QED
  BY <1>1, <1>2, <1>4, <1>5, <1>6, WholeWithoutCommit

LEMMA WholeWrite ==
  ASSUME DecisionsIInv, WholeInv, NEW p \in Processes, NEW r \in Pairs, Write(p, r)
  PROVE  WholeInv'
<1> DEFINE w == Written(p, r)
           done == [x \in Holds(p) \cup {r} |-> IF x = r THEN w ELSE txn[p].done[x]]
           t == [txn[p] EXCEPT !.todo = @ \ {r}, !.done = done]
<1>1. /\ job[p] \in Slots /\ txn[p] \in Txns /\ Active(p) /\ job[p].phase = "persist"
      /\ r \in txn[p].todo
  BY SlotsAndTxns DEF Write, Active
<1>2. w \in Row
  BY WrittenKeepsStatus DEF Write
<1>3. done \in Tables /\ DOMAIN done = Holds(p) \cup {r}
      /\ done[r] = w /\ \A x \in Holds(p) : x # r => done[x] = txn[p].done[x]
  <2>1. txn[p].done \in Tables /\ Holds(p) = DOMAIN txn[p].done
    BY <1>1 DEF Holds, Txns
  <2>2. done \in Tables /\ DOMAIN done = Holds(p) \cup {r}
    BY ONLY <1>2, <2>1, TablePut
  <2> QED
    BY <2>2
<1>4. t \in Txns /\ t.read = txn[p].read /\ t.todo = txn[p].todo \ {r} /\ t.done = done
  BY <1>1, <1>3 DEF Txns
<1>5. txn' = [txn EXCEPT ![p] = t] /\ job' = [job EXCEPT ![p] = job[p]]
      /\ UNCHANGED <<rows, crossed, started, asked>>
  BY <1>1, SlotsAndTxns DEF Write, Txns, tableVars, countedVars
<1>6. ASSUME job[p].kind = "propose"
      PROVE  /\ asked[job[p].number] \subseteq t.todo \cup DOMAIN t.done
             /\ \A x \in DOMAIN t.done : /\ t.done[x].score = job[p].number
                                         /\ t.done[x].of = job[p].number
  <2>1. w.score = job[p].number /\ w.of = job[p].number
    BY <1>6 DEF Written, Upserted
  <2>2. /\ asked[job[p].number] \subseteq txn[p].todo \cup Holds(p)
        /\ \A x \in Holds(p) : /\ txn[p].done[x].score = job[p].number
                               /\ txn[p].done[x].of = job[p].number
    BY <1>1, <1>6 DEF WholeInv, ProposeInv
  <2> HIDE DEF t, done, w
  <2> QED
    BY <1>3, <1>4, <2>1, <2>2
<1>7. ASSUME job[p].kind = "backfill"
      PROVE  /\ \A y \in t.todo \ crossed : \A x \in t.read : x[1] = y => x[2].of = rows[y].of
             /\ \A y \in DOMAIN t.done :
                   /\ y \in Stored /\ t.done[y].score = rows[y].score
                   /\ y \notin crossed => t.done[y].of = rows[y].of
  <2>1. /\ r \in Stored /\ \E x \in txn[p].read : x[1] = r
    BY <1>1, <1>7 DEF DecisionsIInv, BackfillInv
  <2>2. /\ \A y \in txn[p].todo \ crossed : \A x \in txn[p].read :
              x[1] = y => x[2].of = rows[y].of
        /\ \A y \in Holds(p) : /\ y \in Stored /\ txn[p].done[y].score = rows[y].score
                               /\ y \notin crossed => txn[p].done[y].of = rows[y].of
    BY <1>1, <1>7 DEF WholeInv, FillInv
  <2>3. w.score = rows[r].score /\ (r \notin crossed => w.of = rows[r].of)
    <3> DEFINE was == CHOOSE x \in txn[p].read : x[1] = r
    <3>1. was \in txn[p].read /\ was[1] = r
      BY <2>1
    <3>2. w = [rows[r] EXCEPT !.of = was[2].of, !.slug = TRUE]
      BY <1>7 DEF Written, Filled
    <3>3. r \notin crossed => was[2].of = rows[r].of
      BY <1>1, <2>2, <3>1
    <3>4. rows[r] \in Row
      BY <2>1, SlotsAndTxns
    <3> HIDE DEF was, w
    <3> QED
      BY <3>2, <3>3, <3>4 DEF Row
  <2> HIDE DEF t, done, w
  <2> QED
    BY <1>3, <1>4, <2>1, <2>2, <2>3
<1> HIDE DEF t, done, w
<1> QED
  BY <1>1, <1>4, <1>5, <1>6, <1>7, WholeWithoutCommit

LEMMA WholeEnding ==
  ASSUME DecisionsIInv, WholeInv, NEW p \in Processes, Fails(p) \/ Cancelled(p) \/ TornDown(p)
  PROVE  WholeInv'
<1>1. job[p] \in Slots /\ txn' = [txn EXCEPT ![p] = NoTxn]
      /\ UNCHANGED <<rows, crossed, started, asked>>
  BY SlotsAndTxns DEF Fails, Cancelled, TornDown, Ends, tableVars, countedVars
<1>2. PICK slot \in Slots : /\ job' = [job EXCEPT ![p] = slot]
                            /\ slot.phase \in {"idle", "teardown"}
  <2>1. CASE Fails(p) \/ Cancelled(p)
    <3>1. [job[p] EXCEPT !.phase = "teardown"] \in Slots
      BY <1>1 DEF Slots, Phases
    <3>2. [job[p] EXCEPT !.phase = "teardown"].phase = "teardown"
      BY <1>1 DEF Slots
    <3> QED
      BY <2>1, <3>1, <3>2, SlotsAndTxns DEF Fails, Cancelled, Ends
  <2>2. CASE TornDown(p)
    BY <2>2, IdleType DEF TornDown, Idle
  <2> QED
    BY <2>1, <2>2
<1>3. NoTxn \in Txns /\ DOMAIN NoTxn.done = {}
  BY NoTxnType, NoTable
<1> QED
  BY <1>1, <1>2, <1>3, WholeWithoutCommit

\* What a propose commits is whole and new; what a backfill commits keeps every
\* score, and every detail but those of crossed pairs.
LEMMA WholeCommit ==
  ASSUME DecisionsIInv, WholeInv, NEW p \in Processes, Commit(p)
  PROVE  WholeInv'
<1> DEFINE done == txn[p].done
           held == DOMAIN txn[p].done
           k == job[p].number
<1>1. /\ Active(p) /\ job[p].phase = "persist" /\ txn[p].todo = {} /\ Holds(p) = held
      /\ job[p].kind \in {"propose", "backfill"}
  BY SlotsAndTxns DEF Commit, Active, Holds, DecisionsIInv, KindsInv, Slots
<1>2. /\ rows' = [x \in Stored \cup held |-> IF x \in held THEN done[x] ELSE rows[x]]
      /\ UNCHANGED <<asked, started>>
      /\ crossed' = IF job[p].kind = "propose"
                      THEN (crossed \ held) \cup (ReadByOther(p) \cap held) ELSE crossed
  BY DEF Commit, Committed, countedVars, Holds
<1>3. /\ Stored' = Stored \cup held
      /\ \A x \in held : rows'[x] = done[x]
      /\ \A x \in Stored \ held : rows'[x] = rows[x]
  BY <1>2 DEF Stored
<1>4. /\ job'[p].phase = "teardown" /\ DOMAIN txn'[p].done = {}
      /\ \A q \in Processes : q # p => job'[q] = job[q] /\ txn'[q] = txn[q]
  BY SlotsAndTxns, NoTxnType, NoTable DEF Commit, Ends, Slots
<1>5. /\ started \in Nat /\ started <= MaxJobs /\ k \in 1 .. started
      /\ \A r \in Stored : rows[r].score \in Nat /\ rows[r].score <= started
  <2>1. \A r \in Stored : rows[r].score \in Nat
    BY SlotsAndTxns DEF Row, Numbers
  <2> QED
    BY <1>1, <2>1, SlotsAndTxns DEF WholeInv, NumbersInv
\* The scores after the commit.
<1>6. /\ job[p].kind = "propose" => \A x \in held : done[x].score = k /\ done[x].of = k
      /\ job[p].kind = "backfill" => \A x \in held :
            /\ x \in Stored /\ done[x].score = rows[x].score
            /\ x \notin crossed => done[x].of = rows[x].of
  BY <1>1 DEF WholeInv, ProposeInv, FillInv
<1>7. \A x \in Stored' : \/ x \in held /\ rows'[x].score = k /\ job[p].kind = "propose"
                         \/ x \in Stored /\ rows'[x].score = rows[x].score
  BY <1>1, <1>3, <1>6
<1>8. NumbersInv'
  <2>1. \A q \in Processes : Active(q)' => Active(q) /\ q # p /\ job'[q].number = job[q].number
    BY <1>4 DEF Active
  <2>2. \A q \in Processes : Active(q)' =>
          /\ job'[q].number \in 1 .. started
          /\ job[q].number # k
          /\ \A o \in Processes : Active(o)' /\ job'[o].number = job'[q].number => o = q
          /\ \A r \in Stored : rows[r].score # job'[q].number
    BY <1>1, <2>1 DEF WholeInv, NumbersInv
  <2>3. \A r \in Stored' : rows'[r].score <= started
    BY <1>5, <1>7
  <2> QED
    BY <1>2, <1>7, <2>1, <2>2, <2>3 DEF NumbersInv
<1>9. HandsInv'
  BY <1>4 DEF WholeInv, HandsInv, Holds
<1>10. ProposeInv'
  BY <1>2, <1>4 DEF WholeInv, ProposeInv, Holds
<1>11. FillInv'
  <2> SUFFICES ASSUME NEW q \in Processes, job'[q].phase = "persist", job'[q].kind = "backfill"
               PROVE  /\ \A r \in txn'[q].todo \ crossed' : \A x \in txn'[q].read :
                            x[1] = r => x[2].of = rows'[r].of
                      /\ \A r \in DOMAIN txn'[q].done :
                            /\ r \in Stored' /\ txn'[q].done[r].score = rows'[r].score
                            /\ r \notin crossed' => txn'[q].done[r].of = rows'[r].of
    BY DEF FillInv, Holds
  <2>1. /\ q # p /\ job[q].phase = "persist" /\ job[q].kind = "backfill" /\ txn'[q] = txn[q]
    BY <1>4
  <2>2. /\ \A r \in txn[q].todo \ crossed : \A x \in txn[q].read :
              x[1] = r => x[2].of = rows[r].of
        /\ \A r \in DOMAIN txn[q].done :
              /\ r \in Stored /\ txn[q].done[r].score = rows[r].score
              /\ r \notin crossed => txn[q].done[r].of = rows[r].of
        /\ txn[q].todo \subseteq Stored
    BY <2>1 DEF WholeInv, FillInv, Holds, DecisionsIInv, BackfillInv
  <2>3. txn[q].todo \subseteq ReadByOther(p)
    BY <2>1 DEF ReadByOther
  <2>4. \A r \in DOMAIN txn[q].done : r \notin held
    BY <2>1 DEF DecisionsIInv, HoldInv, Holds
  <2>5. ASSUME NEW r \in txn[q].todo, r \notin crossed'
        PROVE  r \notin crossed /\ rows'[r].of = rows[r].of
    <3>1. r \in Stored /\ r \notin crossed
      BY <1>2, <2>2, <2>3, <2>5
    <3>2. r \in held => job[p].kind = "backfill"
      BY <1>1, <1>2, <2>3, <2>5
    <3> QED
      BY <1>3, <1>6, <3>1, <3>2
  <2>6. \A r \in DOMAIN txn[q].done : /\ r \in Stored' /\ rows'[r] = rows[r]
                                      /\ r \in crossed => r \in crossed'
    BY <1>2, <1>3, <2>2, <2>4
  <2> QED
    BY <2>1, <2>2, <2>5, <2>6
<1>12. ProposalsAreWhole'
  <2>1. ASSUME NEW r \in Stored' \ crossed'
        PROVE  rows'[r].score = rows'[r].of
    <3>1. CASE r \in held /\ job[p].kind = "propose"
      BY <1>3, <1>6, <3>1
    <3>2. CASE ~ (r \in held /\ job[p].kind = "propose")
      <4>1. r \in Stored /\ r \notin crossed
        BY <1>1, <1>2, <1>3, <1>6, <2>1, <3>2
      <4>2. rows[r].score = rows[r].of
        BY <4>1 DEF WholeInv, ProposalsAreWhole
      <4> QED
        BY <1>1, <1>3, <1>6, <3>2, <4>1, <4>2
    <3> QED
      BY <3>1, <3>2
  <2>2. ASSUME NEW n \in 1 .. MaxJobs
        PROVE  \/ \A r \in asked[n] : r \in Stored' /\ rows'[r].score > 0
               \/ \A r \in Stored' : rows'[r].score # n
    <3>1. \/ \A r \in asked[n] : r \in Stored /\ rows[r].score > 0
          \/ \A r \in Stored : rows[r].score # n
      BY DEF WholeInv, ProposalsAreWhole
    <3>2. k > 0 /\ k \in Nat
      BY <1>5
    <3>3. CASE n = k /\ job[p].kind = "propose"
      <4>1. asked[n] \subseteq held
        BY <1>1, <3>3 DEF WholeInv, ProposeInv
      <4> QED
        BY <1>3, <1>6, <3>2, <3>3, <4>1
    <3>4. CASE ~ (n = k /\ job[p].kind = "propose")
      <4>1. ASSUME \A r \in asked[n] : r \in Stored /\ rows[r].score > 0
            PROVE  \A r \in asked[n] : r \in Stored' /\ rows'[r].score > 0
        BY <1>3, <1>7, <3>2, <4>1
      <4>2. ASSUME \A r \in Stored : rows[r].score # n
            PROVE  \A r \in Stored' : rows'[r].score # n
        BY <1>7, <3>4, <4>2
      <4> QED
        BY <3>1, <4>1, <4>2
    <3> QED
      BY <3>3, <3>4
  <2> QED
    BY <1>2, <2>1, <2>2 DEF ProposalsAreWhole
<1> QED
  BY <1>8, <1>9, <1>10, <1>11, <1>12 DEF WholeInv

\* A decision changes neither the score nor the detail of a row.
LEMMA WholeDecide ==
  ASSUME DecisionsIInv, WholeInv, NEW r \in Pairs, NEW s \in Statuses, Decide(r, s)
  PROVE  WholeInv'
<1>1. rows' = [rows EXCEPT ![r].status = s] /\ r \in Stored
      /\ UNCHANGED <<job, txn, started, asked, crossed>>
  BY DEF Decide
<1>2. Stored' = Stored
  BY <1>1 DEF Stored
<1>3. \A x \in Stored : rows'[x].score = rows[x].score /\ rows'[x].of = rows[x].of
  <2>1. rows \in [Stored -> Row]
    BY SlotsAndTxns
  <2> QED
    BY <1>1, <2>1 DEF Row
<1>4. NumbersInv' /\ HandsInv' /\ ProposeInv'
  BY <1>1, <1>2, <1>3 DEF WholeInv, NumbersInv, HandsInv, ProposeInv, Active, Holds
<1>5. FillInv'
  <2>1. \A p \in Processes : job[p].phase = "persist" /\ job[p].kind = "backfill" =>
          txn[p].todo \subseteq Stored
    BY DEF DecisionsIInv, BackfillInv
  <2> QED
    BY <1>1, <1>2, <1>3, <2>1 DEF WholeInv, FillInv, Holds
<1>6. asked \in [1 .. MaxJobs -> SUBSET Pairs]
  BY SlotsAndTxns
<1>7. ProposalsAreWhole'
  BY <1>1, <1>2, <1>3 DEF WholeInv, ProposalsAreWhole
<1> QED
  BY <1>4, <1>5, <1>7 DEF WholeInv

LEMMA WholeNext == DecisionsIInv /\ WholeInv /\ [JobsNext]_jobsVars => WholeInv'
<1> SUFFICES ASSUME DecisionsIInv, WholeInv, [JobsNext]_jobsVars PROVE WholeInv'
  OBVIOUS
<1>1. ASSUME UNCHANGED <<rows, job, txn, started, asked, crossed>> PROVE WholeInv'
  BY <1>1 DEF WholeInv, NumbersInv, HandsInv, ProposeInv, FillInv, ProposalsAreWhole,
              Active, Holds, Stored
<1>2. CASE UNCHANGED jobsVars
  BY <1>1, <1>2 DEF jobsVars
<1>3. CASE \E r \in Pairs, s \in Statuses : Decide(r, s)
  BY <1>3, WholeDecide
<1>4. ASSUME NEW p \in Processes,
             (\E kind \in {"propose", "backfill"} : Start(p, kind)) \/ JobStep(p) \/ Cancelled(p)
      PROVE  WholeInv'
  <2>1. CASE \/ \E kind \in {"propose", "backfill"} : Start(p, kind)
             \/ \E last \in BOOLEAN : Page(p, last)
             \/ PageLimited(p)
    BY <2>1, WholeSlotSteps
  <2>2. CASE \E found \in SUBSET Pairs : Scored(p, found)
    BY <2>2, WholeScored
  <2>3. CASE Read(p)
    BY <2>3, WholeRead
  <2>4. CASE \E r \in Pairs : Write(p, r)
    BY <2>4, WholeWrite
  <2>5. CASE Commit(p)
    BY <2>5, WholeCommit
  <2>6. CASE Fails(p) \/ Cancelled(p) \/ TornDown(p)
    BY <2>6, WholeEnding
  <2>7. CASE OrphanEnds(p)
    BY <1>1, <2>7 DEF OrphanEnds, tableVars, countedVars
  <2> QED
    BY <1>4, <2>1, <2>2, <2>3, <2>4, <2>5, <2>6, <2>7 DEF JobStep
<1> QED
  BY <1>2, <1>3, <1>4 DEF JobsNext

\* What the table says of a pair is one proposal, and the proposals of a run are in
\* it together or not at all, whatever the run met between its rows
\* (upsert_pairs, one transaction per run).
THEOREM RunsAreAtomic == JobsSpec => []ProposalsAreWhole
<1>1. JobsInit => WholeInv
  <2> SUFFICES ASSUME JobsInit PROVE WholeInv
    OBVIOUS
  <2>1. \A p \in Processes : job[p] = Idle /\ txn[p] = NoTxn
    BY DEF JobsInit
  <2>2. \A r \in Stored : rows[r].score = 0 /\ rows[r].of = 0
    BY DEF JobsInit, Stored
  <2>3. NumbersInv /\ HandsInv /\ ProposeInv /\ FillInv
    BY <2>1, <2>2, NoTable DEF JobsInit, NumbersInv, HandsInv, ProposeInv, FillInv, Active,
                           Holds, Idle, NoTxn
  <2>4. ProposalsAreWhole
    BY <2>2 DEF JobsInit, ProposalsAreWhole
  <2> QED
    BY <2>3, <2>4 DEF WholeInv
<1>2. DecisionsIInv /\ WholeInv /\ [JobsNext]_jobsVars => WholeInv'
  BY WholeNext
<1>3. WholeInv => ProposalsAreWhole
  BY DEF WholeInv
<1> QED
  BY <1>1, <1>2, <1>3, DecisionsInit, DecisionsNext, PTL DEF JobsSpec
=============================================================================
