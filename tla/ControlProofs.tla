--------------------------- MODULE ControlProofs ---------------------------
(***************************************************************************)
(* Proofs about the control plane: its types, the bound on its tokens, and *)
(* that a job which needs confirming runs on a token of its own, one per   *)
(* "armed" row.                                                            *)
(***************************************************************************)
EXTENDS Control, FiniteSetTheorems, WellFoundedInduction, TLAPS

\* Ids count up, so no two tokens share one, and those presented are of
\* tokens there were.
Numbered ==
    /\ IsFiniteSet(tokens)
    /\ \A t \in tokens : t.id <= minted
    /\ \A t, u \in tokens : t.id = u.id => t = u
    /\ \A c \in presented : c <= minted

\* Jobs are started in the order of their ids.
Born == \E k \in 0 .. MaxRequests : Started = 1 .. k

TokenInv == TokensTypeOK /\ Numbered /\ NoneSpentTwice /\ EachRunWasArmed

JobInv == JobsTypeOK /\ Born /\ JobsHoldTheirGroups

ControlInv == ServerTypeOK /\ TokenInv /\ JobInv

-----------------------------------------------------------------------------
(* Tokens *)

\* A finite set of tokens has one with the least id.
LEMMA OldestToken ==
    ASSUME NEW T \in SUBSET Token, T # {}
    PROVE  \E t \in T : \A u \in T : t.id <= u.id
<1> DEFINE Ids == {t.id : t \in T}
<1>1. Ids \subseteq Nat /\ Ids # {}
    BY DEF Token
<1>2. \E x \in Ids : \A y \in Ids : ~ (<<y, x>> \in OpToRel(<, Nat))
    <2> HIDE DEF Ids
    <2> QED BY <1>1, NatLessThanWellFounded, WFMin
<1>3. PICK x \in Ids : \A y \in Ids : ~ (y < x)
    BY <1>1, <1>2 DEF OpToRel
<1>4. PICK t \in T : t.id = x
    BY <1>3
<1>5. \A u \in T : u.id \in Ids /\ u.id \in Nat
    BY DEF Token
<1>6. \A u \in T : t.id <= u.id
    <2> HIDE DEF Ids
    <2> QED BY <1>3, <1>4, <1>5
<1> QED BY <1>4, <1>6

\* After an eviction there is room for one more token.
LEMMA RoomForOne ==
    ASSUME NEW T \in SUBSET Token, IsFiniteSet(T),
           \A t, u \in T : t.id = u.id => t = u
    PROVE  /\ IsFiniteSet(RoomLeft(T))
           /\ Cardinality(RoomLeft(T)) <= MaxPending - 1
<1> DEFINE S == RoomLeft(T)
<1>1. S \subseteq T /\ S \subseteq Token
    BY DEF RoomLeft
<1>2. IsFiniteSet(S)
    BY <1>1, FS_Subset
<1>3. CASE S = {}
    BY <1>2, <1>3, FS_EmptySet, ControlAssumption
<1>4. CASE S # {}
    <2>1. PICK t \in S : \A u \in S : t.id <= u.id
        <3> HIDE DEF S
        <3> QED BY <1>1, <1>4, OldestToken
    <2>2. S \ {t} \subseteq Newer(T, t) /\ Newer(T, t) \subseteq T
        BY <1>1, <2>1 DEF Newer, Token
    <2>3. Cardinality(S \ {t}) <= Cardinality(Newer(T, t))
        BY <2>2, FS_Subset
    <2>4. Cardinality(S \ {t}) = Cardinality(S) - 1
        BY <1>2, <2>1, FS_RemoveElement
    <2>5. Cardinality(Newer(T, t)) < MaxPending - 1
        BY <2>1 DEF RoomLeft
    <2>6. /\ Cardinality(S) \in Nat /\ Cardinality(S \ {t}) \in Nat
          /\ Cardinality(Newer(T, t)) \in Nat
        BY <1>1, <1>2, <2>2, FS_Subset, FS_CardinalityType
    <2> QED BY <1>2, <2>3, <2>4, <2>5, <2>6, ControlAssumption
<1> QED BY <1>3, <1>4

\* The tokens of an order among fewer tokens are no more.
LEMMA FewerPending ==
    ASSUME NEW T, IsFiniteSet(T), NEW S \in SUBSET T, NEW o
    PROVE  /\ IsFiniteSet(Pending(T, o))
           /\ IsFiniteSet(Pending(S, o))
           /\ Cardinality(Pending(S, o)) \in Nat
           /\ Cardinality(Pending(T, o)) \in Nat
           /\ Cardinality(Pending(S, o)) <= Cardinality(Pending(T, o))
<1>1. Pending(T, o) \subseteq T /\ Pending(S, o) \subseteq Pending(T, o)
    BY DEF Pending
<1>2. IsFiniteSet(Pending(T, o))
    BY <1>1, FS_Subset
<1> QED BY <1>1, <1>2, FS_Subset, FS_CardinalityType

\* The unexpired tokens are some of them.
LEMMA UnexpiredAreTokens ==
    ASSUME TokenInv
    PROVE  /\ Unexpired(tokens) \subseteq tokens
           /\ Unexpired(tokens) \in SUBSET Token
           /\ IsFiniteSet(Unexpired(tokens))
           /\ \A t, u \in Unexpired(tokens) : t.id = u.id => t = u
<1>1. Unexpired(tokens) \subseteq tokens
    BY DEF Unexpired
<1> QED BY <1>1, FS_Subset DEF TokenInv, TokensTypeOK, Numbered

\* An arming whose row is committed, with the token it mints.
LEMMA MintKeepsTokens ==
    ASSUME TokenInv, now \in Nat, NEW o \in Orders, ran \in [Orders -> Nat],
           Mint(o), armings' = [armings EXCEPT ![o] = @ + 1],
           UNCHANGED <<presented, ran>>
    PROVE  TokenInv'
<1> DEFINE S == RoomLeft(Unexpired(tokens))
           n == [id |-> minted + 1, order |-> o, expires |-> now + Ttl]
<1>1. tokens' = S \cup {n} /\ minted' = minted + 1 /\ minted \in Nat
    BY DEF Mint, TokenInv, TokensTypeOK
<1>2. S \subseteq tokens /\ IsFiniteSet(S) /\ Cardinality(S) <= MaxPending - 1
    BY UnexpiredAreTokens, RoomForOne DEF RoomLeft
<1>3. n \in Token
    BY <1>1, ControlAssumption DEF Token
<1>4. \A t \in S : t.id <= minted /\ t.id \in Nat /\ t.id \notin presented
    BY <1>2 DEF TokenInv, TokensTypeOK, Numbered, NoneSpentTwice, Token
<1>5. n \notin S
    BY <1>1, <1>4
<1> HIDE DEF S, n
<1>6. IsFiniteSet(tokens') /\ Cardinality(tokens') = Cardinality(S) + 1
    BY <1>1, <1>2, <1>5, FS_AddElement
<1>7. TokensTypeOK'
    <2>1. Cardinality(tokens') <= MaxPending
        BY <1>2, <1>6, FS_CardinalityType, ControlAssumption
    <2> QED BY <1>1, <1>2, <1>3, <2>1 DEF TokenInv, TokensTypeOK
<1>8. Numbered'
    <2>1. \A t \in tokens' : t.id <= minted'
        BY <1>1, <1>4 DEF n
    <2>2. \A t, u \in tokens' : t.id = u.id => t = u
        BY <1>1, <1>2, <1>4 DEF n, TokenInv, Numbered
    <2>3. \A c \in presented' : c <= minted'
        BY <1>1 DEF TokenInv, Numbered, TokensTypeOK
    <2> QED BY <1>6, <2>1, <2>2, <2>3 DEF Numbered
<1>9. NoneSpentTwice'
    <2>1. minted + 1 \notin presented
        BY <1>1 DEF TokenInv, Numbered, TokensTypeOK
    <2> QED BY <1>1, <1>4, <2>1 DEF NoneSpentTwice, n
<1>10. EachRunWasArmed'
    <2> SUFFICES ASSUME NEW q \in Confirmed
                 PROVE  ran'[q] + Cardinality(Pending(tokens', q)) <= armings'[q]
        BY DEF EachRunWasArmed
    <2> DEFINE P == Pending(S, q)
    <2>1. /\ IsFiniteSet(P) /\ Cardinality(P) \in Nat
          /\ Cardinality(Pending(tokens, q)) \in Nat
          /\ Cardinality(P) <= Cardinality(Pending(tokens, q))
        BY <1>2, FewerPending DEF TokenInv, Numbered
    <2>2. ran[q] + Cardinality(Pending(tokens, q)) <= armings[q]
        BY DEF TokenInv, EachRunWasArmed
    <2>3. /\ q \in Orders /\ ran' = ran /\ ran[q] \in Nat /\ armings[q] \in Nat
          /\ armings'[q] = IF q = o THEN armings[q] + 1 ELSE armings[q]
        BY ControlAssumption DEF TokenInv, TokensTypeOK
    <2>4. CASE q = o
        <3>1. Pending(tokens', q) = P \cup {n}
            BY <1>1, <2>4 DEF Pending, n
        <3>2. Cardinality(P \cup {n}) \in {Cardinality(P), Cardinality(P) + 1}
            <4> HIDE DEF P
            <4> QED BY <2>1, FS_AddElement
        <3> QED BY <2>1, <2>2, <2>3, <2>4, <3>1, <3>2
    <2>5. CASE q # o
        <3>1. Pending(tokens', q) = P
            BY <1>1, <2>5 DEF Pending, n
        <3> QED BY <2>1, <2>2, <2>3, <2>5, <3>1
    <2> QED BY <2>4, <2>5
<1> QED BY <1>7, <1>8, <1>9, <1>10 DEF TokenInv

\* Spending a token: if it was of the order run, one pending less pays for
\* one run more.
LEMMA SpendKeepsTokens ==
    ASSUME TokenInv, NEW c \in 0 .. minted, NEW o \in Orders,
           ran \in [Orders -> Nat], Spend(c),
           \/ ran' = ran
           \/ Grants(o, c) /\ ran' = [ran EXCEPT ![o] = @ + 1]
    PROVE  TokenInv'
<1>1. /\ tokens' \subseteq tokens /\ presented' = presented \cup {c}
      /\ \A t \in tokens' : t.id # c
      /\ minted' = minted /\ armings' = armings
    BY DEF Spend, Unexpired
<1>2. /\ IsFiniteSet(tokens') /\ Cardinality(tokens') <= Cardinality(tokens)
      /\ Cardinality(tokens) \in Nat /\ Cardinality(tokens') \in Nat
    BY <1>1, FS_Subset, FS_CardinalityType DEF TokenInv, Numbered
<1>3. c \in Nat /\ c <= minted
    BY DEF TokenInv, TokensTypeOK
<1>4. TokensTypeOK'
    BY <1>1, <1>2, <1>3, ControlAssumption DEF TokenInv, TokensTypeOK
<1>5. Numbered'
    BY <1>1, <1>2, <1>3 DEF TokenInv, Numbered
<1>6. NoneSpentTwice'
    BY <1>1 DEF TokenInv, NoneSpentTwice
<1>7. EachRunWasArmed'
    <2> SUFFICES ASSUME NEW q \in Confirmed
                 PROVE  ran'[q] + Cardinality(Pending(tokens', q)) <= armings'[q]
        BY DEF EachRunWasArmed
    <2>1. /\ IsFiniteSet(Pending(tokens, q))
          /\ Cardinality(Pending(tokens', q)) <= Cardinality(Pending(tokens, q))
          /\ Cardinality(Pending(tokens, q)) \in Nat
          /\ Cardinality(Pending(tokens', q)) \in Nat
        BY <1>1, FewerPending DEF TokenInv, Numbered
    <2>2. ran[q] + Cardinality(Pending(tokens, q)) <= armings[q]
        BY DEF TokenInv, EachRunWasArmed
    <2>3. q \in Orders /\ ran[q] \in Nat /\ armings[q] \in Nat
        BY ControlAssumption DEF TokenInv, TokensTypeOK
    <2>4. CASE ran'[q] = ran[q]
        BY <1>1, <2>1, <2>2, <2>3, <2>4
    <2>5. CASE ran'[q] # ran[q]
        <3>1. q = o /\ Grants(q, c) /\ ran'[q] = ran[q] + 1
            BY <2>3, <2>5
        <3>2. PICK t \in tokens : t.id = c /\ t.order = q
            BY <3>1 DEF Grants, Unexpired
        <3>3. t \in Pending(tokens, q) /\ Pending(tokens', q) \subseteq Pending(tokens, q) \ {t}
            BY <1>1, <3>2 DEF Pending
        <3>4. /\ IsFiniteSet(Pending(tokens, q) \ {t})
              /\ Cardinality(Pending(tokens, q) \ {t}) = Cardinality(Pending(tokens, q)) - 1
            BY <2>1, <3>3, FS_RemoveElement
        <3>5. Cardinality(Pending(tokens', q)) <= Cardinality(Pending(tokens, q)) - 1
            BY <3>3, <3>4, FS_Subset
        <3> QED BY <1>1, <2>1, <2>2, <2>3, <3>1, <3>5
    <2> QED BY <2>4, <2>5
<1> QED BY <1>4, <1>5, <1>6, <1>7 DEF TokenInv

\* A committed row without a token, or a step that concerns no token.
LEMMA OthersKeepTokens ==
    ASSUME TokenInv, NEW o \in Orders, ran \in [Orders -> Nat],
           UNCHANGED <<tokens, minted, presented>>,
           armings' = armings \/ armings' = [armings EXCEPT ![o] = @ + 1],
           \A q \in Confirmed : ran'[q] = ran[q]
    PROVE  TokenInv'
<1>1. TokensTypeOK' /\ Numbered' /\ NoneSpentTwice'
    BY DEF TokenInv, TokensTypeOK, Numbered, NoneSpentTwice
<1>2. EachRunWasArmed'
    <2> SUFFICES ASSUME NEW q \in Confirmed
                 PROVE  ran'[q] + Cardinality(Pending(tokens', q)) <= armings'[q]
        BY DEF EachRunWasArmed
    <2>1. tokens' = tokens
        OBVIOUS
    <2>2. /\ q \in Orders /\ ran[q] \in Nat /\ armings[q] \in Nat
          /\ armings'[q] \in {armings[q], armings[q] + 1}
        BY ControlAssumption DEF TokenInv, TokensTypeOK
    <2>3. Cardinality(Pending(tokens, q)) \in Nat
        BY FewerPending DEF TokenInv, Numbered
    <2> QED BY <2>1, <2>2, <2>3 DEF TokenInv, EachRunWasArmed
<1> QED BY <1>1, <1>2 DEF TokenInv

-----------------------------------------------------------------------------
(* Jobs *)

\* start() of a free group.
LEMMA LaunchKeepsJobs ==
    ASSUME JobInv, NEW o \in Orders, active[GroupOf[o]] = NoJob,
           NEW j \in JobIds, j = Cardinality(Started) + 1, Launch(o, j)
    PROVE  JobInv' /\ ran' = [ran EXCEPT ![o] = @ + 1]
<1>1. PICK k \in 0 .. MaxRequests : Started = 1 .. k
    BY DEF JobInv, Born
<1>2. j = k + 1
    BY <1>1, FS_Interval
<1>3. stage[j] = "unborn"
    BY <1>1, <1>2 DEF Started
<1>4. /\ stage' = [stage EXCEPT ![j] = "body"]
      /\ orderOf' = [orderOf EXCEPT ![j] = o]
      /\ active' = [active EXCEPT ![GroupOf[o]] = j]
      /\ ran' = [ran EXCEPT ![o] = @ + 1]
      /\ GroupOf[o] \in Groups
    BY ControlAssumption DEF Launch
<1>5. jobs' \subseteq JobIds /\ \A i \in jobs \cup {j} : stage'[i] \in Alive => i \in jobs'
    BY DEF Launch, Pruned, JobInv, JobsTypeOK
<1>6. JobsTypeOK'
    BY <1>4, <1>5 DEF JobInv, JobsTypeOK, Alive
<1>7. Born'
    <2>1. Started' = Started \cup {j}
        BY <1>4 DEF Started, JobInv, JobsTypeOK
    <2>2. k + 1 \in 0 .. MaxRequests /\ Started' = 1 .. (k + 1)
        BY <1>1, <1>2, <2>1, ControlAssumption DEF JobIds
    <2> QED BY <2>2 DEF Born
<1>8. JobsHoldTheirGroups'
    <2>1. ASSUME NEW i \in JobIds, Running(i)'
          PROVE  i \in jobs' /\ active'[GroupOf[orderOf'[i]]] = i
        <3>1. CASE i = j
            BY <1>4, <1>5, <2>1, <3>1 DEF Running, JobInv, JobsTypeOK
        <3>2. CASE i # j
            <4>1. stage'[i] = stage[i] /\ orderOf'[i] = orderOf[i] /\ Running(i)
                BY <1>4, <2>1, <3>2 DEF Running, JobInv, JobsTypeOK
            <4>2. i \in jobs /\ active[GroupOf[orderOf[i]]] = i
                BY <4>1 DEF JobInv, JobsHoldTheirGroups
            <4>3. GroupOf[orderOf[i]] # GroupOf[o]
                BY <4>2 DEF JobIds, NoJob
            <4> QED BY <1>4, <1>5, <4>1, <4>2, <4>3, ControlAssumption
                    DEF Running, JobInv, JobsTypeOK
        <3> QED BY <3>1, <3>2
    <2>2. ASSUME NEW g \in Groups, active'[g] # NoJob
          PROVE  Running(active[g])' /\ GroupOf[orderOf'[active'[g]]] = g
        <3>1. CASE g = GroupOf[o]
            BY <1>4, <3>1 DEF Running, Alive, JobInv, JobsTypeOK
        <3>2. CASE g # GroupOf[o]
            <4>1. active'[g] = active[g] /\ active[g] \in JobIds
                BY <1>4, <2>2, <3>2 DEF JobInv, JobsTypeOK
            <4>2. Running(active[g]) /\ GroupOf[orderOf[active[g]]] = g
                BY <2>2, <4>1 DEF JobInv, JobsHoldTheirGroups
            <4>3. active[g] # j
                BY <1>3, <4>2 DEF Running, Alive
            <4> QED BY <1>4, <4>1, <4>2, <4>3 DEF Running, JobInv, JobsTypeOK
        <3> QED BY <3>1, <3>2
    <2> QED BY <2>1, <2>2 DEF JobsHoldTheirGroups
<1> QED BY <1>4, <1>6, <1>7, <1>8 DEF JobInv

\* A record is finished.
LEMMA FinishKeepsJobs ==
    ASSUME JobInv, NEW j \in JobIds, Running(j), NEW outcome \in Over,
           Finish(j, outcome)
    PROVE  JobInv'
<1> DEFINE g0 == GroupOf[orderOf[j]]
<1>1. g0 \in Groups /\ active[g0] = j
    BY ControlAssumption DEF JobInv, JobsTypeOK, JobsHoldTheirGroups
<1>2. /\ stage' = [stage EXCEPT ![j] = outcome]
      /\ active' = [active EXCEPT ![g0] = NoJob]
      /\ UNCHANGED <<jobs, orderOf, ran>>
    BY <1>1 DEF Finish, JobInv, JobsTypeOK
<1>3. outcome \notin Alive /\ outcome # "unborn" /\ stage[j] # "unborn"
    BY DEF Over, Alive, Running
<1> HIDE DEF g0
<1>4. JobsTypeOK'
    BY <1>1, <1>2 DEF JobInv, JobsTypeOK
<1>5. Started' = Started
    BY <1>2, <1>3 DEF Started, JobInv, JobsTypeOK
<1>6. Born'
    BY <1>5 DEF Born, JobInv
<1>7. \A i \in JobIds : Running(i)' => i # j /\ Running(i)
    BY <1>2, <1>3 DEF Running, JobInv, JobsTypeOK
<1>8. ASSUME NEW i \in JobIds, Running(i)'
      PROVE  i \in jobs' /\ active'[GroupOf[orderOf'[i]]] = i
    <2>1. i # j /\ i \in jobs /\ active[GroupOf[orderOf[i]]] = i
        BY <1>7, <1>8 DEF JobInv, JobsHoldTheirGroups
    <2>2. GroupOf[orderOf[i]] # g0
        BY <1>1, <2>1
    <2>3. GroupOf[orderOf[i]] \in Groups
        BY ControlAssumption DEF JobInv, JobsTypeOK
    <2> QED BY <1>2, <2>1, <2>2, <2>3 DEF JobInv, JobsTypeOK
<1>9. ASSUME NEW g \in Groups, active'[g] # NoJob
      PROVE  Running(active[g])' /\ GroupOf[orderOf'[active'[g]]] = g
    <2>1. g # g0 /\ active'[g] = active[g]
        BY <1>1, <1>2, <1>9 DEF JobInv, JobsTypeOK
    <2>2. /\ active[g] \in JobIds /\ Running(active[g])
          /\ GroupOf[orderOf[active[g]]] = g
        BY <1>9, <2>1 DEF JobInv, JobsTypeOK, JobsHoldTheirGroups
    <2>3. active[g] # j
        BY <2>1, <2>2 DEF g0
    <2> QED BY <1>2, <2>1, <2>2, <2>3 DEF Running, JobInv, JobsTypeOK
<1>10. JobsHoldTheirGroups'
    BY <1>8, <1>9 DEF JobsHoldTheirGroups
<1> QED BY <1>4, <1>6, <1>10 DEF JobInv

\* A cancellation on its way: who lives lives on.
LEMMA CancellingKeepsJobs ==
    ASSUME JobInv, UNCHANGED <<jobs, active, orderOf, ran>>,
           stage' \in [JobIds -> {"unborn"} \cup Alive \cup Over],
           \A i \in JobIds : stage'[i] = stage[i]
                             \/ (stage[i] \in Alive /\ stage'[i] \in Alive)
    PROVE  JobInv'
<1>1. \A i \in JobIds : /\ Running(i)' <=> Running(i)
                        /\ stage'[i] # "unborn" <=> stage[i] # "unborn"
    BY DEF Running, Alive
<1>2. Started' = Started
    BY <1>1 DEF Started
<1>3. JobsTypeOK' /\ Born'
    BY <1>2 DEF JobInv, JobsTypeOK, Born
<1>4. ASSUME NEW g \in Groups, active[g] # NoJob
      PROVE  Running(active[g])'
    <2>1. active[g] \in JobIds /\ Running(active[g])
        BY <1>4 DEF JobInv, JobsTypeOK, JobsHoldTheirGroups
    <2> QED BY <1>1, <2>1 DEF Running
<1>5. JobsHoldTheirGroups'
    BY <1>1, <1>4 DEF JobInv, JobsHoldTheirGroups, Running
<1> QED BY <1>3, <1>5 DEF JobInv

LEMMA CancelledType ==
    ASSUME NEW st \in {"unborn"} \cup Alive \cup Over
    PROVE  /\ Cancelled(st) \in {"unborn"} \cup Alive \cup Over
           /\ Cancelled(st) = st \/ (st \in Alive /\ Cancelled(st) \in Alive)
BY DEF Cancelled, Alive, Over

-----------------------------------------------------------------------------
(* Steps *)

LEMMA InitEstablishesInv == ControlInit => ControlInv
<1> SUFFICES ASSUME ControlInit PROVE ControlInv
    OBVIOUS
<1> USE ControlAssumption DEF ControlInit
<1>1. ServerTypeOK
    BY DEF ServerTypeOK
<1>2. Cardinality({}) = 0 /\ IsFiniteSet({})
    BY FS_EmptySet
<1>3. TokensTypeOK
    BY <1>2 DEF TokensTypeOK
<1>4. Numbered /\ NoneSpentTwice
    BY <1>2 DEF Numbered, NoneSpentTwice
<1>5. EachRunWasArmed
    <2>1. \A o \in Confirmed : Pending(tokens, o) = {}
        BY DEF Pending
    <2> QED BY <1>2, <2>1 DEF EachRunWasArmed
<1>6. JobsTypeOK
    BY DEF JobsTypeOK
<1>7. Born
    <2>1. Started = 1 .. 0
        BY DEF Started
    <2> QED BY <2>1 DEF Born
<1>8. JobsHoldTheirGroups
    BY DEF JobsHoldTheirGroups, Running, Alive
<1> QED BY <1>1, <1>3, <1>4, <1>5, <1>6, <1>7, <1>8 DEF ControlInv, TokenInv, JobInv

LEMMA InvFacts ==
    ASSUME ControlInv
    PROVE  /\ ServerTypeOK /\ TokenInv /\ JobInv
           /\ now \in Nat /\ ran \in [Orders -> Nat]
           /\ armings \in [Orders -> Nat] /\ minted \in Nat
BY ControlAssumption
   DEF ControlInv, ServerTypeOK, TokenInv, JobInv, TokensTypeOK, JobsTypeOK

\* A step that concerns no token and no job.
LEMMA QuietStep ==
    ASSUME ControlInv, ServerTypeOK', UNCHANGED <<tokenVars, jobVars>>
    PROVE  ControlInv'
<1>1. TokenInv'
    BY InvFacts, OthersKeepTokens, ControlAssumption DEF tokenVars, jobVars
<1>2. JobInv'
    BY DEF ControlInv, JobInv, JobsTypeOK, Born, Started, JobsHoldTheirGroups,
           Running, jobVars
<1> QED BY <1>1, <1>2 DEF ControlInv

\* A step of a job.
LEMMA JobStepKeepsInv ==
    ASSUME ControlInv, JobInv', ran' = ran, UNCHANGED tokenVars, ServerTypeOK'
    PROVE  ControlInv'
BY InvFacts, OthersKeepTokens, ControlAssumption DEF ControlInv, tokenVars

LEMMA ServerKept ==
    ASSUME ServerTypeOK, UNCHANGED <<serverVars, handler>>
    PROVE  ServerTypeOK'
BY DEF ServerTypeOK, serverVars

LEMMA HandlerGoes ==
    ASSUME ServerTypeOK, NEW h \in Handlers,
           NEW state \in {Idle, Recording} \cup {Arming(o) : o \in Orders},
           Goes(h, state), Arrives(h) \/ UNCHANGED serverVars
    PROVE  ServerTypeOK'
BY ControlAssumption DEF ServerTypeOK, Goes, Arrives, serverVars

LEMMA RunKeepsInv ==
    ASSUME ControlInv, NEW h \in Handlers, NEW o \in Orders,
           NEW c \in {NoToken} \cup (1 .. minted), Run(h, o, c)
    PROVE  /\ ControlInv'
           /\ \A q \in Confirmed :
                 ran'[q] # ran[q] =>
                    \E t \in tokens \ tokens' : t.order = q /\ t.expires > now
<1>1. ServerTypeOK'
    BY InvFacts, HandlerGoes DEF Run
<1>2. /\ JobInv'
      /\ ran' = ran \/ ran' = [ran EXCEPT ![o] = @ + 1]
    <2>1. CASE active[GroupOf[o]] = NoJob
        BY <2>1, InvFacts, LaunchKeepsJobs DEF Run, Start
    <2>2. CASE active[GroupOf[o]] # NoJob
        BY <2>2 DEF ControlInv, JobInv, JobsTypeOK, Born, Started,
                    JobsHoldTheirGroups, Running, jobVars, Run, Start
    <2> QED BY <2>1, <2>2
<1>3. CASE o \in Confirmed
    <2>1. Grants(o, c) /\ Spend(c)
        BY <1>3 DEF Run
    <2>2. PICK t \in tokens : t.id = c /\ t.order = o /\ t.expires > now
        BY <2>1 DEF Grants, Unexpired
    <2>3. t \notin tokens'
        BY <2>1, <2>2 DEF Spend
    <2>4. c \in 0 .. minted
        BY InvFacts DEF NoToken
    <2>5. TokenInv'
        BY <1>2, <2>1, <2>4, InvFacts, SpendKeepsTokens
    <2>6. \A q \in Confirmed : ran'[q] # ran[q] => q = o
        BY <1>2, ControlAssumption, InvFacts
    <2> QED BY <1>1, <1>2, <2>2, <2>3, <2>5, <2>6 DEF ControlInv
<1>4. CASE o \notin Confirmed
    <2>1. UNCHANGED tokenVars
        BY <1>4 DEF Run
    <2>2. \A q \in Confirmed : ran'[q] = ran[q]
        BY <1>2, <1>4, ControlAssumption, InvFacts
    <2>3. TokenInv'
        BY <2>1, <2>2, InvFacts, OthersKeepTokens DEF tokenVars
    <2> QED BY <1>1, <1>2, <2>2, <2>3 DEF ControlInv
<1> QED BY <1>3, <1>4

LEMMA NextKeepsInv ==
    ASSUME ControlInv, ControlNext
    PROVE  ControlInv'
<1> USE InvFacts
<1>1. ASSUME NEW h \in Handlers, Request(h)
      PROVE  ControlInv'
    <2>1. ASSUME NEW o \in Orders, Refuse(h, o)
          PROVE  ControlInv'
        BY <2>1, HandlerGoes, QuietStep DEF Refuse
    <2>2. ASSUME NEW o \in Orders, Arm(h, o)
          PROVE  ControlInv'
        BY <2>2, HandlerGoes, QuietStep DEF Arm
    <2>3. ASSUME NEW o \in Orders, NEW c \in {NoToken} \cup (1 .. minted), Run(h, o, c)
          PROVE  ControlInv'
        BY <2>3, RunKeepsInv
    <2>4. ASSUME NEW o \in Orders, NEW c \in {NoToken} \cup (1 .. minted),
                 ConfirmInvalid(h, o, c)
          PROVE  ControlInv'
        <3>1. ServerTypeOK'
            <4>1. ServerTypeOK /\ Arrives(h) /\ UNCHANGED handler
                BY <2>4 DEF ConfirmInvalid
            <4> QED BY <4>1, ControlAssumption DEF Arrives, ServerTypeOK
        <3>2. c \in 0 .. minted /\ ran' = ran
            BY <2>4 DEF ConfirmInvalid, NoToken, jobVars
        <3>3. TokenInv'
            BY <2>4, <3>2, SpendKeepsTokens DEF ConfirmInvalid
        <3>4. JobInv'
            BY <2>4 DEF ConfirmInvalid, jobVars, JobInv, JobsTypeOK, Born, Started,
                        JobsHoldTheirGroups, Running
        <3> QED BY <3>1, <3>3, <3>4 DEF ControlInv
    <2>5. ASSUME NEW j \in Started, CancelJob(h, j)
          PROVE  ControlInv'
        <3>1. ServerTypeOK'
            BY <2>5, HandlerGoes DEF CancelJob
        <3>2. j \in JobIds /\ stage[j] \in {"unborn"} \cup Alive \cup Over
            BY DEF Started, JobInv, JobsTypeOK
        <3>3. JobInv'
            BY <2>5, <3>2, CancelledType, CancellingKeepsJobs
               DEF CancelJob, JobInv, JobsTypeOK
        <3> QED BY <2>5, <3>1, <3>3, JobStepKeepsInv DEF CancelJob
    <2> QED BY <1>1, <2>1, <2>2, <2>3, <2>4, <2>5 DEF Request
<1>2. ASSUME NEW h \in Handlers, Armed(h)
      PROVE  ControlInv'
    <2>1. PICK o \in Orders :
            /\ \/ armings' = [armings EXCEPT ![o] = @ + 1] /\ Mint(o)
               \/ armings' = [armings EXCEPT ![o] = @ + 1] /\ UNCHANGED <<tokens, minted>>
               \/ UNCHANGED <<armings, tokens, minted>>
            /\ Goes(h, Idle)
            /\ UNCHANGED <<presented, serverVars, jobVars>>
        BY <1>2 DEF Armed
    <2>2. ServerTypeOK' /\ JobInv'
        BY <2>1, HandlerGoes
           DEF jobVars, JobInv, JobsTypeOK, Born, Started, JobsHoldTheirGroups, Running
    <2>3. CASE Mint(o) /\ armings' = [armings EXCEPT ![o] = @ + 1]
        BY <2>1, <2>2, <2>3, MintKeepsTokens DEF ControlInv, jobVars
    <2>4. CASE UNCHANGED <<tokens, minted>>
        <3>1. TokenInv'
            BY <2>1, <2>4, OthersKeepTokens DEF jobVars
        <3> QED BY <2>2, <3>1 DEF ControlInv
    <2> QED BY <2>1, <2>3, <2>4
<1>3. ASSUME NEW h \in Handlers, Recorded(h)
      PROVE  ControlInv'
    BY <1>3, HandlerGoes, QuietStep DEF Recorded
<1>4. ASSUME NEW h \in Handlers, Abandon(h)
      PROVE  ControlInv'
    <2>1. ServerTypeOK' /\ JobInv'
        BY <1>4, HandlerGoes DEF Abandon, jobVars, JobInv, JobsTypeOK, Born, Started,
                                 JobsHoldTheirGroups, Running
    <2>2. PICK o \in Orders : armings' = armings
                            \/ armings' = [armings EXCEPT ![o] = @ + 1]
        BY <1>4, ControlAssumption DEF Abandon
    <2>3. TokenInv'
        BY <1>4, <2>2, OthersKeepTokens DEF Abandon, jobVars
    <2> QED BY <2>1, <2>3 DEF ControlInv
<1>5. ASSUME NEW j \in JobIds, JobStep(j)
      PROVE  ControlInv'
    <2>1. ASSUME Running(j), NEW outcome \in Over, Finish(j, outcome)
          PROVE  ControlInv'
        BY <2>1, FinishKeepsJobs, ServerKept, JobStepKeepsInv DEF Finish
    <2>2. ASSUME Running(j), NEW st \in Alive, stage' = [stage EXCEPT ![j] = st],
                 UNCHANGED <<jobs, active, orderOf, ran, serverVars, handler, tokenVars>>
          PROVE  ControlInv'
        <3>1. /\ stage' \in [JobIds -> {"unborn"} \cup Alive \cup Over]
              /\ \A i \in JobIds : stage'[i] = stage[i]
                                \/ (stage[i] \in Alive /\ stage'[i] \in Alive)
            BY <2>2 DEF Running, JobInv, JobsTypeOK
        <3> QED BY <2>2, <3>1, CancellingKeepsJobs, ServerKept, JobStepKeepsInv
    <2>3. CASE BodyEnds(j)
        BY <2>3, <2>1 DEF BodyEnds, Running, Alive, Over
    <2>4. CASE CancelLands(j)
        BY <2>4, <2>1, <2>2 DEF CancelLands, Running, Alive, Over
    <2>5. CASE ChildEnds(j)
        BY <2>5, <2>1 DEF ChildEnds, Running, Alive, Over
    <2>6. CASE GraceEnds(j)
        BY <2>6, <2>2 DEF GraceEnds, Running, Alive
    <2> QED BY <1>5, <2>3, <2>4, <2>5, <2>6 DEF JobStep
<1>6. CASE Tick
    <2>1. ServerTypeOK /\ ServerTypeOK'
        BY <1>6, ControlAssumption DEF Tick, ServerTypeOK
    <2> QED BY <1>6, <2>1, QuietStep DEF Tick
<1>7. CASE StopServing
    <2>1. ServerTypeOK /\ ServerTypeOK'
        BY <1>7 DEF StopServing, ServerTypeOK
    <2> QED BY <1>7, <2>1, QuietStep DEF StopServing
<1>8. CASE CleanUp
    <2>1. ServerTypeOK'
        BY <1>8 DEF CleanUp, ServerTypeOK
    <2>2. JobInv'
        <3>1. \A i \in JobIds : stage[i] \in {"unborn"} \cup Alive \cup Over
            BY DEF JobInv, JobsTypeOK
        <3>2. \A i \in JobIds : stage'[i] = Cancelled(stage[i])
            BY <1>8 DEF CleanUp
        <3>3. stage' \in [JobIds -> {"unborn"} \cup Alive \cup Over]
            BY <1>8, <3>1, CancelledType DEF CleanUp
        <3> QED BY <1>8, <3>1, <3>2, <3>3, CancelledType, CancellingKeepsJobs DEF CleanUp
    <2> QED BY <1>8, <2>1, <2>2, JobStepKeepsInv DEF CleanUp
<1> QED BY <1>1, <1>2, <1>3, <1>4, <1>5, <1>6, <1>7, <1>8 DEF ControlNext

LEMMA StutterKeepsInv ==
    ASSUME ControlInv, UNCHANGED controlVars
    PROVE  ControlInv'
BY InvFacts, ServerKept, QuietStep DEF controlVars

LEMMA ControlInvHolds == ControlSpec => []ControlInv
<1>1. ControlInv /\ [ControlNext]_controlVars => ControlInv'
    BY NextKeepsInv, StutterKeepsInv
<1> QED BY InitEstablishesInv, <1>1, PTL DEF ControlSpec

\* The types of the control plane; its registry never holds more tokens than
\* MaxPending.
THEOREM ControlTypeCorrect == ControlSpec => []ControlTypeOK
<1>1. ControlInv => ControlTypeOK
    BY DEF ControlInv, TokenInv, JobInv, ControlTypeOK
<1> QED BY ControlInvHolds, <1>1, PTL

\* Every "armed" row authorises at most one run, however many requests arm,
\* confirm, evict and cancel.
THEOREM ArmingsPayForRuns == ControlSpec => []EachRunWasArmed
<1>1. ControlInv => EachRunWasArmed
    BY DEF ControlInv, TokenInv
<1> QED BY ControlInvHolds, <1>1, PTL

\* A token that was presented once is never live again.
THEOREM TokensAreSpentOnce == ControlSpec => []NoneSpentTwice
<1>1. ControlInv => NoneSpentTwice
    BY DEF ControlInv, TokenInv
<1> QED BY ControlInvHolds, <1>1, PTL

\* A group is held by its one running job and freed with it.
THEOREM GroupsAreHeldByJobs == ControlSpec => []JobsHoldTheirGroups
<1>1. ControlInv => JobsHoldTheirGroups
    BY DEF ControlInv, JobInv
<1> QED BY ControlInvHolds, <1>1, PTL

\* Every run takes an unexpired token of exactly its order off the registry.
THEOREM RunsTakeTheirToken == ControlSpec => RunsSpendTheirToken
<1> DEFINE Paid == \A o \in Confirmed :
                       ran'[o] # ran[o] =>
                          \E t \in tokens \ tokens' : t.order = o /\ t.expires > now
<1>1. ASSUME ControlInv, ControlNext PROVE Paid
    <2>1. ASSUME NEW h \in Handlers, Request(h) PROVE Paid
        <3>1. ASSUME NEW o \in Orders, NEW c \in {NoToken} \cup (1 .. minted),
                     Run(h, o, c)
              PROVE  Paid
            BY <1>1, <3>1, RunKeepsInv
        <3> HIDE DEF Paid
        <3>2. ran' = ran => Paid
            BY DEF Paid
        <3> QED BY <2>1, <3>1, <3>2
                DEF Request, Refuse, Arm, ConfirmInvalid, CancelJob, jobVars
    <2>2. CASE ran' = ran
        BY <2>2
    <2>3. (\E h \in Handlers : Request(h)) \/ ran' = ran
        BY <1>1 DEF ControlNext, Armed, Recorded, Abandon, JobStep, BodyEnds, CancelLands,
                    ChildEnds, GraceEnds, Finish, Tick, StopServing, CleanUp, jobVars
    <2> QED BY <2>1, <2>2, <2>3
<1>2. UNCHANGED controlVars => Paid
    BY DEF controlVars, jobVars
<1>3. ControlInv /\ [ControlNext]_controlVars => [Paid]_controlVars
    BY <1>1, <1>2
<1>4. ControlSpec => [][Paid]_controlVars
    <2> HIDE DEF Paid
    <2> QED BY ControlInvHolds, <1>3, PTL DEF ControlSpec
<1> QED BY <1>4 DEF RunsSpendTheirToken

=============================================================================
