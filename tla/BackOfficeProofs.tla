-------------------------- MODULE BackOfficeProofs --------------------------
(***************************************************************************)
(* Theorems about the components that the run back_office composes.  They  *)
(* share no variables: each has its own specification here, and its own    *)
(* inductive invariant.                                                    *)
(***************************************************************************)
EXTENDS AgentRuns, AuditChain, SignIn, DemoStore, PagedQuery, RateLimit,
        FiniteSetTheorems, WellFoundedInduction, TLAPS

-----------------------------------------------------------------------------
(***************************************************************************)
(* AgentRuns, for any number of runs                                       *)
(*                                                                         *)
(* The type invariant is inductive. The other properties need a            *)
(* strengthening: a request that has not started has no row, no review     *)
(* request and no draft in progress.                                       *)
(***************************************************************************)

LEMMA InitRunTypes == Init => TypeOK
  BY DEF Init, TypeOK, Stages, Statuses, Decided

\* Every step of the requests, the callbacks, the reviewer and time keeps the
\* columns in their enumerations.
LEMMA RunTypesStep == TypeOK /\ [Next]_vars => TypeOK'
<1> SUFFICES ASSUME TypeOK, [Next]_vars PROVE TypeOK'
  OBVIOUS
<1> USE DEF TypeOK, Goto, Stages, Statuses, Decided, runVars, reviewVars, timeVars, streamVars, toolVars
<1>1. ASSUME NEW r \in Runs, StartRun(r) PROVE TypeOK'
  <2> DEFINE stale == {x \in Runs : Open(x) /\ aged[x]}
  <2>1. status' = [x \in Runs |-> IF x = r THEN "INTAKE"
                                  ELSE IF x \in stale THEN "FAILED" ELSE status[x]]
    BY <1>1 DEF StartRun
  <2>2. status' \in [Runs -> Statuses]
    <3> HIDE DEF stale
    <3> QED BY <2>1
  <2>3. completed' = [x \in Runs |-> completed[x] \/ x \in stale]
    BY <1>1 DEF StartRun
  <2>4. completed' \in [Runs -> BOOLEAN]
    <3> HIDE DEF stale
    <3> QED BY <2>3, Zenon
  <2>5. errored' = [x \in Runs |-> errored[x] \/ x \in stale]
    BY <1>1 DEF StartRun
  <2>6. errored' \in [Runs -> BOOLEAN]
    <3> HIDE DEF stale
    <3> QED BY <2>5, Zenon
  <2>7. pc' \in [Runs -> Stages] /\ UNCHANGED <<reviewVars, timeVars, result, failing, toolVars>>
    BY <1>1 DEF StartRun
  <2> QED BY <2>2, <2>4, <2>6, <2>7
<1>2. ASSUME NEW r \in Runs, RefuseStart(r) PROVE TypeOK'
  BY <1>2 DEF RefuseStart
<1>3. ASSUME NEW r \in Runs, Deliver(r) PROVE TypeOK'
  BY <1>3 DEF Deliver
<1>4. ASSUME NEW r \in Runs, Propose(r) PROVE TypeOK'
  BY <1>4 DEF Propose
<1>5. ASSUME NEW r \in Runs, WriteDraft(r) PROVE TypeOK'
  <2>1. PICK flag \in BOOLEAN : proposed' = [proposed EXCEPT ![r] = flag]
    BY <1>5, Zenon DEF WriteDraft
  <2>2. proposed' \in [Runs -> BOOLEAN]
    BY <2>1, Zenon
  <2>3. approval' \in [Runs -> {"none", "PENDING"} \cup {"APPROVED", "REJECTED"}]
    BY <1>5 DEF WriteDraft
  <2>4. status' \in [Runs -> {"none", "INTAKE", "VERIFY", "AWAITING_REVIEW", "FAILED"}
                              \cup {"APPROVED", "REJECTED"}]
    BY <1>5 DEF WriteDraft
  <2>5. UNCHANGED <<completed, errored, expired, timeVars, streamVars, delivered>>
    BY <1>5 DEF WriteDraft
  <2>6. drafting' \in [Runs -> BOOLEAN]
    BY <1>5, Zenon DEF WriteDraft
  <2> QED BY <2>2, <2>3, <2>4, <2>5, <2>6
<1>6. ASSUME NEW r \in Runs, StreamError(r) PROVE TypeOK'
  BY <1>6 DEF StreamError
<1>7. ASSUME NEW r \in Runs, EndStream(r) PROVE TypeOK'
  BY <1>7 DEF EndStream, Outcome
<1>8. ASSUME NEW r \in Runs, Abandon(r) PROVE TypeOK'
  BY <1>8 DEF Abandon
<1>9. ASSUME NEW r \in Runs, FinishEnd(r) PROVE TypeOK'
  <2>1. /\ Settle(r, result[r], result[r] = "FAILED")
        /\ pc' = [pc EXCEPT ![r] = "gone"] /\ UNCHANGED failing
    BY <1>9 DEF FinishEnd
  <2>2. errored' = errored \/ errored' = [errored EXCEPT ![r] = (result[r] = "FAILED")]
    BY <2>1 DEF Settle
  <2>3. errored' \in [Runs -> BOOLEAN]
    BY <2>2, Zenon
  <2>4. status' \in [Runs -> Statuses] /\ completed' \in [Runs -> BOOLEAN]
    <3>1. result[r] \in Statuses
      OBVIOUS
    <3>2. \/ status' = [status EXCEPT ![r] = result[r]] /\ completed' = [completed EXCEPT ![r] = TRUE]
          \/ UNCHANGED <<status, completed>>
      BY <2>1 DEF Settle
    <3> HIDE DEF Statuses
    <3> QED BY <3>1, <3>2
  <2>5. UNCHANGED <<reviewVars, timeVars, result, toolVars>>
    BY <2>1 DEF Settle
  <2> QED BY <2>1, <2>3, <2>4, <2>5
<1>10. ASSUME NEW r \in Runs, FinishError(r) PROVE TypeOK'
  BY <1>10, ZenonT(60) DEF FinishError, Settle
<1>11. ASSUME NEW r \in Runs, Decide(r) PROVE TypeOK'
  BY <1>11 DEF Decide
<1>12. ASSUME NEW r \in Runs, Age(r) PROVE TypeOK'
  BY <1>12 DEF Age
<1>13. ASSUME NEW r \in Runs, Expire(r) PROVE TypeOK'
  BY <1>13 DEF Expire
<1>14. CASE ChangeEvidence
  BY <1>14 DEF ChangeEvidence
<1>15. CASE UNCHANGED vars
  BY <1>15 DEF vars
<1> QED
  BY <1>1, <1>2, <1>3, <1>4, <1>5, <1>6, <1>7, <1>8, <1>9, <1>10, <1>11, <1>12,
     <1>13, <1>14, <1>15 DEF Next, Request

-----------------------------------------------------------------------------
(* The strengthening                                                       *)

\* A request that has not started has nothing in the database.
NotStarted ==
  \A r \in Runs : pc[r] = "new" =>
    status[r] = "none" /\ approval[r] = "none" /\ ~completed[r] /\ ~drafting[r]

RunInv ==
  /\ TypeOK /\ NotStarted
  /\ DecisionsMatchRuns /\ OpenRunsMatchRequests

LEMMA InitRuns == Init => RunInv
  BY InitRunTypes DEF Init, RunInv, NotStarted, DecisionsMatchRuns,
                  OpenRunsMatchRequests, Open, Decided

LEMMA RunStep == RunInv /\ [Next]_vars => RunInv'
<1> SUFFICES ASSUME RunInv, [Next]_vars
             PROVE  (NotStarted /\ DecisionsMatchRuns /\ OpenRunsMatchRequests)'
  BY RunTypesStep DEF RunInv
<1> USE DEF RunInv, TypeOK, Goto, Decided, Open, runVars, reviewVars, timeVars, streamVars, toolVars,
            NotStarted, DecisionsMatchRuns, OpenRunsMatchRequests
<1> DEFINE Goal == (NotStarted /\ DecisionsMatchRuns /\ OpenRunsMatchRequests)'
<1>1. ASSUME NEW r \in Runs, StartRun(r) PROVE Goal
  <2>1. \A x \in Runs : x # r => pc'[x] = pc[x]
    BY <1>1 DEF StartRun
  <2>2. pc'[r] # "new" /\ pc[r] = "new"
    BY <1>1 DEF StartRun
  <2>3. UNCHANGED <<approval, drafting>>
    BY <1>1 DEF StartRun
  <2>4. status'[r] = "INTAKE" /\ ~completed'[r]
    BY <1>1 DEF StartRun
  <2>5. \A x \in Runs : x # r =>
          \/ status'[x] = status[x] /\ completed'[x] = completed[x] /\ errored'[x] = errored[x]
          \/ /\ status[x] # "none" /\ ~completed[x]
             /\ status'[x] = "FAILED" /\ completed'[x]
    BY <1>1 DEF StartRun
  <2> QED BY <2>1, <2>2, <2>3, <2>4, <2>5
<1>2. ASSUME NEW r \in Runs, RefuseStart(r) PROVE Goal
  BY <1>2 DEF RefuseStart
<1>3. ASSUME NEW r \in Runs, Deliver(r) PROVE Goal
  BY <1>3 DEF Deliver
<1>4. ASSUME NEW r \in Runs, Propose(r) PROVE Goal
  BY <1>4 DEF Propose
<1>5. ASSUME NEW r \in Runs, WriteDraft(r) PROVE Goal
  BY <1>5 DEF WriteDraft, Draftable
<1>6. ASSUME NEW r \in Runs, StreamError(r) PROVE Goal
  BY <1>6 DEF StreamError
<1>7. ASSUME NEW r \in Runs, EndStream(r) PROVE Goal
  BY <1>7 DEF EndStream
<1>8. ASSUME NEW r \in Runs, Abandon(r) PROVE Goal
  BY <1>8 DEF Abandon
<1>9. ASSUME NEW r \in Runs, FinishEnd(r) PROVE Goal
  BY <1>9 DEF FinishEnd, Settle
<1>10. ASSUME NEW r \in Runs, FinishError(r) PROVE Goal
  BY <1>10 DEF FinishError, Settle
<1>11. ASSUME NEW r \in Runs, Decide(r) PROVE Goal
  BY <1>11 DEF Decide
<1>12. ASSUME NEW r \in Runs, Age(r) PROVE Goal
  BY <1>12 DEF Age
<1>13. ASSUME NEW r \in Runs, Expire(r) PROVE Goal
  BY <1>13 DEF Expire
<1>14. CASE ChangeEvidence
  BY <1>14 DEF ChangeEvidence
<1>15. CASE UNCHANGED vars
  BY <1>15 DEF vars
<1> QED
  BY <1>1, <1>2, <1>3, <1>4, <1>5, <1>6, <1>7, <1>8, <1>9, <1>10, <1>11, <1>12,
     <1>13, <1>14, <1>15 DEF Next, Request

-----------------------------------------------------------------------------
(* The theorems                                                            *)

LEMMA RunInvariance == Spec => []RunInv
  BY InitRuns, RunStep, PTL DEF Spec

\* The rows and the process memory keep their types.
THEOREM RunTypes == Spec => []TypeOK
<1>1. RunInv => TypeOK
  BY DEF RunInv
<1> QED BY <1>1, RunInvariance, PTL

\* The decision on a workpaper is in the approval and in the run, or in
\* neither, and never on a run that was settled with an error.
THEOREM DecisionsMatch == Spec => []DecisionsMatchRuns
<1>1. RunInv => DecisionsMatchRuns
  BY DEF RunInv
<1> QED BY <1>1, RunInvariance, PTL

\* An open run waits for review exactly when its review request is pending.
THEOREM RequestsMatch == Spec => []OpenRunsMatchRequests
<1>1. RunInv => OpenRunsMatchRequests
  BY DEF RunInv
<1> QED BY <1>1, RunInvariance, PTL

\* One step of any process leaves a completed run as it is or decides on it.
LEMMA CompletedStep ==
  ASSUME RunInv, [Next]_vars, NEW x \in Runs, completed[x]
  PROVE  /\ completed'[x] /\ errored'[x] = errored[x]
         /\ status'[x] # status[x] =>
              status[x] = "AWAITING_REVIEW" /\ status'[x] \in Decided
<1> DEFINE Goal == /\ completed'[x] /\ errored'[x] = errored[x]
                   /\ status'[x] # status[x] =>
                        status[x] = "AWAITING_REVIEW" /\ status'[x] \in Decided
<1> USE DEF RunInv, TypeOK, NotStarted, runVars
<1>1. ASSUME NEW r \in Runs, StartRun(r) PROVE Goal
  <2>1. x # r /\ ~Open(x)
    BY <1>1 DEF StartRun, Open
  <2>2. status'[x] = status[x] /\ completed'[x] = completed[x]
    BY <1>1, <2>1 DEF StartRun
  <2>3. errored'[x] = errored[x]
    BY <1>1, <2>1 DEF StartRun
  <2> QED BY <2>2, <2>3
<1>2. ASSUME NEW r \in Runs,
             \/ RefuseStart(r) \/ Deliver(r) \/ Propose(r) \/ StreamError(r)
             \/ EndStream(r) \/ Abandon(r) \/ Age(r) \/ Expire(r)
      PROVE Goal
  BY <1>2 DEF RefuseStart, Deliver, Propose, StreamError, EndStream, Abandon, Age, Expire
<1>3. ASSUME NEW r \in Runs, WriteDraft(r) PROVE Goal
  BY <1>3 DEF WriteDraft, Draftable, Open
<1>4. ASSUME NEW r \in Runs, FinishEnd(r) PROVE Goal
  BY <1>4 DEF FinishEnd, Settle, Open
<1>5. ASSUME NEW r \in Runs, FinishError(r) PROVE Goal
  BY <1>5 DEF FinishError, Settle, Open
<1>6. ASSUME NEW r \in Runs, Decide(r) PROVE Goal
  BY <1>6 DEF Decide
<1>7. CASE ChangeEvidence
  BY <1>7 DEF ChangeEvidence
<1>8. CASE UNCHANGED vars
  BY <1>8 DEF vars
<1> QED
  BY <1>1, <1>2, <1>3, <1>4, <1>5, <1>6, <1>7, <1>8 DEF Next, Request

\* The first settlement of a run is final.
THEOREM SettlementIsFinal == Spec => CompletedRunsStay
<1>1. RunInv /\ [Next]_vars =>
        [\A r \in Runs : completed[r] =>
           /\ completed'[r] /\ errored'[r] = errored[r]
           /\ status'[r] # status[r] =>
                status[r] = "AWAITING_REVIEW" /\ status'[r] \in Decided]_vars
  BY CompletedStep
<1> QED BY <1>1, RunInvariance, PTL DEF Spec, CompletedRunsStay

-----------------------------------------------------------------------------
(***************************************************************************)
(* AuditChain, for any number of writers, events and clock readings        *)
(*                                                                         *)
(* What a transaction with the lock sees, its own rows included, is a      *)
(* chain.                                                                  *)
(***************************************************************************)

ChainRow == [id : Nat, occurred : Nat, previous : Nat]

\* Ids tell chain apart, so that Before is a total order on them.
Distinct(chain) == \A e, f \in chain : e.id = f.id => e = f

\* Latest finds something.
IsLatest(e, chain) == e \in chain /\ \A f \in chain \ {e} : Before(f, e)
HasLatest(chain) == chain = {} \/ \E e \in chain : IsLatest(e, chain)

Older(e, chain) == {f \in chain : Before(f, e)}

\* Every row names the one before it, and there is one before it or none.
Chained(chain) ==
  /\ HasLatest(chain)
  /\ \A e \in chain : HasLatest(Older(e, chain)) /\ LinkIsValid(e, chain)

AllRows == events \cup UNION {added[w] : w \in Writers}

ChainType ==
  /\ events \subseteq ChainRow
  /\ added \in [Writers -> SUBSET ChainRow]
  /\ holder \subseteq Writers

\* Rows that are not committed belong to the one transaction with the lock.
OneWriter ==
  /\ \A v, w \in holder : v = w
  /\ \A w \in Writers : added[w] # {} => w \in holder

\* What a transaction sees is a chain too, its own chain at the end.
WritersExtend ==
  \A w \in Writers :
    /\ Chained(events \cup added[w])
    /\ \A e \in events, f \in added[w] : Before(e, f)

ChainInv == ChainType /\ Distinct(AllRows) /\ OneWriter /\ Chained(events) /\ WritersExtend

-----------------------------------------------------------------------------

\* The latest of some chain is unique, and Latest names it.
LEMMA LatestIsUnique ==
  ASSUME NEW chain \in SUBSET ChainRow, NEW e \in chain, IsLatest(e, chain)
  PROVE  Latest(chain) = e
<1>1. \A f \in chain : IsLatest(f, chain) => f = e
  <2>1. SUFFICES ASSUME NEW f \in chain, IsLatest(f, chain), f # e PROVE FALSE
    OBVIOUS
  <2>2. Before(f, e) /\ Before(e, f)
    BY <2>1 DEF IsLatest
  <2>3. e \in ChainRow /\ f \in ChainRow
    OBVIOUS
  <2>4. /\ e.id \in Nat /\ e.occurred \in Nat
        /\ f.id \in Nat /\ f.occurred \in Nat
    BY <2>3 DEF ChainRow
  <2>5. QED
    BY <2>2, <2>4 DEF Before
<1>2. \A f \in chain \ {e} : Before(f, e)
  BY DEF IsLatest
<1>3. /\ Latest(chain) \in chain
      /\ \A f \in chain \ {Latest(chain)} : Before(f, Latest(chain))
  BY <1>2 DEF Latest
<1>4. QED
  BY <1>1, <1>3 DEF IsLatest

\* A row that is later than the latest, and names it, continues a chain.
LEMMA AppendKeepsChain ==
  ASSUME NEW chain \in SUBSET ChainRow, Chained(chain),
         NEW x \in ChainRow, \A f \in chain : f.id # x.id,
         chain # {} => x.occurred > Latest(chain).occurred,
         x.previous = IF chain = {} THEN Root ELSE Latest(chain).id
  PROVE  Chained(chain \cup {x}) /\ \A f \in chain : Before(f, x)
<1> DEFINE longer == chain \cup {x}
<1>1. \A f \in chain : f.occurred < x.occurred
  <2>1. SUFFICES ASSUME NEW f \in chain PROVE f.occurred < x.occurred
    OBVIOUS
  <2>2. PICK e \in chain : IsLatest(e, chain)
    BY <2>1 DEF Chained, HasLatest
  <2>3. Latest(chain) = e
    BY <2>2, LatestIsUnique
  <2>4. f = e \/ Before(f, e)
    BY <2>2 DEF IsLatest
  <2>5. e \in ChainRow /\ f \in ChainRow
    OBVIOUS
  <2>6. /\ e.id \in Nat /\ e.occurred \in Nat /\ f.id \in Nat /\ f.occurred \in Nat
        /\ x.occurred \in Nat
    BY <2>5 DEF ChainRow
  <2>7. QED
    BY <2>3, <2>4, <2>6 DEF Before
<1>2. \A f \in chain : Before(f, x) /\ ~Before(x, f)
  <2>1. SUFFICES ASSUME NEW f \in chain PROVE Before(f, x) /\ ~Before(x, f)
    OBVIOUS
  <2>2. f \in ChainRow
    OBVIOUS
  <2>3. f.occurred \in Nat /\ x.occurred \in Nat
    BY <2>2 DEF ChainRow
  <2>4. QED
    BY <1>1, <2>3 DEF Before
<1>3. x \notin chain
  OBVIOUS
<1>4. ~Before(x, x)
  <2>1. x.occurred \in Nat /\ x.id \in Nat
    BY DEF ChainRow
  <2>2. QED
    BY <2>1 DEF Before
<1>5. HasLatest(longer)
  BY <1>2 DEF HasLatest, IsLatest
<1>6. \A e \in chain : Older(e, longer) = Older(e, chain)
  BY <1>2 DEF Older
<1>7. Older(x, longer) = chain
  BY <1>2, <1>4 DEF Older
<1>8. \A e \in chain : HasLatest(Older(e, longer)) /\ LinkIsValid(e, longer)
  <2>1. SUFFICES ASSUME NEW e \in chain
                 PROVE  HasLatest(Older(e, longer)) /\ LinkIsValid(e, longer)
    OBVIOUS
  <2>2. HasLatest(Older(e, chain)) /\ LinkIsValid(e, chain)
    BY DEF Chained
  <2>3. {f \in longer : Before(f, e)} = {f \in chain : Before(f, e)}
    BY <1>6 DEF Older
  <2>4. LinkIsValid(e, longer)
    BY <2>2, <2>3, Zenon DEF LinkIsValid
  <2>5. QED
    BY <1>6, <2>2, <2>4
<1>9. HasLatest(Older(x, longer)) /\ LinkIsValid(x, longer)
  <2>1. HasLatest(Older(x, longer))
    BY <1>7 DEF Chained
  <2>2. {f \in longer : Before(f, x)} = chain
    BY <1>7 DEF Older
  <2>3. QED
    BY <2>1, <2>2, Zenon DEF LinkIsValid
<1>10. QED
  BY <1>2, <1>5, <1>8, <1>9 DEF Chained

-----------------------------------------------------------------------------

LEMMA InitChain == AuditInit => ChainInv
<1> SUFFICES ASSUME AuditInit PROVE ChainInv
  OBVIOUS
<1>1. AllRows = {}
  BY DEF AuditInit, AllRows
<1>2. Chained({})
  BY DEF Chained, HasLatest
<1>3. \A w \in Writers : events \cup added[w] = {}
  BY DEF AuditInit
<1>4. ChainType /\ Distinct(AllRows) /\ OneWriter
  BY <1>1 DEF AuditInit, ChainType, Distinct, OneWriter
<1>5. QED
  BY <1>2, <1>3, <1>4 DEF ChainInv, WritersExtend, AuditInit

\* The lock makes what a transaction appends to the end of all that is visible.
LEMMA AppendStep ==
  ASSUME ChainInv, NEW w \in Writers, AppendEvent(w)
  PROVE  ChainInv'
<1> DEFINE chain == events \cup added[w]
<1>1. PICK id \in Ids, now \in Clock :
        /\ \A e \in events \cup UNION {added[v] : v \in Writers} : e.id # id
        /\ added' = [added EXCEPT ![w] = @ \cup
             {[id |-> id, occurred |-> Occurred(now, chain),
               previous |-> IF chain = {} THEN Root ELSE Latest(chain).id]}]
  BY Zenon DEF AppendEvent
<1> DEFINE x == [id |-> id, occurred |-> Occurred(now, chain),
                 previous |-> IF chain = {} THEN Root ELSE Latest(chain).id]
<1>2. /\ events' = events /\ holder' = holder \cup {w} /\ holder \subseteq {w}
  BY DEF AppendEvent, Lockable
<1>3. chain \in SUBSET ChainRow
  BY DEF ChainInv, ChainType
<1>4. chain # {} => Latest(chain) \in ChainRow
  <2>1. SUFFICES ASSUME chain # {} PROVE Latest(chain) \in ChainRow
    OBVIOUS
  <2>2. PICK e \in chain : IsLatest(e, chain)
    BY <2>1 DEF ChainInv, WritersExtend, Chained, HasLatest
  <2>3. QED
    BY <1>3, <2>2, LatestIsUnique
<1>5. chain # {} => Latest(chain).occurred \in Nat /\ Latest(chain).id \in Nat
  BY <1>4 DEF ChainRow
<1>6. id \in Nat /\ now \in Nat
  BY NumbersAssumption
<1>7. /\ Occurred(now, chain) \in Nat
      /\ chain # {} => Occurred(now, chain) > Latest(chain).occurred
  BY <1>5, <1>6 DEF Occurred
<1>8. (IF chain = {} THEN Root ELSE Latest(chain).id) \in Nat
  BY <1>5 DEF Root
<1> HIDE DEF chain
<1>9. x \in ChainRow
  BY <1>6, <1>7, <1>8 DEF ChainRow
<1>10. /\ x.id = id /\ x.occurred = Occurred(now, chain)
       /\ x.previous = IF chain = {} THEN Root ELSE Latest(chain).id
  OBVIOUS
<1> HIDE DEF x
<1>11. added' = [added EXCEPT ![w] = added[w] \cup {x}]
  BY <1>1 DEF x
<1>12. added \in [Writers -> SUBSET ChainRow]
  BY DEF ChainInv, ChainType
<1>13. /\ added' \in [Writers -> SUBSET ChainRow]
       /\ added'[w] = added[w] \cup {x}
       /\ \A v \in Writers \ {w} : added'[v] = added[v]
  BY <1>9, <1>11, <1>12
<1>14. \A v \in Writers \ {w} : added[v] = {}
  BY <1>2 DEF ChainInv, OneWriter
<1>15. Chained(chain) /\ \A f \in chain : f.id # x.id
  <2>1. Chained(chain)
    BY DEF chain, ChainInv, WritersExtend
  <2>2. QED
    BY <1>1, <1>10, <2>1 DEF chain
<1>16. Chained(chain \cup {x}) /\ \A f \in chain : Before(f, x)
  BY <1>3, <1>7, <1>9, <1>10, <1>15, AppendKeepsChain
<1>17. ChainType'
  BY <1>2, <1>13 DEF ChainInv, ChainType
<1>18. Distinct(AllRows)'
  <2>1. AllRows' = AllRows \cup {x}
    BY <1>2, <1>13 DEF AllRows
  <2>2. \A e \in AllRows : e.id # x.id
    BY <1>1, <1>10 DEF AllRows
  <2>3. Distinct(AllRows)
    BY DEF ChainInv
  <2>4. Distinct(AllRows \cup {x})
    BY <2>2, <2>3 DEF Distinct
  <2>5. QED
    BY <2>1, <2>4 DEF Distinct
<1>19. OneWriter'
  BY <1>2, <1>13, <1>14 DEF OneWriter
<1>20. Chained(events)'
  BY <1>2 DEF ChainInv, Chained, HasLatest, IsLatest, Older, LinkIsValid, Latest,
                 Before, Root
<1>21. WritersExtend'
  <2>1. SUFFICES ASSUME NEW v \in Writers
                 PROVE  /\ Chained(events' \cup added'[v])
                        /\ \A e \in events', f \in added'[v] : Before(e, f)
    BY DEF WritersExtend, Chained, HasLatest, IsLatest, Older, LinkIsValid, Latest,
           Before, Root
  <2>2. CASE v = w
    <3>1. events' \cup added'[v] = chain \cup {x}
      BY <1>2, <1>13, <2>2 DEF chain
    <3>2. \A e \in events, f \in added[w] : Before(e, f)
      BY DEF ChainInv, WritersExtend
    <3>3. QED
      BY <1>2, <1>13, <1>16, <2>2, <3>1, <3>2 DEF chain
  <2>3. CASE v # w
    <3>1. events' \cup added'[v] = events \cup added[v]
      BY <1>2, <1>13, <2>3
    <3>2. QED
      BY <1>2, <1>13, <2>3, <3>1 DEF ChainInv, WritersExtend
  <2>4. QED
    BY <2>2, <2>3
<1>22. QED
  BY <1>17, <1>18, <1>19, <1>20, <1>21 DEF ChainInv

\* A commit adds the end of the chain that its transaction saw.
LEMMA EndStep ==
  ASSUME ChainInv, NEW w \in Writers, EndTransaction(w)
  PROVE  /\ ChainInv'
         /\ \A e \in events' \ events : \A f \in events : Before(f, e)
<1>1. /\ events' = events \cup added[w] \/ events' = events
      /\ w \in holder
      /\ added' = [added EXCEPT ![w] = {}]
      /\ holder' = holder \ {w}
  BY DEF EndTransaction
<1>2. added \in [Writers -> SUBSET ChainRow]
  BY DEF ChainInv, ChainType
<1>3. \A v \in Writers \ {w} : added[v] = {}
  BY <1>1 DEF ChainInv, OneWriter
<1>4. added' \in [Writers -> SUBSET ChainRow] /\ \A v \in Writers : added'[v] = {}
  BY <1>1, <1>2, <1>3
<1>5. ChainType'
  BY <1>1, <1>2, <1>4 DEF ChainInv, ChainType
<1>6. Distinct(AllRows)'
  <2>1. AllRows' \subseteq AllRows
    BY <1>1, <1>4 DEF AllRows
  <2>2. QED
    BY <2>1 DEF ChainInv, Distinct
<1>7. OneWriter'
  BY <1>1, <1>4 DEF ChainInv, OneWriter
<1>8. Chained(events) /\ Chained(events \cup added[w])
  BY DEF ChainInv, WritersExtend
<1>9. Chained(events)'
  <2>1. CASE events' = events
    BY <1>8, <2>1 DEF Chained, HasLatest, IsLatest, Older, LinkIsValid, Latest, Before, Root
  <2>2. CASE events' = events \cup added[w]
    <3> DEFINE chain == events \cup added[w]
    <3>1. Chained(chain) /\ events' = chain
      BY <1>8, <2>2
    <3> HIDE DEF chain
    <3>2. QED
      BY <3>1 DEF Chained, HasLatest, IsLatest, Older, LinkIsValid, Latest, Before, Root
  <2>3. QED
    BY <1>1, <2>1, <2>2
<1>10. WritersExtend'
  <2>1. \A v \in Writers : events' \cup added'[v] = events'
    BY <1>4
  <2>2. \A v \in Writers : Chained(events' \cup added'[v])
    BY <1>1, <1>8, <2>1
  <2>3. QED
    BY <1>4, <2>2 DEF WritersExtend, Chained, HasLatest, IsLatest, Older, LinkIsValid,
                      Latest, Before, Root
<1>11. \A e \in events' \ events : \A f \in events : Before(f, e)
  BY <1>1 DEF ChainInv, WritersExtend
<1>12. QED
  BY <1>5, <1>6, <1>7, <1>9, <1>10, <1>11 DEF ChainInv

\* Every step keeps the chain and adds to it at its head only.
LEMMA ChainStep ==
  ASSUME ChainInv, [AuditNext]_auditVars
  PROVE  /\ ChainInv'
         /\ \A e \in events' \ events : \A f \in events : Before(f, e)
<1>1. ASSUME NEW w \in Writers, AppendEvent(w)
      PROVE  /\ ChainInv'
             /\ \A e \in events' \ events : \A f \in events : Before(f, e)
  BY <1>1, AppendStep DEF AppendEvent
<1>2. ASSUME NEW w \in Writers, EndTransaction(w)
      PROVE  /\ ChainInv'
             /\ \A e \in events' \ events : \A f \in events : Before(f, e)
  BY <1>2, EndStep
<1>3. CASE UNCHANGED auditVars
  <2>1. events' = events /\ added' = added /\ holder' = holder
    BY <1>3 DEF auditVars
  <2>2. (ChainType /\ Distinct(AllRows) /\ OneWriter)'
    BY <2>1 DEF ChainInv, ChainType, Distinct, AllRows, OneWriter
  <2>3. Chained(events)'
    BY <2>1 DEF ChainInv, Chained, HasLatest, IsLatest, Older, LinkIsValid, Latest,
                Before, Root
  <2>4. WritersExtend'
    <3>1. SUFFICES ASSUME NEW w \in Writers
                   PROVE  /\ Chained(events' \cup added'[w])
                          /\ \A e \in events', f \in added'[w] : Before(e, f)
      BY DEF WritersExtend, Chained, HasLatest, IsLatest, Older, LinkIsValid, Latest,
             Before, Root
    <3>2. events' \cup added'[w] = events \cup added[w]
      BY <2>1
    <3>3. QED
      BY <2>1, <3>2 DEF ChainInv, WritersExtend
  <2>5. QED
    BY <2>1, <2>2, <2>3, <2>4 DEF ChainInv
<1>4. QED
  BY <1>1, <1>2, <1>3 DEF AuditNext

-----------------------------------------------------------------------------

\* drizzle/0002:141: however many transactions append, in whatever order they
\* commit or roll back and whatever their clocks say, what is committed is one
\* chain that the verification accepts.
THEOREM OneChain == AuditSpec => []ChainVerifies
<1>1. ChainInv /\ [AuditNext]_auditVars => ChainInv'
  BY ChainStep
<1>2. ChainInv => ChainVerifies
  BY DEF ChainInv, Chained, ChainVerifies, Verified
<1>3. QED
  BY <1>1, <1>2, InitChain, PTL DEF AuditSpec

\* A head that was exported stays where it is: later events come after it.
THEOREM HeadsStay == AuditSpec => ChainGrowsAtItsHead
<1>1. ChainInv /\ [AuditNext]_auditVars => ChainInv'
  BY ChainStep
<1>2. ChainInv /\ [AuditNext]_auditVars
        => [\A e \in events' \ events : \A f \in events : Before(f, e)]_auditVars
  BY ChainStep
<1>3. QED
  BY <1>1, <1>2, InitChain, PTL DEF AuditSpec, ChainGrowsAtItsHead

-----------------------------------------------------------------------------
(***************************************************************************)
(* SignIn, for any browsers, accounts and logins                           *)
(*                                                                         *)
(* A transaction in a jar belongs to a login of that browser, and no login *)
(* issues its session again once a browser has had it.                     *)
(***************************************************************************)

LoginStages ==
  {"unused", "redirect", "provider", "callback", "issue", "issued", "refused", "over"}

LoginRow ==
  [at : LoginStages, began : Browsers \cup {None}, expected : Accounts \cup {None},
   browser : Browsers \cup {None}, transaction : Logins \cup {None},
   user : Accounts \cup {None}]

Jar == [session : Logins \cup {None}, transaction : Logins \cup {None}]
SessionRow ==
  [status : {"none", "active", "revoked", "expired"}, user : Accounts \cup {None}]

LogoutRow ==
  [at : {"idle", "revoke", "signed-out", "logout-incomplete"}, session : Logins \cup {None}]

SignType ==
  /\ jar \in [Browsers -> Jar]
  /\ login \in [Logins -> LoginRow]
  /\ session \in [Logins -> SessionRow]
  /\ logout \in [Browsers -> LogoutRow]
  /\ signedOut \subseteq Logins

\* A browser comes to the callback with a transaction of a login it began.
TransactionIsOwn(f) ==
  /\ login[f].at # "unused" => login[f].browser \in Browsers
  /\ login[f].at = "redirect" => login[f].browser = login[f].began
  /\ login[f].transaction # None =>
       /\ login[login[f].transaction].at # "unused"
       /\ login[login[f].transaction].began = login[f].browser

\* A session is issued to its own transaction and has the user of its login.
IssueIsOwn(f) ==
  /\ login[f].at \in {"issue", "issued"} =>
       login[f].transaction = f /\ login[f].expected \in {None, login[f].user}
  /\ session[f].status # "none" =>
       login[f].at \in {"issued", "refused", "over"} /\ session[f].user = login[f].user
  /\ login[f].at = "issued" => session[f].status # "none"

\* What is in a jar was put there for a login of that browser.
JarIsOwn(b) ==
  /\ jar[b].transaction # None =>
       login[jar[b].transaction].at # "unused" /\ login[jar[b].transaction].began = b
  /\ jar[b].session # None =>
       LET f == jar[b].session
       IN /\ login[f].at = "over" /\ login[f].began = b /\ session[f].status # "none"
          /\ login[f].expected \in {None, login[f].user}

\* No login issues its session again once a browser has had it.
LogoutRevokes(b) ==
  logout[b].session # None =>
    /\ login[logout[b].session].at = "over"
    /\ logout[b].at = "signed-out" => session[logout[b].session].status # "active"

StaysRevoked(f) == login[f].at = "over" /\ session[f].status # "active"

SignInv ==
  /\ SignType
  /\ \A f \in Logins : TransactionIsOwn(f)
  /\ \A f \in Logins : IssueIsOwn(f)
  /\ \A b \in Browsers : JarIsOwn(b)
  /\ \A b \in Browsers : LogoutRevokes(b)
  /\ \A f \in signedOut : StaysRevoked(f)

LEMMA InitSign == SignInit => SignInv
  BY DEF SignInit, SignInv, SignType, Jar, SessionRow, LoginRow, LoginStages, LogoutRow,
         Unused, NoRow, Idle, EmptyJar, TransactionIsOwn, IssueIsOwn, JarIsOwn, LogoutRevokes, StaysRevoked

\* A step of one login that leaves its beginning alone.
LEMMA LoginMoves ==
  ASSUME SignInv, NEW f \in Logins, login[f].at # "over", login' \in [Logins -> LoginRow],
         \A g \in Logins \ {f} : login'[g] = login[g],
         login'[f].at # "unused",
         login[f].at # "unused" => login'[f].began = login[f].began,
         session' \in [Logins -> SessionRow],
         \A g \in Logins \ {f} : session'[g] = session[g],
         UNCHANGED <<logout, signedOut>>,
         TransactionIsOwn(f)', IssueIsOwn(f)',
         \A b \in Browsers : JarIsOwn(b)',
         jar' \in [Browsers -> Jar]
  PROVE  SignInv'
<1> USE NoneAssumption
<1>1. SignType'
  BY DEF SignInv, SignType
<1>2. ASSUME NEW g \in Logins PROVE TransactionIsOwn(g)'
  <2>1. CASE g = f
    BY <2>1
  <2>2. CASE g # f
    <3>1. login'[g] = login[g] /\ TransactionIsOwn(g)
      BY <2>2 DEF SignInv
    <3>2. login[g].transaction \in Logins \cup {None}
      BY DEF SignInv, SignType, LoginRow
    <3>3. \A t \in Logins : login[t].at # "unused" =>
            login'[t].at # "unused" /\ login'[t].began = login[t].began
      OBVIOUS
    <3>4. QED
      BY <3>1, <3>2, <3>3 DEF TransactionIsOwn
  <2>3. QED
    BY <2>1, <2>2
<1>3. ASSUME NEW g \in Logins PROVE IssueIsOwn(g)'
  BY DEF SignInv, IssueIsOwn
<1>4. ASSUME NEW b \in Browsers PROVE LogoutRevokes(b)'
  BY DEF SignInv, SignType, LogoutRow, LogoutRevokes
<1>5. ASSUME NEW g \in signedOut' PROVE StaysRevoked(g)'
  BY DEF SignInv, SignType, StaysRevoked
<1>6. QED
  BY <1>1, <1>2, <1>3, <1>4, <1>5 DEF SignInv

\* A request takes a login that is unused, and nothing refers to such a login.
LEMMA BeginLoginStep ==
  ASSUME SignInv, NEW f \in Logins, NEW b \in Browsers, NEW reauthenticate \in BOOLEAN,
         BeginLogin(f, b, reauthenticate)
  PROVE  SignInv'
<1> USE NoneAssumption
<1>1. /\ login[f] = Unused
      /\ UNCHANGED <<jar, session, logout, signedOut>>
  BY DEF BeginLogin
<1>2. PICK expected \in Accounts \cup {None}, at \in {"redirect", "refused"} :
        login' = [login EXCEPT ![f] =
          [at |-> at, began |-> b, expected |-> expected, browser |-> b,
           transaction |-> None, user |-> None]]
  <2>1. ExpectedUser(b, reauthenticate) \in Accounts \cup {None}
    <3>1. jar[b].session \in Logins \cup {None}
      BY DEF SignInv, SignType, Jar
    <3>2. jar[b].session # None => session[jar[b].session].user \in Accounts \cup {None}
      BY <3>1 DEF SignInv, SignType, SessionRow
    <3>3. CASE reauthenticate /\ Active(jar[b].session)
      BY <3>2, <3>3 DEF ExpectedUser, Active
    <3>4. CASE ~(reauthenticate /\ Active(jar[b].session))
      BY <3>4 DEF ExpectedUser
    <3>5. QED
      BY <3>3, <3>4
  <2>2. PICK at \in {"redirect", "refused"} :
          login' = [login EXCEPT ![f] = AuthorizationRequest(b, reauthenticate, at)]
    BY DEF BeginLogin
  <2>3. QED
    BY <2>1, <2>2 DEF AuthorizationRequest
<1>3. login \in [Logins -> LoginRow]
  BY DEF SignInv, SignType
<1>4. /\ login' \in [Logins -> LoginRow]
      /\ \A g \in Logins \ {f} : login'[g] = login[g]
      /\ login'[f].at = at /\ login'[f].began = b /\ login'[f].browser = b
      /\ login'[f].transaction = None
  BY <1>2, <1>3 DEF LoginRow, LoginStages
<1>5. login[f].at = "unused"
  BY <1>1 DEF Unused
<1>6. session[f].status = "none"
  BY <1>5 DEF SignInv, IssueIsOwn
<1>7. TransactionIsOwn(f)' /\ IssueIsOwn(f)'
  BY <1>1, <1>4, <1>6 DEF TransactionIsOwn, IssueIsOwn
<1>8. ASSUME NEW c \in Browsers PROVE JarIsOwn(c)'
  <2>1. /\ jar[c].transaction \in Logins \cup {None} /\ jar[c].session \in Logins \cup {None}
        /\ JarIsOwn(c)
    BY DEF SignInv, SignType, Jar
  <2>2. QED
    BY <1>1, <1>4, <1>5, <2>1 DEF JarIsOwn
<1>9. QED
  BY <1>1, <1>4, <1>5, <1>7, <1>8, LoginMoves DEF SignInv, SignType

LEMMA RedirectStep == ASSUME SignInv, NEW f \in Logins, Redirect(f) PROVE SignInv'
<1> USE NoneAssumption
<1> DEFINE b == login[f].browser
<1>1. /\ login[f].at = "redirect"
      /\ login' = [login EXCEPT ![f].at = "provider"]
      /\ jar' = [jar EXCEPT ![b].transaction = f]
      /\ UNCHANGED <<session, logout, signedOut>>
  BY DEF Redirect
<1>2. /\ login \in [Logins -> LoginRow]
      /\ jar \in [Browsers -> Jar]
  BY DEF SignInv, SignType
<1>3. b \in Browsers /\ login[f].began = b
  BY <1>1 DEF SignInv, TransactionIsOwn
<1>4. /\ login' \in [Logins -> LoginRow]
      /\ \A g \in Logins \ {f} : login'[g] = login[g]
      /\ login'[f].at = "provider" /\ login'[f].began = login[f].began
      /\ login'[f].browser = login[f].browser
      /\ login'[f].transaction = login[f].transaction /\ login'[f].user = login[f].user
  BY <1>1, <1>2 DEF LoginRow, LoginStages
<1>5. /\ jar' \in [Browsers -> Jar]
      /\ \A c \in Browsers \ {b} : jar'[c] = jar[c]
      /\ jar'[b].transaction = f /\ jar'[b].session = jar[b].session
  BY <1>1, <1>2, <1>3 DEF Jar
<1> HIDE DEF b
<1>6. TransactionIsOwn(f)'
  <2>1. \A t \in Logins : login[t].at # "unused" =>
          login'[t].at # "unused" /\ login'[t].began = login[t].began
    BY <1>4
  <2>2. login[f].transaction \in Logins \cup {None} /\ TransactionIsOwn(f)
    BY DEF SignInv, SignType, LoginRow
  <2>3. QED
    BY <1>1, <1>4, <2>1, <2>2 DEF TransactionIsOwn
<1>7. IssueIsOwn(f)'
  BY <1>1, <1>4 DEF SignInv, IssueIsOwn
<1>8. ASSUME NEW c \in Browsers PROVE JarIsOwn(c)'
  <2>1. /\ jar[c].transaction \in Logins \cup {None} /\ jar[c].session \in Logins \cup {None}
        /\ JarIsOwn(c)
    BY DEF SignInv, SignType, Jar
  <2>2. QED
    BY <1>1, <1>3, <1>4, <1>5, <2>1 DEF JarIsOwn
<1>9. QED
  BY <1>1, <1>2, <1>4, <1>5, <1>6, <1>7, <1>8, LoginMoves DEF SignInv, SignType

LEMMA ReturnStep ==
  ASSUME SignInv, NEW f \in Logins, NEW b \in Browsers, NEW u \in Accounts \cup {None},
         Return(f, b, u)
  PROVE  SignInv'
<1> USE NoneAssumption
<1>1. /\ login[f].at = "provider"
      /\ login' = [login EXCEPT ![f].at = "callback", ![f].browser = b, ![f].user = u,
                                ![f].transaction = jar[b].transaction]
      /\ UNCHANGED <<jar, session, logout, signedOut>>
  BY DEF Return
<1>2. /\ login \in [Logins -> LoginRow] /\ jar \in [Browsers -> Jar]
      /\ jar[b].transaction \in Logins \cup {None} /\ JarIsOwn(b)
  BY DEF SignInv, SignType, Jar
<1>3. /\ login' \in [Logins -> LoginRow]
      /\ \A g \in Logins \ {f} : login'[g] = login[g]
      /\ login'[f].at = "callback" /\ login'[f].began = login[f].began
      /\ login'[f].browser = b /\ login'[f].transaction = jar[b].transaction
  <2> DEFINE row == [login[f] EXCEPT !.at = "callback", !.browser = b, !.user = u,
                                     !.transaction = jar[b].transaction]
  <2>1. login' = [login EXCEPT ![f] = row]
    BY <1>1
  <2>2. login[f] \in LoginRow
    BY <1>2
  <2>3. row \in LoginRow
    BY <1>2, <2>2 DEF LoginRow, LoginStages
  <2>4. /\ row.at = "callback" /\ row.began = login[f].began
        /\ row.browser = b /\ row.transaction = jar[b].transaction
    BY <2>2 DEF LoginRow
  <2> HIDE DEF row
  <2>5. QED
    BY <1>2, <2>1, <2>3, <2>4
<1>4. TransactionIsOwn(f)'
  BY <1>1, <1>2, <1>3 DEF TransactionIsOwn, JarIsOwn
<1>5. IssueIsOwn(f)'
  BY <1>1, <1>3 DEF SignInv, IssueIsOwn
<1>6. ASSUME NEW c \in Browsers PROVE JarIsOwn(c)'
  <2>1. /\ jar[c].transaction \in Logins \cup {None} /\ jar[c].session \in Logins \cup {None}
        /\ JarIsOwn(c)
    BY DEF SignInv, SignType, Jar
  <2>2. QED
    BY <1>1, <1>3, <2>1 DEF JarIsOwn
<1>7. QED
  BY <1>1, <1>2, <1>3, <1>4, <1>5, <1>6, LoginMoves DEF SignInv, SignType

LEMMA CallbackStep == ASSUME SignInv, NEW f \in Logins, Callback(f) PROVE SignInv'
<1> USE NoneAssumption
<1>1. PICK at \in {"refused", "issue"} :
        /\ login[f].at = "callback"
        /\ login' = [login EXCEPT ![f].at = at]
        /\ at = "issue" => OwnTransaction(f) /\ SameAccount(f)
  BY DEF Callback
<1>2. UNCHANGED <<jar, session, logout, signedOut>>
  BY DEF Callback
<1>3. login \in [Logins -> LoginRow] /\ login[f].transaction \in Logins \cup {None}
  BY DEF SignInv, SignType, LoginRow
<1>4. /\ login' \in [Logins -> LoginRow]
      /\ \A g \in Logins \ {f} : login'[g] = login[g]
      /\ login'[f].at = at /\ login'[f].began = login[f].began
      /\ login'[f].browser = login[f].browser /\ login'[f].expected = login[f].expected
      /\ login'[f].transaction = login[f].transaction /\ login'[f].user = login[f].user
  BY <1>1, <1>3 DEF LoginRow, LoginStages
<1>5. TransactionIsOwn(f)'
  <2>1. TransactionIsOwn(f)
    BY DEF SignInv
  <2>2. \A t \in Logins : login[t].at # "unused" =>
          login'[t].at # "unused" /\ login'[t].began = login[t].began
    BY <1>1, <1>4
  <2>3. QED
    BY <1>1, <1>3, <1>4, <2>1, <2>2 DEF TransactionIsOwn
<1>6. IssueIsOwn(f)'
  <2>1. session[f].status = "none"
    BY <1>1 DEF SignInv, IssueIsOwn
  <2>2. at = "issue" => login[f].transaction = f /\ login[f].expected \in {None, login[f].user}
    BY <1>1 DEF OwnTransaction, SameAccount
  <2>3. QED
    BY <1>2, <1>4, <2>1, <2>2 DEF IssueIsOwn
<1>7. ASSUME NEW c \in Browsers PROVE JarIsOwn(c)'
  <2>1. /\ jar[c].transaction \in Logins \cup {None} /\ jar[c].session \in Logins \cup {None}
        /\ JarIsOwn(c)
    BY DEF SignInv, SignType, Jar
  <2>2. QED
    BY <1>1, <1>2, <1>4, <2>1 DEF JarIsOwn
<1>8. QED
  BY <1>1, <1>2, <1>4, <1>5, <1>6, <1>7, LoginMoves DEF SignInv, SignType

\* The session that a login issues belongs to the user of that login.
LEMMA IssueStep == ASSUME SignInv, NEW f \in Logins, Issue(f) PROVE SignInv'
<1> USE NoneAssumption
<1>1. PICK at \in {"issued", "refused"} :
        /\ login[f].at = "issue"
        /\ login' = [login EXCEPT ![f].at = at]
        /\ \/ session' = [session EXCEPT ![f] = [status |-> "active", user |-> login[f].user]]
           \/ at = "refused" /\ session' = session
  BY DEF Issue
<1>2. UNCHANGED <<jar, logout, signedOut>>
  BY DEF Issue
<1>3. /\ login \in [Logins -> LoginRow] /\ session \in [Logins -> SessionRow]
      /\ login[f].transaction \in Logins \cup {None} /\ login[f].user \in Accounts \cup {None}
  BY DEF SignInv, SignType, LoginRow
<1>4. /\ login' \in [Logins -> LoginRow]
      /\ \A g \in Logins \ {f} : login'[g] = login[g]
      /\ login'[f].at = at /\ login'[f].began = login[f].began
      /\ login'[f].browser = login[f].browser /\ login'[f].expected = login[f].expected
      /\ login'[f].transaction = login[f].transaction /\ login'[f].user = login[f].user
  BY <1>1, <1>3 DEF LoginRow, LoginStages
<1>5. /\ session' \in [Logins -> SessionRow]
      /\ \A g \in Logins \ {f} : session'[g] = session[g]
      /\ session'[f].status # "none" => session'[f].user = login[f].user
      /\ at = "issued" => session'[f].status # "none"
  <2>1. session[f].status = "none"
    BY <1>1 DEF SignInv, IssueIsOwn
  <2>2. CASE session' = [session EXCEPT ![f] = [status |-> "active", user |-> login[f].user]]
    BY <1>3, <2>2 DEF SessionRow
  <2>3. CASE at = "refused" /\ session' = session
    BY <1>3, <2>1, <2>3
  <2>4. QED
    BY <1>1, <2>2, <2>3
<1>6. TransactionIsOwn(f)'
  <2>1. TransactionIsOwn(f)
    BY DEF SignInv
  <2>2. \A t \in Logins : login[t].at # "unused" =>
          login'[t].at # "unused" /\ login'[t].began = login[t].began
    BY <1>1, <1>4
  <2>3. QED
    BY <1>1, <1>3, <1>4, <2>1, <2>2 DEF TransactionIsOwn
<1>7. IssueIsOwn(f)'
  <2>1. login[f].transaction = f /\ login[f].expected \in {None, login[f].user}
    BY <1>1 DEF SignInv, IssueIsOwn
  <2>2. QED
    BY <1>4, <1>5, <2>1 DEF IssueIsOwn
<1>8. ASSUME NEW c \in Browsers PROVE JarIsOwn(c)'
  <2>1. /\ jar[c].transaction \in Logins \cup {None} /\ jar[c].session \in Logins \cup {None}
        /\ JarIsOwn(c)
    BY DEF SignInv, SignType, Jar
  <2>2. jar[c].session # f
    BY <1>1, <2>1 DEF JarIsOwn
  <2>3. QED
    BY <1>1, <1>2, <1>4, <1>5, <2>1, <2>2 DEF JarIsOwn
<1>9. QED
  BY <1>1, <1>2, <1>4, <1>5, <1>6, <1>7, <1>8, LoginMoves DEF SignInv, SignType

\* The browser that gets the session is the one the login began in.
LEMMA AnswerStep == ASSUME SignInv, NEW f \in Logins, Answer(f) PROVE SignInv'
<1> USE NoneAssumption
<1> DEFINE b == login[f].browser
<1>1. /\ login[f].at \in {"issued", "refused"}
      /\ login' = [login EXCEPT ![f].at = "over"]
      /\ \/ jar' = [jar EXCEPT ![b] =
              [session |-> IF login[f].at = "issued" THEN f ELSE jar[b].session,
               transaction |-> None]]
         \/ jar' = jar
      /\ UNCHANGED <<session, logout, signedOut>>
  BY DEF Answer
<1>2. /\ login \in [Logins -> LoginRow] /\ jar \in [Browsers -> Jar]
      /\ login[f].transaction \in Logins \cup {None}
  BY DEF SignInv, SignType, LoginRow
<1>3. b \in Browsers
  BY <1>1 DEF SignInv, TransactionIsOwn
<1>4. login[f].at = "issued" =>
        /\ login[f].began = b /\ session[f].status # "none"
        /\ login[f].expected \in {None, login[f].user}
  BY <1>1 DEF SignInv, IssueIsOwn, TransactionIsOwn
<1>5. /\ login' \in [Logins -> LoginRow]
      /\ \A g \in Logins \ {f} : login'[g] = login[g]
      /\ login'[f].at = "over" /\ login'[f].began = login[f].began
      /\ login'[f].browser = login[f].browser /\ login'[f].expected = login[f].expected
      /\ login'[f].transaction = login[f].transaction /\ login'[f].user = login[f].user
  BY <1>1, <1>2 DEF LoginRow, LoginStages
<1>6. jar[b].session \in Logins \cup {None}
  BY <1>2, <1>3 DEF Jar
<1>7. /\ jar' \in [Browsers -> Jar]
      /\ \A c \in Browsers \ {b} : jar'[c] = jar[c]
      /\ \/ jar'[b] = jar[b]
         \/ jar'[b].transaction = None /\ jar'[b].session = jar[b].session
         \/ jar'[b].transaction = None /\ jar'[b].session = f /\ login[f].at = "issued"
  <2>1. CASE jar' = jar
    BY <1>2, <2>1
  <2>2. CASE jar' = [jar EXCEPT ![b] =
               [session |-> IF login[f].at = "issued" THEN f ELSE jar[b].session,
                transaction |-> None]]
    <3> DEFINE kept == IF login[f].at = "issued" THEN f ELSE jar[b].session
    <3>1. /\ kept \in Logins \cup {None}
          /\ kept = jar[b].session \/ (kept = f /\ login[f].at = "issued")
      BY <1>6
    <3> HIDE DEF b
    <3>2. jar' = [jar EXCEPT ![b] = [session |-> kept, transaction |-> None]]
      BY <2>2
    <3> HIDE DEF kept
    <3>3. /\ jar'[b] = [session |-> kept, transaction |-> None]
          /\ \A c \in Browsers \ {b} : jar'[c] = jar[c]
      BY <1>2, <1>3, <3>2
    <3>4. [session |-> kept, transaction |-> None] \in Jar
      BY <3>1 DEF Jar
    <3>5. jar' \in [Browsers -> Jar]
      BY <1>2, <3>2, <3>4
    <3>6. QED
      BY <3>1, <3>3, <3>5
  <2>3. QED
    BY <1>1, <2>1, <2>2
<1> HIDE DEF b
<1>8. TransactionIsOwn(f)'
  <2>1. TransactionIsOwn(f)
    BY DEF SignInv
  <2>2. \A t \in Logins : login[t].at # "unused" =>
          login'[t].at # "unused" /\ login'[t].began = login[t].began
    BY <1>1, <1>5
  <2>3. QED
    BY <1>1, <1>2, <1>5, <2>1, <2>2 DEF TransactionIsOwn
<1>9. IssueIsOwn(f)'
  BY <1>1, <1>5 DEF SignInv, IssueIsOwn
<1>10. ASSUME NEW c \in Browsers PROVE JarIsOwn(c)'
  <2>1. /\ jar[c].transaction \in Logins \cup {None} /\ jar[c].session \in Logins \cup {None}
        /\ JarIsOwn(c)
    BY DEF SignInv, SignType, Jar
  <2>2. /\ jar'[c].transaction \in {None, jar[c].transaction}
        /\ \/ jar'[c].session \in {None, jar[c].session}
           \/ jar'[c].session = f /\ c = b /\ login[f].at = "issued"
    BY <1>7
  <2>3. \A t \in Logins : login[t].at # "unused" =>
          login'[t].at # "unused" /\ login'[t].began = login[t].began
    BY <1>1, <1>5
  <2>4. CASE jar'[c].session \in {None, jar[c].session}
    BY <1>1, <1>5, <2>1, <2>2, <2>3, <2>4 DEF JarIsOwn
  <2>5. CASE jar'[c].session = f /\ c = b /\ login[f].at = "issued"
    BY <1>1, <1>4, <1>5, <2>1, <2>2, <2>3, <2>5 DEF JarIsOwn
  <2>6. QED
    BY <2>2, <2>4, <2>5
<1>11. QED
  BY <1>1, <1>2, <1>5, <1>7, <1>8, <1>9, <1>10, LoginMoves DEF SignInv, SignType

\* A step that only ends sessions and empties jars.
LEMMA SessionsEnd ==
  ASSUME SignInv, login' = login,
         jar' \in [Browsers -> Jar],
         \A b \in Browsers : jar'[b] = jar[b] \/ jar'[b] = EmptyJar,
         session' \in [Logins -> SessionRow],
         \A f \in Logins :
           /\ session'[f].user = session[f].user
           /\ session'[f].status = "none" <=> session[f].status = "none"
           /\ session'[f].status = "active" => session[f].status = "active",
         logout' \in [Browsers -> LogoutRow],
         \A b \in Browsers : LogoutRevokes(b)',
         signedOut' \subseteq Logins,
         \A f \in signedOut' : f \in signedOut \/ StaysRevoked(f)'
  PROVE  SignInv'
<1> USE NoneAssumption
<1>1. SignType'
  BY DEF SignInv, SignType, LogoutRow
<1>2. ASSUME NEW f \in Logins PROVE TransactionIsOwn(f)' /\ IssueIsOwn(f)'
  BY DEF SignInv, TransactionIsOwn, IssueIsOwn
<1>3. ASSUME NEW b \in Browsers PROVE JarIsOwn(b)'
  <2>1. /\ JarIsOwn(b) /\ jar[b].session \in Logins \cup {None}
    BY DEF SignInv, SignType, Jar
  <2>2. QED
    BY <2>1 DEF JarIsOwn, EmptyJar
<1>4. ASSUME NEW f \in signedOut' PROVE StaysRevoked(f)'
  BY DEF SignInv, SignType, StaysRevoked
<1>5. QED
  BY <1>1, <1>2, <1>3, <1>4 DEF SignInv

LEMMA LeaveStep == ASSUME SignInv, NEW b \in Browsers, Leave(b) PROVE SignInv'
<1> USE NoneAssumption
<1>1. /\ logout' = [logout EXCEPT ![b] = [at |-> "revoke", session |-> jar[b].session]]
      /\ UNCHANGED <<jar, login, session, signedOut>>
  BY DEF Leave
<1>2. /\ jar[b].session \in Logins \cup {None} /\ logout \in [Browsers -> LogoutRow]
      /\ jar \in [Browsers -> Jar] /\ session \in [Logins -> SessionRow]
      /\ signedOut \subseteq Logins
  BY DEF SignInv, SignType, Jar, LogoutRow
<1>3. /\ logout' \in [Browsers -> LogoutRow]
      /\ logout'[b].at = "revoke" /\ logout'[b].session = jar[b].session
      /\ \A c \in Browsers \ {b} : logout'[c] = logout[c]
  BY <1>1, <1>2 DEF LogoutRow
<1>4. ASSUME NEW c \in Browsers PROVE LogoutRevokes(c)'
  <2>1. CASE c = b
    BY <1>1, <1>3, <2>1 DEF SignInv, JarIsOwn, LogoutRevokes
  <2>2. CASE c # b
    BY <1>1, <1>3, <2>2 DEF SignInv, LogoutRevokes
  <2>3. QED
    BY <2>1, <2>2
<1>5. QED
  BY <1>1, <1>2, <1>3, <1>4, SessionsEnd

\* Only a revocation that was reported to have failed may leave the session active.
LEMMA RevokeStep == ASSUME SignInv, NEW b \in Browsers, Revoke(b) PROVE SignInv'
<1> USE NoneAssumption
<1> DEFINE s == logout[b].session
<1>1. PICK failed \in BOOLEAN :
        /\ logout' = [logout EXCEPT ![b].at = LogoutOutcome(failed)]
        /\ session' = Revoked(s) \/ (failed /\ session' = session)
  BY DEF Revoke
<1>2. UNCHANGED <<jar, login, signedOut>>
  BY DEF Revoke
<1>3. /\ s \in Logins \cup {None} /\ logout \in [Browsers -> LogoutRow]
      /\ jar \in [Browsers -> Jar] /\ session \in [Logins -> SessionRow]
      /\ signedOut \subseteq Logins
  BY DEF SignInv, SignType, Jar, LogoutRow
<1>4. /\ logout' \in [Browsers -> LogoutRow] /\ logout'[b].session = s
      /\ logout'[b].at = "signed-out" => ~failed
      /\ \A c \in Browsers \ {b} : logout'[c] = logout[c]
  BY <1>1, <1>3 DEF LogoutRow, LogoutOutcome
<1>5. /\ session' \in [Logins -> SessionRow]
      /\ \A f \in Logins :
           /\ session'[f].user = session[f].user
           /\ session'[f].status = "none" <=> session[f].status = "none"
           /\ session'[f].status = "active" => session[f].status = "active"
      /\ s # None /\ ~failed => session'[s].status # "active"
  <2>1. CASE Active(s)
    <3>1. s \in Logins /\ session[s].status = "active"
      BY <1>3, <2>1 DEF Active
    <3>2. (session' = session /\ failed) \/ session' = [session EXCEPT ![s].status = "revoked"]
      BY <1>1, <2>1 DEF Revoked
    <3>3. QED
      BY <1>3, <3>1, <3>2 DEF SessionRow
  <2>2. CASE ~Active(s)
    <3>1. session' = session
      BY <1>1, <2>2 DEF Revoked
    <3>2. QED
      BY <1>3, <2>2, <3>1 DEF Active
  <2>3. QED
    BY <2>1, <2>2
<1> HIDE DEF s
<1>6. ASSUME NEW c \in Browsers PROVE LogoutRevokes(c)'
  <2>1. LogoutRevokes(c) /\ logout[c].session \in Logins \cup {None}
    BY <1>3 DEF SignInv, LogoutRow
  <2>2. CASE c = b
    BY <1>2, <1>4, <1>5, <2>1, <2>2 DEF LogoutRevokes, s
  <2>3. CASE c # b
    BY <1>2, <1>4, <1>5, <2>1, <2>3 DEF LogoutRevokes
  <2>4. QED
    BY <2>2, <2>3
<1>7. QED
  BY <1>2, <1>3, <1>4, <1>5, <1>6, SessionsEnd

LEMMA LeftStep == ASSUME SignInv, NEW b \in Browsers, Left(b) PROVE SignInv'
<1> USE NoneAssumption
<1>1. /\ logout' = [logout EXCEPT ![b] = Idle]
      /\ jar' = [jar EXCEPT ![b] = EmptyJar]
      /\ UNCHANGED <<login, session>>
  BY DEF Left
<1>2. /\ logout \in [Browsers -> LogoutRow] /\ jar \in [Browsers -> Jar]
      /\ session \in [Logins -> SessionRow] /\ signedOut \subseteq Logins
      /\ logout[b].session \in Logins \cup {None}
  BY DEF SignInv, SignType, LogoutRow
<1>3. /\ logout' \in [Browsers -> LogoutRow] /\ jar' \in [Browsers -> Jar]
      /\ logout'[b].session = None
      /\ \A c \in Browsers \ {b} : logout'[c] = logout[c]
      /\ \A c \in Browsers : jar'[c] = jar[c] \/ jar'[c] = EmptyJar
  BY <1>1, <1>2 DEF LogoutRow, Jar, Idle, EmptyJar
<1>4. /\ signedOut' \subseteq Logins
      /\ \A f \in signedOut' : f \in signedOut \/ StaysRevoked(f)'
  <2>1. \A f \in signedOut' :
          f \in signedOut \/ (f = logout[b].session /\ f # None /\ logout[b].at = "signed-out")
    BY DEF Left
  <2>2. LogoutRevokes(b)
    BY DEF SignInv
  <2>3. QED
    BY <1>1, <1>2, <2>1, <2>2 DEF LogoutRevokes, StaysRevoked
<1>5. ASSUME NEW c \in Browsers PROVE LogoutRevokes(c)'
  BY <1>1, <1>3 DEF SignInv, LogoutRevokes
<1>6. QED
  BY <1>1, <1>2, <1>3, <1>4, <1>5, SessionsEnd

LEMMA ExpireStep == ASSUME SignInv, NEW f \in Logins, ExpireSession(f) PROVE SignInv'
<1> USE NoneAssumption
<1>1. /\ session[f].status = "active"
      /\ session' = [session EXCEPT ![f].status = "expired"]
      /\ UNCHANGED <<jar, login, logout, signedOut>>
  BY DEF ExpireSession, Active
<1>2. /\ logout \in [Browsers -> LogoutRow] /\ jar \in [Browsers -> Jar]
      /\ session \in [Logins -> SessionRow] /\ signedOut \subseteq Logins
  BY DEF SignInv, SignType, LogoutRow
<1>3. /\ session' \in [Logins -> SessionRow]
      /\ \A g \in Logins :
           /\ session'[g].user = session[g].user
           /\ session'[g].status = "none" <=> session[g].status = "none"
           /\ session'[g].status = "active" => session[g].status = "active"
  BY <1>1, <1>2 DEF SessionRow
<1>4. ASSUME NEW c \in Browsers PROVE LogoutRevokes(c)'
  <2>1. LogoutRevokes(c) /\ logout[c].session \in Logins \cup {None}
    BY <1>2 DEF SignInv, LogoutRow
  <2>2. QED
    BY <1>1, <1>3, <2>1 DEF LogoutRevokes
<1>5. QED
  BY <1>1, <1>2, <1>3, <1>4, SessionsEnd

LEMMA SignStep == SignInv /\ [SignNext]_signVars => SignInv'
<1> SUFFICES ASSUME SignInv, [SignNext]_signVars PROVE SignInv'
  OBVIOUS
<1>1. CASE UNCHANGED signVars
  BY <1>1 DEF signVars, SignInv, SignType, TransactionIsOwn, IssueIsOwn, JarIsOwn,
              LogoutRevokes, StaysRevoked
<1>2. ASSUME NEW f \in Logins, NEW b \in Browsers, NEW reauthenticate \in BOOLEAN,
             BeginLogin(f, b, reauthenticate)
      PROVE  SignInv'
  BY <1>2, BeginLoginStep
<1>3. ASSUME NEW f \in Logins, NEW b \in Browsers, NEW u \in Accounts \cup {None},
             Return(f, b, u)
      PROVE  SignInv'
  BY <1>3, ReturnStep
<1>4. ASSUME NEW f \in Logins,
             Redirect(f) \/ Callback(f) \/ Issue(f) \/ Answer(f) \/ ExpireSession(f)
      PROVE  SignInv'
  BY <1>4, RedirectStep, CallbackStep, IssueStep, AnswerStep, ExpireStep
<1>5. ASSUME NEW b \in Browsers, Leave(b) \/ Revoke(b) \/ Left(b) PROVE SignInv'
  BY <1>5, LeaveStep, RevokeStep, LeftStep
<1>6. QED
  BY <1>1, <1>2, <1>3, <1>4, <1>5 DEF SignNext

\* logout/route.ts:18: a session that a browser was told is signed out is never
\* active again, whatever other logins, callbacks and revocations are under way.
THEOREM SignedOutIsRevoked == SignSpec => []SignedOutMeansRevoked
<1>1. SignInv => SignedOutMeansRevoked
  BY DEF SignInv, StaysRevoked, SignedOutMeansRevoked, Active
<1>2. QED
  BY <1>1, InitSign, SignStep, PTL DEF SignSpec

\* callback/route.ts:42: the session in a browser was issued to a login that this
\* browser began, to the user who logged in and, when the login is to
\* reauthenticate, to the user who asked for it.
THEOREM SessionsAreOwn == SignSpec => []SessionIsOfOwnLogin
<1>1. SignInv => SessionIsOfOwnLogin
  <2> SUFFICES ASSUME SignInv, NEW b \in Browsers, jar[b].session # None
               PROVE  LET f == jar[b].session
                      IN /\ login[f].began = b
                         /\ session[f].user = login[f].user
                         /\ login[f].expected \in {None, login[f].user}
    BY DEF SessionIsOfOwnLogin
  <2>1. jar[b].session \in Logins /\ JarIsOwn(b) /\ IssueIsOwn(jar[b].session)
    BY DEF SignInv, SignType, Jar
  <2>2. QED
    BY <2>1 DEF JarIsOwn, IssueIsOwn
<1>2. QED
  BY <1>1, InitSign, SignStep, PTL DEF SignSpec

-----------------------------------------------------------------------------
(***************************************************************************)
(* DemoStore, for any fixtures of the shape that the assumption states     *)
(*                                                                         *)
(* Workpapers are drafted for one matter only, and its reviewer is not     *)
(* among those who may draft or upload there.                              *)
(***************************************************************************)

DocumentRow ==
  [matter : Matters, file : Files \cup {Absent}, uploadedBy : Users,
   status : {"QUARANTINED", "INDEXED"}, evidenceStatus : {"PENDING"} \cup DemoDecisions]

ReviewRow == [requestedBy : Users, status : {"PENDING"} \cup DemoDecisions]

DemoType ==
  /\ documents \in [Documents -> DocumentRow \cup {Absent}]
  /\ reviews \in [Targets -> ReviewRow \cup {Absent}]

\* One user reviews the only matter of which workpapers are drafted.
OneReviewer == EvidenceMatter \in DOMAIN matters /\ matters[EvidenceMatter] = Reviewer

\* None of the workpapers is the reviewer's own, and the document with the
\* evidence is not either.
NothingIsReviewersOwn ==
  /\ \A t \in Targets : reviews[t] # Absent => reviews[t].requestedBy # Reviewer
  /\ documents[SeededDocument] \in DocumentRow
  /\ documents[SeededDocument].uploadedBy = Owner

\* Only the reviewer decides, on a workpaper that exists or on that document.
ReviewerDecides ==
  \A e \in auditEvents :
    /\ e[2] = "WORKPAPER_DECIDED" =>
         e[1] = Reviewer /\ e[3] \in Targets /\ reviews[e[3]].requestedBy # Reviewer
    /\ e[2] = "DOCUMENT_EVIDENCE_DECIDED" => e[1] = Reviewer /\ e[3] = SeededDocument

DemoInv == DemoType /\ OneReviewer /\ NothingIsReviewersOwn /\ ReviewerDecides

IsSeeded ==
  /\ matters = Seeded.matters /\ documents = Seeded.documents /\ reviews = Seeded.reviews
  /\ auditEvents = {}

LEMMA SeededStore == IsSeeded => DemoInv
<1> SUFFICES ASSUME IsSeeded PROVE DemoInv
  OBVIOUS
<1> USE FixturesAssumption DEF IsSeeded
<1>1. matters = [m \in Matters |-> IF m \in SeededMatters THEN ReviewerOf[m] ELSE Absent]
  BY DEF Seeded
<1>2. documents = [d \in Documents |->
        IF d = SeededDocument
        THEN [matter |-> EvidenceMatter, file |-> Absent, uploadedBy |-> Owner,
              status |-> "INDEXED", evidenceStatus |-> "PENDING"]
        ELSE Absent]
  BY DEF Seeded
<1>3. reviews = [t \in Targets |->
        IF t = SeededTarget THEN [requestedBy |-> Owner, status |-> "PENDING"] ELSE Absent]
  BY DEF Seeded
<1>4. DemoType
  BY <1>2, <1>3 DEF DemoType, DocumentRow, ReviewRow, Matters, Documents, Targets
<1>5. OneReviewer
  BY <1>1 DEF OneReviewer, Matters
<1>6. NothingIsReviewersOwn
  <2>1. /\ documents[SeededDocument] \in DocumentRow
        /\ documents[SeededDocument].uploadedBy = Owner
    BY <1>2 DEF Documents, DocumentRow, Matters
  <2>2. \A t \in Targets : reviews[t] # Absent => reviews[t].requestedBy = Owner
    BY <1>3
  <2>3. QED
    BY <2>1, <2>2 DEF NothingIsReviewersOwn
<1>7. ReviewerDecides
  BY DEF ReviewerDecides
<1>8. QED
  BY <1>4, <1>5, <1>6, <1>7 DEF DemoInv

\* Operations that decide nothing add nothing that matters to the audit events.
LEMMA LogOfOthers ==
  ASSUME DemoInv, NEW user, NEW target,
         NEW action \in {"MATTER_CREATED", "DOCUMENT_QUEUED", "DOCUMENT_UPLOAD_DEDUPLICATED"},
         auditEvents' = auditEvents \cup {<<user, action, target>>}, reviews' = reviews
  PROVE  ReviewerDecides'
<1>1. \A e \in auditEvents' : e \in auditEvents \/ e[2] = action
  OBVIOUS
<1>2. QED
  BY <1>1 DEF DemoInv, ReviewerDecides

LEMMA InitDemo == DemoInit => DemoInv
  BY SeededStore DEF DemoInit, IsSeeded

LEMMA CreateMatterStep ==
  ASSUME DemoInv, NEW user \in Users, NEW m \in NewMatters, NEW r \in Users,
         CreateMatter(user, m, r)
  PROVE  DemoInv'
<1> USE FixturesAssumption
<1>1. /\ matters[m] = Absent /\ matters' = [matters EXCEPT ![m] = r]
      /\ UNCHANGED <<documents, reviews>>
      /\ auditEvents' = auditEvents \cup {<<user, "MATTER_CREATED", m>>}
  BY DEF CreateMatter, Log
<1>2. OneReviewer'
  BY <1>1 DEF DemoInv, OneReviewer
<1>4. ReviewerDecides'
  BY <1>1, LogOfOthers
<1>5. DemoType' /\ NothingIsReviewersOwn'
  BY <1>1, <1>4 DEF DemoInv, DemoType, NothingIsReviewersOwn
<1>6. QED
  BY <1>2, <1>4, <1>5 DEF DemoInv

LEMMA EnqueueStep ==
  ASSUME DemoInv, NEW user \in Users, NEW d \in NewDocuments, NEW m \in Matters,
         NEW file \in Files, NEW k \in Keys, EnqueueDocument(user, d, m, file, k)
  PROVE  DemoInv'
<1> USE FixturesAssumption
<1> DEFINE row == [matter |-> m, file |-> file, uploadedBy |-> user,
                   status |-> "QUARANTINED", evidenceStatus |-> "PENDING"]
<1>1. /\ documents' = [documents EXCEPT ![d] = row]
      /\ UNCHANGED <<matters, reviews>>
      /\ auditEvents' = auditEvents \cup {<<user, "DOCUMENT_QUEUED", d>>}
  BY DEF EnqueueDocument, Log
<1>2. row \in DocumentRow
  BY DEF DocumentRow
<1> HIDE DEF row
<1>3. d \in Documents /\ SeededDocument \in Documents /\ d # SeededDocument
  BY DEF Documents
<1>4. documents' \in [Documents -> DocumentRow \cup {Absent}]
  BY <1>1, <1>2, <1>3 DEF DemoInv, DemoType
<1>5. documents'[SeededDocument] = documents[SeededDocument]
  BY <1>1, <1>3 DEF DemoInv, DemoType
<1>6. ReviewerDecides'
  BY <1>1, LogOfOthers
<1>7. DemoType' /\ OneReviewer' /\ NothingIsReviewersOwn'
  BY <1>1, <1>4, <1>5, <1>6 DEF DemoInv, DemoType, OneReviewer, NothingIsReviewersOwn
<1>8. QED
  BY <1>6, <1>7 DEF DemoInv

\* Whoever drafts is not the reviewer of the matter.
LEMMA DraftStep ==
  ASSUME DemoInv, NEW user \in Users, NEW m \in Matters, NEW t \in NewTargets,
         CreateWorkpaperDraft(user, m, t)
  PROVE  DemoInv'
<1> USE FixturesAssumption
<1>1. /\ user # Reviewer
      /\ reviews' = [reviews EXCEPT ![t] = [requestedBy |-> user, status |-> "PENDING"]]
      /\ UNCHANGED <<matters, documents, auditEvents>>
  BY DEF DemoInv, OneReviewer, CreateWorkpaperDraft, MayDraft
<1>2. t \in Targets /\ reviews \in [Targets -> ReviewRow \cup {Absent}]
  BY DEF DemoInv, DemoType, Targets
<1>3. /\ reviews' \in [Targets -> ReviewRow \cup {Absent}]
      /\ reviews'[t].requestedBy = user
      /\ \A s \in Targets \ {t} : reviews'[s] = reviews[s]
  BY <1>1, <1>2 DEF ReviewRow
<1>4. DemoType' /\ OneReviewer'
  BY <1>1, <1>3 DEF DemoInv, DemoType, OneReviewer
<1>5. NothingIsReviewersOwn'
  BY <1>1, <1>3 DEF DemoInv, NothingIsReviewersOwn
<1>6. ReviewerDecides'
  BY <1>1, <1>3 DEF DemoInv, ReviewerDecides
<1>7. QED
  BY <1>4, <1>5, <1>6 DEF DemoInv

LEMMA DecideEvidenceStep ==
  ASSUME DemoInv, NEW user \in Users, NEW d \in Documents, NEW decision \in DemoDecisions,
         DecideEvidence(user, d, decision)
  PROVE  DemoInv'
<1> USE FixturesAssumption
<1>1. /\ user = Reviewer /\ d = SeededDocument
      /\ documents' = [documents EXCEPT ![d].evidenceStatus = decision]
      /\ UNCHANGED <<matters, reviews>>
      /\ auditEvents' = auditEvents \cup {<<user, "DOCUMENT_EVIDENCE_DECIDED", d>>}
  BY DEF DecideEvidence, Log
<1>2. /\ documents \in [Documents -> DocumentRow \cup {Absent}]
      /\ documents[d] \in DocumentRow /\ documents[d].uploadedBy = Owner
  BY <1>1 DEF DemoInv, DemoType, NothingIsReviewersOwn
<1>3. /\ documents' \in [Documents -> DocumentRow \cup {Absent}]
      /\ documents'[d] \in DocumentRow /\ documents'[d].uploadedBy = Owner
  BY <1>1, <1>2 DEF DocumentRow
<1>4. DemoType'
  BY <1>1, <1>3 DEF DemoInv, DemoType
<1>5. OneReviewer' /\ NothingIsReviewersOwn'
  BY <1>1, <1>3 DEF DemoInv, OneReviewer, NothingIsReviewersOwn
<1>6. ReviewerDecides'
  BY <1>1 DEF DemoInv, ReviewerDecides
<1>7. QED
  BY <1>4, <1>5, <1>6 DEF DemoInv

LEMMA SetReviewDecisionStep ==
  ASSUME DemoInv, NEW user \in Users, NEW t \in Targets, NEW decision \in DemoDecisions,
         SetReviewDecision(user, t, decision)
  PROVE  DemoInv'
<1> USE FixturesAssumption
<1>1. /\ user = Reviewer /\ reviews[t] # Absent
      /\ reviews' = [reviews EXCEPT ![t].status = decision]
      /\ UNCHANGED <<matters, documents>>
      /\ auditEvents' = auditEvents \cup {<<user, "WORKPAPER_DECIDED", t>>}
  BY DEF SetReviewDecision, Log
<1>2. /\ reviews \in [Targets -> ReviewRow \cup {Absent}]
      /\ reviews[t] \in ReviewRow /\ reviews[t].requestedBy # Reviewer
  BY <1>1 DEF DemoInv, DemoType, NothingIsReviewersOwn
<1>3. /\ reviews' \in [Targets -> ReviewRow \cup {Absent}]
      /\ reviews'[t].requestedBy # Reviewer
      /\ \A s \in Targets \ {t} : reviews'[s] = reviews[s]
  BY <1>1, <1>2 DEF ReviewRow
<1>4. DemoType' /\ OneReviewer'
  BY <1>1, <1>3 DEF DemoInv, DemoType, OneReviewer
<1>5. NothingIsReviewersOwn'
  BY <1>1, <1>3 DEF DemoInv, NothingIsReviewersOwn
<1>6. ReviewerDecides'
  BY <1>1, <1>3 DEF DemoInv, ReviewerDecides
<1>7. QED
  BY <1>4, <1>5, <1>6 DEF DemoInv

LEMMA DeduplicateStep ==
  ASSUME DemoInv, NEW user \in Users, NEW m \in Matters, NEW file \in Files, NEW k \in Keys,
         Deduplicate(user, m, file, k)
  PROVE  DemoInv'
<1>1. /\ UNCHANGED <<matters, documents, reviews>>
      /\ auditEvents' = auditEvents \cup
           {<<user, "DOCUMENT_UPLOAD_DEDUPLICATED", idempotency[k]>>}
  BY DEF Deduplicate, Log
<1>2. ReviewerDecides'
  BY <1>1, LogOfOthers
<1>3. QED
  BY <1>1, <1>2 DEF DemoInv, DemoType, OneReviewer, NothingIsReviewersOwn

LEMMA DemoStep == DemoInv /\ [DemoNext]_demoVars => DemoInv'
<1> SUFFICES ASSUME DemoInv, [DemoNext]_demoVars PROVE DemoInv'
  OBVIOUS
<1>1. CASE UNCHANGED demoVars
  BY <1>1 DEF demoVars, DemoInv, DemoType, OneReviewer, NothingIsReviewersOwn, ReviewerDecides
<1>2. CASE Reset
  <2>1. IsSeeded'
    BY <1>2 DEF Reset, IsSeeded
  <2>2. QED
    BY <2>1, SeededStore, PTL
<1>3. ASSUME NEW user \in Users, NEW m \in NewMatters, NEW r \in Users,
             CreateMatter(user, m, r)
      PROVE  DemoInv'
  BY <1>3, CreateMatterStep
<1>4. ASSUME NEW user \in Users, NEW m \in Matters, NEW file \in Files, NEW k \in Keys,
             NEW d \in NewDocuments, EnqueueDocument(user, d, m, file, k)
      PROVE  DemoInv'
  BY <1>4, EnqueueStep
<1>5. ASSUME NEW user \in Users, NEW m \in Matters, NEW file \in Files, NEW k \in Keys,
             Deduplicate(user, m, file, k)
      PROVE  DemoInv'
  BY <1>5, DeduplicateStep
<1>6. ASSUME NEW user \in Users, NEW m \in Matters, NEW t \in NewTargets,
             CreateWorkpaperDraft(user, m, t)
      PROVE  DemoInv'
  BY <1>6, DraftStep
<1>7. ASSUME NEW user \in Users, NEW d \in Documents, NEW decision \in DemoDecisions,
             DecideEvidence(user, d, decision)
      PROVE  DemoInv'
  BY <1>7, DecideEvidenceStep
<1>8. ASSUME NEW user \in Users, NEW t \in Targets, NEW decision \in DemoDecisions,
             SetReviewDecision(user, t, decision)
      PROVE  DemoInv'
  BY <1>8, SetReviewDecisionStep
<1>9. QED
  BY <1>1, <1>2, <1>3, <1>4, <1>5, <1>6, <1>7, <1>8 DEF DemoNext

\* demo-store.ts:677: nobody decides on a workpaper or on evidence of their own,
\* although neither function of the demo store compares the two users.
THEOREM NobodyDecidesOnOwn == DemoSpec => []FourEyes
<1>1. DemoInv => FourEyes
  BY FixturesAssumption DEF DemoInv, NothingIsReviewersOwn, ReviewerDecides, FourEyes
<1>2. QED
  BY <1>1, InitDemo, DemoStep, PTL DEF DemoSpec

-----------------------------------------------------------------------------
(***************************************************************************)
(* PagedQuery, for any queries and any number of fetches                   *)
(*                                                                         *)
(* What was read for the current click is no older than the click, in what *)
(* is shown and in every fetch under way.                                  *)
(***************************************************************************)

Fetch ==
  [query : Queries, retry : Nat, at : {"timer", "sent", "served"}, read : Nat,
   aborted : BOOLEAN]

PagedType ==
  /\ rows \in Nat /\ clicked \in Nat /\ retry \in Nat
  /\ query \in Queries
  /\ state \in [query : Queries, retry : Nat, read : Nat]
  /\ fetches \in Seq(Fetch)

\* What was read for the current click is no older than the click; nothing is
\* known of what was read for an earlier one.
FreshFor(r, read) == r <= retry /\ (r = retry => read = 0 \/ read >= clicked)

PagedInv ==
  /\ PagedType
  /\ clicked <= rows
  /\ FreshFor(state.retry, state.read)
  /\ \A n \in DOMAIN fetches : FreshFor(fetches[n].retry, fetches[n].read)

LEMMA InitPaged == PagedInit => PagedInv
  BY DEF PagedInit, PagedInv, PagedType, FreshFor, Fetch

\* The effect aborts fetches and may add one that has read nothing yet.
LEMMA EffectKeeps ==
  ASSUME PagedType, NEW q \in Queries, NEW r \in Nat, NEW shown, Effect(q, r, shown)
  PROVE  /\ fetches' \in Seq(Fetch)
         /\ \A n \in DOMAIN fetches' :
              \/ /\ n \in DOMAIN fetches
                 /\ fetches'[n].retry = fetches[n].retry
                 /\ fetches'[n].read = fetches[n].read
              \/ fetches'[n].retry = r /\ fetches'[n].read = 0
<1> DEFINE aborted == [n \in DOMAIN fetches |-> [fetches[n] EXCEPT !.aborted = TRUE]]
           begun == [query |-> q, retry |-> r, at |-> "timer", read |-> 0, aborted |-> FALSE]
<1>1. fetches' = aborted \/ fetches' = Append(aborted, begun)
  BY DEF Effect
<1>2. begun \in Fetch /\ begun.retry = r /\ begun.read = 0
  BY DEF Fetch
<1>3. /\ aborted \in Seq(Fetch) /\ Len(aborted) = Len(fetches)
      /\ DOMAIN aborted = DOMAIN fetches
      /\ \A n \in DOMAIN fetches :
           aborted[n].retry = fetches[n].retry /\ aborted[n].read = fetches[n].read
  <2>1. /\ fetches \in Seq(Fetch) /\ DOMAIN fetches = 1..Len(fetches) /\ Len(fetches) \in Nat
        /\ \A n \in DOMAIN fetches : fetches[n] \in Fetch
    BY DEF PagedType
  <2>2. \A n \in DOMAIN fetches : aborted[n] = [fetches[n] EXCEPT !.aborted = TRUE]
    OBVIOUS
  <2>3. \A n \in DOMAIN fetches :
          aborted[n] \in Fetch /\ aborted[n].retry = fetches[n].retry
          /\ aborted[n].read = fetches[n].read
    BY <2>1, <2>2 DEF Fetch
  <2>4. DOMAIN aborted = DOMAIN fetches /\ aborted = [n \in DOMAIN fetches |-> aborted[n]]
    OBVIOUS
  <2> HIDE DEF aborted
  <2>5. aborted \in [1..Len(fetches) -> Fetch]
    BY <2>1, <2>3, <2>4
  <2>6. aborted \in Seq(Fetch) /\ Len(aborted) = Len(fetches)
    BY <2>1, <2>5
  <2>7. QED
    BY <2>3, <2>4, <2>6
<1> HIDE DEF aborted, begun
<1>4. QED
  BY <1>1, <1>2, <1>3

LEMMA ShowStep == ASSUME PagedInv, NEW n \in DOMAIN fetches, Show(n) PROVE PagedInv'
<1>1. PICK read \in {0, fetches[n].read} :
        state' = [query |-> fetches[n].query, retry |-> fetches[n].retry, read |-> read]
  BY DEF Show
<1>2. fetches[n] \in Fetch /\ FreshFor(fetches[n].retry, fetches[n].read)
  BY DEF PagedInv, PagedType
<1>3. /\ state' \in [query : Queries, retry : Nat, read : Nat]
      /\ FreshFor(state'.retry, state'.read)
  BY <1>1, <1>2 DEF Fetch, FreshFor
<1>4. UNCHANGED <<rows, query, retry, clicked>> /\ Effect(query, retry, state')
  BY DEF Show
<1>5. /\ fetches' \in Seq(Fetch)
      /\ \A m \in DOMAIN fetches' :
           \/ /\ m \in DOMAIN fetches
              /\ fetches'[m].retry = fetches[m].retry
              /\ fetches'[m].read = fetches[m].read
           \/ fetches'[m].retry = retry /\ fetches'[m].read = 0
  BY <1>4, EffectKeeps DEF PagedInv, PagedType
<1>6. QED
  BY <1>3, <1>4, <1>5 DEF PagedInv, PagedType, FreshFor

LEMMA ReloadStep == ASSUME PagedInv, reload PROVE PagedInv'
<1>1. /\ retry' = retry + 1 /\ clicked' = rows
      /\ UNCHANGED <<rows, query, state>> /\ Effect(query, retry', state)
  BY DEF reload
<1>2. /\ fetches' \in Seq(Fetch)
      /\ \A m \in DOMAIN fetches' :
           \/ /\ m \in DOMAIN fetches
              /\ fetches'[m].retry = fetches[m].retry
              /\ fetches'[m].read = fetches[m].read
           \/ fetches'[m].retry = retry' /\ fetches'[m].read = 0
  <2>1. PagedType /\ query \in Queries /\ retry' \in Nat
    BY <1>1 DEF PagedInv, PagedType
  <2> QED BY <1>1, <2>1, EffectKeeps
<1>3. \A m \in DOMAIN fetches : fetches[m] \in Fetch
  BY DEF PagedInv, PagedType
<1>4. QED
  BY <1>1, <1>2, <1>3 DEF PagedInv, PagedType, FreshFor, Fetch

LEMMA ChooseStep == ASSUME PagedInv, NEW q \in Queries, Choose(q) PROVE PagedInv'
<1>1. query' = q /\ UNCHANGED <<rows, retry, state, clicked>> /\ Effect(q, retry, state)
  BY DEF Choose
<1>2. /\ fetches' \in Seq(Fetch)
      /\ \A m \in DOMAIN fetches' :
           \/ /\ m \in DOMAIN fetches
              /\ fetches'[m].retry = fetches[m].retry
              /\ fetches'[m].read = fetches[m].read
           \/ fetches'[m].retry = retry /\ fetches'[m].read = 0
  BY <1>1, EffectKeeps DEF PagedInv, PagedType
<1>3. QED
  BY <1>1, <1>2 DEF PagedInv, PagedType, FreshFor

\* The server reads rows no older than the last click.
LEMMA ServeStep ==
  ASSUME PagedInv, NEW n \in DOMAIN fetches, Fire(n) \/ Serve(n)
  PROVE  PagedInv'
<1>1. UNCHANGED <<rows, query, retry, state, clicked>>
  BY DEF Fire, Serve
<1>2. \/ fetches' = [fetches EXCEPT ![n].at = "sent"]
      \/ fetches' = [fetches EXCEPT ![n].at = "served", ![n].read = rows]
  BY DEF Fire, Serve
<1>3. fetches \in Seq(Fetch) /\ fetches[n] \in Fetch /\ rows \in Nat
  BY DEF PagedInv, PagedType
<1>4. PICK f \in Fetch :
        /\ fetches' = [fetches EXCEPT ![n] = f]
        /\ f.retry = fetches[n].retry /\ f.read \in {fetches[n].read, rows}
  <2>1. CASE fetches' = [fetches EXCEPT ![n].at = "sent"]
    <3> DEFINE f == [fetches[n] EXCEPT !.at = "sent"]
    <3>1. f \in Fetch /\ f.retry = fetches[n].retry /\ f.read = fetches[n].read
      BY <1>3 DEF Fetch
    <3>2. fetches' = [fetches EXCEPT ![n] = f]
      BY <2>1
    <3>3. QED
      BY <3>1, <3>2
  <2>2. CASE fetches' = [fetches EXCEPT ![n].at = "served", ![n].read = rows]
    <3> DEFINE f == [fetches[n] EXCEPT !.at = "served", !.read = rows]
    <3>1. f \in Fetch /\ f.retry = fetches[n].retry /\ f.read = rows
      BY <1>3 DEF Fetch
    <3>2. fetches' = [fetches EXCEPT ![n] = f]
      BY <2>2
    <3>3. QED
      BY <3>1, <3>2
  <2>3. QED
    BY <1>2, <2>1, <2>2
<1>5. /\ fetches' \in Seq(Fetch) /\ DOMAIN fetches' = DOMAIN fetches
      /\ fetches'[n] = f /\ \A m \in DOMAIN fetches \ {n} : fetches'[m] = fetches[m]
  BY <1>3, <1>4
<1>6. QED
  BY <1>1, <1>4, <1>5 DEF PagedInv, PagedType, FreshFor

LEMMA PagedStep == PagedInv /\ [PagedNext]_pagedVars => PagedInv'
<1> SUFFICES ASSUME PagedInv, [PagedNext]_pagedVars PROVE PagedInv'
  OBVIOUS
<1>1. CASE UNCHANGED pagedVars
  BY <1>1 DEF pagedVars, PagedInv, PagedType, FreshFor
<1>2. CASE Change
  BY <1>2 DEF Change, PagedInv, PagedType, FreshFor
<1>3. QED
  BY <1>1, <1>2, ReloadStep, ChooseStep, ServeStep, ShowStep DEF PagedNext

\* use-paged-query.ts:41: once a list is no longer loading, what it shows was read
\* after the last click on reload, whatever fetches were aborted or came late.
THEOREM ListsAreFresh == PagedSpec => []ReloadIsFresh
<1>1. PagedInv => ReloadIsFresh
  BY DEF PagedInv, PagedType, FreshFor, ReloadIsFresh, loading
<1>2. QED
  BY <1>1, InitPaged, PagedStep, PTL DEF PagedSpec

-----------------------------------------------------------------------------
(***************************************************************************)
(* RateLimit, for any number of requests, limit and window                 *)
(*                                                                         *)
(* Windows do not overlap and none has counted more than the limit; who    *)
(* was counted in which window is not in the row, so the invariant says    *)
(* that some numbering of the windows exists.                              *)
(***************************************************************************)

\* A set of numbers has a least one.
LEMMA LeastExists ==
  ASSUME NEW S, S \subseteq Nat, S # {}
  PROVE  \E i \in S : \A j \in S : i <= j
<1>1. PICK i \in S : \A j \in S : ~(<<j, i>> \in OpToRel(<, Nat))
  BY NatLessThanWellFounded, WFMin
<1>2. \A j \in S : ~(j < i)
  BY <1>1 DEF OpToRel
<1>3. QED
  BY <1>2

\* Two sets have no more elements together than each has.
LEMMA UnionCount ==
  ASSUME NEW S, NEW T, IsFiniteSet(S), IsFiniteSet(T)
  PROVE  /\ IsFiniteSet(S \cup T) /\ Cardinality(S \cup T) \in Nat
         /\ Cardinality(S \cup T) <= Cardinality(S) + Cardinality(T)
<1>1. /\ IsFiniteSet(S \cup T) /\ IsFiniteSet(S \cap T)
      /\ Cardinality(S \cup T) = Cardinality(S) + Cardinality(T) - Cardinality(S \cap T)
  BY FS_Union, FS_Intersection
<1>2. Cardinality(S) \in Nat /\ Cardinality(T) \in Nat /\ Cardinality(S \cap T) \in Nat
        /\ Cardinality(S \cup T) \in Nat
  BY <1>1, FS_CardinalityType
<1> QED BY <1>1, <1>2

RateTypes ==
  /\ shared \in BOOLEAN /\ clock \in Nat /\ started \in Nat /\ count \in Nat
  /\ began \in [Requests -> Nat]
  /\ verdict \in [Requests -> {"none", "admitted", "refused"}]

Wait == IF shared THEN MaxWait ELSE 0

\* No request is from the future, and none that waits is older than its wait.
Clocks ==
  /\ clock > 0 /\ started <= clock
  /\ \A q \in Requests : began[q] <= clock
  /\ \A q \in Waiting : shared /\ clock <= began[q] + MaxWait
  /\ \A q \in Requests : verdict[q] # "none" => began[q] # 0

\* The windows so far, numbered: window i starts at s[i], and e[q] is the window
\* an admitted request was counted in. The row has kept only the last of them.
Members(e, i) == {q \in Requests : verdict[q] = "admitted" /\ e[q] = i}
Windows(n, s, e) ==
  /\ n \in Nat /\ s \in [Nat -> Nat] /\ e \in [Requests -> Nat]
  /\ n = 0 <=> count = 0
  /\ n > 0 => /\ started = s[n]
              /\ Cardinality(Members(e, n)) = IF count <= Limit THEN count ELSE Limit
  /\ \A i \in 1..n : \A j \in 1..n : i < j => s[i] + Window <= s[j]
  /\ \A i \in 1..n : /\ Cardinality(Members(e, i)) <= Limit
                     /\ \E q \in Members(e, i) : began[q] = s[i]
  /\ \A q \in Requests : verdict[q] = "admitted" =>
       /\ e[q] \in 1..n
       /\ s[e[q]] <= began[q] + Wait /\ began[q] < s[e[q]] + Window

RateInv ==
  /\ RateTypes /\ Clocks /\ RefusedForCause
  /\ \E n, s, e : Windows(n, s, e)

LEMMA RequestsFinite ==
  \A S \in SUBSET Requests : IsFiniteSet(S) /\ Cardinality(S) \in Nat
<1>1. IsFiniteSet(Requests)
  BY RateAssumption, FS_Interval DEF Requests
<1> QED BY <1>1, FS_Subset, FS_CardinalityType

LEMMA WaitIsNumber == RateTypes => Wait \in Nat /\ Wait <= Window
  BY RateAssumption DEF RateTypes, Wait

\* Why request q is refused: what was admitted around it, with verdicts v, times
\* b and a wait of w.
Around(v, b, w, q) ==
  {r \in Requests :
     v[r] = "admitted" /\ b[r] \in (IF b[q] + 1 > Window + w THEN b[q] + 1 - Window - w ELSE 0)..(b[q] + w)}
Caused(v, b, w) ==
  \A q \in Requests : v[q] = "refused" => Cardinality(Around(v, b, w, q)) >= Limit

LEMMA CausedIsCause ==
  /\ RefusedForCause <=> Caused(verdict, began, Wait)
  /\ RefusedForCause' <=> Caused(verdict', began', Wait')
<1>1. RefusedForCause <=> Caused(verdict, began, Wait)
  BY DEF RefusedForCause, Caused, Around, Admitted, Wait
<1>2. RefusedForCause' <=> Caused(verdict', began', Wait')
  BY DEF RefusedForCause, Caused, Around, Admitted, Wait
<1> QED BY <1>1, <1>2

\* Requests that were admitted stay so.
Follow(v, b, u, c, w) ==
  \A q \in Requests :
    /\ v[q] = "admitted" => u[q] = "admitted" /\ c[q] = b[q]
    /\ u[q] = "refused" => \/ v[q] = "refused" /\ c[q] = b[q]
                           \/ Cardinality(Around(u, c, w, q)) >= Limit

LEMMA CauseStays ==
  ASSUME NEW v, NEW b, NEW u, NEW c, NEW w, Caused(v, b, w), Follow(v, b, u, c, w)
  PROVE  Caused(u, c, w)
<1> SUFFICES ASSUME NEW q \in Requests, v[q] = "refused", c[q] = b[q]
             PROVE  Cardinality(Around(u, c, w, q)) >= Limit
  BY DEF Caused, Follow
<1> DEFINE S == Around(v, b, w, q)
           T == Around(u, c, w, q)
<1>1. S \subseteq T /\ T \in SUBSET Requests
  BY DEF Around, Follow
<1>2. Cardinality(S) >= Limit
  BY DEF Caused
<1> HIDE DEF S, T
<1>3. IsFiniteSet(T) /\ Cardinality(S) \in Nat /\ Cardinality(T) \in Nat
  BY <1>1, RequestsFinite
<1>4. Cardinality(S) <= Cardinality(T)
  BY <1>1, <1>3, FS_Subset
<1>5. Cardinality(T) >= Limit
  BY <1>2, <1>3, <1>4, RateAssumption
<1> QED BY <1>5 DEF T

-----------------------------------------------------------------------------
(* Steps                                                                   *)

\* Steps that answer no request.
LEMMA NoAnswer ==
  ASSUME RateInv, RateTypes', Clocks', UNCHANGED <<shared, started, count, verdict>>,
         \A q \in Requests : verdict[q] # "none" => began'[q] = began[q]
  PROVE  RateInv'
<1> PICK n, s, e : Windows(n, s, e)
  BY DEF RateInv
<1>1. Wait' = Wait
  BY DEF Wait
<1>2. RefusedForCause'
  <2>1. Caused(verdict, began, Wait)
    BY CausedIsCause DEF RateInv
  <2>2. Follow(verdict, began, verdict', began', Wait)
    BY DEF Follow
  <2>4. Caused(verdict', began', Wait)
    BY <2>1, <2>2, CauseStays
  <2>3. RefusedForCause' <=> Caused(verdict', began', Wait')
    BY CausedIsCause
  <2> QED BY <1>1, <2>3, <2>4
<1>3. \A i : Members(e, i)' = Members(e, i)
  BY DEF Members
<1>4. \A i : \A q \in Members(e, i) : began'[q] = began[q]
  BY DEF Members
<1>5. Windows(n, s, e)'
  BY <1>1, <1>3, <1>4 DEF Windows
<1> QED BY <1>2, <1>5 DEF RateInv

\* A request is the first of a new window.
LEMMA Restarted ==
  ASSUME RateInv, RateTypes', Clocks', NEW q \in Requests, NEW t \in Nat, verdict[q] = "none",
         Restarts(t), shared' = shared, started' = t, count' = 1,
         began' = [began EXCEPT ![q] = t], verdict' = [verdict EXCEPT ![q] = "admitted"]
  PROVE  RateInv'
<1> PICK n, s, e : Windows(n, s, e)
  BY DEF RateInv
<1> DEFINE m == n + 1
           f == [e EXCEPT ![q] = m]
           z == [s EXCEPT ![m] = t]
<1>0. RateTypes /\ began \in [Requests -> Nat] /\ Wait \in Nat /\ Wait' = Wait
  BY WaitIsNumber DEF RateInv, RateTypes, Wait
<1>1. /\ \A r \in Requests : r # q => verdict'[r] = verdict[r] /\ began'[r] = began[r]
      /\ verdict'[q] = "admitted" /\ began'[q] = t
  BY <1>0 DEF RateTypes
<1>2. RefusedForCause'
  <2>1. Caused(verdict, began, Wait)
    BY CausedIsCause DEF RateInv
  <2>2. Follow(verdict, began, verdict', began', Wait)
    BY <1>1 DEF Follow
  <2>4. Caused(verdict', began', Wait)
    BY <2>1, <2>2, CauseStays
  <2>3. RefusedForCause' <=> Caused(verdict', began', Wait')
    BY CausedIsCause
  <2> QED BY <1>0, <2>3, <2>4
<1>3. /\ n \in Nat /\ m \in Nat /\ s \in [Nat -> Nat] /\ e \in [Requests -> Nat]
      /\ \A r \in Requests : verdict[r] = "admitted" => e[r] \in 1..n
      /\ 1..m = 1..n \cup {m} /\ m \notin 1..n
  BY DEF Windows
<1>4. /\ z \in [Nat -> Nat] /\ z[m] = t /\ \A i \in 1..n : z[i] = s[i]
      /\ f \in [Requests -> Nat] /\ f[q] = m /\ \A r \in Requests : r # q => f[r] = e[r]
  BY <1>3
<1> HIDE DEF m, f, z
<1>5. \A i \in 1..n : Members(f, i)' = Members(e, i)
  BY <1>1, <1>3, <1>4 DEF Members
<1>6. Members(f, m)' = {q}
  BY <1>1, <1>3, <1>4 DEF Members
<1>7. Cardinality(Members(f, m)') = 1
  BY <1>6, FS_Singleton
<1>8. \A i \in 1..n : s[i] + Window <= t
  <2> SUFFICES ASSUME NEW i \in 1..n PROVE s[i] + Window <= t
    OBVIOUS
  <2>1. s[n] + Window <= t /\ n \in 1..n
    BY <1>3 DEF Windows, Restarts
  <2>2. i < n => s[i] + Window <= s[n]
    BY <2>1 DEF Windows
  <2>3. s[i] \in Nat /\ s[n] \in Nat /\ (i < n \/ i = n)
    BY <1>3
  <2> QED BY <2>1, <2>2, <2>3, RateAssumption
<1>9. Windows(m, z, f)'
  <2>1. m > 0 /\ m # 0
    BY <1>3 DEF m
  <2>2. m > 0 => /\ started' = z[m]
                 /\ Cardinality(Members(f, m)') = IF count' <= Limit THEN count' ELSE Limit
    BY <1>4, <1>7, RateAssumption
  <2>3. ASSUME NEW i \in 1..m, NEW j \in 1..m, i < j PROVE z[i] + Window <= z[j]
    <3>1. i \in 1..n
      BY <1>3, <2>3 DEF m
    <3>2. CASE j \in 1..n
      BY <1>4, <2>3, <3>1, <3>2 DEF Windows
    <3>3. CASE j = m
      BY <1>4, <1>8, <3>1, <3>3
    <3> QED BY <1>3, <3>2, <3>3
  <2>4. ASSUME NEW i \in 1..m
        PROVE  /\ Cardinality(Members(f, i)') <= Limit
               /\ \E r \in Members(f, i)' : began'[r] = z[i]
    <3>1. CASE i \in 1..n
      <4>1. Cardinality(Members(f, i)') <= Limit
        BY <1>5, <3>1 DEF Windows
      <4>2. PICK r \in Members(e, i) : began[r] = s[i]
        BY <3>1 DEF Windows
      <4>3. r \in Members(f, i)' /\ r # q /\ r \in Requests
        BY <1>5, <3>1, <4>2 DEF Members
      <4>4. began'[r] = z[i]
        BY <1>1, <1>4, <3>1, <4>2, <4>3
      <4> QED BY <4>1, <4>3, <4>4
    <3>2. CASE i = m
      <4>1. Cardinality(Members(f, m)') <= Limit
        BY <1>7, RateAssumption
      <4>2. q \in Members(f, m)' /\ began'[q] = z[m]
        BY <1>1, <1>4, <1>6
      <4> QED BY <3>2, <4>1, <4>2
    <3> QED BY <1>3, <3>1, <3>2
  <2>5. ASSUME NEW r \in Requests, verdict'[r] = "admitted"
        PROVE  /\ f[r] \in 1..m
               /\ z[f[r]] <= began'[r] + Wait /\ began'[r] < z[f[r]] + Window
    <3>1. CASE r = q
      <4>1. f[r] \in 1..m /\ z[f[r]] = t /\ began'[r] = t
        BY <1>1, <1>3, <1>4, <3>1
      <4> QED BY <1>0, <4>1, RateAssumption
    <3>2. CASE r # q
      <4>1. e[r] \in 1..n /\ s[e[r]] <= began[r] + Wait /\ began[r] < s[e[r]] + Window
        BY <1>1, <2>5, <3>2 DEF Windows
      <4>2. f[r] = e[r] /\ z[f[r]] = s[e[r]] /\ began'[r] = began[r] /\ f[r] \in 1..m
        BY <1>1, <1>3, <1>4, <3>2, <4>1
      <4> QED BY <4>1, <4>2
    <3> QED BY <3>1, <3>2
  <2>6. m = 0 <=> count' = 0
    BY <2>1
  <2> QED BY <1>0, <1>3, <1>4, <2>2, <2>3, <2>4, <2>5, <2>6 DEF Windows
<1> QED BY <1>2, <1>9 DEF RateInv

\* A request is counted in the window of the row, and admitted.
LEMMA Counted ==
  ASSUME RateInv, RateTypes', Clocks', NEW q \in Requests, NEW t \in Nat, verdict[q] = "none",
         ~Restarts(t), shared' = shared, started' = started, count' = count + 1,
         count + 1 <= Limit, started <= t + Wait,
         began' = [began EXCEPT ![q] = t], verdict' = [verdict EXCEPT ![q] = "admitted"]
  PROVE  RateInv'
<1> PICK n, s, e : Windows(n, s, e)
  BY DEF RateInv
<1> DEFINE f == [e EXCEPT ![q] = n]
<1>0. RateTypes /\ began \in [Requests -> Nat] /\ Wait \in Nat /\ Wait' = Wait
        /\ count \in Nat /\ started \in Nat
  BY WaitIsNumber DEF RateInv, RateTypes, Wait
<1>1. /\ \A r \in Requests : r # q => verdict'[r] = verdict[r] /\ began'[r] = began[r]
      /\ verdict'[q] = "admitted" /\ began'[q] = t
  BY <1>0 DEF RateTypes
<1>2. RefusedForCause'
  <2>1. Caused(verdict, began, Wait)
    BY CausedIsCause DEF RateInv
  <2>2. Follow(verdict, began, verdict', began', Wait)
    BY <1>1 DEF Follow
  <2>4. Caused(verdict', began', Wait)
    BY <2>1, <2>2, CauseStays
  <2>3. RefusedForCause' <=> Caused(verdict', began', Wait')
    BY CausedIsCause
  <2> QED BY <1>0, <2>3, <2>4
<1>3. /\ count # 0 /\ t < started + Window
  BY <1>0, RateAssumption DEF Restarts
<1>4. /\ n \in Nat /\ n > 0 /\ n \in 1..n /\ s \in [Nat -> Nat] /\ e \in [Requests -> Nat]
      /\ started = s[n] /\ Cardinality(Members(e, n)) = count
  BY <1>0, <1>3, RateAssumption DEF Windows
<1>5. f \in [Requests -> Nat] /\ f[q] = n /\ \A r \in Requests : r # q => f[r] = e[r]
  BY <1>4
<1> HIDE DEF f
<1>6. \A i \in 1..n : i # n => Members(f, i)' = Members(e, i)
  BY <1>1, <1>5 DEF Members
<1>7. Members(f, n)' = Members(e, n) \cup {q} /\ q \notin Members(e, n)
  BY <1>1, <1>5 DEF Members
<1>8. Cardinality(Members(f, n)') = count + 1
  <2>1. IsFiniteSet(Members(e, n))
    BY RequestsFinite DEF Members
  <2> QED BY <1>4, <1>7, <2>1, FS_AddElement
<1>9. Windows(n, s, f)'
  <2>1. n = 0 <=> count' = 0
    BY <1>0, <1>4
  <2>2. n > 0 => /\ started' = s[n]
                 /\ Cardinality(Members(f, n)') = IF count' <= Limit THEN count' ELSE Limit
    BY <1>4, <1>8
  <2>3. ASSUME NEW i \in 1..n
        PROVE  /\ Cardinality(Members(f, i)') <= Limit
               /\ \E r \in Members(f, i)' : began'[r] = s[i]
    <3>1. Cardinality(Members(f, i)') <= Limit
      BY <1>6, <1>8 DEF Windows
    <3>2. PICK r \in Members(e, i) : began[r] = s[i]
      BY DEF Windows
    <3>3. r \in Members(f, i)' /\ r # q /\ r \in Requests
      BY <1>6, <1>7, <3>2 DEF Members
    <3> QED BY <1>1, <3>1, <3>2, <3>3
  <2>4. ASSUME NEW r \in Requests, verdict'[r] = "admitted"
        PROVE  /\ f[r] \in 1..n
               /\ s[f[r]] <= began'[r] + Wait /\ began'[r] < s[f[r]] + Window
    <3>1. CASE r = q
      BY <1>1, <1>3, <1>4, <1>5, <3>1
    <3>2. CASE r # q
      <4>1. e[r] \in 1..n /\ s[e[r]] <= began[r] + Wait /\ began[r] < s[e[r]] + Window
        BY <1>1, <2>4, <3>2 DEF Windows
      <4> QED BY <1>1, <1>5, <3>2, <4>1
    <3> QED BY <3>1, <3>2
  <2>5. \A i \in 1..n : \A j \in 1..n : i < j => s[i] + Window <= s[j]
    BY DEF Windows
  <2> QED BY <1>0, <1>4, <1>5, <2>1, <2>2, <2>3, <2>4, <2>5 DEF Windows
<1> QED BY <1>2, <1>9 DEF RateInv

\* A request is refused: the window of the row has admitted as many as the
\* limit, none of them later than the request may have waited.
LEMMA Refused ==
  ASSUME RateInv, RateTypes', Clocks', NEW q \in Requests, NEW t \in Nat, verdict[q] = "none",
         ~Restarts(t), shared' = shared, started' = started, count' \in {count, count + 1},
         count >= Limit, started <= t + Wait, clock <= t + Wait,
         began' = [began EXCEPT ![q] = t], verdict' = [verdict EXCEPT ![q] = "refused"]
  PROVE  RateInv'
<1> PICK n, s, e : Windows(n, s, e)
  BY DEF RateInv
<1>0. RateTypes /\ began \in [Requests -> Nat] /\ Wait \in Nat /\ Wait' = Wait
        /\ count \in Nat /\ started \in Nat /\ clock \in Nat
  BY WaitIsNumber DEF RateInv, RateTypes, Wait
<1>1. /\ \A r \in Requests : r # q => verdict'[r] = verdict[r] /\ began'[r] = began[r]
      /\ verdict'[q] = "refused" /\ began'[q] = t
  BY <1>0 DEF RateTypes
<1>2. /\ count # 0 /\ t < started + Window
  BY <1>0, RateAssumption DEF Restarts
<1>3. /\ n \in Nat /\ n > 0 /\ s \in [Nat -> Nat] /\ e \in [Requests -> Nat]
      /\ started = s[n] /\ Cardinality(Members(e, n)) = Limit
  BY <1>0, <1>2, RateAssumption DEF Windows
<1>4. \A i : Members(e, i)' = Members(e, i)
  BY <1>1 DEF Members
<1>5. \A i : \A r \in Members(e, i) : r \in Requests /\ r # q /\ began'[r] = began[r]
  BY <1>1 DEF Members
<1>6. Members(e, n) \subseteq Around(verdict', began', Wait, q)
  <2> SUFFICES ASSUME NEW r \in Members(e, n) PROVE r \in Around(verdict', began', Wait, q)
    OBVIOUS
  <2>1. /\ r \in Requests /\ verdict'[r] = "admitted" /\ verdict[r] = "admitted" /\ e[r] = n
        /\ began'[r] = began[r] /\ began[r] \in Nat
    BY <1>0, <1>1, <1>5 DEF Members
  <2>2. began[r] <= t + Wait
    BY <1>0, <2>1 DEF RateInv, Clocks
  <2>3. started <= began[r] + Wait
    BY <1>3, <2>1 DEF Windows
  <2>4. t + 1 <= Window + Wait + began[r]
    BY <1>0, <1>2, <2>1, <2>3, RateAssumption
  <2>5. began[r] \in (IF t + 1 > Window + Wait THEN t + 1 - Window - Wait ELSE 0)..(t + Wait)
    <3>1. t + 1 - Window - Wait <= began[r]
      BY <1>0, <2>1, <2>4, RateAssumption
    <3> QED BY <1>0, <2>1, <2>2, <3>1, RateAssumption
  <2> QED BY <1>1, <2>1, <2>5 DEF Around
<1>7. Cardinality(Around(verdict', began', Wait, q)) >= Limit
  <2> DEFINE A == Around(verdict', began', Wait, q)
             M == Members(e, n)
  <2>1. A \in SUBSET Requests
    BY DEF Around
  <2> HIDE DEF A, M
  <2>2. IsFiniteSet(A) /\ Cardinality(A) \in Nat
    BY <2>1, RequestsFinite
  <2>3. Cardinality(M) <= Cardinality(A) /\ Cardinality(M) = Limit
    BY <1>3, <1>6, <2>2, FS_Subset DEF A, M
  <2>4. Cardinality(A) >= Limit
    BY <2>2, <2>3, RateAssumption
  <2> QED BY <2>4 DEF A
<1>8. RefusedForCause'
  <2>1. Caused(verdict, began, Wait)
    BY CausedIsCause DEF RateInv
  <2>2. Follow(verdict, began, verdict', began', Wait)
    BY <1>1, <1>7 DEF Follow
  <2>4. Caused(verdict', began', Wait)
    BY <2>1, <2>2, CauseStays
  <2>3. RefusedForCause' <=> Caused(verdict', began', Wait')
    BY CausedIsCause
  <2> QED BY <1>0, <2>3, <2>4
<1>9. Windows(n, s, e)'
  <2>1. n = 0 <=> count' = 0
    BY <1>0, <1>2, <1>3
  <2>2. n > 0 => /\ started' = s[n]
                 /\ Cardinality(Members(e, n)') = IF count' <= Limit THEN count' ELSE Limit
    BY <1>0, <1>3, <1>4, RateAssumption
  <2>3. \A i \in 1..n : /\ Cardinality(Members(e, i)') <= Limit
                        /\ \E r \in Members(e, i)' : began'[r] = s[i]
    BY <1>4, <1>5 DEF Windows
  <2>4. \A r \in Requests : verdict'[r] = "admitted" =>
          /\ e[r] \in 1..n
          /\ s[e[r]] <= began'[r] + Wait /\ began'[r] < s[e[r]] + Window
    BY <1>1 DEF Windows
  <2>5. \A i \in 1..n : \A j \in 1..n : i < j => s[i] + Window <= s[j]
    BY DEF Windows
  <2> QED BY <1>0, <1>3, <2>1, <2>2, <2>3, <2>4, <2>5 DEF Windows
<1> QED BY <1>8, <1>9 DEF RateInv

LEMMA RateTypesStep ==
  ASSUME RateTypes, Clocks, [RateNext]_rateVars PROVE RateTypes' /\ Clocks'
<1> USE RateAssumption DEF RateTypes, Clocks, Waiting
<1>1. CASE Tick
  BY <1>1 DEF Tick
<1>2. ASSUME NEW q \in Requests, BeginRequest(q) PROVE RateTypes' /\ Clocks'
  BY <1>2 DEF BeginRequest, Arrives
<1>3. ASSUME NEW q \in Requests, Upsert(q) PROVE RateTypes' /\ Clocks'
  <2>1. /\ verdict' = [verdict EXCEPT ![q] = IF count' <= Limit THEN "admitted" ELSE "refused"]
        /\ UNCHANGED <<shared, clock, began>> /\ began[q] # 0
        /\ \/ started' = began[q] /\ count' = 1
           \/ started' = started /\ count' = count + 1
    BY <1>3 DEF Upsert, SetVerdict
  <2>2. RateTypes'
    BY <2>1
  <2>3. Clocks'
    BY <2>1
  <2> QED BY <2>2, <2>3
<1>4. ASSUME NEW q \in Requests, Memory(q) PROVE RateTypes' /\ Clocks'
  <2>1. PICK v \in {"admitted", "refused"} : verdict' = [verdict EXCEPT ![q] = v]
    BY <1>4 DEF Memory, SetVerdict
  <2>2. /\ began' = [began EXCEPT ![q] = clock] /\ UNCHANGED <<shared, clock>> /\ ~shared
        /\ \/ started' = clock /\ count' = 1
           \/ started' = started /\ count' \in {count, count + 1}
    BY <1>4 DEF Memory
  <2>3. RateTypes'
    BY <2>1, <2>2
  <2>4. Clocks'
    BY <2>1, <2>2
  <2> QED BY <2>3, <2>4
<1>5. CASE UNCHANGED rateVars
  BY <1>5 DEF rateVars
<1> QED BY <1>1, <1>2, <1>3, <1>4, <1>5 DEF RateNext

LEMMA RateStep == RateInv /\ [RateNext]_rateVars => RateInv'
<1> SUFFICES ASSUME RateInv, [RateNext]_rateVars PROVE RateInv'
  OBVIOUS
<1>0. RateTypes /\ Clocks /\ RateTypes' /\ Clocks'
  BY RateTypesStep DEF RateInv
<1>1. CASE Tick
  BY <1>0, <1>1, NoAnswer DEF Tick
<1>2. ASSUME NEW q \in Requests, BeginRequest(q) PROVE RateInv'
  <2>1. \A r \in Requests : verdict[r] # "none" => began'[r] = began[r]
    BY <1>0, <1>2 DEF BeginRequest, Arrives, Clocks, RateTypes
  <2> QED BY <1>0, <1>2, <2>1, NoAnswer DEF BeginRequest
<1>3. ASSUME NEW q \in Requests, Upsert(q) PROVE RateInv'
  <2> DEFINE t == began[q]
  <2>1. /\ verdict[q] = "none" /\ t \in Nat /\ shared /\ clock <= t + MaxWait
        /\ UNCHANGED <<shared, clock, began>>
        /\ verdict' = [verdict EXCEPT ![q] = IF count' <= Limit THEN "admitted" ELSE "refused"]
        /\ IF Restarts(t) THEN started' = t /\ count' = 1
           ELSE started' = started /\ count' = count + 1
    BY <1>0, <1>3 DEF Upsert, SetVerdict, Waiting, RateTypes, Clocks
  <2>2. began' = [began EXCEPT ![q] = t]
    BY <1>0, <2>1 DEF RateTypes
  <2>3. /\ count \in Nat /\ started \in Nat /\ clock \in Nat /\ started <= clock
        /\ Wait = MaxWait
    BY <1>0, <2>1 DEF RateTypes, Clocks, Wait
  <2>4. started <= t + Wait /\ clock <= t + Wait
    BY <2>1, <2>3, RateAssumption
  <2> HIDE DEF t
  <2>5. CASE Restarts(t)
    <3>1. count' = 1 /\ 1 <= Limit
      BY <2>1, <2>5, RateAssumption
    <3>2. verdict' = [verdict EXCEPT ![q] = IF 1 <= Limit THEN "admitted" ELSE "refused"]
      BY <2>1, <3>1
    <3>3. verdict' = [verdict EXCEPT ![q] = "admitted"]
      <4>1. (IF 1 <= Limit THEN "admitted" ELSE "refused") = "admitted"
        BY <3>1
      <4> QED BY <3>2, <4>1
    <3> QED BY <1>0, <2>1, <2>2, <2>5, <3>1, <3>3, Restarted
  <2>6. CASE ~Restarts(t) /\ count + 1 <= Limit
    BY <1>0, <2>1, <2>2, <2>4, <2>6, Counted
  <2>7. CASE ~Restarts(t) /\ ~(count + 1 <= Limit)
    <3>1. count >= Limit /\ verdict' = [verdict EXCEPT ![q] = "refused"] /\ count' = count + 1
            /\ started' = started
      BY <2>1, <2>3, <2>7, RateAssumption
    <3> QED BY <1>0, <2>1, <2>2, <2>4, <2>7, <3>1, Refused
  <2> QED BY <2>5, <2>6, <2>7
<1>4. ASSUME NEW q \in Requests, Memory(q) PROVE RateInv'
  <2>1. /\ verdict[q] = "none" /\ clock \in Nat /\ UNCHANGED <<shared, clock>> /\ ~shared
        /\ began' = [began EXCEPT ![q] = clock]
    BY <1>0, <1>4 DEF Memory, Arrives, RateTypes, Clocks
  <2>2. /\ count \in Nat /\ started \in Nat /\ Wait = 0
        /\ started <= clock + Wait /\ clock <= clock + Wait
    BY <1>0, <2>1 DEF RateTypes, Clocks, Wait
  <2>3. CASE Restarts(clock)
    <3>1. started' = clock /\ count' = 1 /\ verdict' = [verdict EXCEPT ![q] = "admitted"]
      BY <1>4, <2>3 DEF Memory, SetVerdict
    <3> QED BY <1>0, <2>1, <2>3, <3>1, Restarted
  <2>4. CASE ~Restarts(clock) /\ count < Limit
    <3>1. /\ started' = started /\ count' = count + 1 /\ count + 1 <= Limit
          /\ verdict' = [verdict EXCEPT ![q] = "admitted"]
      BY <1>4, <2>2, <2>4, RateAssumption DEF Memory, SetVerdict
    <3> QED BY <1>0, <2>1, <2>2, <2>4, <3>1, Counted
  <2>5. CASE ~Restarts(clock) /\ ~(count < Limit)
    <3>1. /\ started' = started /\ count' = count /\ count >= Limit
          /\ verdict' = [verdict EXCEPT ![q] = "refused"]
      BY <1>4, <2>2, <2>5, RateAssumption DEF Memory, SetVerdict
    <3> QED BY <1>0, <2>1, <2>2, <2>5, <3>1, Refused
  <2> QED BY <2>3, <2>4, <2>5
<1>5. CASE UNCHANGED rateVars
  BY <1>0, <1>5, NoAnswer DEF rateVars
<1> QED BY <1>1, <1>2, <1>3, <1>4, <1>5 DEF RateNext

LEMMA RateStart == RateInit => RateInv
<1> SUFFICES ASSUME RateInit PROVE RateInv
  OBVIOUS
<1> DEFINE s == [i \in Nat |-> 0]
           e == [q \in Requests |-> 0]
<1>1. RateTypes /\ Clocks
  BY DEF RateInit, RateTypes, Clocks, Waiting
<1>2. RefusedForCause /\ \A q \in Requests : verdict[q] = "none"
  BY DEF RateInit, RefusedForCause
<1>3. Windows(0, s, e)
  BY <1>2 DEF RateInit, Windows
<1> QED BY <1>1, <1>2, <1>3 DEF RateInv

-----------------------------------------------------------------------------
(* Bursts                                                                  *)

\* Of the windows that a stretch of the length of a window meets, three at most
\* and two without waiting, one at most begins inside: the others admitted their
\* first request before or after.
LEMMA BurstBound ==
  ASSUME RateInv, NEW from \in Nat
  PROVE  Admitted(from, from + Window - 1) <= IF shared THEN 3 * Limit - 2 ELSE 2 * Limit - 1
<1> PICK n, s, e : Windows(n, s, e)
  BY DEF RateInv
<1> DEFINE to == from + Window - 1
           A == {q \in Requests : verdict[q] = "admitted" /\ began[q] \in from..to}
           P(i) == {q \in A : e[q] = i}
           Inside(i) == i \in 1..n /\ s[i] \in from..to
<1>0. /\ RateTypes /\ began \in [Requests -> Nat] /\ shared \in BOOLEAN
      /\ Wait \in Nat /\ Wait <= Window /\ (~shared => Wait = 0)
      /\ n \in Nat /\ s \in [Nat -> Nat] /\ e \in [Requests -> Nat]
      /\ Limit \in Nat /\ Limit > 0 /\ Window \in Nat /\ Window > 0 /\ to \in Nat
  BY WaitIsNumber, RateAssumption DEF RateInv, RateTypes, Wait, Windows
<1>1. Admitted(from, from + Window - 1) = Cardinality(A)
  BY DEF Admitted
<1>2. \A q \in A : /\ q \in Requests /\ e[q] \in 1..n /\ began[q] \in from..to
                   /\ s[e[q]] <= began[q] + Wait /\ began[q] < s[e[q]] + Window
  BY DEF Windows
<1>3. \A i \in 1..n : \A j \in 1..n : i < j => s[i] + Window <= s[j]
  BY DEF Windows
<1>4. ASSUME NEW i \in Nat
      PROVE  /\ IsFiniteSet(P(i)) /\ Cardinality(P(i)) \in Nat
             /\ Cardinality(P(i)) <= Limit
             /\ ~Inside(i) => Cardinality(P(i)) <= Limit - 1
  <2>1. P(i) \in SUBSET Requests /\ Members(e, i) \in SUBSET Requests /\ P(i) \subseteq Members(e, i)
    BY DEF Members
  <2>2. IsFiniteSet(P(i)) /\ Cardinality(P(i)) \in Nat /\ IsFiniteSet(Members(e, i))
    BY <2>1, RequestsFinite
  <2>3. CASE i \notin 1..n
    <3>1. P(i) = {}
      BY <1>2, <2>3
    <3>2. Cardinality(P(i)) = 0
      BY <3>1, FS_EmptySet
    <3> QED BY <1>0, <2>2, <3>2
  <2>4. CASE i \in 1..n
    <3>1. Cardinality(Members(e, i)) <= Limit
      BY <2>4 DEF Windows
    <3>2. Cardinality(P(i)) <= Cardinality(Members(e, i)) /\ Cardinality(Members(e, i)) \in Nat
      <4> HIDE DEF P
      <4> QED BY <2>1, <2>2, FS_Subset, FS_CardinalityType
    <3>3. Cardinality(P(i)) <= Limit
      BY <1>0, <2>2, <3>1, <3>2
    <3>4. ASSUME ~Inside(i) PROVE Cardinality(P(i)) <= Limit - 1
      <4>1. PICK o \in Members(e, i) : began[o] = s[i]
        BY <2>4 DEF Windows
      <4>2. o \notin P(i)
        BY <2>4, <3>4, <4>1
      <4>3. P(i) \subseteq Members(e, i) \ {o}
        BY <2>1, <4>2
      <4>4. /\ IsFiniteSet(Members(e, i) \ {o})
            /\ Cardinality(Members(e, i) \ {o}) = Cardinality(Members(e, i)) - 1
        BY <2>2, <4>1, FS_RemoveElement
      <4>5. Cardinality(P(i)) <= Cardinality(Members(e, i) \ {o})
        <5> HIDE DEF P
        <5> QED BY <4>3, <4>4, FS_Subset
      <4> QED BY <1>0, <2>2, <3>1, <3>2, <4>4, <4>5
    <3> QED BY <2>2, <3>3, <3>4
  <2> QED BY <2>3, <2>4
<1>5. ASSUME NEW i \in Nat, NEW j \in Nat, i < j, Inside(i), Inside(j) PROVE FALSE
  BY <1>0, <1>3, <1>5
<1>6. CASE A = {}
  <2>1. Cardinality(A) = 0
    BY <1>6, FS_EmptySet
  <2> QED BY <1>0, <1>1, <2>1
<1>7. CASE A # {}
  <2> DEFINE K == {e[q] : q \in A}
  <2>1. K # {} /\ K \subseteq Nat /\ \A q \in A : e[q] \in K
    BY <1>0, <1>2, <1>7
  <2>2. PICK k \in K : \A j \in K : k <= j
    <3> HIDE DEF K
    <3> QED BY <2>1, LeastExists
  <2>3. PICK p \in A : e[p] = k
    BY <2>2
  <2>4. /\ k \in 1..n /\ k \in Nat /\ k + 1 \in Nat /\ k + 2 \in Nat
        /\ from < s[k] + Window
    BY <1>0, <1>2, <2>3
  <2> HIDE DEF A, K
  <2>5. ASSUME NEW q \in A, e[q] # k, e[q] # k + 1
        PROVE  e[q] = k + 2 /\ shared
    <3> DEFINE j == e[q]
    <3>1. j \in 1..n /\ j > k + 1 /\ s[j] <= to + Wait
      BY <1>0, <1>2, <2>1, <2>2, <2>4, <2>5
    <3>2. k + 1 \in 1..n /\ s[k] + Window <= s[k + 1] /\ s[k + 1] + Window <= s[j]
      BY <1>0, <1>3, <2>4, <3>1
    <3>3. shared
      BY <1>0, <2>4, <3>1, <3>2
    <3>4. ASSUME j # k + 2 PROVE FALSE
      <4>1. k + 2 \in 1..n /\ s[k + 1] + Window <= s[k + 2] /\ s[k + 2] + Window <= s[j]
        BY <1>0, <1>3, <2>4, <3>1, <3>2, <3>4
      <4>2. s[k] \in Nat /\ s[k + 1] \in Nat /\ s[k + 2] \in Nat /\ s[j] \in Nat
        BY <1>0, <2>4, <3>1
      <4> HIDE DEF j
      <4> QED BY <1>0, <2>4, <3>1, <3>2, <4>1, <4>2
    <3> QED BY <3>3, <3>4
  <2>6. /\ shared => A = (P(k) \cup P(k + 1)) \cup P(k + 2)
        /\ ~shared => A = P(k) \cup P(k + 1)
    BY <2>5
  <2> DEFINE a == Cardinality(P(k))
             b == Cardinality(P(k + 1))
             c == Cardinality(P(k + 2))
  <2>7. /\ a \in Nat /\ b \in Nat /\ c \in Nat /\ a <= Limit /\ b <= Limit /\ c <= Limit
        /\ ~Inside(k) => a <= Limit - 1
        /\ ~Inside(k + 1) => b <= Limit - 1
        /\ ~Inside(k + 2) => c <= Limit - 1
    BY <1>4, <2>4
  <2>8. /\ ~(Inside(k) /\ Inside(k + 1))
        /\ ~(Inside(k) /\ Inside(k + 2))
        /\ ~(Inside(k + 1) /\ Inside(k + 2))
    <3>1. k < k + 1 /\ k < k + 2 /\ k + 1 < k + 2
      BY <2>4
    <3> HIDE DEF Inside
    <3> QED BY <1>5, <2>4, <3>1
  <2>9. /\ IsFiniteSet(P(k) \cup P(k + 1)) /\ Cardinality(P(k) \cup P(k + 1)) \in Nat
        /\ Cardinality(P(k) \cup P(k + 1)) <= a + b
    <3>1. IsFiniteSet(P(k)) /\ IsFiniteSet(P(k + 1))
      BY <1>4, <2>4
    <3> HIDE DEF P
    <3> QED BY <3>1, UnionCount
  <2>10. /\ Cardinality((P(k) \cup P(k + 1)) \cup P(k + 2)) \in Nat
         /\ Cardinality((P(k) \cup P(k + 1)) \cup P(k + 2)) <= Cardinality(P(k) \cup P(k + 1)) + c
    <3>1. IsFiniteSet(P(k + 2))
      BY <1>4, <2>4
    <3> HIDE DEF P
    <3> QED BY <2>9, <3>1, UnionCount
  <2> HIDE DEF a, b, c, Inside
  <2>11. a + b <= 2 * Limit - 1 /\ a + b + c <= 3 * Limit - 2
    BY <1>0, <2>7, <2>8
  <2>12. CASE shared
    <3>1. Cardinality(A) \in Nat /\ Cardinality(A) <= a + b + c
      <4> DEFINE x == Cardinality(P(k) \cup P(k + 1))
                 y == Cardinality((P(k) \cup P(k + 1)) \cup P(k + 2))
      <4>1. Cardinality(A) = y
        BY <2>6, <2>12
      <4>2. x \in Nat /\ x <= a + b /\ y \in Nat /\ y <= x + c
        BY <2>9, <2>10
      <4> HIDE DEF P, x, y
      <4>3. y <= a + b + c
        BY <2>7, <4>2
      <4> QED BY <4>1, <4>2, <4>3
    <3> QED BY <1>0, <1>1, <2>7, <2>11, <2>12, <3>1 DEF A
  <2>13. CASE ~shared
    <3>1. Cardinality(A) \in Nat /\ Cardinality(A) <= a + b
      <4> HIDE DEF P
      <4> QED BY <2>6, <2>9, <2>13
    <3> QED BY <1>0, <1>1, <2>7, <2>11, <2>13, <3>1 DEF A
  <2> QED BY <1>0, <2>12, <2>13
<1> QED BY <1>6, <1>7

\* The limit is kept in both stores, however long an upsert waits within a window
\* and whichever request restarts the row: less than twice the limit in a
\* window's length, less than three times when upserts wait, and whoever is
\* refused was preceded by as many as the limit.
THEOREM LimitKept == RateSpec => []LimitIsExact
<1>1. RateInv => LimitIsExact
  <2> SUFFICES ASSUME RateInv PROVE BurstIsBounded /\ RefusedForCause
    BY DEF LimitIsExact
  <2>1. ASSUME NEW from \in 1..MaxClock
        PROVE  Admitted(from, from + Window - 1) <= IF shared THEN 3 * Limit - 2 ELSE 2 * Limit - 1
    <3>1. from \in Nat
      BY <2>1
    <3> QED BY <3>1, BurstBound
  <2> QED BY <2>1 DEF BurstIsBounded, RateInv
<1> QED BY <1>1, RateStart, RateStep, PTL DEF RateSpec
=============================================================================
