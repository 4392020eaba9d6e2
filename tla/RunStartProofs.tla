--------------------------- MODULE RunStartProofs ---------------------------
(***************************************************************************)
(* Theorems about RunStart for any number of runs, any reserve and any     *)
(* budget: that the budget holds, that a run is settled once, and the      *)
(* exclusion both rest on.                                                 *)
(*                                                                         *)
(* The strengthening says what the locks protect: the rows an uncommitted  *)
(* start has updated are still open and are nobody else's, a request that  *)
(* is still starting has no row, and the budget is read under its lock.    *)
(* For the budget: an open run costs its reserve, and the start that has   *)
(* passed the check has room for its own, whoever settles meanwhile.  That *)
(* Spent changes by as much as the cost of one run does is shown first: it *)
(* is a fold over the set of runs, whose order makes no difference.        *)
(***************************************************************************)
EXTENDS RunStart, FiniteSetTheorems, WellFoundedInduction, TLAPS

-----------------------------------------------------------------------------
(* Sums                                                                    *)

\* Of finite sets, one is the smallest.
LEMMA SmallestExists ==
  ASSUME NEW F, F # {}, \A s \in F : IsFiniteSet(s)
  PROVE  \E s \in F : \A t \in F : Cardinality(s) <= Cardinality(t)
<1> DEFINE N == {Cardinality(s) : s \in F}
<1>1. N \subseteq Nat /\ N # {}
  BY FS_CardinalityType
<1>2. PICK i \in N : \A j \in N : ~(<<j, i>> \in OpToRel(<, Nat))
  <2> HIDE DEF N
  <2> QED BY <1>1, NatLessThanWellFounded, WFMin
<1>3. \A j \in N : ~(j < i)
  <2> HIDE DEF N
  <2> QED BY <1>1, <1>2 DEF OpToRel
<1>4. PICK s \in F : Cardinality(s) = i
  OBVIOUS
<1>5. \A t \in F : Cardinality(t) \in N
  OBVIOUS
<1> HIDE DEF N
<1>6. i \in Nat /\ \A t \in F : Cardinality(t) \in Nat /\ ~(Cardinality(t) < i)
  BY <1>1, <1>3, <1>5
<1>7. \A t \in F : i <= Cardinality(t)
  BY <1>6
<1> QED BY <1>4, <1>7

\* The function SumFunction recurs on: the sums over the subsets of S.
First(s) == CHOOSE x \in s : TRUE
SumStep(g, f, s) == IF s = {} THEN 0 ELSE f[First(s)] + g[s \ {First(s)}]
SumsOver(g, f, S) == g = [s \in SUBSET S |-> SumStep(g, f, s)]

LEMMA SumIsLast ==
  ASSUME NEW f
  PROVE  SumFunction(f) = (CHOOSE g : SumsOver(g, f, DOMAIN f))[DOMAIN f]
  BY Zenon DEF SumFunction, SumFunctionOnSet, FoldFunctionOnSet, MapThenFoldSet, SumsOver,
               SumStep, First

\* There is such a function, one cardinality after the other.
LEMMA SumsExist ==
  ASSUME NEW S, IsFiniteSet(S), NEW f
  PROVE  \E g : SumsOver(g, f, S)
<1> DEFINE UpTo(g, k) == /\ g = [s \in SUBSET S |-> g[s]]
                         /\ \A s \in SUBSET S : Cardinality(s) <= k => g[s] = SumStep(g, f, s)
           Missing == {s \in SUBSET S : ~ \E g : UpTo(g, Cardinality(s))}
<1>0. \A s \in SUBSET S : IsFiniteSet(s) /\ Cardinality(s) \in Nat /\ Cardinality(s) <= Cardinality(S)
  BY FS_Subset, FS_CardinalityType
<1>1. \A s \in SUBSET S : s # {} =>
         /\ First(s) \in s /\ s \ {First(s)} \in SUBSET S
         /\ Cardinality(s \ {First(s)}) = Cardinality(s) - 1
  BY <1>0, FS_RemoveElement DEF First
<1>2. ASSUME Missing # {} PROVE FALSE
  <2>1. PICK t \in Missing : \A s \in Missing : Cardinality(t) <= Cardinality(s)
    BY <1>0, <1>2, SmallestExists
  <2>2. t # {}
    <3> SUFFICES ASSUME t = {} PROVE \E g : UpTo(g, Cardinality(t))
      BY <2>1
    <3> DEFINE g == [s \in SUBSET S |-> 0]
    <3>1. Cardinality(t) = 0 /\ \A s \in SUBSET S : Cardinality(s) <= 0 => s = {}
      BY <1>0, FS_EmptySet
    <3>2. UpTo(g, Cardinality(t))
      BY <3>1 DEF SumStep
    <3> QED BY <3>2
  <2> DEFINE u == t \ {First(t)}
  <2>3. u \in SUBSET S /\ Cardinality(u) = Cardinality(t) - 1 /\ u \notin Missing
    <3>1. u \in SUBSET S /\ Cardinality(u) = Cardinality(t) - 1
      BY <1>1, <2>1, <2>2
    <3>2. ~(Cardinality(t) <= Cardinality(u)) 
      BY <1>0, <2>1, <3>1
    <3> QED BY <2>1, <3>1, <3>2
  <2>4. PICK g : UpTo(g, Cardinality(u))
    BY <2>3
  <2> DEFINE h == [s \in SUBSET S |->
                     IF Cardinality(s) <= Cardinality(u) THEN g[s] ELSE SumStep(g, f, s)]
  <2>5. ASSUME NEW s \in SUBSET S, Cardinality(s) <= Cardinality(t)
        PROVE  h[s] = SumStep(h, f, s)
    <3>1. CASE s = {}
      BY <2>4, <3>1 DEF SumStep
    <3>2. CASE s # {}
      <4>1. /\ s \ {First(s)} \in SUBSET S
            /\ Cardinality(s \ {First(s)}) <= Cardinality(u)
        BY <1>0, <1>1, <2>1, <2>3, <2>5, <3>2
      <4>2. h[s \ {First(s)}] = g[s \ {First(s)}]
        BY <4>1
      <4>3. h[s] = SumStep(g, f, s)
        BY <2>4
      <4> HIDE DEF h
      <4> QED BY <4>2, <4>3, <3>2 DEF SumStep
    <3> QED BY <3>1, <3>2
  <2>6. UpTo(h, Cardinality(t))
    BY <2>5
  <2> QED BY <2>1, <2>6
<1>3. S \in SUBSET S /\ S \notin Missing
  BY <1>2
<1>4. PICK g : UpTo(g, Cardinality(S))
  BY <1>3
<1>5. \A s \in SUBSET S : g[s] = SumStep(g, f, s)
  BY <1>0, <1>4
<1>6. SumsOver(g, f, S)
  BY <1>4, <1>5 DEF SumsOver
<1> QED BY <1>6

\* The order in which the elements are added makes no difference.
LEMMA SumsInAnyOrder ==
  ASSUME NEW S, IsFiniteSet(S), NEW f, \A x \in S : f[x] \in Nat, NEW g, SumsOver(g, f, S)
  PROVE  \A s \in SUBSET S : g[s] \in Nat /\ \A x \in s : g[s] = f[x] + g[s \ {x}]
<1> DEFINE Good(s) == g[s] \in Nat /\ \A x \in s : g[s] = f[x] + g[s \ {x}]
           Bad == {s \in SUBSET S : ~Good(s)}
<1>0. \A s \in SUBSET S : IsFiniteSet(s) /\ Cardinality(s) \in Nat
  BY FS_Subset, FS_CardinalityType
<1>1. \A s \in SUBSET S : \A x \in s :
         s \ {x} \in SUBSET S /\ Cardinality(s \ {x}) = Cardinality(s) - 1
  BY <1>0, FS_RemoveElement
<1>2. \A s \in SUBSET S : g[s] = SumStep(g, f, s)
  BY DEF SumsOver
<1>3. ASSUME Bad # {} PROVE FALSE
  <2>1. PICK t \in Bad : \A s \in Bad : Cardinality(t) <= Cardinality(s)
    BY <1>0, <1>3, SmallestExists
  <2>2. t # {}
    <3> SUFFICES ASSUME t = {} PROVE Good(t)
      BY <2>1
    <3>1. g[t] = 0
      BY <1>2 DEF SumStep
    <3> QED BY <3>1
  <2>3. \A x \in t : Good(t \ {x})
    <3> SUFFICES ASSUME NEW x \in t PROVE t \ {x} \notin Bad
      BY <1>1, <2>1
    <3>1. ~(Cardinality(t) <= Cardinality(t \ {x}))
      BY <1>0, <1>1, <2>1
    <3> QED BY <2>1, <3>1
  <2> DEFINE c == First(t)
  <2>4. c \in t /\ c \in S /\ g[t] = f[c] + g[t \ {c}]
    BY <1>2, <2>1, <2>2 DEF SumStep, First
  <2>5. g[t] \in Nat
    <3>1. f[c] \in Nat /\ g[t \ {c}] \in Nat
      BY <2>3, <2>4
    <3> QED BY <2>4, <3>1
  <2>6. ASSUME NEW x \in t PROVE g[t] = f[x] + g[t \ {x}]
    <3>1. CASE x = c
      BY <2>4, <3>1
    <3>2. CASE x # c
      <4>1. g[t \ {c}] = f[x] + g[(t \ {c}) \ {x}]
        BY <2>3, <2>4, <3>2
      <4>2. g[t \ {x}] = f[c] + g[(t \ {x}) \ {c}] 
        BY <2>3, <2>4, <3>2
      <4>3. (t \ {c}) \ {x} = (t \ {x}) \ {c}
        OBVIOUS
      <4>4. t \ {c} \in SUBSET S /\ t \ {x} \in SUBSET S /\ (t \ {x}) \ {c} \in SUBSET S 
        BY <2>1
      <4>5. g[t \ {c}] \in Nat /\ g[t \ {x}] \in Nat /\ f[c] \in Nat /\ f[x] \in Nat
        BY <2>1, <2>3, <2>4
      <4>6. g[(t \ {x}) \ {c}] \in Nat
        <5>1. c \in t \ {x} /\ t \ {x} \in SUBSET S
          BY <2>4, <3>2, <4>4
        <5>2. (t \ {x}) \ {c} \notin Bad
          <6>1. Cardinality((t \ {x}) \ {c}) = Cardinality(t \ {x}) - 1
            BY <1>1, <5>1
          <6>2. Cardinality(t \ {x}) = Cardinality(t) - 1
            BY <1>1, <2>1
          <6>3. ~(Cardinality(t) <= Cardinality((t \ {x}) \ {c}))
            BY <1>0, <2>1, <4>4, <6>1, <6>2
          <6> QED BY <2>1, <6>3
        <5> QED BY <4>4, <5>2
      <4> DEFINE rest == g[(t \ {x}) \ {c}]
      <4>7. rest \in Nat /\ g[t \ {c}] = f[x] + rest /\ g[t \ {x}] = f[c] + rest
        BY <4>1, <4>2, <4>3, <4>6
      <4>8. g[t] = f[c] + g[t \ {c}]
        BY <2>4
      <4> HIDE DEF rest, c
      <4>9. g[t] = f[c] + (f[x] + rest)
        BY <4>7, <4>8
      <4>10. f[c] + (f[x] + rest) = f[x] + (f[c] + rest)
        BY <4>5, <4>7
      <4> QED BY <4>7, <4>9, <4>10
    <3> QED BY <3>1, <3>2
  <2> QED BY <2>1, <2>5, <2>6
<1> QED BY <1>3

\* Only the elements a sum is over matter to it.
LEMMA SumsAgree ==
  ASSUME NEW S, IsFiniteSet(S), NEW f, NEW e, NEW g, SumsOver(g, f, S), NEW h, SumsOver(h, e, S),
         NEW T \in SUBSET S, \A x \in T : f[x] = e[x]
  PROVE  g[T] = h[T]
<1> DEFINE Bad == {s \in SUBSET T : g[s] # h[s]}
<1>0. \A s \in SUBSET T : IsFiniteSet(s) /\ Cardinality(s) \in Nat /\ s \in SUBSET S
  BY FS_Subset, FS_CardinalityType
<1>1. \A s \in SUBSET T : g[s] = SumStep(g, f, s) /\ h[s] = SumStep(h, e, s)
  BY DEF SumsOver
<1>2. ASSUME Bad # {} PROVE FALSE
  <2>1. PICK t \in Bad : \A s \in Bad : Cardinality(t) <= Cardinality(s)
    BY <1>0, <1>2, SmallestExists
  <2> DEFINE c == First(t)
  <2>2. t # {}
    BY <1>1, <2>1 DEF SumStep
  <2>3. c \in t
    BY <2>2 DEF First
  <2>4. Cardinality(t \ {c}) = Cardinality(t) - 1 /\ t \ {c} \in SUBSET T
    BY <1>0, <2>1, <2>3, FS_RemoveElement
  <2>5. ~(Cardinality(t) <= Cardinality(t \ {c}))
    BY <1>0, <2>1, <2>4
  <2>6. g[t \ {c}] = h[t \ {c}]
    BY <2>1, <2>4, <2>5
  <2>7. g[t] = f[c] + g[t \ {c}] /\ h[t] = e[c] + h[t \ {c}] /\ f[c] = e[c]
    BY <1>1, <2>1, <2>2, <2>3 DEF SumStep
  <2> QED BY <2>1, <2>6, <2>7
<1> QED BY <1>2

\* What SumFunction is, before and after one value changes.
LEMMA SumIsNumber ==
  ASSUME NEW S, IsFiniteSet(S), NEW f \in [S -> Nat]
  PROVE  SumFunction(f) \in Nat
<1> DEFINE g == CHOOSE g : SumsOver(g, f, S)
<1>1. SumsOver(g, f, S)
  BY SumsExist
<1>2. SumFunction(f) = g[S]
  BY SumIsLast
<1> QED BY <1>1, <1>2, SumsInAnyOrder

LEMMA SumOfZeros ==
  ASSUME NEW S, IsFiniteSet(S)
  PROVE  SumFunction([x \in S |-> 0]) = 0
<1> DEFINE f == [x \in S |-> 0]
           g == CHOOSE g : SumsOver(g, f, S)
           z == [s \in SUBSET S |-> 0]
<1>1. SumsOver(g, f, S)
  BY SumsExist
<1>2. SumsOver(z, f, S)
  <2>1. \A s \in SUBSET S : SumStep(z, f, s) = 0
    BY DEF SumStep, First
  <2> QED BY <2>1 DEF SumsOver
<1>3. SumFunction(f) = g[S]
  BY SumIsLast
<1>4. g[S] = z[S]
  <2> HIDE DEF g, z
  <2> QED BY <1>1, <1>2, SumsAgree
<1> QED BY <1>3, <1>4

LEMMA SumAfterUpdate ==
  ASSUME NEW S, IsFiniteSet(S), NEW f \in [S -> Nat], NEW x \in S, NEW v \in Nat
  PROVE  SumFunction([f EXCEPT ![x] = v]) = SumFunction(f) - f[x] + v
<1> DEFINE e == [f EXCEPT ![x] = v]
           g == CHOOSE g : SumsOver(g, f, S)
           h == CHOOSE h : SumsOver(h, e, S)
<1>1. e \in [S -> Nat] /\ e[x] = v /\ \A y \in S \ {x} : e[y] = f[y]
  OBVIOUS
<1>0. \A y \in S : f[y] \in Nat /\ e[y] \in Nat
  OBVIOUS
<1> HIDE DEF e
<1>2. SumsOver(g, f, S) /\ SumsOver(h, e, S)
  BY SumsExist
<1>3. SumFunction(f) = g[S] /\ SumFunction(e) = h[S]
  BY <1>1, SumIsLast
<1> HIDE DEF g, h
<1>4. g[S \ {x}] = h[S \ {x}]
  BY <1>1, <1>2, SumsAgree
<1>5. g[S \ {x}] \in Nat /\ g[S] = f[x] + g[S \ {x}]
  <2>1. \A s \in SUBSET S : g[s] \in Nat /\ \A y \in s : g[s] = f[y] + g[s \ {y}]
    BY <1>0, <1>2, SumsInAnyOrder
  <2> QED BY <2>1
<1>6. h[S] = e[x] + h[S \ {x}]
  BY <1>0, <1>1, <1>2, SumsInAnyOrder
<1>7. SumFunction(e) = SumFunction(f) - f[x] + v
  BY <1>1, <1>3, <1>4, <1>5, <1>6
<1> QED BY <1>7 DEF e

-----------------------------------------------------------------------------
(* The invariant                                                           *)

LockedRows ==
  /\ \A r \in Runs : \A x \in stale[r] : row[x] = "open"
  /\ \A q, r \in Runs : q # r => stale[q] \cap stale[r] = {}
StartingRuns ==
  \A r \in Runs :
    /\ stmt[r] \in Starting => row[r] = "none"
    /\ stmt[r] \in {"check", "admit"} <=> budgetLock = r
Inv == StartTypeOK /\ LockedRows /\ StartingRuns

LEMMA InitInv == StartInit => Inv
  BY NoRunAssumption, CostAssumption DEF StartInit, Inv, StartTypeOK, LockedRows, StartingRuns, Starting

\* Every step keeps columns, locks and stages in their types.
LEMMA TypeStep == StartTypeOK /\ [StartNext]_startVars => StartTypeOK'
<1> SUFFICES ASSUME StartTypeOK, [StartNext]_startVars PROVE StartTypeOK'
  OBVIOUS
<1> USE CostAssumption DEF StartTypeOK, Starting, Goto, runVars, lockVars, ReleaseLocks
<1>1. ASSUME NEW r \in Runs, RecoverStale(r) PROVE StartTypeOK'
  BY <1>1 DEF RecoverStale
<1>2. ASSUME NEW r \in Runs, AuditStale(r) \/ LockBudget(r) PROVE StartTypeOK'
  BY <1>2 DEF AuditStale, LockBudget
<1>3. ASSUME NEW r \in Runs, CheckBudget(r) PROVE StartTypeOK'
  BY <1>3 DEF CheckBudget
<1>4. ASSUME NEW r \in Runs, Admit(r) PROVE StartTypeOK'
  BY <1>4 DEF Admit
<1>5. ASSUME NEW r \in Runs, Abort(r) PROVE StartTypeOK'
  BY <1>5 DEF Abort
<1>6. ASSUME NEW x \in Runs, Settle(x) PROVE StartTypeOK'
  BY <1>6 DEF Settle
<1>7. ASSUME NEW x \in Runs, Age(x) PROVE StartTypeOK'
  BY <1>7 DEF Age
<1>8. CASE UNCHANGED startVars
  BY <1>8 DEF startVars
<1> QED
  BY <1>1, <1>2, <1>3, <1>4, <1>5, <1>6, <1>7, <1>8 DEF StartNext, Start

\* Row locks and the budget lock do what they are for.
LEMMA LocksStep == Inv /\ [StartNext]_startVars => LockedRows' /\ StartingRuns'
<1> SUFFICES ASSUME Inv, [StartNext]_startVars PROVE LockedRows' /\ StartingRuns'
  OBVIOUS
<1> USE NoRunAssumption DEF Inv, StartTypeOK, LockedRows, StartingRuns, Starting, Goto, runVars, lockVars,
      ReleaseLocks, RowFree
<1>1. ASSUME NEW r \in Runs, RecoverStale(r) PROVE LockedRows' /\ StartingRuns'
  <2> DEFINE open == {x \in aged : row[x] = "open"}
  <2>1. \A x \in open : row[x] = "open" /\ \A q \in Runs : x \notin stale[q]
    BY <1>1 DEF RecoverStale
  <2>2. stale' = [stale EXCEPT ![r] = open] /\ UNCHANGED <<row, budgetLock>>
    BY <1>1 DEF RecoverStale
  <2>3. StartingRuns'
    BY <1>1 DEF RecoverStale
  <2>4. LockedRows'
    <3> HIDE DEF open
    <3> QED BY <2>1, <2>2
  <2> QED BY <2>3, <2>4
<1>2. ASSUME NEW r \in Runs, AuditStale(r) \/ LockBudget(r) PROVE LockedRows' /\ StartingRuns'
  BY <1>2 DEF AuditStale, LockBudget
<1>3. ASSUME NEW r \in Runs, CheckBudget(r) PROVE LockedRows' /\ StartingRuns'
  BY <1>3 DEF CheckBudget
<1>4. ASSUME NEW r \in Runs, Admit(r) PROVE LockedRows' /\ StartingRuns'
  BY <1>4 DEF Admit
<1>5. ASSUME NEW r \in Runs, Abort(r) PROVE LockedRows' /\ StartingRuns'
  BY <1>5 DEF Abort
<1>6. ASSUME NEW x \in Runs, Settle(x) PROVE LockedRows' /\ StartingRuns'
  BY <1>6 DEF Settle, RunOpen
<1>7. ASSUME NEW x \in Runs, Age(x) PROVE LockedRows' /\ StartingRuns'
  BY <1>7 DEF Age
<1>8. CASE UNCHANGED startVars
  BY <1>8 DEF startVars
<1> QED
  BY <1>1, <1>2, <1>3, <1>4, <1>5, <1>6, <1>7, <1>8 DEF StartNext, Start

\* The strengthening holds in every reachable state.
THEOREM Invariance == StartSpec => []Inv
<1>1. Inv /\ [StartNext]_startVars => Inv'
  BY TypeStep, LocksStep DEF Inv
<1> QED BY InitInv, <1>1, PTL DEF StartSpec

-----------------------------------------------------------------------------
(* Theorems                                                                *)

\* Rows, costs and locks keep their types: no run ever costs more than its
\* reserve and the overshoot of its last step.
THEOREM StartTypes == StartSpec => []StartTypeOK
<1>1. Inv => StartTypeOK
  BY DEF Inv
<1> QED BY <1>1, Invariance, PTL

\* Between reading the spent budget and inserting its reserve, a start is alone.
BudgetIsExclusive ==
  \A q, r \in Runs :
    stmt[q] \in {"check", "admit"} /\ stmt[r] \in {"check", "admit"} => q = r

\* Two starts never both hold a reading of the spent budget.
THEOREM BudgetExclusion == StartSpec => []BudgetIsExclusive
<1>1. Inv => BudgetIsExclusive
  BY DEF Inv, StartingRuns, BudgetIsExclusive
<1> QED BY <1>1, Invariance, PTL

\* One step leaves a settled or recovered run as it is.
LEMMA SettledStep ==
  ASSUME Inv, [StartNext]_startVars, NEW y \in Runs, row[y] \in {"settled", "recovered"}
  PROVE  row'[y] = row[y] /\ cost'[y] = cost[y]
<1> DEFINE Goal == row'[y] = row[y] /\ cost'[y] = cost[y]
<1> USE DEF Inv, StartTypeOK, runVars
<1>1. ASSUME NEW r \in Runs,
             RecoverStale(r) \/ AuditStale(r) \/ LockBudget(r) \/ CheckBudget(r) \/ Abort(r)
      PROVE Goal
  BY <1>1 DEF RecoverStale, AuditStale, LockBudget, CheckBudget, Abort
<1>2. ASSUME NEW r \in Runs, Admit(r) PROVE Goal
  <2>1. y # r /\ y \notin stale[r]
    BY <1>2 DEF Admit, LockedRows, StartingRuns, Starting
  <2> QED BY <1>2, <2>1 DEF Admit
<1>3. ASSUME NEW x \in Runs, Settle(x) PROVE Goal
  BY <1>3 DEF Settle, RunOpen
<1>4. ASSUME NEW x \in Runs, Age(x) PROVE Goal
  BY <1>4 DEF Age
<1>5. CASE UNCHANGED startVars
  BY <1>5 DEF startVars
<1> QED BY <1>1, <1>2, <1>3, <1>4, <1>5 DEF StartNext, Start

\* The recovery by a later start and the late callback of a run never both
\* settle it.
THEOREM SettledJustOnce == StartSpec => SettledOnce
<1>1. Inv /\ [StartNext]_startVars =>
        [\A x \in Runs : row[x] \in {"settled", "recovered"} =>
           row'[x] = row[x] /\ cost'[x] = cost[x]]_startVars
  BY SettledStep
<1> QED BY <1>1, Invariance, PTL DEF StartSpec, SettledOnce

-----------------------------------------------------------------------------
(* The budget                                                              *)

Settled == {x \in Runs : row[x] = "settled"}
Bound == Budget + Overshoot * Cardinality(Settled)

\* A run that is open costs its reserve, and the start that has passed the
\* check has room for one more, whatever is settled in the meantime.
Reserved ==
  \A x \in Runs : /\ row[x] = "none" => cost[x] = 0
                  /\ row[x] = "open" => cost[x] = Reserve
BudgetInv ==
  /\ Reserved
  /\ Spent <= Bound
  /\ \A r \in Runs : stmt[r] = "admit" => Spent + Reserve <= Bound

\* The sum of the costs, and the bound for any number of settled runs.
LEMMA SpentIsNumber ==
  ASSUME StartTypeOK PROVE Spent \in Nat
<1>1. cost \in [Runs -> Nat]
  BY CostAssumption DEF StartTypeOK
<1> QED BY <1>1, RunsAssumption, SumIsNumber DEF Spent

LEMMA BoundIsNumber ==
  /\ IsFiniteSet(Settled) /\ Cardinality(Settled) \in Nat
  /\ Overshoot * Cardinality(Settled) \in Nat
  /\ Bound \in Nat /\ Budget <= Bound
<1>1. IsFiniteSet(Settled) /\ Cardinality(Settled) \in Nat
  <2>1. Settled \in SUBSET Runs
    BY DEF Settled
  <2> QED BY <2>1, RunsAssumption, FS_Subset, FS_CardinalityType
<1>2. \A n \in Nat : Overshoot * n \in Nat
  BY CostAssumption
<1>3. Overshoot * Cardinality(Settled) \in Nat
  BY <1>1, <1>2
<1> DEFINE extra == Overshoot * Cardinality(Settled)
<1>4. extra \in Nat /\ Bound = Budget + extra
  BY <1>3 DEF Bound
<1> HIDE DEF extra
<1>5. Bound \in Nat /\ Budget <= Bound
  BY <1>4, CostAssumption
<1> QED BY <1>1, <1>3, <1>5

LEMMA InitBudget == StartInit => BudgetInv
<1> SUFFICES ASSUME StartInit PROVE BudgetInv
  OBVIOUS
<1>1. Spent = 0
  BY RunsAssumption, SumOfZeros DEF StartInit, Spent
<1>2. 0 <= Bound
  BY BoundIsNumber
<1> QED BY <1>1, <1>2 DEF StartInit, BudgetInv, Reserved

\* Only the start that holds the budget lock comes to the insert, and only from
\* a check that left room.
LEMMA UnchangedCosts ==
  ASSUME Inv, BudgetInv, UNCHANGED <<row, cost>>,
         \A r \in Runs : stmt'[r] = "admit" => stmt[r] = "admit" \/ Spent + Reserve <= Budget
  PROVE  BudgetInv'
<1>1. Spent' = Spent /\ Settled' = Settled
  BY DEF Spent, Settled
<1>2. Bound' = Bound
  BY <1>1 DEF Bound
<1>3. Spent \in Nat /\ Bound \in Nat /\ Budget <= Bound
  BY SpentIsNumber, BoundIsNumber DEF Inv
<1>4. ASSUME NEW r \in Runs, stmt'[r] = "admit" PROVE Spent + Reserve <= Bound
  BY <1>3, <1>4, CostAssumption DEF BudgetInv
<1>5. Reserved'
  BY DEF BudgetInv, Reserved
<1> QED BY <1>1, <1>2, <1>4, <1>5 DEF BudgetInv

LEMMA AdmitBudget ==
  ASSUME Inv, BudgetInv, NEW r \in Runs, Admit(r) PROVE BudgetInv'
<1> USE DEF Inv
<1>1. /\ stmt[r] = "admit" /\ row[r] = "none" /\ cost[r] = 0
      /\ \A x \in stale[r] : row[x] = "open"
      /\ \A q \in Runs : q # r => stmt'[q] # "admit"
      /\ stmt'[r] # "admit"
  BY DEF Admit, StartingRuns, LockedRows, Starting, BudgetInv, Reserved, StartTypeOK, Goto
<1>2. Settled' = Settled
  BY <1>1 DEF Admit, Settled
<1>3. Bound' = Bound
  BY <1>2 DEF Bound
<1>4. cost \in [Runs -> Nat] /\ Reserve \in Nat
  BY CostAssumption DEF StartTypeOK
<1>5. Spent' = Spent - cost[r] + Reserve
  BY <1>4, RunsAssumption, SumAfterUpdate DEF Spent, Admit
<1>6. Spent' = Spent + Reserve /\ Spent + Reserve <= Bound
  BY <1>1, <1>4, <1>5, SpentIsNumber DEF BudgetInv
<1>7. Reserved'
  BY <1>4 DEF Admit, Reserved, BudgetInv, StartTypeOK
<1> QED BY <1>1, <1>3, <1>6, <1>7 DEF BudgetInv

LEMMA SettleBudget ==
  ASSUME Inv, BudgetInv, NEW y \in Runs, Settle(y) PROVE BudgetInv'
<1> USE DEF Inv
<1>1. PICK c \in 0 .. Reserve + Overshoot : cost' = [cost EXCEPT ![y] = c]
  BY DEF Settle
<1>2. /\ row[y] = "open" /\ cost[y] = Reserve
      /\ row' = [row EXCEPT ![y] = "settled"] /\ stmt' = stmt
  BY DEF Settle, RunOpen, BudgetInv, Reserved
<1>3. Settled' = Settled \cup {y} /\ y \notin Settled
  BY <1>2 DEF Settled, StartTypeOK
<1>4. Cardinality(Settled') = Cardinality(Settled) + 1
  BY <1>3, BoundIsNumber, FS_AddElement
<1>5. Bound' = Bound + Overshoot
  <2>1. \A n \in Nat : Overshoot * (n + 1) = Overshoot * n + Overshoot /\ Overshoot * n \in Nat
    BY CostAssumption
  <2>2. Overshoot * Cardinality(Settled') = Overshoot * Cardinality(Settled) + Overshoot
    BY <1>4, <2>1, BoundIsNumber
  <2> DEFINE extra == Overshoot * Cardinality(Settled)
  <2>3. extra \in Nat /\ Bound = Budget + extra /\ Bound' = Budget + (extra + Overshoot)
    BY <2>2, BoundIsNumber DEF Bound
  <2> HIDE DEF extra
  <2> QED BY <2>3, CostAssumption
<1>6. cost \in [Runs -> Nat] /\ c \in Nat /\ c <= Reserve + Overshoot
  BY CostAssumption DEF StartTypeOK
<1>7. Spent' = Spent - cost[y] + c
  BY <1>1, <1>6, RunsAssumption, SumAfterUpdate DEF Spent
<1>8. Spent' \in Int /\ Spent' <= Spent + Overshoot
  BY <1>2, <1>6, <1>7, SpentIsNumber, CostAssumption
<1>9. Spent \in Nat /\ Bound \in Nat
  BY SpentIsNumber, BoundIsNumber
<1>10. Spent' <= Bound'
  BY <1>5, <1>8, <1>9, CostAssumption DEF BudgetInv
<1>11. ASSUME NEW r \in Runs, stmt'[r] = "admit" PROVE Spent' + Reserve <= Bound'
  <2>1. Spent + Reserve <= Bound
    BY <1>2, <1>11 DEF BudgetInv
  <2>2. \A s, t, b \in Int : t <= s + Overshoot /\ s + Reserve <= b => t + Reserve <= b + Overshoot
    BY CostAssumption
  <2>3. Spent \in Int /\ Spent' \in Int /\ Bound \in Int /\ Spent' <= Spent + Overshoot
    BY <1>8, <1>9
  <2>4. Spent' + Reserve <= Bound + Overshoot
    BY <2>1, <2>2, <2>3
  <2> QED BY <1>5, <2>4
<1>12. Reserved'
  BY <1>1, <1>2 DEF Reserved, BudgetInv, StartTypeOK
<1> QED BY <1>10, <1>11, <1>12 DEF BudgetInv

LEMMA BudgetStep == Inv /\ BudgetInv /\ [StartNext]_startVars => BudgetInv'
<1> SUFFICES ASSUME Inv, BudgetInv, [StartNext]_startVars PROVE BudgetInv'
  OBVIOUS
<1> USE DEF Inv, StartTypeOK, Goto, runVars
<1>1. ASSUME NEW r \in Runs, RecoverStale(r) \/ AuditStale(r) \/ LockBudget(r) PROVE BudgetInv'
  <2>1. UNCHANGED <<row, cost>> /\ \A q \in Runs : stmt'[q] = "admit" => stmt[q] = "admit"
    BY <1>1 DEF RecoverStale, AuditStale, LockBudget
  <2> QED BY <2>1, UnchangedCosts
<1>2. ASSUME NEW r \in Runs, CheckBudget(r) PROVE BudgetInv'
  <2>1. UNCHANGED <<row, cost>> /\ \A q \in Runs : stmt'[q] = "admit" => stmt[q] = "admit" \/ Spent + Reserve <= Budget
    BY <1>2 DEF CheckBudget
  <2> QED BY <2>1, UnchangedCosts
<1>3. ASSUME NEW r \in Runs, Abort(r) PROVE BudgetInv'
  <2>1. UNCHANGED <<row, cost>> /\ \A q \in Runs : stmt'[q] = "admit" => stmt[q] = "admit"
    BY <1>3 DEF Abort
  <2> QED BY <2>1, UnchangedCosts
<1>4. ASSUME NEW r \in Runs, Age(r) PROVE BudgetInv'
  BY <1>4, UnchangedCosts DEF Age
<1>5. CASE UNCHANGED startVars
  BY <1>5, UnchangedCosts DEF startVars
<1> QED
  BY <1>1, <1>2, <1>3, <1>4, <1>5, AdmitBudget, SettleBudget DEF StartNext, Start

\* What concurrent starts reserve and what runs cost in the end never exceeds
\* the monthly budget by more than the last steps of the settled runs, for any
\* number of runs, any budget and any reserve.
THEOREM BudgetKept == StartSpec => []BudgetHolds
<1>1. Inv /\ BudgetInv /\ [StartNext]_startVars => (Inv /\ BudgetInv)'
  BY TypeStep, LocksStep, BudgetStep DEF Inv
<1>2. BudgetInv => BudgetHolds
  BY DEF BudgetInv, BudgetHolds, Bound, Settled
<1> QED BY InitInv, InitBudget, <1>1, <1>2, PTL DEF StartSpec
=============================================================================
