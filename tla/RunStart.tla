------------------------------ MODULE RunStart ------------------------------
(***************************************************************************)
(* Starting a run of the tax agent under the monthly budget of a tenant:   *)
(* the transaction of startAgentRun (ai-store.ts) statement by statement,  *)
(* with its two advisory locks and the rows it recovers.  What the runs do *)
(* between their start and their settlement is in module AgentRuns.        *)
(*                                                                         *)
(* A transaction may fail at any statement, and it may commit although its *)
(* acknowledgement is lost.                                                *)
(***************************************************************************)
EXTENDS Naturals, FiniteSets, Functions

CONSTANTS
  Runs,       \* requests to the assistant, each starting at most one run
  NoRun,      \* no transaction holds the lock
  Reserve,    \* defaultAiBudget.maxEstimatedCostKrw
  Overshoot,  \* how far the last step of a run may exceed Reserve
  Budget      \* the monthly budget of the tenant

ASSUME NoRunAssumption == NoRun \notin Runs
ASSUME RunsAssumption == IsFiniteSet(Runs)
ASSUME CostAssumption == Reserve \in Nat \ {0} /\ Overshoot \in Nat /\ Budget \in Nat

VARIABLES
  row,         \* row[x]: "none", "open", "settled" or "recovered" in agent_runs
  cost,        \* cost[x]: estimated_cost_krw
  aged,        \* runs that were started more than two minutes ago
  budgetLock,  \* the holder of pg_advisory_xact_lock('ai-budget:...')
  auditLock,   \* the holder of pg_advisory_xact_lock('audit:...')
  stale,       \* stale[r]: rows updated by the uncommitted transaction of r
  stmt         \* stmt[r]: the statement the transaction of r has come to

runVars == <<row, cost, aged>>
lockVars == <<budgetLock, auditLock, stale>>
startVars == <<row, cost, aged, budgetLock, auditLock, stale, stmt>>

Starting == {"new", "auditStale", "budget", "check", "admit"}

StartTypeOK ==
  /\ row \in [Runs -> {"none", "open", "settled", "recovered"}]
  /\ cost \in [Runs -> 0 .. Reserve + Overshoot]
  /\ aged \in SUBSET Runs
  /\ budgetLock \in Runs \cup {NoRun}
  /\ auditLock \in Runs \cup {NoRun}
  /\ stale \in [Runs -> SUBSET Runs]
  /\ stmt \in [Runs -> Starting \cup {"over"}]

StartInit ==
  /\ row = [x \in Runs |-> "none"]
  /\ cost = [x \in Runs |-> 0]
  /\ aged = {}
  /\ budgetLock = NoRun
  /\ auditLock = NoRun
  /\ stale = [r \in Runs |-> {}]
  /\ stmt = [r \in Runs |-> "new"]

-----------------------------------------------------------------------------
(* The statements of startAgentRun                                         *)

Goto(r, stage) == stmt' = [stmt EXCEPT ![r] = stage]

\* No start transaction has updated the row of x.
RowFree(x) == \A q \in Runs : x \notin stale[q]

Spent == SumFunction(cost)

\* The transaction of r is over: its locks are free.
ReleaseLocks(r) ==
  /\ budgetLock' = IF budgetLock = r THEN NoRun ELSE budgetLock
  /\ auditLock' = IF auditLock = r THEN NoRun ELSE auditLock
  /\ stale' = [stale EXCEPT ![r] = {}]

\* The update of the runs that are still open after two minutes; it waits for
\* rows that another start has updated.
RecoverStale(r) ==
  LET found == {x \in aged : row[x] = "open"}
  IN
  /\ stmt[r] = "new"
  /\ \A x \in found : RowFree(x)
  /\ stale' = [stale EXCEPT ![r] = found]
  /\ Goto(r, IF found = {} THEN "budget" ELSE "auditStale")
  /\ UNCHANGED <<runVars, budgetLock, auditLock>>

\* The recovered runs are audited, under the audit lock of the tenant, before
\* the budget lock is asked for.
AuditStale(r) ==
  /\ stmt[r] = "auditStale"
  /\ auditLock = NoRun
  /\ auditLock' = r
  /\ Goto(r, "budget")
  /\ UNCHANGED <<runVars, budgetLock, stale>>

\* Mutant: the spend is read without the advisory lock.
LockBudgetSkipped(r) ==
  /\ stmt[r] = "budget"
  /\ Goto(r, "check")
  /\ UNCHANGED <<runVars, lockVars>>

LockBudget(r) ==
  /\ stmt[r] = "budget"
  /\ budgetLock = NoRun
  /\ budgetLock' = r
  /\ Goto(r, "check")
  /\ UNCHANGED <<runVars, auditLock, stale>>

\* Mutant: a session-level audit lock, which a failed transaction keeps.
AbortHoldingAudit(r) ==
  /\ stmt[r] \in Starting
  /\ budgetLock' = IF budgetLock = r THEN NoRun ELSE budgetLock
  /\ stale' = [stale EXCEPT ![r] = {}]
  /\ Goto(r, "over")
  /\ UNCHANGED <<runVars, auditLock>>

\* A statement fails, or the database picks the transaction as the victim of a
\* deadlock.
Abort(r) ==
  /\ stmt[r] \in Starting
  /\ ReleaseLocks(r)
  /\ Goto(r, "over")
  /\ UNCHANGED runVars

CheckBudget(r) ==
  /\ stmt[r] = "check"
  /\ \/ Spent + Reserve > Budget /\ ReleaseLocks(r) /\ Goto(r, "over")
     \/ Spent + Reserve <= Budget /\ UNCHANGED lockVars /\ Goto(r, "admit")
  /\ UNCHANGED runVars

\* The run is inserted with its reserve and audited; the commit also publishes
\* the recovered runs.
Admit(r) ==
  /\ stmt[r] = "admit"
  /\ auditLock \in {NoRun, r}
  /\ row' = [x \in Runs |-> IF x = r THEN "open"
                            ELSE IF x \in stale[r] THEN "recovered" ELSE row[x]]
  /\ cost' = [cost EXCEPT ![r] = Reserve]
  /\ ReleaseLocks(r)
  /\ Goto(r, "over")
  /\ UNCHANGED aged

-----------------------------------------------------------------------------
(* Settlement and time                                                     *)

\* completed_at IS NULL
RunOpen(x) == row[x] = "open"

\* finishAgentRun replaces the reserve by the actual estimate; its transaction
\* is audited too.  A run without an open row is left alone.
Settle(x) ==
  /\ RunOpen(x)
  /\ RowFree(x) /\ auditLock = NoRun
  /\ row' = [row EXCEPT ![x] = "settled"]
  /\ \E c \in 0 .. Reserve + Overshoot : cost' = [cost EXCEPT ![x] = c]
  /\ UNCHANGED <<aged, lockVars, stmt>>

\* Two minutes have passed.
Age(x) ==
  /\ row[x] = "open" /\ x \notin aged
  /\ aged' = aged \cup {x}
  /\ UNCHANGED <<row, cost, lockVars, stmt>>

-----------------------------------------------------------------------------
(* Specification                                                           *)

Start(r) ==
  RecoverStale(r) \/ AuditStale(r) \/ LockBudget(r) \/ CheckBudget(r) \/ Admit(r)

StartNext == \E r \in Runs : Start(r) \/ Abort(r) \/ Settle(r) \/ Age(r)

\* r holds the budget lock and waits for the audit lock, whose holder waits for
\* the budget lock.
InCycle(r) ==
  /\ stmt[r] = "admit" /\ budgetLock = r
  /\ auditLock \notin {NoRun, r} /\ stmt[auditLock] = "budget"

\* A start transaction keeps running while it can, and the deadlock detector of
\* the database ends a cycle.
StartFairness ==
  \A r \in Runs : WF_startVars(Start(r)) /\ WF_startVars(InCycle(r) /\ Abort(r))

StartSpec == StartInit /\ [][StartNext]_startVars
FairStartSpec == StartSpec /\ StartFairness

-----------------------------------------------------------------------------
(* Properties                                                              *)

\* docs/api.md:28 "reserves the maximal cost atomically": concurrent starts
\* never admit more than the budget; only the last step of a run exceeds it.
BudgetHolds ==
  Spent <= Budget + Overshoot * Cardinality({x \in Runs : row[x] = "settled"})

\* A run is settled once: the recovery and the late callback of one run do not
\* both change its row.
SettledOnce ==
  [][\A x \in Runs : row[x] \in {"settled", "recovered"} =>
       row'[x] = row[x] /\ cost'[x] = cost[x]]_startVars

\* Every request to start a run is admitted or refused, although two starts may
\* take the two locks in opposite orders.
StartsEnd == \A r \in Runs : <>(stmt[r] = "over")
=============================================================================
