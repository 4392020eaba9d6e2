------------------------- MODULE MCOutboxAndStarts -------------------------
(***************************************************************************)
(* One TLC run for two components that share no state: the delivery of the *)
(* outbox and the start of agent runs.  While one of them moves, the other *)
(* has already come to its end, so that each keeps its liveness property.  *)
(***************************************************************************)
EXTENDS Outbox, RunStart, TLC

CONSTANTS w1, w2, w3, r1, r2, r3

VARIABLE focus    \* the component that moves

MCVars == <<focus, vars, startVars>>

\* Every event was delivered by its first attempt.
AllDelivered ==
  /\ published = [e \in Events |-> TRUE]
  /\ attempts = [e \in Events |-> 1]
  /\ due = [e \in Events |-> TRUE]
  /\ leaseOwner = [e \in Events |-> NoWorker]
  /\ leaseExpired = [e \in Events |-> FALSE]
  /\ received = [e \in Events |-> {1}]
  /\ pc = [w \in Workers |-> "idle"]
  /\ task = [w \in Workers |-> CHOOSE e \in Events : TRUE]
  /\ tries = [w \in Workers |-> 0]
  /\ stalls = 0 /\ crashes = 0

\* Every start was refused.
AllRefused ==
  /\ row = [x \in Runs |-> "none"]
  /\ cost = [x \in Runs |-> 0]
  /\ aged = {}
  /\ budgetLock = NoRun /\ auditLock = NoRun
  /\ stale = [r \in Runs |-> {}]
  /\ stmt = [r \in Runs |-> "over"]

MCInit ==
  \/ focus = "outbox" /\ Init /\ AllRefused
  \/ focus = "starts" /\ StartInit /\ AllDelivered

MCNext ==
  /\ UNCHANGED focus
  /\ \/ focus = "outbox" /\ Next /\ UNCHANGED startVars
     \/ focus = "starts" /\ StartNext /\ UNCHANGED vars

MCSpec == MCInit /\ [][MCNext]_MCVars /\ Fairness /\ StartFairness
=============================================================================
