------------------------------- MODULE Outbox -------------------------------
(***************************************************************************)
(* Delivery of outbox events: the worker processes take leases on the rows *)
(* of outbox_events (claim_next_outbox of drizzle/0013), call the          *)
(* notification webhook and record the outcome (dispatchOutbox of          *)
(* src/worker/runtime.ts).  The webhook may receive a call whose answer is *)
(* lost, a transaction may commit although its acknowledgement is lost, a  *)
(* process may crash, and a lease may run out under a slow process.        *)
(***************************************************************************)
EXTENDS Naturals, FiniteSets

CONSTANTS
  Events,       \* rows of outbox_events, all committed
  Workers,      \* worker processes
  NoWorker,     \* lease_owner IS NULL
  MaxAttempts,  \* the attempts claim_next_outbox allows (10)
  MaxStalls,    \* bound: leases that run out while the owner still works
  MaxCrashes    \* bound: crashes of worker processes

ASSUME OutboxNoWorker == NoWorker \notin Workers
ASSUME OutboxBounds ==
  MaxAttempts \in Nat \ {0} /\ MaxStalls \in Nat /\ MaxCrashes \in Nat

VARIABLES
  published, attempts, due, leaseOwner, leaseExpired,  \* table outbox_events
  received,                                            \* attempts the webhook got, per event
  pc, task, tries,                                     \* worker processes
  stalls, crashes                                      \* environment budgets

leaseVars == <<leaseOwner, leaseExpired>>
rowVars == <<published, attempts, due, leaseVars>>
workerVars == <<pc, task, tries>>
budgetVars == <<stalls, crashes>>
vars == <<rowVars, received, workerVars, budgetVars>>

Stages == {"idle", "calling", "publishing", "failing"}

RowTypes ==
  /\ published \in [Events -> BOOLEAN]
  /\ attempts \in [Events -> 0 .. MaxAttempts]
  /\ due \in [Events -> BOOLEAN]
  /\ leaseOwner \in [Events -> Workers \cup {NoWorker}]
  /\ leaseExpired \in [Events -> BOOLEAN]
WorkerTypes ==
  /\ pc \in [Workers -> Stages]
  /\ task \in [Workers -> Events]
  /\ tries \in [Workers -> 0 .. MaxAttempts]

TypeOK ==
  /\ RowTypes /\ WorkerTypes
  /\ received \in [Events -> SUBSET (1 .. MaxAttempts)]
  /\ stalls \in 0 .. MaxStalls /\ crashes \in 0 .. MaxCrashes

Init ==
  /\ published = [e \in Events |-> FALSE]
  /\ attempts = [e \in Events |-> 0]
  /\ due = [e \in Events |-> TRUE]
  /\ leaseOwner = [e \in Events |-> NoWorker]
  /\ leaseExpired = [e \in Events |-> FALSE]
  /\ received = [e \in Events |-> {}]
  /\ pc = [w \in Workers |-> "idle"]
  /\ task \in [Workers -> Events]
  /\ tries = [w \in Workers |-> 0]
  /\ stalls = 0
  /\ crashes = 0

-----------------------------------------------------------------------------
(* One delivery attempt                                                    *)

\* Mutant: an expired lease is never taken over.
ClaimableNoTakeover(e) ==
  ~published[e] /\ attempts[e] < MaxAttempts /\ leaseOwner[e] = NoWorker /\ due[e]

Claimable(e) ==
  /\ ~published[e]
  /\ attempts[e] < MaxAttempts
  /\ (leaseOwner[e] = NoWorker /\ due[e]) \/ leaseExpired[e]

Claim(w, e) ==
  /\ pc[w] = "idle"
  /\ Claimable(e)
  /\ attempts' = [attempts EXCEPT ![e] = @ + 1]
  /\ leaseOwner' = [leaseOwner EXCEPT ![e] = w]
  /\ leaseExpired' = [leaseExpired EXCEPT ![e] = FALSE]
  /\ pc' = [pc EXCEPT ![w] = "calling"]
  /\ task' = [task EXCEPT ![w] = e]
  /\ tries' = [tries EXCEPT ![w] = attempts[e] + 1]
  /\ UNCHANGED <<published, due, received, budgetVars>>

\* Mutant: the answer of the webhook is not looked at.
CallWebhookUnchecked(w) ==
  /\ pc[w] = "calling"
  /\ \E got \in {{}, {tries[w]}} : received' = [received EXCEPT ![task[w]] = @ \cup got]
  /\ pc' = [pc EXCEPT ![w] = "publishing"]
  /\ UNCHANGED <<rowVars, task, tries, budgetVars>>

\* The webhook accepts the call; or the call fails, times out or is answered
\* with an error, whether or not the receiver got it.
CallWebhook(w) ==
  /\ pc[w] = "calling"
  /\ \/ /\ received' = [received EXCEPT ![task[w]] = @ \cup {tries[w]}]
        /\ \E stage \in {"publishing", "failing"} : pc' = [pc EXCEPT ![w] = stage]
     \/ /\ pc' = [pc EXCEPT ![w] = "failing"]
        /\ UNCHANGED received
  /\ UNCHANGED <<rowVars, task, tries, budgetVars>>

\* Mutant: the owner of the lease is not compared.
OpenUnowned(w) == ~published[task[w]]

\* The WHERE clause of both updates.
Open(w) == ~published[task[w]] /\ leaseOwner[task[w]] = w

ReleaseLease(e) ==
  /\ leaseOwner' = [leaseOwner EXCEPT ![e] = NoWorker]
  /\ leaseExpired' = [leaseExpired EXCEPT ![e] = FALSE]

\* published_at is set, or the row is no longer ours, or the transaction fails:
\* before or after its commit, the error leads into the catch block.
Publish(w) ==
  /\ pc[w] = "publishing"
  /\ \/ /\ Open(w)
        /\ published' = [published EXCEPT ![task[w]] = TRUE]
        /\ ReleaseLease(task[w])
        /\ \E stage \in {"idle", "failing"} : pc' = [pc EXCEPT ![w] = stage]
     \/ /\ pc' = [pc EXCEPT ![w] = "failing"]
        /\ UNCHANGED <<published, leaseVars>>
  /\ UNCHANGED <<attempts, due, received, task, tries, budgetVars>>

\* The catch block books the retry; when that fails too, run() logs the error
\* and the row waits for its lease to run out.
FailDelivery(w) ==
  /\ pc[w] = "failing"
  /\ pc' = [pc EXCEPT ![w] = "idle"]
  /\ \/ /\ Open(w)
        /\ due' = [due EXCEPT ![task[w]] = FALSE]
        /\ ReleaseLease(task[w])
     \/ UNCHANGED <<due, leaseVars>>
  /\ UNCHANGED <<published, attempts, received, task, tries, budgetVars>>

-----------------------------------------------------------------------------
(* Environment                                                             *)

Crash(w) ==
  /\ pc[w] # "idle"
  /\ crashes < MaxCrashes
  /\ crashes' = crashes + 1
  /\ pc' = [pc EXCEPT ![w] = "idle"]
  /\ UNCHANGED <<rowVars, received, task, tries, stalls>>

\* available_at comes: the retry delay is over.
BecomeDue(e) ==
  /\ ~due[e]
  /\ due' = [due EXCEPT ![e] = TRUE]
  /\ UNCHANGED <<published, attempts, leaseVars, received, workerVars, budgetVars>>

Attended(e) == \E w \in Workers : pc[w] # "idle" /\ task[w] = e /\ leaseOwner[e] = w

\* The lease outlives the webhook timeout, so it runs out when nobody works
\* under it, or at most MaxStalls times under a slow process.
ExpireLease(e) ==
  /\ leaseOwner[e] # NoWorker
  /\ ~leaseExpired[e]
  /\ IF Attended(e)
     THEN stalls < MaxStalls /\ stalls' = stalls + 1
     ELSE UNCHANGED stalls
  /\ leaseExpired' = [leaseExpired EXCEPT ![e] = TRUE]
  /\ UNCHANGED <<published, attempts, due, leaseOwner, received, workerVars, crashes>>

-----------------------------------------------------------------------------
(* Specification                                                           *)

Work(w) == CallWebhook(w) \/ Publish(w) \/ FailDelivery(w)

Next ==
  \/ \E w \in Workers : Work(w) \/ Crash(w) \/ \E e \in Events : Claim(w, e)
  \/ \E e \in Events : BecomeDue(e) \/ ExpireLease(e)

\* A process keeps executing, the poll loop claims what is claimable, delays
\* and abandoned leases run out.  Nothing makes a call succeed.
Fairness ==
  /\ \A w \in Workers : WF_vars(Work(w))
  /\ \A e \in Events : WF_vars(\E w \in Workers : Claim(w, e))
  /\ \A e \in Events : WF_vars(BecomeDue(e))
  /\ \A e \in Events : WF_vars(~Attended(e) /\ ExpireLease(e))

Spec == Init /\ [][Next]_vars
FairSpec == Spec /\ Fairness

-----------------------------------------------------------------------------
(* Properties                                                              *)

\* At least once: no event counts as published that the receiver never got.
PublishedWasReceived == \A e \in Events : published[e] => received[e] # {}

\* A published event is settled: no worker, however late, reopens it, leases it
\* or books another retry for it.
PublishedStaysPublished ==
  [][\A e \in Events : published[e] =>
       /\ published'[e]
       /\ attempts'[e] = attempts[e]
       /\ leaseOwner'[e] = NoWorker]_vars

\* Only the owner gives up a lease that has not run out: the late answer of a
\* superseded process never frees the row under its successor.
LeaseIsKept ==
  [][\A e \in Events, w \in Workers :
       leaseOwner[e] = w /\ ~leaseExpired[e] =>
         leaseOwner'[e] = w \/ pc'[w] # pc[w]]_vars

\* Two processes never work on one event under the same attempt, so the attempt
\* number the webhook sees tells redeliveries apart.
AttemptsAreExclusive ==
  \A v, w \in Workers :
    v # w /\ pc[v] # "idle" /\ pc[w] # "idle" /\ task[v] = task[w] =>
      tries[v] # tries[w]

\* Every event ends up published or out of attempts, whatever fails.
EveryEventSettles ==
  \A e \in Events : <>(published[e] \/ attempts[e] = MaxAttempts)
=============================================================================
