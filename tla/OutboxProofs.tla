---------------------------- MODULE OutboxProofs ----------------------------
(***************************************************************************)
(* Theorems about Outbox for any number of events and worker processes and *)
(* any limit of attempts.                                                  *)
(*                                                                         *)
(* The inductive invariant says what a worker in the middle of a delivery  *)
(* knows: its attempt is one the row has counted and no other worker has,  *)
(* and before it publishes the receiver has got the event.                 *)
(***************************************************************************)
EXTENDS Outbox, TLAPS

\* An attempt in progress has been counted by the row.
CountedAttempts ==
  \A w \in Workers : pc[w] # "idle" => tries[w] \in 1 .. attempts[task[w]]

\* A worker that publishes has been answered; a published row has no lease.
Answered ==
  /\ \A w \in Workers : pc[w] = "publishing" => received[task[w]] # {}
  /\ PublishedWasReceived
  /\ \A e \in Events : published[e] => leaseOwner[e] = NoWorker
  /\ \A e \in Events : leaseOwner[e] = NoWorker => ~leaseExpired[e]

Inv == TypeOK /\ CountedAttempts /\ AttemptsAreExclusive /\ Answered

-----------------------------------------------------------------------------
(* The actions, as far as the rows are concerned                           *)

LEMMA InitInv == Init => Inv
  BY OutboxBounds DEF Init, Inv, TypeOK, RowTypes, WorkerTypes, Stages,
    CountedAttempts, AttemptsAreExclusive, Answered, PublishedWasReceived

\* Every step keeps rows and workers in their types.
LEMMA TypeStep == Inv /\ [Next]_vars => TypeOK'
<1> SUFFICES ASSUME Inv, [Next]_vars PROVE TypeOK'
  OBVIOUS
<1> USE OutboxBounds DEF Inv, TypeOK, RowTypes, WorkerTypes, Stages, rowVars, leaseVars, workerVars,
      budgetVars
<1>1. ASSUME NEW w \in Workers, NEW e \in Events, Claim(w, e) PROVE TypeOK'
  <2>1. attempts[e] + 1 \in 0 .. MaxAttempts
    BY <1>1 DEF Claim, Claimable
  <2> QED BY <1>1, <2>1 DEF Claim
<1>2. ASSUME NEW w \in Workers, CallWebhook(w) PROVE TypeOK'
  <2>1. tries[w] \in 1 .. MaxAttempts
    BY <1>2 DEF CallWebhook, CountedAttempts
  <2>2. received' \in [Events -> SUBSET (1 .. MaxAttempts)]
    BY <1>2, <2>1 DEF CallWebhook
  <2>3. pc' \in [Workers -> Stages] /\ UNCHANGED <<rowVars, task, tries, budgetVars>>
    BY <1>2 DEF CallWebhook
  <2> QED BY <2>2, <2>3
<1>3. ASSUME NEW w \in Workers, Publish(w) PROVE TypeOK'
  BY <1>3, ZenonT(60) DEF Publish, ReleaseLease
<1>4. ASSUME NEW w \in Workers, FailDelivery(w) PROVE TypeOK'
  BY <1>4 DEF FailDelivery, ReleaseLease
<1>5. ASSUME NEW w \in Workers, Crash(w) PROVE TypeOK'
  BY <1>5 DEF Crash
<1>6. ASSUME NEW e \in Events, BecomeDue(e) PROVE TypeOK'
  BY <1>6 DEF BecomeDue
<1>7. ASSUME NEW e \in Events, ExpireLease(e) PROVE TypeOK'
  BY <1>7 DEF ExpireLease
<1>8. CASE UNCHANGED vars
  BY <1>8 DEF vars
<1> QED
  BY <1>1, <1>2, <1>3, <1>4, <1>5, <1>6, <1>7, <1>8 DEF Next, Work

\* A claim counts a new attempt; nothing else changes attempts or starts one.
LEMMA AttemptsStep ==
  Inv /\ [Next]_vars => CountedAttempts' /\ AttemptsAreExclusive'
<1> SUFFICES ASSUME Inv, [Next]_vars PROVE CountedAttempts' /\ AttemptsAreExclusive'
  OBVIOUS
<1> USE DEF Inv, TypeOK, RowTypes, WorkerTypes, CountedAttempts, AttemptsAreExclusive,
      rowVars, leaseVars, workerVars
<1>1. ASSUME NEW w \in Workers, NEW e \in Events, Claim(w, e)
      PROVE CountedAttempts' /\ AttemptsAreExclusive'
  <2>1. /\ attempts' = [attempts EXCEPT ![e] = @ + 1]
        /\ pc' = [pc EXCEPT ![w] = "calling"]
        /\ task' = [task EXCEPT ![w] = e]
        /\ tries' = [tries EXCEPT ![w] = attempts[e] + 1]
    BY <1>1 DEF Claim
  <2>2. tries'[w] = attempts[e] + 1 /\ task'[w] = e /\ attempts'[e] = attempts[e] + 1
    BY <2>1
  <2>3. \A v \in Workers \ {w} : pc'[v] = pc[v] /\ task'[v] = task[v] /\ tries'[v] = tries[v]
    BY <2>1
  <2>4. \A x \in Events : attempts[x] \in Nat /\ attempts'[x] \in Nat /\ attempts[x] <= attempts'[x]
    BY <2>1, OutboxBounds
  <2>5. CountedAttempts'
    BY <2>2, <2>3, <2>4
  <2>6. \A v \in Workers \ {w} : pc'[v] # "idle" /\ task'[v] = e => tries'[v] # tries'[w]
    BY <2>2, <2>3, <2>4
  <2>7. AttemptsAreExclusive'
    BY <2>2, <2>3, <2>6
  <2> QED BY <2>5, <2>7
<1>2. ASSUME UNCHANGED <<attempts, task, tries>>,
             \A v \in Workers : pc'[v] # "idle" => pc[v] # "idle"
      PROVE CountedAttempts' /\ AttemptsAreExclusive'
  BY <1>2
<1>3. ASSUME NEW w \in Workers, CallWebhook(w) \/ Publish(w) \/ FailDelivery(w) \/ Crash(w)
      PROVE CountedAttempts' /\ AttemptsAreExclusive'
  BY <1>2, <1>3 DEF CallWebhook, Publish, FailDelivery, Crash
<1>4. ASSUME NEW e \in Events, BecomeDue(e) \/ ExpireLease(e)
      PROVE CountedAttempts' /\ AttemptsAreExclusive'
  BY <1>2, <1>4 DEF BecomeDue, ExpireLease
<1>5. CASE UNCHANGED vars
  BY <1>2, <1>5 DEF vars
<1> QED BY <1>1, <1>3, <1>4, <1>5 DEF Next, Work

\* The receiver forgets nothing, and only a worker it has answered publishes.
LEMMA AnsweredStep == Inv /\ [Next]_vars => Answered'
<1> SUFFICES ASSUME Inv, [Next]_vars PROVE Answered'
  OBVIOUS
<1> USE OutboxNoWorker DEF Inv, TypeOK, RowTypes, WorkerTypes, Answered, PublishedWasReceived, rowVars,
      leaseVars, workerVars
<1>1. ASSUME NEW w \in Workers, NEW e \in Events, Claim(w, e) PROVE Answered'
  BY <1>1 DEF Claim, Claimable
<1>2. ASSUME NEW w \in Workers, CallWebhook(w) PROVE Answered'
  <2>1. \A e \in Events : received[e] \subseteq received'[e]
    BY <1>2 DEF CallWebhook
  <2>2. pc'[w] = "publishing" => received'[task[w]] # {}
    BY <1>2 DEF CallWebhook
  <2>3. \A v \in Workers \ {w} : pc'[v] = pc[v]
    BY <1>2 DEF CallWebhook
  <2>4. UNCHANGED <<published, leaseOwner, leaseExpired, task>>
    BY <1>2 DEF CallWebhook
  <2> QED BY <2>1, <2>2, <2>3, <2>4
<1>3. ASSUME NEW w \in Workers, Publish(w) PROVE Answered'
  BY <1>3, ZenonT(60) DEF Publish, Open, ReleaseLease
<1>4. ASSUME NEW w \in Workers, FailDelivery(w) PROVE Answered'
  BY <1>4 DEF FailDelivery, Open, ReleaseLease
<1>5. ASSUME NEW w \in Workers, Crash(w) PROVE Answered'
  BY <1>5 DEF Crash
<1>6. ASSUME NEW e \in Events, BecomeDue(e) PROVE Answered'
  BY <1>6 DEF BecomeDue
<1>7. ASSUME NEW e \in Events, ExpireLease(e) PROVE Answered'
  BY <1>7 DEF ExpireLease
<1>8. CASE UNCHANGED vars
  BY <1>8 DEF vars
<1> QED
  BY <1>1, <1>2, <1>3, <1>4, <1>5, <1>6, <1>7, <1>8 DEF Next, Work

\* The strengthening holds in every reachable state.
THEOREM Invariance == Spec => []Inv
<1>1. Inv /\ [Next]_vars => Inv'
  BY TypeStep, AttemptsStep, AnsweredStep DEF Inv
<1> QED BY InitInv, <1>1, PTL DEF Spec

-----------------------------------------------------------------------------
(* Theorems                                                                *)

\* Attempts stay within the limit of claim_next_outbox, and every column and
\* worker variable keeps its type.
THEOREM DeliveryTypes == Spec => []TypeOK
<1>1. Inv => TypeOK
  BY DEF Inv
<1> QED BY <1>1, Invariance, PTL

\* No event counts as published that the receiver never got, whichever worker
\* published it and under whichever attempt.
THEOREM AtLeastOnce == Spec => []PublishedWasReceived
<1>1. Inv => PublishedWasReceived
  BY DEF Inv, Answered
<1> QED BY <1>1, Invariance, PTL

\* A superseded worker and its successor never share an attempt number.
THEOREM ExclusiveAttempts == Spec => []AttemptsAreExclusive
<1>1. Inv => AttemptsAreExclusive
  BY DEF Inv
<1> QED BY <1>1, Invariance, PTL

\* No step of any worker or of time touches a published row.
LEMMA PublishedStep ==
  ASSUME Inv, [Next]_vars, NEW x \in Events, published[x]
  PROVE  published'[x] /\ attempts'[x] = attempts[x] /\ leaseOwner'[x] = NoWorker
<1> DEFINE Goal == published'[x] /\ attempts'[x] = attempts[x] /\ leaseOwner'[x] = NoWorker
<1> USE OutboxNoWorker DEF Inv, TypeOK, RowTypes, WorkerTypes, Answered, rowVars, leaseVars
<1>1. ASSUME NEW w \in Workers, NEW e \in Events, Claim(w, e) PROVE Goal
  <2>1. x # e
    BY <1>1 DEF Claim, Claimable
  <2> QED BY <1>1, <2>1 DEF Claim
<1>2. ASSUME NEW w \in Workers, CallWebhook(w) \/ Crash(w) PROVE Goal
  BY <1>2 DEF CallWebhook, Crash
<1>3. ASSUME NEW w \in Workers, Publish(w) PROVE Goal
  BY <1>3 DEF Publish, Open, ReleaseLease
<1>4. ASSUME NEW w \in Workers, FailDelivery(w) PROVE Goal
  BY <1>4 DEF FailDelivery, Open, ReleaseLease
<1>5. ASSUME NEW e \in Events, BecomeDue(e) \/ ExpireLease(e) PROVE Goal
  BY <1>5 DEF BecomeDue, ExpireLease
<1>6. CASE UNCHANGED vars
  BY <1>6 DEF vars
<1> QED BY <1>1, <1>2, <1>3, <1>4, <1>5, <1>6 DEF Next, Work

\* Published is final, however late a superseded worker answers.
THEOREM PublishedForGood == Spec => PublishedStaysPublished
<1>1. Inv /\ [Next]_vars =>
        [\A e \in Events : published[e] =>
           /\ published'[e]
           /\ attempts'[e] = attempts[e]
           /\ leaseOwner'[e] = NoWorker]_vars
  BY PublishedStep
<1> QED BY <1>1, Invariance, PTL DEF Spec, PublishedStaysPublished

\* A lease that has not run out is given up by its owner only.
LEMMA LeaseStep ==
  ASSUME Inv, [Next]_vars, NEW x \in Events, NEW v \in Workers,
         leaseOwner[x] = v, ~leaseExpired[x]
  PROVE  leaseOwner'[x] = v \/ pc'[v] # pc[v]
<1> DEFINE Goal == leaseOwner'[x] = v \/ pc'[v] # pc[v]
<1> USE OutboxNoWorker DEF Inv, TypeOK, RowTypes, WorkerTypes, rowVars, leaseVars
<1>1. ASSUME NEW w \in Workers, NEW e \in Events, Claim(w, e) PROVE Goal
  <2>1. x # e
    BY <1>1 DEF Claim, Claimable
  <2> QED BY <1>1, <2>1 DEF Claim
<1>2. ASSUME NEW w \in Workers, CallWebhook(w) \/ Crash(w) PROVE Goal
  BY <1>2 DEF CallWebhook, Crash
<1>3. ASSUME NEW w \in Workers, Publish(w) PROVE Goal
  BY <1>3 DEF Publish, Open, ReleaseLease
<1>4. ASSUME NEW w \in Workers, FailDelivery(w) PROVE Goal
  BY <1>4 DEF FailDelivery, Open, ReleaseLease
<1>5. ASSUME NEW e \in Events, BecomeDue(e) \/ ExpireLease(e) PROVE Goal
  BY <1>5 DEF BecomeDue, ExpireLease
<1>6. CASE UNCHANGED vars
  BY <1>6 DEF vars
<1> QED BY <1>1, <1>2, <1>3, <1>4, <1>5, <1>6 DEF Next, Work

\* The late answer of a superseded worker never frees the row under its
\* successor.
THEOREM LeasesAreKept == Spec => LeaseIsKept
<1>1. Inv /\ [Next]_vars =>
        [\A e \in Events, w \in Workers :
           leaseOwner[e] = w /\ ~leaseExpired[e] =>
             leaseOwner'[e] = w \/ pc'[w] # pc[w]]_vars
  BY LeaseStep
<1> QED BY <1>1, Invariance, PTL DEF Spec, LeaseIsKept
=============================================================================
