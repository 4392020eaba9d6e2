----------------------------- MODULE AgentRuns -----------------------------
(***************************************************************************)
(* The life of a run of the tax agent: the agent delivers an answer or     *)
(* proposes a workpaper for review, the callbacks of its response stream   *)
(* settle the run, a later start recovers a run nobody settled, and the    *)
(* reviewer decides (assistant-service.ts, tools.ts, ai-store.ts and       *)
(* drizzle/0010).                                                          *)
(*                                                                         *)
(* One action is one transaction, which may fail, or commit although its   *)
(* acknowledgement is lost, or one step of the web process.  The budget    *)
(* and the locks of the start transaction are in module RunStart: here a   *)
(* start is one action, which may be refused.                              *)
(***************************************************************************)
CONSTANT Runs    \* requests to the assistant, each starting at most one run

VARIABLES
  status,           \* agent_runs.workflow_status, "none" without a row
  completed,        \* agent_runs.completed_at IS NOT NULL
  errored,          \* agent_runs.error_code IS NOT NULL
  aged,             \* the run was started more than two minutes ago
  approval,         \* approvals.status of the workpaper of the run
  expired,          \* approvals.expires_at has passed
  evidenceCurrent,  \* workpaper_evidence_is_current holds for bound evidence
  pc,               \* what the response stream of the request is doing
  result,           \* the status onEnd has decided to report
  drafting,         \* proposeWorkpaper waits for createWorkpaperDraft
  proposed,         \* verificationState.proposed
  delivered,        \* verificationState.delivered
  failing           \* onError has started an update nobody waits for

runVars == <<status, completed, errored>>
reviewVars == <<approval, expired>>
timeVars == <<aged, evidenceCurrent>>
streamVars == <<pc, result, failing>>
toolVars == <<drafting, proposed, delivered>>
vars == <<runVars, reviewVars, timeVars, streamVars, toolVars>>

Stages == {"new", "running", "ending", "gone"}
Decided == {"APPROVED", "REJECTED"}
Statuses == {"none", "INTAKE", "VERIFY", "AWAITING_REVIEW", "FAILED"} \cup Decided

TypeOK ==
  /\ status \in [Runs -> Statuses]
  /\ completed \in [Runs -> BOOLEAN]
  /\ errored \in [Runs -> BOOLEAN]
  /\ aged \in [Runs -> BOOLEAN]
  /\ approval \in [Runs -> {"none", "PENDING"} \cup Decided]
  /\ expired \in [Runs -> BOOLEAN]
  /\ evidenceCurrent \in BOOLEAN
  /\ pc \in [Runs -> Stages]
  /\ result \in [Runs -> {"none", "AWAITING_REVIEW", "VERIFY", "FAILED"}]
  /\ drafting \in [Runs -> BOOLEAN]
  /\ proposed \in [Runs -> BOOLEAN]
  /\ delivered \in [Runs -> BOOLEAN]
  /\ failing \in [Runs -> BOOLEAN]

Init ==
  /\ status = [r \in Runs |-> "none"]
  /\ completed = [r \in Runs |-> FALSE]
  /\ errored = [r \in Runs |-> FALSE]
  /\ aged = [r \in Runs |-> FALSE]
  /\ approval = [r \in Runs |-> "none"]
  /\ expired = [r \in Runs |-> FALSE]
  /\ evidenceCurrent = TRUE
  /\ pc = [r \in Runs |-> "new"]
  /\ result = [r \in Runs |-> "none"]
  /\ drafting = [r \in Runs |-> FALSE]
  /\ proposed = [r \in Runs |-> FALSE]
  /\ delivered = [r \in Runs |-> FALSE]
  /\ failing = [r \in Runs |-> FALSE]

-----------------------------------------------------------------------------
(* The request and the agent                                               *)

Goto(r, stage) == pc' = [pc EXCEPT ![r] = stage]

\* completed_at IS NULL
Open(r) == status[r] # "none" /\ ~completed[r]

\* startAgentRun: the runs still open after two minutes fail, and the run of r
\* is inserted; without the acknowledgement nobody will settle it.
StartRun(r) ==
  LET stale == {x \in Runs : Open(x) /\ aged[x]}
  IN
  /\ pc[r] = "new"
  /\ status' = [x \in Runs |-> IF x = r THEN "INTAKE"
                               ELSE IF x \in stale THEN "FAILED" ELSE status[x]]
  /\ completed' = [x \in Runs |-> completed[x] \/ x \in stale]
  /\ errored' = [x \in Runs |-> errored[x] \/ x \in stale]
  /\ \E stage \in {"running", "gone"} : Goto(r, stage)
  /\ UNCHANGED <<reviewVars, timeVars, result, failing, toolVars>>

\* The request is refused before its run starts, by the limit, the policy, the
\* prompt guard or the budget, is answered by the demo, or the start fails:
\* nothing of a run remains.
RefuseStart(r) ==
  /\ pc[r] = "new"
  /\ Goto(r, "gone")
  /\ UNCHANGED <<runVars, reviewVars, timeVars, result, failing, toolVars>>

\* deliverVerifiedAnswer
Deliver(r) ==
  /\ pc[r] = "running" /\ ~proposed[r] /\ ~delivered[r]
  /\ delivered' = [delivered EXCEPT ![r] = TRUE]
  /\ UNCHANGED <<runVars, reviewVars, timeVars, streamVars, drafting, proposed>>

\* proposeWorkpaper sets its flag before it calls the database.
Propose(r) ==
  /\ pc[r] = "running" /\ ~proposed[r] /\ ~delivered[r]
  /\ proposed' = [proposed EXCEPT ![r] = TRUE]
  /\ drafting' = [drafting EXCEPT ![r] = TRUE]
  /\ UNCHANGED <<runVars, reviewVars, timeVars, streamVars, delivered>>

\* Mutant: whether the run was settled meanwhile is not asked.
DraftableSettled(r) == status[r] # "none" /\ evidenceCurrent

Draftable(r) == status[r] \in {"INTAKE", "VERIFY"} /\ Open(r) /\ evidenceCurrent

\* Mutant: the request is written and its run is not moved.
WriteDraftUnmoved(r) ==
  /\ drafting[r]
  /\ drafting' = [drafting EXCEPT ![r] = FALSE]
  /\ \/ Draftable(r) /\ approval' = [approval EXCEPT ![r] = "PENDING"]
     \/ UNCHANGED approval
  /\ UNCHANGED <<runVars, expired, timeVars, streamVars, proposed, delivered>>

\* createWorkpaperDraft and create_workpaper_review_request, whatever has become
\* of the stream; any error resets the flag, even when the draft was committed.
WriteDraft(r) ==
  /\ drafting[r]
  /\ drafting' = [drafting EXCEPT ![r] = FALSE]
  /\ \/ /\ Draftable(r)
        /\ approval' = [approval EXCEPT ![r] = "PENDING"]
        /\ status' = [status EXCEPT ![r] = "AWAITING_REVIEW"]
        /\ \E acknowledged \in BOOLEAN : proposed' = [proposed EXCEPT ![r] = acknowledged]
     \/ /\ proposed' = [proposed EXCEPT ![r] = FALSE]
        /\ UNCHANGED <<approval, status>>
  /\ UNCHANGED <<completed, errored, expired, timeVars, streamVars, delivered>>

-----------------------------------------------------------------------------
(* The callbacks of the response stream                                    *)

\* onError starts an update to FAILED, at most once, and does not wait for it;
\* the stream goes on, or breaks off.
StreamError(r) ==
  /\ pc[r] \in {"running", "ending"} /\ ~failing[r]
  /\ failing' = [failing EXCEPT ![r] = TRUE]
  /\ \E stage \in {pc[r], "gone"} : Goto(r, stage)
  /\ UNCHANGED <<runVars, reviewVars, timeVars, result, toolVars>>

\* What onEnd reports.
Outcome(r) ==
  IF proposed[r] THEN "AWAITING_REVIEW" ELSE IF delivered[r] THEN "VERIFY" ELSE "FAILED"

\* onEnd reads the flags; the client may have left while a draft is written.
EndStream(r) ==
  /\ pc[r] = "running"
  /\ result' = [result EXCEPT ![r] = Outcome(r)]
  /\ Goto(r, "ending")
  /\ UNCHANGED <<runVars, reviewVars, timeVars, failing, toolVars>>

\* Abort, timeout or crash: no callback settles the run.
Abandon(r) ==
  /\ pc[r] \in {"running", "ending"}
  /\ Goto(r, "gone")
  /\ UNCHANGED <<runVars, reviewVars, timeVars, result, failing, toolVars>>

\* finishAgentRun: the first settlement counts, every later one finds no row.
Settle(r, outcome, isError) ==
  /\ IF Open(r)
     THEN /\ status' = [status EXCEPT ![r] = outcome]
          /\ completed' = [completed EXCEPT ![r] = TRUE]
          /\ errored' = [errored EXCEPT ![r] = isError]
     ELSE UNCHANGED runVars
  /\ UNCHANGED <<reviewVars, timeVars, result, toolVars>>

FinishEnd(r) ==
  /\ pc[r] = "ending"
  /\ Settle(r, result[r], result[r] = "FAILED")
  /\ Goto(r, "gone")
  /\ UNCHANGED failing

FinishError(r) ==
  /\ failing[r]
  /\ Settle(r, "FAILED", TRUE)
  /\ failing' = [failing EXCEPT ![r] = FALSE]
  /\ UNCHANGED pc

-----------------------------------------------------------------------------
(* The reviewer and the passing of time                                    *)

\* Mutant: the run is updated if it can be, and the decision stands anyway.
DecideAnyRun(r) ==
  /\ approval[r] = "PENDING" /\ ~expired[r] /\ evidenceCurrent
  /\ \E decision \in Decided :
       /\ approval' = [approval EXCEPT ![r] = decision]
       /\ status' = [status EXCEPT ![r] = IF @ = "AWAITING_REVIEW" THEN decision ELSE @]
  /\ UNCHANGED <<completed, errored, expired, timeVars, streamVars, toolVars>>

\* decide_workpaper_review holds the rows of the approval and of the run.
Decide(r) ==
  /\ approval[r] = "PENDING" /\ ~expired[r] /\ evidenceCurrent
  /\ status[r] = "AWAITING_REVIEW" /\ completed[r] /\ ~errored[r]
  /\ \E decision \in Decided :
       /\ approval' = [approval EXCEPT ![r] = decision]
       /\ status' = [status EXCEPT ![r] = decision]
  /\ UNCHANGED <<completed, errored, expired, timeVars, streamVars, toolVars>>

\* A run is open for two minutes.
Age(r) ==
  /\ Open(r) /\ ~aged[r]
  /\ aged' = [aged EXCEPT ![r] = TRUE]
  /\ UNCHANGED <<runVars, reviewVars, evidenceCurrent, streamVars, toolVars>>

\* An approval is pending for seven days.
Expire(r) ==
  /\ approval[r] = "PENDING" /\ ~expired[r]
  /\ expired' = [expired EXCEPT ![r] = TRUE]
  /\ UNCHANGED <<runVars, approval, timeVars, streamVars, toolVars>>

\* A rescan withdraws the evidence, and it is indexed and approved again.
ChangeEvidence ==
  /\ evidenceCurrent' = ~evidenceCurrent
  /\ UNCHANGED <<runVars, reviewVars, aged, streamVars, toolVars>>

-----------------------------------------------------------------------------
(* Specification                                                           *)

Request(r) ==
  \/ StartRun(r) \/ RefuseStart(r) \/ Deliver(r) \/ Propose(r) \/ WriteDraft(r)
  \/ StreamError(r) \/ EndStream(r) \/ Abandon(r) \/ FinishEnd(r) \/ FinishError(r)

Next ==
  \/ \E r \in Runs : Request(r) \/ Decide(r) \/ Age(r) \/ Expire(r)
  \/ ChangeEvidence

Spec == Init /\ [][Next]_vars

-----------------------------------------------------------------------------
(* Properties                                                              *)

\* docs/architecture.md:118 "the approval and the run are moved in one
\* transaction": a decision is found in both tables or in neither, on a run
\* that was completed without an error.
DecisionsMatchRuns ==
  \A r \in Runs :
    /\ approval[r] \in Decided \/ status[r] \in Decided => approval[r] = status[r]
    /\ approval[r] \in Decided => completed[r] /\ ~errored[r]

\* A draft that is proposed twice, after a lost answer, or written after the
\* stream has ended leaves an open run that waits for review exactly when its
\* request is pending.
OpenRunsMatchRequests ==
  \A r \in Runs : Open(r) => (status[r] = "AWAITING_REVIEW" <=> approval[r] = "PENDING")

\* The first settlement of a run is final: the callbacks of its stream, a late
\* draft and the recovery of stale runs change nothing after it, and only a
\* decision follows.
CompletedRunsStay ==
  [][\A r \in Runs : completed[r] =>
       /\ completed'[r] /\ errored'[r] = errored[r]
       /\ status'[r] # status[r] =>
            status[r] = "AWAITING_REVIEW" /\ status'[r] \in Decided]_vars

\* workflows/state-machine.ts:19: a run that waits for review leaves that state
\* only by a decision.
AwaitingReviewIsDecided ==
  [][\A r \in Runs : status[r] = "AWAITING_REVIEW" /\ status'[r] # status[r]
       => status'[r] \in Decided]_vars
=============================================================================
