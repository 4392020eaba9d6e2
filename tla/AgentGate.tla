----------------------------- MODULE AgentGate -----------------------------
(***************************************************************************)
(* The verification gates of the tax agent: the tools of one run, which    *)
(* share a verification state (tools.ts, evidence-verifier.ts), the loop   *)
(* that allows one tool per step (tax-agent.ts), the token budget and the  *)
(* filter of the response stream (assistant-service.ts, stream-policy.ts). *)
(*                                                                         *)
(* The model may call the tool of a step several times, and the calls run  *)
(* concurrently: every await of a tool ends an action.  What becomes of    *)
(* the row of the run is in module AgentRuns.                              *)
(***************************************************************************)
EXTENDS Naturals, FiniteSets

CONSTANTS
  Calls,         \* the calls the model can make in one step
  Evidence,      \* ids of retrievable evidence
  Authority,     \* those with source_type TAX_AUTHORITY
  Claims,        \* the claims the model can write
  Cites,         \* Cites[k]: the evidence ids of a claim
  Legal,         \* claims of type LEGAL_RULE; the others are TRANSACTION_FACT
  Faithful,      \* claims whose words and numbers are those of what they cite
  Titles,        \* titles of an answer
  None,          \* undefined
  MaxSteps,      \* defaultAiBudget.maxSteps
  MaxToolCalls   \* defaultAiBudget.maxToolCalls

ASSUME CallsAssumption == IsFiniteSet(Calls)
ASSUME EvidenceAssumption == Authority \subseteq Evidence
ASSUME ClaimsAssumption ==
  /\ Cites \in [Claims -> SUBSET Evidence]
  /\ \A k \in Claims : Cites[k] # {}
  /\ Legal \subseteq Claims /\ Faithful \subseteq Claims
ASSUME BudgetAssumption == MaxSteps \in Nat \ {0} /\ MaxToolCalls \in Nat
\* An outcome takes up to five steps with one call each; the code allows eight
\* steps and six calls.
ASSUME LadderAssumption == MaxSteps >= 5 /\ MaxToolCalls >= 5

Tools == {"searchTaxSources", "calculateVat", "verifyEvidence", "independentReview",
          "proposeWorkpaper", "deliverVerifiedAnswer", "abstain"}

VARIABLES
  context,    \* what the question asks for: a calculation, a workpaper
  state,      \* TaxVerificationState and the verified answer of the agent
  calls,      \* calls[c]: the call c of the current step
  active,     \* activeTools of the current step, empty between two steps
  step,       \* steps begun
  failed,     \* some step has a tool-error part
  toolCalls,  \* calls the budget has counted
  ended,      \* "no", or how the loop ended: "finished", "limit", "aborted"
  shown,      \* the tools whose results the client was sent, with their calls
  accepted,   \* history: what a verifier found SUPPORTED and COMPLETE
  grounds,    \* history: what the retrieval of the last integrity check found
  released    \* history: answers that were delivered and drafts that were stored

loopVars == <<active, step, failed, toolCalls, ended>>
historyVars == <<accepted, grounds, released>>
vars == <<context, state, calls, loopVars, shown, historyVars>>

\* A call that was not made, and one in some stage of tool t.
NoCall == [tool |-> None, stage |-> "unused", input |-> None]
At(t, s, i) == [tool |-> t, stage |-> s, input |-> i]

\* createVerificationState
InitialState ==
  [evidence |-> {}, calculations |-> 0, verifiedClaims |-> {},
   integrityVerified |-> FALSE, integrityEvidenceIds |-> {},
   searchAttempted |-> FALSE, integrityAttempted |-> FALSE,
   independentAttempted |-> FALSE, independentlyVerified |-> FALSE,
   artifact |-> None, verifiedAnswer |-> None,
   proposed |-> FALSE, abstained |-> FALSE, delivered |-> FALSE]

Init ==
  /\ context \in [calculationRequired : BOOLEAN, requestWorkpaper : BOOLEAN]
  /\ state = InitialState
  /\ calls = [c \in Calls |-> NoCall]
  /\ active = {} /\ step = 0 /\ failed = FALSE /\ toolCalls = 0 /\ ended = "no"
  /\ shown = {}
  /\ accepted = {} /\ grounds = {} /\ released = {}

-----------------------------------------------------------------------------
(* What the tools compute                                                  *)

\* The evidence of a set of claims, without duplicates.
Cited(claims) == UNION {Cites[k] : k \in claims}

\* The content of an answer: verificationArtifactHash identifies it, with what
\* the evidence map and the calculations held.
Answer(title, claims) == [title |-> title, conclusion |-> claims, evidenceIds |-> Cited(claims)]
ArtifactHash(answer, calculations, evidence, claims) ==
  [answer |-> answer, evidence |-> answer.evidenceIds \cap evidence,
   calculations |-> calculations, claims |-> claims]

\* verifyClaims: a claim cites retrieved evidence only, of the tier its type
\* requires, and repeats what it says.
Supported(claims, found) ==
  {k \in claims :
     /\ k \in Faithful /\ Cites[k] \subseteq found
     /\ IF k \in Legal THEN Cites[k] \cap Authority # {} ELSE Cites[k] \ Authority # {}}

\* The conditions under which independentReview asks the verifier.
InputIsBound(claims) ==
  /\ state.integrityVerified /\ claims # {}
  /\ Cited(claims) \subseteq state.evidence \cap state.integrityEvidenceIds
  /\ Cited(claims) \cap Authority # {}

\* Mutant: what has already been delivered can be delivered again.
ReleasableTwice(answer) ==
  /\ state.integrityVerified /\ state.independentlyVerified
  /\ answer.evidenceIds \subseteq state.integrityEvidenceIds
  /\ answer.evidenceIds \cap Authority # {}
  /\ state.artifact = ArtifactHash(answer, state.calculations, state.evidence, state.verifiedClaims)
  /\ answer.conclusion = state.verifiedClaims
  /\ ~state.abstained

\* The gate of deliverVerifiedAnswer and of proposeWorkpaper.
Releasable(answer) ==
  /\ state.integrityVerified /\ state.independentlyVerified
  /\ answer.evidenceIds \subseteq state.integrityEvidenceIds
  /\ answer.evidenceIds \cap Authority # {}
  /\ state.artifact = ArtifactHash(answer, state.calculations, state.evidence, state.verifiedClaims)
  /\ answer.conclusion = state.verifiedClaims
  /\ ~state.proposed /\ ~state.delivered /\ ~state.abstained

-----------------------------------------------------------------------------
(* A call and its stages                                                   *)

\* The model calls tool t, while its step is still open.
Callable(c, t) == ended = "no" /\ t \in active /\ calls[c] = NoCall

Advance(c, t, stage, input) == calls' = [calls EXCEPT ![c] = At(t, stage, input)]

\* An exception leaves the tool: a tool-error part.
Throw(c) == calls' = [calls EXCEPT ![c].stage = "error"]

AtStage(c, t, stage) == calls[c].tool = t /\ calls[c].stage = stage

\* The tools whose results stream-policy.ts lets through.
clientVisibleTools ==
  {"independentReview", "deliverVerifiedAnswer", "proposeWorkpaper", "abstain"}

\* The arguments fail the schema of the tool.
InvalidCall(c) ==
  \E t \in Tools :
    /\ Callable(c, t)
    /\ Advance(c, t, "error", None)
    /\ UNCHANGED <<context, state, loopVars, shown, historyVars>>

\* A database or provider call of a tool fails before the tool records it.
Fail(c) ==
  /\ calls[c].stage \in {"retrieving", "logging", "asking"}
  /\ Throw(c)
  /\ UNCHANGED <<context, state, loopVars, shown, historyVars>>

\* recordToolCall ends a tool: its result is streamed unless the stream is over,
\* or it throws although the tool has done its work.
Record(c) ==
  /\ calls[c].stage = "recording"
  /\ \/ /\ calls' = [calls EXCEPT ![c].stage = "done"]
        /\ shown' = IF ended = "no" /\ calls[c].tool \in clientVisibleTools
                    THEN shown \cup {<<calls[c].tool, step, c>>} ELSE shown
     \/ Throw(c) /\ UNCHANGED shown
  /\ UNCHANGED <<context, state, loopVars, historyVars>>

-----------------------------------------------------------------------------
(* Search, calculation and the integrity check                             *)

Search(c) ==
  /\ Callable(c, "searchTaxSources")
  /\ state' = [state EXCEPT !.searchAttempted = TRUE]
  /\ Advance(c, "searchTaxSources", "retrieving", None)
  /\ UNCHANGED <<context, loopVars, shown, historyVars>>

\* What the store may rank highest: the evidence of the matter that is approved,
\* safe and in force, and scores well enough; approvals change all the time.
searchEvidence == SUBSET Evidence

\* protectRetrievedEvidenceForProvider drops what its source, the data-loss
\* service or the classifiers object to, and puts nothing in its place.
protectRetrievedEvidence(items) == SUBSET items

\* retrieveEvidenceForContext; the retrieval event is recorded next.
Retrieve(c) ==
  /\ calls[c].stage = "retrieving"
  /\ \E items \in searchEvidence : \E found \in protectRetrievedEvidence(items) :
       /\ state' = [state EXCEPT !.evidence = @ \cup found]
       /\ calls' = [calls EXCEPT ![c] =
            IF @.tool = "searchTaxSources" THEN At(@.tool, "recording", None)
            ELSE At(@.tool, "logging", [@.input EXCEPT !.found = found])]
  /\ UNCHANGED <<context, loopVars, shown, historyVars>>

Calculate(c) ==
  /\ Callable(c, "calculateVat")
  /\ state' = [state EXCEPT !.calculations = @ + 1]
  /\ Advance(c, "calculateVat", "recording", None)
  /\ UNCHANGED <<context, loopVars, shown, historyVars>>

VerifyEvidence(c) ==
  /\ Callable(c, "verifyEvidence")
  /\ state' = [state EXCEPT !.integrityAttempted = TRUE]
  /\ \E claims \in SUBSET Claims \ {{}} :
       Advance(c, "verifyEvidence", "retrieving", [claims |-> claims, found |-> {}])
  /\ UNCHANGED <<context, loopVars, shown, historyVars>>

\* Mutant: the claims of an earlier check are not cleared.
CheckUncleared(claims, found, duplicates) ==
  LET verified == Supported(claims, found) = claims /\ ~duplicates
  IN [state EXCEPT !.integrityVerified = verified,
                   !.verifiedClaims = IF verified THEN @ \cup claims ELSE @,
                   !.integrityEvidenceIds = @ \cup Cited(Supported(claims, found))]

\* The state after the check of claims: all of them are supported, or none is
\* kept; duplicates are two claims with the same binding id.
Check(claims, found, duplicates) ==
  LET verified == Supported(claims, found) = claims /\ ~duplicates
  IN [state EXCEPT !.integrityVerified = verified,
                   !.verifiedClaims = IF verified THEN claims ELSE {},
                   !.integrityEvidenceIds = Cited(Supported(claims, found))]

CheckIntegrity(c) ==
  /\ AtStage(c, "verifyEvidence", "logging")
  /\ \E duplicates \in BOOLEAN :
       state' = Check(calls[c].input.claims, calls[c].input.found, duplicates)
  /\ grounds' = calls[c].input.found
  /\ Advance(c, "verifyEvidence", "recording", None)
  /\ UNCHANGED <<context, loopVars, shown, accepted, released>>

-----------------------------------------------------------------------------
(* The independent review                                                  *)

\* The earlier verdict is withdrawn; the verifier gets the claims and the
\* calculations of this moment, if the input is bound to checked evidence (a
\* conclusion that is too long is one more reason to reject).
Review(c) ==
  LET claims == state.verifiedClaims
  IN
  /\ Callable(c, "independentReview")
  /\ state' = [state EXCEPT !.independentAttempted = TRUE, !.independentlyVerified = FALSE,
                            !.artifact = None, !.verifiedAnswer = None]
  /\ \E title \in Titles :
       IF InputIsBound(claims)
       THEN Advance(c, "independentReview", "asking",
              [answer |-> Answer(title, claims), calculations |-> state.calculations])
       ELSE Advance(c, "independentReview", "recording", None)
  /\ UNCHANGED <<context, loopVars, shown, historyVars>>

\* The verdict: SUPPORTED, COMPLETE and for every claim with its evidence, or
\* anything else.  The hash is taken of the state as it is now.
Verdict(c) ==
  LET asked == calls[c].input
  IN
  /\ AtStage(c, "independentReview", "asking")
  /\ \/ /\ state' = [state EXCEPT
             !.independentlyVerified = TRUE,
             !.artifact = ArtifactHash(asked.answer, state.calculations, state.evidence,
                                       state.verifiedClaims),
             !.verifiedAnswer = asked.answer]
        /\ accepted' = accepted \cup {asked}
     \/ /\ state' = [state EXCEPT !.independentlyVerified = FALSE]
        /\ UNCHANGED accepted
  /\ Advance(c, "independentReview", "recording", None)
  /\ UNCHANGED <<context, loopVars, shown, grounds, released>>

-----------------------------------------------------------------------------
(* The three outcomes                                                      *)

\* What leaves the gate: the bound answer with the calculations.
Released(kind) ==
  [kind |-> kind, answer |-> state.verifiedAnswer, calculations |-> state.calculations]

Deliver(c) ==
  LET answer == state.verifiedAnswer
  IN
  /\ Callable(c, "deliverVerifiedAnswer")
  /\ IF answer # None /\ Releasable(answer)
     THEN /\ state' = [state EXCEPT !.delivered = TRUE]
          /\ released' = released \cup {Released("answer")}
          /\ Advance(c, "deliverVerifiedAnswer", "recording", None)
     ELSE /\ UNCHANGED <<state, released>>
          /\ Advance(c, "deliverVerifiedAnswer", "error", None)
  /\ UNCHANGED <<context, loopVars, shown, accepted, grounds>>

Propose(c) ==
  LET answer == state.verifiedAnswer
  IN
  /\ Callable(c, "proposeWorkpaper")
  /\ IF answer # None /\ context.requestWorkpaper /\ Releasable(answer)
     THEN /\ state' = [state EXCEPT !.proposed = TRUE]
          /\ Advance(c, "proposeWorkpaper", "drafting", Released("draft"))
     ELSE UNCHANGED state /\ Advance(c, "proposeWorkpaper", "error", None)
  /\ UNCHANGED <<context, loopVars, shown, historyVars>>

\* createWorkpaperDraft: the run admits one draft; an error, or a commit whose
\* answer is lost, takes the flag back.
Draft(c) ==
  /\ AtStage(c, "proposeWorkpaper", "drafting")
  /\ \/ /\ released = {} /\ released' = {calls[c].input}
        /\ Advance(c, "proposeWorkpaper", "recording", None)
        /\ UNCHANGED state
     \/ /\ released' \in {released} \cup (IF released = {} THEN {{calls[c].input}} ELSE {})
        /\ state' = [state EXCEPT !.proposed = FALSE]
        /\ Throw(c)
  /\ UNCHANGED <<context, loopVars, shown, accepted, grounds>>

Abstain(c) ==
  /\ Callable(c, "abstain")
  /\ state' = [state EXCEPT !.abstained = TRUE]
  /\ Advance(c, "abstain", "recording", None)
  /\ UNCHANGED <<context, loopVars, shown, historyVars>>

-----------------------------------------------------------------------------
(* The loop                                                                *)

\* Mutant: a failed integrity check is tried again.
NextToolRetrying ==
  IF failed THEN "abstain"
  ELSE IF ~state.searchAttempted THEN "searchTaxSources"
  ELSE IF state.evidence = {} THEN "abstain"
  ELSE IF context.calculationRequired /\ state.calculations = 0 THEN "calculateVat"
  ELSE IF ~state.integrityVerified THEN "verifyEvidence"
  ELSE IF ~state.independentAttempted THEN "independentReview"
  ELSE IF ~state.independentlyVerified THEN "abstain"
  ELSE IF context.requestWorkpaper THEN "proposeWorkpaper" ELSE "deliverVerifiedAnswer"

\* nextTool
NextTool ==
  IF failed THEN "abstain"
  ELSE IF ~state.searchAttempted THEN "searchTaxSources"
  ELSE IF state.evidence = {} THEN "abstain"
  ELSE IF context.calculationRequired /\ state.calculations = 0 THEN "calculateVat"
  ELSE IF ~state.integrityAttempted THEN "verifyEvidence"
  ELSE IF ~state.integrityVerified THEN "abstain"
  ELSE IF ~state.independentAttempted THEN "independentReview"
  ELSE IF ~state.independentlyVerified THEN "abstain"
  ELSE IF context.requestWorkpaper THEN "proposeWorkpaper" ELSE "deliverVerifiedAnswer"

\* Mutant: the model may calculate in every step.
ActiveToolsCalculating == {NextTool, "calculateVat"}

\* prepareStep
ActiveTools == {NextTool}

\* stopWhen, besides the number of steps
Stops == state.proposed \/ state.abstained \/ state.delivered

\* Counters are only compared with their limits.
AtMost(n, limit) == IF n < limit THEN n ELSE limit

BeginStep ==
  /\ ended = "no" /\ active = {}
  /\ active' = ActiveTools
  /\ step' = AtMost(step + 1, MaxSteps)
  /\ calls' = [c \in Calls |-> NoCall]
  /\ UNCHANGED <<context, state, failed, toolCalls, ended, shown, historyVars>>

Used == {c \in Calls : calls[c] # NoCall}

\* Mutant: only an outcome ends the loop.
AfterStepUnlimited == IF Used = {} \/ Stops THEN "finished" ELSE "no"

\* A step without a call ends the loop, and so do stopWhen and the budget.
AfterStep ==
  IF Used = {} \/ Stops THEN "finished"
  ELSE IF step = MaxSteps \/ toolCalls' > MaxToolCalls THEN "limit" ELSE "no"

EndStep ==
  /\ ended = "no" /\ active # {}
  /\ \A c \in Used : calls[c].stage \in {"done", "error"}
  /\ failed' = (failed \/ \E c \in Used : calls[c].stage = "error")
  /\ toolCalls' = AtMost(toolCalls + Cardinality(Used), MaxToolCalls + 1)
  /\ active' = {}
  /\ ended' = AfterStep
  /\ UNCHANGED <<context, state, calls, step, shown, historyVars>>

\* The client leaves, the total time is over or the tokens are: tools that are
\* waiting for an answer go on.
Abort ==
  /\ ended = "no"
  /\ ended' = "aborted"
  /\ UNCHANGED <<context, state, calls, active, step, failed, toolCalls, shown, historyVars>>

-----------------------------------------------------------------------------
(* Specification                                                           *)

Call(c) ==
  \/ InvalidCall(c) \/ Search(c) \/ Calculate(c) \/ VerifyEvidence(c)
  \/ Review(c) \/ Deliver(c) \/ Propose(c) \/ Abstain(c)

Continue(c) ==
  Retrieve(c) \/ CheckIntegrity(c) \/ Verdict(c) \/ Draft(c) \/ Record(c) \/ Fail(c)

Next ==
  \/ \E c \in Calls : Call(c) \/ Continue(c)
  \/ BeginStep \/ EndStep \/ Abort

\* Every await of a tool ends, and the loop goes on; the model need not call
\* anything.
Fairness ==
  /\ \A c \in Calls : WF_vars(Continue(c))
  /\ WF_vars(BeginStep) /\ WF_vars(EndStep)

Spec == Init /\ [][Next]_vars
FairSpec == Spec /\ Fairness

-----------------------------------------------------------------------------
(* Properties                                                              *)

Stages == {"unused", "retrieving", "logging", "asking", "drafting", "recording", "done", "error"}
Answers == [title : Titles, conclusion : SUBSET Claims, evidenceIds : SUBSET Evidence]
Artifacts == [answer : Answers, evidence : SUBSET Evidence, calculations : Nat,
              claims : SUBSET Claims]

\* What waiting calls hold: a check, a request to the verifier, a draft.
Checks == [claims : SUBSET Claims, found : SUBSET Evidence]
Requests == [answer : Answers, calculations : Nat]
Outcomes == [kind : {"answer", "draft"}, answer : Answers, calculations : Nat]

InputOK(call) ==
  /\ call.stage \in {"retrieving", "logging"} /\ call.tool = "verifyEvidence" => call.input \in Checks
  /\ call.stage = "asking" => call.input \in Requests
  /\ call.stage = "drafting" => call.input \in Outcomes

TypeOK ==
  /\ context \in [calculationRequired : BOOLEAN, requestWorkpaper : BOOLEAN]
  /\ state \in [evidence : SUBSET Evidence, calculations : Nat, verifiedClaims : SUBSET Claims,
                integrityVerified : BOOLEAN, integrityEvidenceIds : SUBSET Evidence,
                searchAttempted : BOOLEAN, integrityAttempted : BOOLEAN,
                independentAttempted : BOOLEAN, independentlyVerified : BOOLEAN,
                artifact : Artifacts \cup {None}, verifiedAnswer : Answers \cup {None},
                proposed : BOOLEAN, abstained : BOOLEAN, delivered : BOOLEAN]
  /\ calls \in [Calls -> [tool : Tools \cup {None}, stage : Stages,
                          input : {None} \cup Checks \cup Requests \cup Outcomes]]
  /\ \A c \in Calls : InputOK(calls[c])
  /\ active \subseteq Tools /\ failed \in BOOLEAN
  /\ step \in 0 .. MaxSteps /\ toolCalls \in 0 .. MaxToolCalls + 1
  /\ ended \in {"no", "finished", "limit", "aborted"}
  /\ shown \subseteq Tools \X (0 .. MaxSteps) \X Calls
  /\ accepted \subseteq Requests /\ grounds \subseteq Evidence /\ released \subseteq Outcomes

\* docs/architecture.md, tools.ts:379 and :480: however the calls of a step's one
\* tool interleave, and whatever is searched or checked between the review and the
\* delivery, an answer leaves the agent, or becomes a draft, only as a verifier has
\* seen and supported it, with the calculations it was shown.
ReleasedWasReviewed ==
  \A r \in released : [answer |-> r.answer, calculations |-> r.calculations] \in accepted

\* tools.ts:263: every claim of a released answer repeats evidence of its tier
\* that the last integrity check itself retrieved, and not what an earlier
\* search or another integrity check of the same step had found.
ReleasedIsGrounded ==
  \A r \in released : Supported(r.answer.conclusion, grounds) = r.answer.conclusion

\* The client is sent one outcome: one answer or one workpaper, and no
\* abstention with it, even when the final tool is called twice in one step.
ClientSeesOneOutcome ==
  LET outcomes == {s \in shown : s[1] \in {"deliverVerifiedAnswer", "proposeWorkpaper"}}
  IN  /\ Cardinality(outcomes) <= 1
      /\ outcomes # {} => \A s \in shown : s[1] # "abstain"

\* budget.ts:10: the limits of steps and of tool calls cut off only a run in
\* which a call has failed or was made twice; every other one reaches an outcome
\* within them.
LimitsAllowAnOutcome == ended = "limit" => failed \/ toolCalls > step

\* tax-agent.ts:124: the loop ends, whatever the model calls and however often
\* its calls fail, provided that it does end its steps.
LoopEnds == <>(ended # "no")
=============================================================================
