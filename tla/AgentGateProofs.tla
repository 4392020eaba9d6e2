-------------------------- MODULE AgentGateProofs --------------------------
(***************************************************************************)
(* Proofs about AgentGate for every set of calls, evidence and claims and  *)
(* every budget with room for an outcome: the type invariant, that what    *)
(* leaves the agent was seen and supported by the verifier and is grounded *)
(* in the evidence of the last check, that the client is sent one outcome, *)
(* and that the limits cut off only a run that has failed.                 *)
(*                                                                         *)
(* Why it holds: the tools of one step are the same (OneToolPerStep), so   *)
(* no calculation, check or review overlaps with another kind of call; the *)
(* artifact hash binds the verdict to what the verifier was asked          *)
(* (VerdictIsBound); the check is never repeated once it was attempted     *)
(* (ChecksPrecede); one call passes the gate of the outcomes               *)
(* (OneOutcomeCall); and every step reaches a new rung of the ladder of    *)
(* tools (StepsAreRungs).                                                  *)
(***************************************************************************)
EXTENDS AgentGate, FiniteSetTheorems, TLAPS

CallRows == [tool : Tools \cup {None}, stage : Stages,
             input : {None} \cup Checks \cup Requests \cup Outcomes]

States ==
  [evidence : SUBSET Evidence, calculations : Nat, verifiedClaims : SUBSET Claims,
   integrityVerified : BOOLEAN, integrityEvidenceIds : SUBSET Evidence,
   searchAttempted : BOOLEAN, integrityAttempted : BOOLEAN,
   independentAttempted : BOOLEAN, independentlyVerified : BOOLEAN,
   artifact : Artifacts \cup {None}, verifiedAnswer : Answers \cup {None},
   proposed : BOOLEAN, abstained : BOOLEAN, delivered : BOOLEAN]

\* Calls that wait for something.
InFlight(c) == calls[c].stage \in {"retrieving", "logging", "asking", "drafting", "recording"}

OutcomeTools == {"deliverVerifiedAnswer", "proposeWorkpaper"}

\* A call that has passed the gate of an outcome and was not refused later.
Passed(c) ==
  calls[c].tool \in OutcomeTools /\ calls[c].stage \in {"drafting", "recording", "done"}

OneToolPerStep ==
  /\ \A t, u \in active : t = u
  /\ \A c \in Calls : calls[c].stage # "unused" /\ active # {} => calls[c].tool \in active
  /\ \A c \in Calls : InFlight(c) => active # {}

StagesMatchTools ==
  \A c \in Calls :
    /\ calls[c].stage = "logging" => calls[c].tool = "verifyEvidence"
    /\ calls[c].stage = "retrieving" => calls[c].tool \in {"searchTaxSources", "verifyEvidence"}
    /\ calls[c].stage = "asking" => calls[c].tool = "independentReview"
    /\ calls[c].stage = "drafting" => calls[c].tool = "proposeWorkpaper"

\* The verifier is asked about the calculations of now.
RequestsAreCurrent ==
  \A c \in Calls : calls[c].stage = "asking" => calls[c].input.calculations = state.calculations

\* A positive verdict is bound to a request the verifier has accepted.
VerdictIsBound ==
  state.independentlyVerified =>
    /\ state.artifact \in Artifacts
    /\ [answer |-> state.artifact.answer, calculations |-> state.artifact.calculations] \in accepted

\* The verified claims are supported by what the check has retrieved.
ClaimsAreGrounded ==
  state.integrityVerified =>
    /\ state.integrityAttempted
    /\ Supported(state.verifiedClaims, grounds) = state.verifiedClaims

\* Drafts that wait to be stored have left the gate.
DraftsAreReviewed ==
  \A c \in Calls : calls[c].stage = "drafting" =>
    /\ [answer |-> calls[c].input.answer, calculations |-> calls[c].input.calculations] \in accepted
    /\ Supported(calls[c].input.answer.conclusion, grounds) = calls[c].input.answer.conclusion
    /\ state.integrityAttempted

\* A check marks that it was attempted, and none follows or accompanies a release.
ChecksPrecede ==
  /\ \A c \in Calls :
       calls[c].tool = "verifyEvidence" /\ calls[c].stage \in {"retrieving", "logging"} =>
         state.integrityAttempted
  /\ released # {} => state.integrityAttempted /\ "verifyEvidence" \notin active

OneOutcomeCall ==
  /\ \A c, d \in Calls : Passed(c) /\ Passed(d) => c = d
  /\ \A c \in Calls : Passed(c) =>
       Stops /\ ~state.abstained /\ (active # {} \/ ended # "no")

\* What the client was sent belongs to calls of the last step.
ShownWasPassed ==
  /\ \A s \in shown : s[1] \in OutcomeTools =>
       /\ s[2] = step /\ calls[s[3]].tool = s[1] /\ calls[s[3]].stage = "done"
  /\ \A s \in shown : s[1] = "abstain" => state.abstained
  /\ \A c \in Calls : calls[c].tool = "abstain" /\ calls[c].stage \in {"recording", "done"} =>
       state.abstained

Inv ==
  /\ TypeOK
  /\ OneToolPerStep /\ StagesMatchTools
  /\ RequestsAreCurrent /\ VerdictIsBound /\ ClaimsAreGrounded
  /\ DraftsAreReviewed /\ ReleasedWasReviewed /\ ReleasedIsGrounded /\ ChecksPrecede
  /\ OneOutcomeCall /\ ShownWasPassed

USE EvidenceAssumption, ClaimsAssumption, BudgetAssumption

-----------------------------------------------------------------------------
(* One call moves                                                          *)

\* The call c is at stage s of tool t next, and no other call moves.
Moved(c, t, s) ==
  /\ calls' \in [Calls -> CallRows]
  /\ \A d \in Calls : InputOK(calls'[d])
  /\ calls'[c].tool = t /\ calls'[c].stage = s
  /\ \A d \in Calls : d # c => calls'[d] = calls[d]

LEMMA CallMoves ==
  ASSUME TypeOK, NEW c \in Calls, NEW row \in CallRows, InputOK(row),
         calls' = [calls EXCEPT ![c] = row]
  PROVE  Moved(c, row.tool, row.stage) /\ calls'[c] = row
BY DEF TypeOK, CallRows, Moved

LEMMA AdvanceMoves ==
  ASSUME TypeOK, NEW c \in Calls, NEW t \in Tools, NEW s \in Stages,
         NEW i \in {None} \cup Checks \cup Requests \cup Outcomes,
         s \in {"retrieving", "logging"} /\ t = "verifyEvidence" => i \in Checks,
         s = "asking" => i \in Requests, s = "drafting" => i \in Outcomes,
         Advance(c, t, s, i)
  PROVE  Moved(c, t, s) /\ calls'[c].input = i
<1> DEFINE row == At(t, s, i)
<1>1. row \in CallRows /\ InputOK(row) /\ row.tool = t /\ row.stage = s /\ row.input = i
  BY DEF At, CallRows, InputOK
<1>2. calls' = [calls EXCEPT ![c] = row]
  BY DEF Advance
<1> HIDE DEF row
<1> QED
  BY <1>1, <1>2, CallMoves

\* Only the stage changes.
LEMMA StageMoves ==
  ASSUME TypeOK, NEW c \in Calls, NEW s \in {"error", "done"},
         calls' = [calls EXCEPT ![c].stage = s]
  PROVE  Moved(c, calls[c].tool, s)
<1> DEFINE row == [calls[c] EXCEPT !.stage = s]
<1>0. calls[c] \in CallRows
  BY DEF TypeOK, CallRows
<1>1. row \in CallRows /\ row.tool = calls[c].tool /\ row.stage = s
  BY <1>0 DEF CallRows, Stages
<1>2. calls' = [calls EXCEPT ![c] = row]
  BY DEF TypeOK
<1> HIDE DEF row
<1>3. InputOK(row)
  BY <1>1 DEF InputOK
<1> QED
  BY <1>1, <1>2, <1>3, CallMoves

\* A call that waits is of the tool of the step.
LEMMA InFlightIsActive ==
  ASSUME Inv, NEW c \in Calls, InFlight(c) PROVE calls[c].tool \in active
BY DEF Inv, OneToolPerStep, InFlight

\* A call moves while its step is open: what is left is its type and, below, the
\* parts of the invariant it disturbs.
LEMMA TypeStep ==
  ASSUME Inv, NEW c \in Calls, NEW t, NEW s, Moved(c, t, s), state' \in States,
         UNCHANGED <<context, loopVars>>,
         shown' \subseteq Tools \X (0 .. MaxSteps) \X Calls,
         accepted' \subseteq Requests, grounds' \subseteq Evidence, released' \subseteq Outcomes
  PROVE  TypeOK'
BY DEF Inv, TypeOK, States, CallRows, Moved, loopVars

LEMMA StateIsTyped == Inv => state \in States
BY DEF Inv, TypeOK, States

LEMMA HistoryIsTyped ==
  Inv => /\ shown \subseteq Tools \X (0 .. MaxSteps) \X Calls
         /\ accepted \subseteq Requests /\ grounds \subseteq Evidence /\ released \subseteq Outcomes
BY DEF Inv, TypeOK

LEMMA LoopStep ==
  ASSUME Inv, NEW c \in Calls, NEW t \in active, NEW s \in Stages, Moved(c, t, s),
         UNCHANGED loopVars,
         s = "logging" => t = "verifyEvidence",
         s = "retrieving" => t \in {"searchTaxSources", "verifyEvidence"},
         s = "asking" => t = "independentReview",
         s = "drafting" => t = "proposeWorkpaper"
  PROVE  OneToolPerStep' /\ StagesMatchTools'
BY DEF Inv, Moved, OneToolPerStep, StagesMatchTools, InFlight, loopVars

\* A call goes on without touching claims, calculations, outcomes or history.
LEMMA QuietStep ==
  ASSUME Inv, NEW c \in Calls, NEW t \in active, NEW s \in Stages, Moved(c, t, s),
         UNCHANGED <<loopVars, grounds, released>>, accepted \subseteq accepted',
         s # "drafting",
         s = "asking" => calls'[c].input.calculations = state'.calculations,
         s \in {"retrieving", "logging"} /\ t = "verifyEvidence" => state'.integrityAttempted,
         \/ state'.calculations = state.calculations
         \/ \A d \in Calls : calls[d].stage # "asking",
         state'.integrityVerified = state.integrityVerified,
         state'.verifiedClaims = state.verifiedClaims,
         state.integrityAttempted => state'.integrityAttempted,
         state'.proposed = state.proposed, state'.abstained = state.abstained,
         state'.delivered = state.delivered,
         t \in OutcomeTools /\ s # "error" => Passed(c)
  PROVE  /\ RequestsAreCurrent' /\ ClaimsAreGrounded' /\ DraftsAreReviewed'
         /\ ReleasedWasReviewed' /\ ReleasedIsGrounded' /\ ChecksPrecede' /\ OneOutcomeCall'
<1>1. RequestsAreCurrent'
  BY DEF Inv, Moved, RequestsAreCurrent
<1>2. ClaimsAreGrounded'
  BY DEF Inv, ClaimsAreGrounded, Supported
<1>3. DraftsAreReviewed'
  BY DEF Inv, Moved, DraftsAreReviewed, Supported
<1>4. ReleasedWasReviewed' /\ ReleasedIsGrounded'
  BY DEF Inv, ReleasedWasReviewed, ReleasedIsGrounded, Supported
<1>5. ChecksPrecede'
  BY DEF Inv, Moved, ChecksPrecede, loopVars
<1>6. OneOutcomeCall'
  <2>1. \A d \in Calls : Passed(d)' => Passed(d)
    BY DEF Inv, Moved, Passed
  <2>2. UNCHANGED <<active, ended, Stops, state.abstained>>
    BY DEF Stops, loopVars
  <2> QED
    BY <2>1, <2>2 DEF Inv, OneOutcomeCall
<1> QED
  BY <1>1, <1>2, <1>3, <1>4, <1>5, <1>6

LEMMA ShownStep ==
  ASSUME Inv, NEW c \in Calls, NEW t, NEW s, Moved(c, t, s), calls[c].stage # "done",
         UNCHANGED shown, step' = step, state.abstained => state'.abstained,
         t = "abstain" /\ s \in {"recording", "done"} => state'.abstained
  PROVE  ShownWasPassed'
BY DEF Inv, TypeOK, Moved, ShownWasPassed

LEMMA CallableCall ==
  ASSUME Inv, NEW c \in Calls, NEW t \in Tools, Callable(c, t)
  PROVE  /\ t \in active /\ calls[c].stage = "unused" /\ \A u \in active : u = t
         /\ \A d \in Calls : calls[d].stage # "unused" => calls[d].tool = t
BY DEF Inv, Callable, NoCall, OneToolPerStep

-----------------------------------------------------------------------------
(* Every action keeps the invariant                                        *)

LEMMA InitInv == Init => Inv
<1> SUFFICES ASSUME Init PROVE Inv
  OBVIOUS
<1> USE DEF Init
<1>1. TypeOK
  <2>1. state \in States
    BY DEF InitialState, States
  <2>2. calls \in [Calls -> CallRows] /\ \A c \in Calls : InputOK(calls[c])
    BY DEF NoCall, CallRows, Stages, InputOK
  <2>3. /\ step \in 0 .. MaxSteps /\ toolCalls \in 0 .. MaxToolCalls + 1
        /\ active \subseteq Tools /\ shown \subseteq Tools \X (0 .. MaxSteps) \X Calls
    OBVIOUS
  <2>4. /\ failed \in BOOLEAN /\ ended \in {"no", "finished", "limit", "aborted"}
        /\ accepted \subseteq Requests /\ grounds \subseteq Evidence /\ released \subseteq Outcomes
    OBVIOUS
  <2> QED
    BY <2>1, <2>2, <2>3, <2>4, Zenon DEF TypeOK, CallRows, States
<1>2. OneToolPerStep /\ StagesMatchTools /\ RequestsAreCurrent /\ DraftsAreReviewed
  BY DEF OneToolPerStep, StagesMatchTools, RequestsAreCurrent, DraftsAreReviewed, InFlight, NoCall
<1>3. VerdictIsBound /\ ClaimsAreGrounded
  BY DEF VerdictIsBound, ClaimsAreGrounded, InitialState
<1>4. ReleasedWasReviewed /\ ReleasedIsGrounded /\ ChecksPrecede
  BY DEF ReleasedWasReviewed, ReleasedIsGrounded, ChecksPrecede, NoCall
<1>5. OneOutcomeCall /\ ShownWasPassed
  BY DEF OneOutcomeCall, ShownWasPassed, Passed, OutcomeTools, NoCall
<1> QED
  BY <1>1, <1>2, <1>3, <1>4, <1>5 DEF Inv

LEMMA InvalidCallInv == ASSUME Inv, NEW c \in Calls, InvalidCall(c) PROVE Inv'
<1> PICK t \in Tools : Callable(c, t) /\ Advance(c, t, "error", None)
  BY DEF InvalidCall
<1>1. UNCHANGED <<context, state, loopVars, shown, historyVars>>
  BY DEF InvalidCall
<1>2. Moved(c, t, "error")
  BY AdvanceMoves DEF Inv, Stages
<1>3. t \in active /\ calls[c].stage = "unused"
  BY CallableCall
<1>4. TypeOK'
  BY <1>1, <1>2, TypeStep, StateIsTyped, HistoryIsTyped DEF historyVars
<1>5. OneToolPerStep' /\ StagesMatchTools'
  BY <1>1, <1>2, <1>3, LoopStep DEF Stages
<1>6. /\ RequestsAreCurrent' /\ ClaimsAreGrounded' /\ DraftsAreReviewed'
      /\ ReleasedWasReviewed' /\ ReleasedIsGrounded' /\ ChecksPrecede' /\ OneOutcomeCall'
  BY <1>1, <1>2, <1>3, QuietStep DEF Stages, historyVars
<1>7. VerdictIsBound' /\ ShownWasPassed'
  BY <1>1, <1>2, <1>3, ShownStep DEF Inv, VerdictIsBound, loopVars, historyVars
<1> QED
  BY <1>4, <1>5, <1>6, <1>7 DEF Inv

LEMMA FailInv == ASSUME Inv, NEW c \in Calls, Fail(c) PROVE Inv'
<1> DEFINE t == calls[c].tool
<1>1. UNCHANGED <<context, state, loopVars, shown, historyVars>>
  BY DEF Fail
<1>2. Moved(c, t, "error")
  BY StageMoves DEF Inv, Fail, Throw
<1>3. t \in active /\ calls[c].stage # "done"
  BY InFlightIsActive DEF Fail, InFlight
<1> HIDE DEF t
<1>4. TypeOK'
  BY <1>1, <1>2, TypeStep, StateIsTyped, HistoryIsTyped DEF historyVars
<1>5. OneToolPerStep' /\ StagesMatchTools'
  BY <1>1, <1>2, <1>3, LoopStep DEF Stages
<1>6. /\ RequestsAreCurrent' /\ ClaimsAreGrounded' /\ DraftsAreReviewed'
      /\ ReleasedWasReviewed' /\ ReleasedIsGrounded' /\ ChecksPrecede' /\ OneOutcomeCall'
  BY <1>1, <1>2, <1>3, QuietStep DEF Stages, historyVars
<1>7. VerdictIsBound' /\ ShownWasPassed'
  BY <1>1, <1>2, <1>3, ShownStep DEF Inv, VerdictIsBound, loopVars, historyVars
<1> QED
  BY <1>4, <1>5, <1>6, <1>7 DEF Inv

LEMMA SearchInv == ASSUME Inv, NEW c \in Calls, Search(c) PROVE Inv'
<1> DEFINE t == "searchTaxSources"
<1>1. /\ UNCHANGED <<context, loopVars, shown, historyVars>>
      /\ state' = [state EXCEPT !.searchAttempted = TRUE]
  BY DEF Search
<1>2. Moved(c, t, "retrieving")
  BY AdvanceMoves DEF Inv, Search, Stages, Tools
<1>3. t \in active /\ calls[c].stage = "unused"
  BY CallableCall DEF Search, Tools
<1>4. state \in States /\ state' \in States
  BY <1>1, StateIsTyped DEF States
<1>5. TypeOK'
  BY <1>1, <1>2, <1>4, TypeStep, HistoryIsTyped DEF historyVars
<1>6. OneToolPerStep' /\ StagesMatchTools'
  BY <1>1, <1>2, <1>3, LoopStep DEF Stages
<1>7. /\ RequestsAreCurrent' /\ ClaimsAreGrounded' /\ DraftsAreReviewed'
      /\ ReleasedWasReviewed' /\ ReleasedIsGrounded' /\ ChecksPrecede' /\ OneOutcomeCall'
  BY <1>1, <1>2, <1>3, <1>4, QuietStep DEF Stages, States, historyVars, OutcomeTools
<1>8. VerdictIsBound' /\ ShownWasPassed'
  BY <1>1, <1>2, <1>3, <1>4, ShownStep DEF Inv, States, VerdictIsBound, loopVars, historyVars
<1> QED
  BY <1>5, <1>6, <1>7, <1>8 DEF Inv

LEMMA RetrieveInv == ASSUME Inv, NEW c \in Calls, Retrieve(c) PROVE Inv'
<1>1. UNCHANGED <<context, loopVars, shown, historyVars>> /\ calls[c].stage = "retrieving"
  BY DEF Retrieve
<1>2. PICK found \in SUBSET Evidence :
        /\ state' = [state EXCEPT !.evidence = @ \cup found]
        /\ calls' = [calls EXCEPT ![c] =
             IF @.tool = "searchTaxSources" THEN At(@.tool, "recording", None)
             ELSE At(@.tool, "logging", [@.input EXCEPT !.found = found])]
  BY DEF Retrieve, searchEvidence, protectRetrievedEvidence
<1>3. state \in States /\ state' \in States
  BY <1>2, StateIsTyped DEF States
<1>4. calls[c].tool \in active /\ calls[c].tool \in {"searchTaxSources", "verifyEvidence"}
  BY <1>1, InFlightIsActive DEF InFlight, Inv, StagesMatchTools
<1>5. PICK s \in {"recording", "logging"} :
        /\ Moved(c, calls[c].tool, s)
        /\ s = "logging" => calls[c].tool = "verifyEvidence"
  <2>1. CASE calls[c].tool = "searchTaxSources"
    <3>1. Advance(c, "searchTaxSources", "recording", None)
      BY <1>2, <2>1 DEF Advance, Inv, TypeOK
    <3> QED
      BY <2>1, <3>1, AdvanceMoves DEF Inv, Stages, Tools
  <2>2. CASE calls[c].tool = "verifyEvidence"
    <3>1. Advance(c, "verifyEvidence", "logging", [calls[c].input EXCEPT !.found = found])
      BY <1>2, <2>2 DEF Advance, Inv, TypeOK
    <3>2. [calls[c].input EXCEPT !.found = found] \in Checks
      <4>1. calls[c].input \in Checks
        BY <1>1, <2>2 DEF Inv, TypeOK, InputOK
      <4> QED
        BY <4>1 DEF Checks
    <3> QED
      BY <2>2, <3>1, <3>2, AdvanceMoves DEF Inv, Stages, Tools
  <2> QED
    BY <1>4, <2>1, <2>2
<1>6. TypeOK'
  BY <1>1, <1>3, <1>5, TypeStep, HistoryIsTyped DEF historyVars
<1>7. OneToolPerStep' /\ StagesMatchTools'
  BY <1>1, <1>4, <1>5, LoopStep DEF Stages
<1>8. /\ RequestsAreCurrent' /\ ClaimsAreGrounded' /\ DraftsAreReviewed'
      /\ ReleasedWasReviewed' /\ ReleasedIsGrounded' /\ ChecksPrecede' /\ OneOutcomeCall'
  <2>1. calls[c].tool = "verifyEvidence" => state.integrityAttempted
    BY <1>1 DEF Inv, ChecksPrecede
  <2> QED
    BY <1>1, <1>2, <1>3, <1>4, <1>5, <2>1, QuietStep DEF Stages, States, historyVars, OutcomeTools
<1>9. VerdictIsBound' /\ ShownWasPassed'
  BY <1>1, <1>2, <1>3, <1>4, <1>5, ShownStep DEF Inv, States, VerdictIsBound, loopVars, historyVars
<1> QED
  BY <1>6, <1>7, <1>8, <1>9 DEF Inv

LEMMA CalculateInv == ASSUME Inv, NEW c \in Calls, Calculate(c) PROVE Inv'
<1> DEFINE t == "calculateVat"
<1>1. /\ UNCHANGED <<context, loopVars, shown, historyVars>>
      /\ state' = [state EXCEPT !.calculations = @ + 1]
  BY DEF Calculate
<1>2. Moved(c, t, "recording")
  BY AdvanceMoves DEF Inv, Calculate, Stages, Tools
<1>3. t \in active /\ calls[c].stage = "unused"
  BY CallableCall DEF Calculate, Tools
<1>4. state \in States /\ state' \in States
  BY <1>1, StateIsTyped DEF States
<1>5. TypeOK'
  BY <1>1, <1>2, <1>4, TypeStep, HistoryIsTyped DEF historyVars
<1>6. OneToolPerStep' /\ StagesMatchTools'
  BY <1>1, <1>2, <1>3, LoopStep DEF Stages
<1>7. /\ RequestsAreCurrent' /\ ClaimsAreGrounded' /\ DraftsAreReviewed'
      /\ ReleasedWasReviewed' /\ ReleasedIsGrounded' /\ ChecksPrecede' /\ OneOutcomeCall'
  <2>1. \A d \in Calls : calls[d].stage # "asking"
    BY CallableCall DEF Calculate, Tools, Inv, StagesMatchTools
  <2> QED
    BY <1>1, <1>2, <1>3, <1>4, <2>1, QuietStep DEF Stages, States, historyVars, OutcomeTools
<1>8. VerdictIsBound' /\ ShownWasPassed'
  BY <1>1, <1>2, <1>3, <1>4, ShownStep DEF Inv, States, VerdictIsBound, loopVars, historyVars
<1> QED
  BY <1>5, <1>6, <1>7, <1>8 DEF Inv

LEMMA VerifyEvidenceInv == ASSUME Inv, NEW c \in Calls, VerifyEvidence(c) PROVE Inv'
<1> DEFINE t == "verifyEvidence"
<1>1. /\ UNCHANGED <<context, loopVars, shown, historyVars>>
      /\ state' = [state EXCEPT !.integrityAttempted = TRUE]
  BY DEF VerifyEvidence
<1>2. Moved(c, t, "retrieving")
  <2>1. PICK claims \in SUBSET Claims :
          Advance(c, t, "retrieving", [claims |-> claims, found |-> {}])
    BY DEF VerifyEvidence
  <2>2. [claims |-> claims, found |-> {}] \in Checks
    BY DEF Checks
  <2> QED
    BY <2>1, <2>2, AdvanceMoves DEF Inv, Stages, Tools
<1>3. t \in active /\ calls[c].stage = "unused"
  BY CallableCall DEF VerifyEvidence, Tools
<1>4. state \in States /\ state' \in States
  BY <1>1, StateIsTyped DEF States
<1>5. TypeOK'
  BY <1>1, <1>2, <1>4, TypeStep, HistoryIsTyped DEF historyVars
<1>6. OneToolPerStep' /\ StagesMatchTools'
  BY <1>1, <1>2, <1>3, LoopStep DEF Stages
<1>7. /\ RequestsAreCurrent' /\ ClaimsAreGrounded' /\ DraftsAreReviewed'
      /\ ReleasedWasReviewed' /\ ReleasedIsGrounded' /\ ChecksPrecede' /\ OneOutcomeCall'
  BY <1>1, <1>2, <1>3, <1>4, QuietStep DEF Stages, States, historyVars, OutcomeTools
<1>8. VerdictIsBound' /\ ShownWasPassed'
  BY <1>1, <1>2, <1>3, <1>4, ShownStep DEF Inv, States, VerdictIsBound, loopVars, historyVars
<1> QED
  BY <1>5, <1>6, <1>7, <1>8 DEF Inv

\* Only checks are in flight beside a check, so nothing was or is being released.
LEMMA CheckIntegrityInv == ASSUME Inv, NEW c \in Calls, CheckIntegrity(c) PROVE Inv'
<1> DEFINE t == "verifyEvidence"
           check == calls[c].input
<1>1. /\ UNCHANGED <<context, loopVars, shown, accepted, released>>
      /\ grounds' = check.found
      /\ calls[c].tool = t /\ calls[c].stage = "logging"
  BY DEF CheckIntegrity, AtStage
<1>2. Moved(c, t, "recording")
  BY AdvanceMoves DEF Inv, CheckIntegrity, Stages, Tools
<1>3. t \in active
  BY <1>1, InFlightIsActive DEF InFlight
<1>4. check \in Checks
  BY <1>1 DEF Inv, TypeOK, InputOK
<1>5. PICK duplicates \in BOOLEAN : state' = Check(check.claims, check.found, duplicates)
  BY DEF CheckIntegrity
<1>6. state \in States /\ state' \in States
  <2>1. check.claims \subseteq Claims
    BY <1>4 DEF Checks
  <2>2. Cited(Supported(check.claims, check.found)) \subseteq Evidence
    BY <2>1 DEF Cited, Supported
  <2> QED
    BY <1>5, <2>1, <2>2, StateIsTyped DEF Check, States
<1>7. /\ released = {} /\ state.integrityAttempted
      /\ \A d \in Calls : calls[d].stage # "unused" => calls[d].tool = t
  BY <1>1, <1>3 DEF Inv, ChecksPrecede, OneToolPerStep
<1>8. TypeOK'
  <2>1. grounds' \subseteq Evidence
    BY <1>1, <1>4 DEF Checks
  <2> QED
    BY <1>1, <1>2, <1>6, <2>1, TypeStep, HistoryIsTyped
<1>9. OneToolPerStep' /\ StagesMatchTools'
  BY <1>1, <1>2, <1>3, LoopStep DEF Stages
<1>10. RequestsAreCurrent' /\ DraftsAreReviewed'
  BY <1>1, <1>2, <1>7 DEF Inv, StagesMatchTools, Moved, RequestsAreCurrent, DraftsAreReviewed
<1>11. ClaimsAreGrounded'
  <2>1. state'.integrityAttempted
    BY <1>5, <1>6, <1>7 DEF Check, States
  <2>2. state'.integrityVerified =>
          Supported(check.claims, check.found) = check.claims /\ state'.verifiedClaims = check.claims
    BY <1>5, <1>6 DEF Check, States
  <2> QED
    BY <1>1, <2>1, <2>2 DEF ClaimsAreGrounded, Supported
<1>12. ReleasedWasReviewed' /\ ReleasedIsGrounded' /\ ChecksPrecede'
  BY <1>1, <1>2, <1>5, <1>6, <1>7
     DEF Inv, ReleasedWasReviewed, ReleasedIsGrounded, ChecksPrecede, Moved, Check, States
<1>13. VerdictIsBound' /\ ShownWasPassed'
  <2>1. /\ state'.independentlyVerified = state.independentlyVerified
        /\ state'.artifact = state.artifact /\ state'.abstained = state.abstained
    BY <1>5, <1>6 DEF Check, States
  <2> QED
    BY <1>1, <1>2, <2>1, ShownStep DEF Inv, VerdictIsBound, loopVars
<1>14. OneOutcomeCall'
  BY <1>1, <1>2, <1>7 DEF Inv, OneOutcomeCall, Passed, OutcomeTools, Moved
<1> QED
  BY <1>8, <1>9, <1>10, <1>11, <1>12, <1>13, <1>14 DEF Inv

LEMMA ReviewInv == ASSUME Inv, NEW c \in Calls, Review(c) PROVE Inv'
<1> DEFINE t == "independentReview"
<1>1. /\ UNCHANGED <<context, loopVars, shown, historyVars>>
      /\ state' = [state EXCEPT !.independentAttempted = TRUE, !.independentlyVerified = FALSE,
                                !.artifact = None, !.verifiedAnswer = None]
  BY DEF Review
<1>2. state \in States /\ state' \in States /\ ~state'.independentlyVerified
  BY <1>1, StateIsTyped DEF States
<1>3. PICK s \in {"asking", "recording"} :
        /\ Moved(c, t, s)
        /\ s = "asking" => calls'[c].input.calculations = state.calculations
  <2>1. PICK title \in Titles :
          \/ Advance(c, t, "asking", [answer |-> Answer(title, state.verifiedClaims),
                                      calculations |-> state.calculations])
          \/ Advance(c, t, "recording", None)
    BY DEF Review
  <2> DEFINE request == [answer |-> Answer(title, state.verifiedClaims),
                         calculations |-> state.calculations]
  <2>2. request \in Requests /\ request.calculations = state.calculations
    <3>1. state.verifiedClaims \subseteq Claims /\ state.calculations \in Nat
      BY <1>2 DEF States
    <3>2. Cited(state.verifiedClaims) \subseteq Evidence
      BY <3>1 DEF Cited
    <3> QED
      BY <3>1, <3>2 DEF Answer, Answers, Requests
  <2> HIDE DEF request
  <2>3. CASE Advance(c, t, "asking", request)
    BY <2>2, <2>3, AdvanceMoves DEF Inv, Stages, Tools
  <2>4. CASE Advance(c, t, "recording", None)
    BY <2>4, AdvanceMoves DEF Inv, Stages, Tools
  <2> QED
    BY <2>1, <2>3, <2>4 DEF request
<1>4. t \in active /\ calls[c].stage = "unused"
  BY CallableCall DEF Review, Tools
<1>5. TypeOK'
  BY <1>1, <1>2, <1>3, TypeStep, HistoryIsTyped DEF historyVars
<1>6. OneToolPerStep' /\ StagesMatchTools'
  BY <1>1, <1>3, <1>4, LoopStep DEF Stages
<1>7. /\ RequestsAreCurrent' /\ ClaimsAreGrounded' /\ DraftsAreReviewed'
      /\ ReleasedWasReviewed' /\ ReleasedIsGrounded' /\ ChecksPrecede' /\ OneOutcomeCall'
  BY <1>1, <1>2, <1>3, <1>4, QuietStep DEF Stages, States, historyVars, OutcomeTools
<1>8. VerdictIsBound' /\ ShownWasPassed'
  BY <1>1, <1>2, <1>3, <1>4, ShownStep DEF Inv, States, VerdictIsBound, loopVars
<1> QED
  BY <1>5, <1>6, <1>7, <1>8 DEF Inv

\* No calculation has come between the request and its verdict.
LEMMA VerdictInv == ASSUME Inv, NEW c \in Calls, Verdict(c) PROVE Inv'
<1> DEFINE t == "independentReview"
           asked == calls[c].input
           hash == ArtifactHash(asked.answer, state.calculations, state.evidence,
                                state.verifiedClaims)
<1>1. /\ UNCHANGED <<context, loopVars, shown, grounds, released>>
      /\ calls[c].tool = t /\ calls[c].stage = "asking"
      /\ \/ /\ state' = [state EXCEPT !.independentlyVerified = TRUE, !.artifact = hash,
                                      !.verifiedAnswer = asked.answer]
            /\ accepted' = accepted \cup {asked}
         \/ /\ state' = [state EXCEPT !.independentlyVerified = FALSE]
            /\ accepted' = accepted
  BY DEF Verdict, AtStage
<1>2. Moved(c, t, "recording")
  BY AdvanceMoves DEF Inv, Verdict, Stages, Tools
<1>3. t \in active
  BY <1>1, InFlightIsActive DEF InFlight
<1>4. asked \in Requests /\ asked.calculations = state.calculations
  BY <1>1 DEF Inv, TypeOK, InputOK, RequestsAreCurrent
<1>5. hash \in Artifacts /\ hash.answer = asked.answer /\ hash.calculations = asked.calculations
  <2>1. state.verifiedClaims \subseteq Claims /\ state.calculations \in Nat
    BY StateIsTyped DEF States
  <2>2. asked.answer \in Answers /\ asked.answer.evidenceIds \subseteq Evidence
    BY <1>4 DEF Requests, Answers
  <2> QED
    BY <1>4, <2>1, <2>2 DEF ArtifactHash, Artifacts
<1>6. asked.answer \in Answers /\ asked = [answer |-> asked.answer, calculations |-> asked.calculations]
  BY <1>4 DEF Requests
<1> HIDE DEF hash
<1>7. /\ state \in States /\ state' \in States
      /\ accepted \subseteq accepted' /\ accepted' \subseteq Requests
      /\ state'.independentlyVerified => state'.artifact = hash /\ asked \in accepted'
  BY <1>1, <1>4, <1>5, <1>6, StateIsTyped, HistoryIsTyped DEF States
<1>8. TypeOK'
  BY <1>1, <1>2, <1>7, TypeStep, HistoryIsTyped
<1>9. OneToolPerStep' /\ StagesMatchTools'
  BY <1>1, <1>2, <1>3, LoopStep DEF Stages
<1>10. /\ state'.calculations = state.calculations
       /\ state'.integrityVerified = state.integrityVerified
       /\ state'.verifiedClaims = state.verifiedClaims
       /\ state'.integrityAttempted = state.integrityAttempted
       /\ state'.proposed = state.proposed /\ state'.abstained = state.abstained
       /\ state'.delivered = state.delivered
  <2>1. CASE state' = [state EXCEPT !.independentlyVerified = TRUE, !.artifact = hash,
                                    !.verifiedAnswer = asked.answer]
    BY <1>7, <2>1 DEF States
  <2>2. CASE state' = [state EXCEPT !.independentlyVerified = FALSE]
    BY <1>7, <2>2 DEF States
  <2> QED
    BY <1>1, <2>1, <2>2
<1>11. /\ RequestsAreCurrent' /\ ClaimsAreGrounded' /\ DraftsAreReviewed'
       /\ ReleasedWasReviewed' /\ ReleasedIsGrounded' /\ ChecksPrecede' /\ OneOutcomeCall'
  BY <1>1, <1>2, <1>3, <1>7, <1>10, QuietStep DEF Stages, OutcomeTools
<1>12. VerdictIsBound'
  BY <1>5, <1>6, <1>7 DEF VerdictIsBound
<1>13. ShownWasPassed'
  BY <1>1, <1>2, <1>10, ShownStep DEF loopVars
<1> QED
  BY <1>8, <1>9, <1>11, <1>12, <1>13 DEF Inv

LEMMA AbstainInv == ASSUME Inv, NEW c \in Calls, Abstain(c) PROVE Inv'
<1> DEFINE t == "abstain"
<1>1. /\ UNCHANGED <<context, loopVars, shown, historyVars>>
      /\ state' = [state EXCEPT !.abstained = TRUE]
  BY DEF Abstain
<1>2. Moved(c, t, "recording")
  BY AdvanceMoves DEF Inv, Abstain, Stages, Tools
<1>3. /\ t \in active /\ calls[c].stage = "unused"
      /\ \A d \in Calls : calls[d].stage # "unused" => calls[d].tool = t
  BY CallableCall DEF Abstain, Tools
<1>4. state \in States /\ state' \in States /\ state'.abstained
  BY <1>1, StateIsTyped DEF States
<1>5. TypeOK'
  BY <1>1, <1>2, <1>4, TypeStep, HistoryIsTyped DEF historyVars
<1>6. OneToolPerStep' /\ StagesMatchTools'
  BY <1>1, <1>2, <1>3, LoopStep DEF Stages
<1>7. UNCHANGED <<state.calculations, state.integrityVerified, state.verifiedClaims,
                  state.integrityAttempted, state.independentlyVerified, state.artifact>>
  BY <1>1, <1>4 DEF States
<1>8. RequestsAreCurrent' /\ DraftsAreReviewed'
  BY <1>2, <1>3 DEF Inv, StagesMatchTools, Moved, RequestsAreCurrent, DraftsAreReviewed
<1>9. VerdictIsBound' /\ ClaimsAreGrounded'
  BY <1>1, <1>7 DEF Inv, VerdictIsBound, ClaimsAreGrounded, Supported, historyVars
<1>10. ReleasedWasReviewed' /\ ReleasedIsGrounded' /\ ChecksPrecede'
  BY <1>1, <1>2, <1>7 DEF Inv, ReleasedWasReviewed, ReleasedIsGrounded, ChecksPrecede, Supported,
                          Moved, historyVars, loopVars
<1>11. OneOutcomeCall'
  BY <1>2, <1>3 DEF OneOutcomeCall, Passed, OutcomeTools, Moved
<1>12. ShownWasPassed'
  BY <1>1, <1>2, <1>3, <1>4, ShownStep DEF loopVars
<1> QED
  BY <1>5, <1>6, <1>8, <1>9, <1>10, <1>11, <1>12 DEF Inv

LEMMA RecordInv == ASSUME Inv, NEW c \in Calls, Record(c) PROVE Inv'
<1>1. /\ UNCHANGED <<context, state, loopVars, historyVars>>
      /\ calls[c].stage = "recording"
  BY DEF Record
<1>2. PICK s \in {"done", "error"} :
        /\ Moved(c, calls[c].tool, s)
        /\ \/ shown' = shown
           \/ s = "done" /\ shown' = shown \cup {<<calls[c].tool, step, c>>}
  BY StageMoves DEF Inv, Record, Throw
<1>3. calls[c].tool \in active
  BY <1>1, InFlightIsActive DEF InFlight
<1>4. TypeOK'
  <2>1. calls[c].tool \in Tools /\ step \in 0 .. MaxSteps
    BY <1>3 DEF Inv, TypeOK
  <2>2. shown' \subseteq Tools \X (0 .. MaxSteps) \X Calls
    BY <1>2, <2>1, HistoryIsTyped
  <2> QED
    BY <1>1, <1>2, <2>2, TypeStep, StateIsTyped, HistoryIsTyped DEF historyVars
<1>5. OneToolPerStep' /\ StagesMatchTools'
  BY <1>1, <1>2, <1>3, LoopStep DEF Stages
<1>6. /\ RequestsAreCurrent' /\ ClaimsAreGrounded' /\ DraftsAreReviewed'
      /\ ReleasedWasReviewed' /\ ReleasedIsGrounded' /\ ChecksPrecede' /\ OneOutcomeCall'
  BY <1>1, <1>2, <1>3, QuietStep DEF Stages, historyVars, Passed
<1>7. VerdictIsBound'
  BY <1>1 DEF Inv, VerdictIsBound, historyVars
<1>8. ShownWasPassed'
  <2>1. \A r \in shown' \ shown : /\ r[1] = calls[c].tool /\ r[2] = step' /\ r[3] = c
                                   /\ calls'[c].stage = "done"
    BY <1>1, <1>2 DEF Moved, loopVars
  <2>2. \A r \in shown : r[3] \in Calls
    BY HistoryIsTyped
  <2>3. calls'[c].tool = calls[c].tool /\ calls'[c].stage \in {"done", "error"}
    BY <1>2 DEF Moved
  <2>4. \A d \in Calls : d # c => calls'[d] = calls[d]
    BY <1>2 DEF Moved
  <2> QED
    BY <1>1, <2>1, <2>2, <2>3, <2>4 DEF Inv, ShownWasPassed, OutcomeTools, loopVars
<1> QED
  BY <1>4, <1>5, <1>6, <1>7, <1>8 DEF Inv

\* What passes the gate was accepted, is supported, and is the first outcome.
LEMMA GateOpens ==
  ASSUME Inv, state.verifiedAnswer # None, Releasable(state.verifiedAnswer)
  PROVE  /\ state.verifiedAnswer \in Answers /\ state.calculations \in Nat
         /\ [answer |-> state.verifiedAnswer, calculations |-> state.calculations] \in accepted
         /\ Supported(state.verifiedAnswer.conclusion, grounds) = state.verifiedAnswer.conclusion
         /\ state.integrityAttempted
         /\ \A d \in Calls : ~Passed(d)
<1>1. state.verifiedAnswer \in Answers /\ state.calculations \in Nat
  BY StateIsTyped DEF States
<1>2. /\ state.artifact.answer = state.verifiedAnswer
      /\ state.artifact.calculations = state.calculations
  BY DEF Releasable, ArtifactHash
<1>3. [answer |-> state.verifiedAnswer, calculations |-> state.calculations] \in accepted
  BY <1>2 DEF Inv, VerdictIsBound, Releasable
<1>4. /\ Supported(state.verifiedAnswer.conclusion, grounds) = state.verifiedAnswer.conclusion
      /\ state.integrityAttempted
  BY DEF Inv, ClaimsAreGrounded, Releasable
<1>5. \A d \in Calls : ~Passed(d)
  BY DEF Inv, OneOutcomeCall, Releasable, Stops
<1> QED
  BY <1>1, <1>3, <1>4, <1>5

LEMMA DeliverInv == ASSUME Inv, NEW c \in Calls, Deliver(c) PROVE Inv'
<1> DEFINE t == "deliverVerifiedAnswer"
           answer == state.verifiedAnswer
<1>1. UNCHANGED <<context, loopVars, shown, accepted, grounds>>
  BY DEF Deliver
<1>2. /\ t \in active /\ calls[c].stage = "unused" /\ \A u \in active : u = t
  BY CallableCall DEF Deliver, Tools
<1>3. CASE Advance(c, t, "error", None) /\ UNCHANGED <<state, released>>
  <2>1. Moved(c, t, "error")
    BY <1>3, AdvanceMoves DEF Inv, Stages, Tools
  <2>2. TypeOK'
    BY <1>1, <1>3, <2>1, TypeStep, StateIsTyped, HistoryIsTyped
  <2>3. OneToolPerStep' /\ StagesMatchTools'
    BY <1>1, <1>2, <2>1, LoopStep DEF Stages
  <2>4. /\ RequestsAreCurrent' /\ ClaimsAreGrounded' /\ DraftsAreReviewed'
        /\ ReleasedWasReviewed' /\ ReleasedIsGrounded' /\ ChecksPrecede' /\ OneOutcomeCall'
    BY <1>1, <1>2, <1>3, <2>1, QuietStep DEF Stages
  <2>5. VerdictIsBound' /\ ShownWasPassed'
    BY <1>1, <1>2, <1>3, <2>1, ShownStep DEF Inv, VerdictIsBound, loopVars
  <2> QED
    BY <2>2, <2>3, <2>4, <2>5 DEF Inv
<1>4. CASE /\ answer # None /\ Releasable(answer)
           /\ state' = [state EXCEPT !.delivered = TRUE]
           /\ released' = released \cup {Released("answer")}
           /\ Advance(c, t, "recording", None)
  <2>1. Moved(c, t, "recording")
    BY <1>4, AdvanceMoves DEF Inv, Stages, Tools
  <2>2. state \in States /\ state' \in States /\ state'.delivered
    BY <1>4, StateIsTyped DEF States
  <2>3. UNCHANGED <<state.calculations, state.integrityVerified, state.verifiedClaims, state.abstained,
                    state.integrityAttempted, state.independentlyVerified, state.artifact>>
    BY <1>4, <2>2 DEF States
  <2>4. Released("answer") \in Outcomes
    BY <1>4, GateOpens DEF Released, Outcomes
  <2>5. TypeOK'
    BY <1>1, <1>4, <2>1, <2>2, <2>4, TypeStep, HistoryIsTyped
  <2>6. OneToolPerStep' /\ StagesMatchTools'
    BY <1>1, <1>2, <2>1, LoopStep DEF Stages
  <2>7. RequestsAreCurrent' /\ VerdictIsBound' /\ ClaimsAreGrounded' /\ DraftsAreReviewed'
    BY <1>1, <2>1, <2>3 DEF Inv, Moved, RequestsAreCurrent, VerdictIsBound, ClaimsAreGrounded,
                            DraftsAreReviewed, Supported
  <2>8. ReleasedWasReviewed' /\ ReleasedIsGrounded'
    BY <1>1, <1>4, GateOpens DEF Inv, ReleasedWasReviewed, ReleasedIsGrounded, Released, Supported
  <2>9. ChecksPrecede'
    BY <1>1, <1>2, <1>4, <2>1, <2>3, GateOpens DEF Inv, ChecksPrecede, Moved, loopVars
  <2>10. OneOutcomeCall'
    <3>1. \A d \in Calls : Passed(d)' => d = c
      BY <1>4, <2>1, GateOpens DEF Passed, Moved
    <3>2. Stops' /\ ~state'.abstained /\ active' # {}
      BY <1>1, <1>2, <1>4, <2>2, <2>3 DEF Stops, Releasable, loopVars
    <3> QED
      BY <3>1, <3>2 DEF OneOutcomeCall
  <2>11. ShownWasPassed'
    BY <1>1, <1>2, <2>1, <2>3, ShownStep DEF loopVars
  <2> QED
    BY <2>5, <2>6, <2>7, <2>8, <2>9, <2>10, <2>11 DEF Inv
<1> QED
  BY <1>3, <1>4 DEF Deliver

LEMMA ProposeInv == ASSUME Inv, NEW c \in Calls, Propose(c) PROVE Inv'
<1> DEFINE t == "proposeWorkpaper"
           answer == state.verifiedAnswer
<1>1. UNCHANGED <<context, loopVars, shown, historyVars>>
  BY DEF Propose
<1>2. /\ t \in active /\ calls[c].stage = "unused" /\ \A u \in active : u = t
  BY CallableCall DEF Propose, Tools
<1>3. CASE Advance(c, t, "error", None) /\ UNCHANGED state
  <2>1. Moved(c, t, "error")
    BY <1>3, AdvanceMoves DEF Inv, Stages, Tools
  <2>2. TypeOK'
    BY <1>1, <1>3, <2>1, TypeStep, StateIsTyped, HistoryIsTyped DEF historyVars
  <2>3. OneToolPerStep' /\ StagesMatchTools'
    BY <1>1, <1>2, <2>1, LoopStep DEF Stages
  <2>4. /\ RequestsAreCurrent' /\ ClaimsAreGrounded' /\ DraftsAreReviewed'
        /\ ReleasedWasReviewed' /\ ReleasedIsGrounded' /\ ChecksPrecede' /\ OneOutcomeCall'
    BY <1>1, <1>2, <1>3, <2>1, QuietStep DEF Stages, historyVars
  <2>5. VerdictIsBound' /\ ShownWasPassed'
    BY <1>1, <1>2, <1>3, <2>1, ShownStep DEF Inv, VerdictIsBound, loopVars, historyVars
  <2> QED
    BY <2>2, <2>3, <2>4, <2>5 DEF Inv
<1>4. CASE /\ answer # None /\ Releasable(answer)
           /\ state' = [state EXCEPT !.proposed = TRUE]
           /\ Advance(c, t, "drafting", Released("draft"))
  <2>1. Released("draft") \in Outcomes
    BY <1>4, GateOpens DEF Released, Outcomes
  <2>2. Moved(c, t, "drafting") /\ calls'[c].input = Released("draft")
    BY <1>4, <2>1, AdvanceMoves DEF Inv, Stages, Tools
  <2>3. state \in States /\ state' \in States /\ state'.proposed
    BY <1>4, StateIsTyped DEF States
  <2>4. UNCHANGED <<state.calculations, state.integrityVerified, state.verifiedClaims, state.abstained,
                    state.integrityAttempted, state.independentlyVerified, state.artifact>>
    BY <1>4, <2>3 DEF States
  <2>5. TypeOK'
    BY <1>1, <2>2, <2>3, TypeStep, HistoryIsTyped DEF historyVars
  <2>6. OneToolPerStep' /\ StagesMatchTools'
    BY <1>1, <1>2, <2>2, LoopStep DEF Stages
  <2>7. RequestsAreCurrent' /\ VerdictIsBound' /\ ClaimsAreGrounded'
    BY <1>1, <2>2, <2>4 DEF Inv, Moved, RequestsAreCurrent, VerdictIsBound, ClaimsAreGrounded,
                            Supported, historyVars
  <2>8. DraftsAreReviewed'
    BY <1>1, <1>4, <2>2, <2>4, GateOpens
       DEF Inv, Moved, DraftsAreReviewed, Supported, Released, historyVars
  <2>9. ReleasedWasReviewed' /\ ReleasedIsGrounded' /\ ChecksPrecede'
    BY <1>1, <2>2, <2>4 DEF Inv, ReleasedWasReviewed, ReleasedIsGrounded, ChecksPrecede, Supported,
                            Moved, historyVars, loopVars
  <2>10. OneOutcomeCall'
    <3>1. \A d \in Calls : Passed(d)' => d = c
      BY <1>4, <2>2, GateOpens DEF Passed, Moved
    <3>2. Stops' /\ ~state'.abstained /\ active' # {}
      BY <1>1, <1>2, <1>4, <2>3, <2>4 DEF Stops, Releasable, loopVars
    <3> QED
      BY <3>1, <3>2 DEF OneOutcomeCall
  <2>11. ShownWasPassed'
    BY <1>1, <1>2, <2>2, <2>4, ShownStep DEF loopVars
  <2> QED
    BY <2>5, <2>6, <2>7, <2>8, <2>9, <2>10, <2>11 DEF Inv
<1> QED
  BY <1>3, <1>4 DEF Propose

\* The one draft that waits is stored or comes to nothing.
LEMMA DraftInv == ASSUME Inv, NEW c \in Calls, Draft(c) PROVE Inv'
<1> DEFINE t == "proposeWorkpaper"
           draft == calls[c].input
<1>1. /\ UNCHANGED <<context, loopVars, shown, accepted, grounds>>
      /\ calls[c].tool = t /\ calls[c].stage = "drafting"
      /\ released' = released \/ (released = {} /\ released' = {draft})
  BY DEF Draft, AtStage
<1>2. PICK s \in {"recording", "error"} :
        /\ Moved(c, t, s)
        /\ \/ s = "recording" /\ state' = state
           \/ s = "error" /\ state' = [state EXCEPT !.proposed = FALSE]
  <2>1. CASE Advance(c, t, "recording", None) /\ UNCHANGED state
    BY <2>1, AdvanceMoves DEF Inv, Stages, Tools
  <2>2. CASE Throw(c) /\ state' = [state EXCEPT !.proposed = FALSE]
    BY <1>1, <2>2, StageMoves DEF Inv, Throw
  <2> QED
    BY <2>1, <2>2 DEF Draft
<1>3. t \in active
  BY <1>1, InFlightIsActive DEF InFlight
<1>4. /\ draft \in Outcomes
      /\ [answer |-> draft.answer, calculations |-> draft.calculations] \in accepted
      /\ Supported(draft.answer.conclusion, grounds) = draft.answer.conclusion
      /\ state.integrityAttempted
  BY <1>1 DEF Inv, TypeOK, InputOK, DraftsAreReviewed
<1>5. /\ state \in States /\ state' \in States
      /\ UNCHANGED <<state.calculations, state.integrityVerified, state.verifiedClaims, state.abstained,
                     state.integrityAttempted, state.independentlyVerified, state.artifact,
                     state.delivered>>
  BY <1>2, StateIsTyped DEF States
<1>6. TypeOK'
  BY <1>1, <1>2, <1>4, <1>5, TypeStep, HistoryIsTyped
<1>7. OneToolPerStep' /\ StagesMatchTools'
  BY <1>1, <1>2, <1>3, LoopStep DEF Stages
<1>8. RequestsAreCurrent' /\ VerdictIsBound' /\ ClaimsAreGrounded' /\ DraftsAreReviewed'
  BY <1>1, <1>2, <1>5 DEF Inv, Moved, RequestsAreCurrent, VerdictIsBound, ClaimsAreGrounded,
                          DraftsAreReviewed, Supported
<1>9. ReleasedWasReviewed' /\ ReleasedIsGrounded'
  BY <1>1, <1>4 DEF Inv, ReleasedWasReviewed, ReleasedIsGrounded, Supported
<1>10. ChecksPrecede'
  BY <1>1, <1>2, <1>3, <1>4, <1>5 DEF Inv, OneToolPerStep, ChecksPrecede, Moved, loopVars
<1>11. OneOutcomeCall'
  <2>1. Passed(c)
    BY <1>1 DEF Passed, OutcomeTools
  <2>2. \A d \in Calls : Passed(d)' => d = c /\ s = "recording"
    BY <1>2, <2>1 DEF Inv, OneOutcomeCall, Passed, Moved
  <2>3. s = "recording" => state' = state
    BY <1>2
  <2>4. s = "recording" => Stops' /\ ~state'.abstained /\ active' # {}
    BY <1>1, <1>3, <2>1, <2>3 DEF Inv, OneOutcomeCall, Stops, loopVars
  <2> QED
    BY <2>2, <2>4 DEF OneOutcomeCall
<1>12. ShownWasPassed'
  BY <1>1, <1>2, <1>5, ShownStep DEF loopVars
<1> QED
  BY <1>6, <1>7, <1>8, <1>9, <1>10, <1>11, <1>12 DEF Inv

\* After an outcome there is no further step, and after a check no further check.
LEMMA BeginStepInv == ASSUME Inv, BeginStep PROVE Inv'
<1>1. /\ ended = "no" /\ active = {} /\ active' = {NextTool}
      /\ calls' = [c \in Calls |-> NoCall] /\ step' = AtMost(step + 1, MaxSteps)
      /\ UNCHANGED <<context, state, failed, toolCalls, ended, shown, historyVars>>
  BY DEF BeginStep, ActiveTools
<1>2. \A c \in Calls : calls'[c] = NoCall /\ calls'[c].stage = "unused" /\ ~Passed(c)
  BY <1>1 DEF Inv, OneOutcomeCall, NoCall
<1>3. TypeOK'
  <2>1. calls' \in [Calls -> CallRows] /\ \A c \in Calls : InputOK(calls'[c])
    BY <1>1 DEF NoCall, CallRows, Stages, InputOK
  <2>2. step' \in 0 .. MaxSteps
    BY <1>1 DEF AtMost, Inv, TypeOK
  <2>3. active' \subseteq Tools
    BY <1>1 DEF NextTool, Tools
  <2> QED
    BY <1>1, <2>1, <2>2, <2>3 DEF Inv, TypeOK, CallRows, historyVars
<1>4. OneToolPerStep' /\ StagesMatchTools' /\ RequestsAreCurrent' /\ DraftsAreReviewed'
  BY <1>1, <1>2 DEF OneToolPerStep, StagesMatchTools, RequestsAreCurrent, DraftsAreReviewed, InFlight
<1>5. VerdictIsBound' /\ ClaimsAreGrounded' /\ ReleasedWasReviewed' /\ ReleasedIsGrounded'
  BY <1>1 DEF Inv, VerdictIsBound, ClaimsAreGrounded, ReleasedWasReviewed, ReleasedIsGrounded,
              Supported, historyVars
<1>6. ChecksPrecede'
  <2>1. state.integrityAttempted => NextTool # "verifyEvidence"
    BY DEF NextTool
  <2> QED
    BY <1>1, <1>2, <2>1 DEF Inv, ChecksPrecede, historyVars
<1>7. OneOutcomeCall'
  BY <1>2 DEF OneOutcomeCall, Passed
<1>8. ShownWasPassed'
  <2>1. \A r \in shown : r[3] \in Calls
    BY HistoryIsTyped
  <2>2. \A r \in shown : r[1] \notin OutcomeTools
    BY <1>2, <2>1 DEF Inv, ShownWasPassed, Passed
  <2> QED
    BY <1>1, <1>2, <2>2 DEF Inv, ShownWasPassed
<1> QED
  BY <1>3, <1>4, <1>5, <1>6, <1>7, <1>8 DEF Inv

LEMMA EndStepInv == ASSUME Inv, EndStep PROVE Inv'
<1>1. /\ ended = "no" /\ active # {} /\ active' = {} /\ ended' = AfterStep
      /\ \A c \in Calls : calls[c] = NoCall \/ calls[c].stage \in {"done", "error"}
      /\ failed' = (failed \/ \E c \in Used : calls[c].stage = "error")
      /\ toolCalls' = AtMost(toolCalls + Cardinality(Used), MaxToolCalls + 1)
      /\ UNCHANGED <<context, state, calls, step, shown, historyVars>>
  BY DEF EndStep, Used
<1>2. \A c \in Calls : calls[c].stage \in {"unused", "done", "error"}
  BY <1>1 DEF NoCall
<1>3. (\E c \in Calls : Passed(c)) => ended' = "finished"
  BY <1>1 DEF Inv, OneOutcomeCall, AfterStep
<1>4. TypeOK'
  <2>1. failed' \in BOOLEAN /\ ended' \in {"no", "finished", "limit", "aborted"}
    BY <1>1 DEF Inv, TypeOK, AfterStep
  <2>2. Cardinality(Used) \in Nat
    BY CallsAssumption, FS_Subset, FS_CardinalityType DEF Used
  <2>3. toolCalls' \in 0 .. MaxToolCalls + 1
    BY <1>1, <2>2 DEF Inv, TypeOK, AtMost
  <2> QED
    BY <1>1, <2>1, <2>3 DEF Inv, TypeOK, InputOK, historyVars
<1>5. OneToolPerStep' /\ StagesMatchTools' /\ RequestsAreCurrent' /\ DraftsAreReviewed'
  BY <1>1, <1>2 DEF OneToolPerStep, StagesMatchTools, RequestsAreCurrent, DraftsAreReviewed, InFlight
<1>6. VerdictIsBound' /\ ClaimsAreGrounded' /\ ReleasedWasReviewed' /\ ReleasedIsGrounded'
  BY <1>1 DEF Inv, VerdictIsBound, ClaimsAreGrounded, ReleasedWasReviewed, ReleasedIsGrounded,
              Supported, historyVars
<1>7. ChecksPrecede'
  BY <1>1, <1>2 DEF Inv, ChecksPrecede, historyVars
<1>8. OneOutcomeCall'
  BY <1>1, <1>3 DEF Inv, OneOutcomeCall, Passed, Stops
<1>9. ShownWasPassed'
  BY <1>1 DEF Inv, ShownWasPassed
<1> QED
  BY <1>4, <1>5, <1>6, <1>7, <1>8, <1>9 DEF Inv

LEMMA AbortInv == ASSUME Inv, Abort PROVE Inv'
<1>1. /\ ended' = "aborted"
      /\ UNCHANGED <<context, state, calls, active, step, failed, toolCalls, shown, historyVars>>
  BY DEF Abort
<1>2. TypeOK'
  BY <1>1 DEF Inv, TypeOK, InputOK, historyVars
<1>3. OneToolPerStep' /\ StagesMatchTools' /\ RequestsAreCurrent' /\ DraftsAreReviewed'
  BY <1>1 DEF Inv, OneToolPerStep, StagesMatchTools, RequestsAreCurrent, DraftsAreReviewed, InFlight,
              Supported, historyVars
<1>4. VerdictIsBound' /\ ClaimsAreGrounded' /\ ReleasedWasReviewed' /\ ReleasedIsGrounded'
  BY <1>1 DEF Inv, VerdictIsBound, ClaimsAreGrounded, ReleasedWasReviewed, ReleasedIsGrounded,
              Supported, historyVars
<1>5. ChecksPrecede' /\ ShownWasPassed'
  BY <1>1 DEF Inv, ChecksPrecede, ShownWasPassed, historyVars
<1>6. OneOutcomeCall'
  BY <1>1 DEF Inv, OneOutcomeCall, Passed, Stops
<1> QED
  BY <1>2, <1>3, <1>4, <1>5, <1>6 DEF Inv

LEMMA StepInv == Inv /\ [Next]_vars => Inv'
<1> SUFFICES ASSUME Inv, [Next]_vars PROVE Inv'
  OBVIOUS
<1>1. CASE \E c \in Calls : Call(c)
  BY <1>1, InvalidCallInv, SearchInv, CalculateInv, VerifyEvidenceInv, ReviewInv, DeliverInv,
     ProposeInv, AbstainInv DEF Call
<1>2. CASE \E c \in Calls : Continue(c)
  BY <1>2, RetrieveInv, CheckIntegrityInv, VerdictInv, DraftInv, RecordInv, FailInv DEF Continue
<1>3. CASE BeginStep \/ EndStep \/ Abort
  BY <1>3, BeginStepInv, EndStepInv, AbortInv
<1>4. CASE UNCHANGED vars
  <2>1. UNCHANGED <<context, state, calls, active, step, failed, toolCalls, ended, shown,
                    accepted, grounds, released>>
    BY <1>4 DEF vars, loopVars, historyVars
  <2>2. TypeOK'
    BY <2>1 DEF Inv, TypeOK, InputOK
  <2>3. /\ OneToolPerStep' /\ StagesMatchTools' /\ RequestsAreCurrent' /\ DraftsAreReviewed'
        /\ VerdictIsBound' /\ ClaimsAreGrounded'
    BY <2>1 DEF Inv, OneToolPerStep, StagesMatchTools, RequestsAreCurrent, DraftsAreReviewed, InFlight,
                VerdictIsBound, ClaimsAreGrounded, Supported
  <2>4. /\ ReleasedWasReviewed' /\ ReleasedIsGrounded' /\ ChecksPrecede' /\ OneOutcomeCall'
        /\ ShownWasPassed'
    BY <2>1 DEF Inv, ReleasedWasReviewed, ReleasedIsGrounded, ChecksPrecede, OneOutcomeCall, Passed,
                Stops, ShownWasPassed, Supported
  <2> QED
    BY <2>2, <2>3, <2>4 DEF Inv
<1> QED
  BY <1>1, <1>2, <1>3, <1>4 DEF Next

-----------------------------------------------------------------------------
(* Theorems                                                                *)

\* The invariant holds of every run of the agent, whatever the model calls, and
\* in whatever order the calls of a step go on.
THEOREM Invariant == Spec => []Inv
<1>1. Init => Inv
  BY InitInv
<1>2. Inv /\ [Next]_vars => Inv'
  BY StepInv
<1> QED
  BY <1>1, <1>2, PTL DEF Spec

\* The verification state, the calls and the budget keep their types.
THEOREM TypeCorrect == Spec => []TypeOK
<1>1. Inv => TypeOK
  BY DEF Inv
<1> QED
  BY <1>1, Invariant, PTL

\* What is delivered or drafted is what a verifier has accepted.
THEOREM OnlyReviewedIsReleased == Spec => []ReleasedWasReviewed
<1>1. Inv => ReleasedWasReviewed
  BY DEF Inv
<1> QED
  BY <1>1, Invariant, PTL

\* Every released claim is supported by what its integrity check retrieved.
THEOREM OnlyGroundedIsReleased == Spec => []ReleasedIsGrounded
<1>1. Inv => ReleasedIsGrounded
  BY DEF Inv
<1> QED
  BY <1>1, Invariant, PTL

\* The outcomes the client was sent come from one call of one step.
LEMMA OneOutcomeShown == Inv => ClientSeesOneOutcome
<1> SUFFICES ASSUME Inv PROVE ClientSeesOneOutcome
  OBVIOUS
<1> DEFINE outcomes == {r \in shown : r[1] \in {"deliverVerifiedAnswer", "proposeWorkpaper"}}
<1>1. \A r \in outcomes : /\ r[2] = step /\ r[3] \in Calls /\ r[1] = calls[r[3]].tool
                          /\ Passed(r[3])
  BY HistoryIsTyped DEF Inv, ShownWasPassed, Passed, OutcomeTools
<1>2. \A r \in outcomes : r = <<r[1], r[2], r[3]>>
  BY HistoryIsTyped
<1>3. \A r, q \in outcomes : r = q
  BY <1>1, <1>2 DEF Inv, OneOutcomeCall
<1>4. Cardinality(outcomes) <= 1
  <2> HIDE DEF outcomes
  <2>1. CASE outcomes = {}
    BY <2>1, FS_EmptySet
  <2>2. CASE outcomes # {}
    <3>1. PICK r \in outcomes : outcomes = {r}
      BY <1>3, <2>2
    <3> QED
      BY <3>1, FS_Singleton
  <2> QED
    BY <2>1, <2>2
<1>5. outcomes # {} => \A r \in shown : r[1] # "abstain"
  BY <1>1 DEF Inv, OneOutcomeCall, ShownWasPassed
<1> QED
  BY <1>4, <1>5 DEF ClientSeesOneOutcome

\* The client sees one outcome at most, and no abstention beside it.
THEOREM OneOutcomeIsSeen == Spec => []ClientSeesOneOutcome
BY Invariant, OneOutcomeShown, PTL

-----------------------------------------------------------------------------
(* The ladder of the tools                                                 *)

Ladder == {"searchTaxSources", "calculateVat", "verifyEvidence", "independentReview"}

\* nextTool does not choose a tool of the ladder again once it was called.
Reached(t) ==
  CASE t = "searchTaxSources" -> state.searchAttempted
    [] t = "calculateVat" -> state.calculations > 0
    [] t = "verifyEvidence" -> state.integrityAttempted
    [] t = "independentReview" -> state.independentAttempted

Rungs == {t \in Ladder : Reached(t)}

\* A call that was accepted has reached its rung.
CallsReach ==
  \A c \in Calls : calls[c].stage \notin {"unused", "error"} /\ calls[c].tool \in Ladder =>
    calls[c].tool \in Rungs

\* Without a failure there were no more steps than rungs.
StepsAreRungs == ended = "no" /\ ~failed => step <= Cardinality(Rungs \cup active)

LadderInv == CallsReach /\ StepsAreRungs /\ LimitsAllowAnOutcome

LEMMA FourRungs ==
  ASSUME NEW S, S \subseteq Ladder PROVE IsFiniteSet(S) /\ Cardinality(S) <= 4
<1>1. /\ IsFiniteSet({"searchTaxSources"}) /\ Cardinality({"searchTaxSources"}) = 1
  BY FS_Singleton
<1> DEFINE two == {"searchTaxSources"} \cup {"calculateVat"}
           three == two \cup {"verifyEvidence"}
           four == three \cup {"independentReview"}
<1>2. IsFiniteSet(two) /\ Cardinality(two) = 2
  BY <1>1, FS_AddElement
<1>3. IsFiniteSet(three) /\ Cardinality(three) = 3
  BY <1>2, FS_AddElement
<1>4. IsFiniteSet(four) /\ Cardinality(four) = 4
  BY <1>3, FS_AddElement
<1>5. four = Ladder
  BY DEF Ladder
<1> HIDE DEF four
<1>6. QED
  BY <1>4, <1>5, FS_Subset, FS_CardinalityType

\* A call reaches no rung but its own, and none is lost.
LEMMA CallClimbs ==
  ASSUME LadderInv, NEW c \in Calls, \A d \in Calls : d # c => calls'[d] = calls[d],
         UNCHANGED loopVars, Rungs \subseteq Rungs', Rungs' \subseteq Rungs \cup active,
         calls'[c].stage \notin {"unused", "error"} /\ calls'[c].tool \in Ladder =>
           calls'[c].tool \in Rungs'
  PROVE  LadderInv'
<1>1. Rungs' \cup active' = Rungs \cup active
  BY DEF loopVars
<1>2. StepsAreRungs' /\ LimitsAllowAnOutcome'
  BY <1>1 DEF LadderInv, StepsAreRungs, LimitsAllowAnOutcome, loopVars
<1>3. CallsReach'
  BY DEF LadderInv, CallsReach
<1>4. QED
  BY <1>2, <1>3 DEF LadderInv

LEMMA RungReached ==
  ASSUME NEW u \in Ladder, Reached(u)', \A v \in Ladder \ {u} : Reached(v)' = Reached(v)
  PROVE  Rungs' = Rungs \cup {u}
BY DEF Rungs

\* A tool of the ladder marks its rung as soon as it is called; the calls of
\* the other tools and the refused ones reach none.
LEMMA CallLadder == ASSUME Inv, LadderInv, NEW c \in Calls, Call(c) PROVE LadderInv'
<1>1. UNCHANGED loopVars
  BY DEF Call, InvalidCall, Search, Calculate, VerifyEvidence, Review, Deliver, Propose, Abstain
<1>2. PICK t, s, i : t \in active /\ s \in Stages /\ calls' = [calls EXCEPT ![c] = At(t, s, i)]
  BY DEF Call, InvalidCall, Search, Calculate, VerifyEvidence, Review, Deliver, Propose, Abstain,
         Callable, Advance, Stages
<1>3. state \in States
  BY StateIsTyped
<1>4. CASE Search(c) \/ Calculate(c) \/ VerifyEvidence(c) \/ Review(c)
  <2>1. PICK u \in active \cap Ladder : Rungs' = Rungs \cup {u}
    <3>1. CASE Search(c)
      <4>1. "searchTaxSources" \in active \cap Ladder
        BY <3>1 DEF Search, Callable, Ladder
      <4>2. /\ Reached("searchTaxSources")'
            /\ \A v \in Ladder \ {"searchTaxSources"} : Reached(v)' = Reached(v)
        BY <1>3, <3>1 DEF Search, Ladder, Reached, States
      <4>3. QED
        BY <4>1, <4>2, RungReached
    <3>2. CASE Calculate(c)
      <4>1. "calculateVat" \in active \cap Ladder
        BY <3>2 DEF Calculate, Callable, Ladder
      <4>2. /\ Reached("calculateVat")'
            /\ \A v \in Ladder \ {"calculateVat"} : Reached(v)' = Reached(v)
        BY <1>3, <3>2 DEF Calculate, Ladder, Reached, States
      <4>3. QED
        BY <4>1, <4>2, RungReached
    <3>3. CASE VerifyEvidence(c)
      <4>1. "verifyEvidence" \in active \cap Ladder
        BY <3>3 DEF VerifyEvidence, Callable, Ladder
      <4>2. /\ Reached("verifyEvidence")'
            /\ \A v \in Ladder \ {"verifyEvidence"} : Reached(v)' = Reached(v)
        BY <1>3, <3>3 DEF VerifyEvidence, Ladder, Reached, States
      <4>3. QED
        BY <4>1, <4>2, RungReached
    <3>4. CASE Review(c)
      <4>1. "independentReview" \in active \cap Ladder
        BY <3>4 DEF Review, Callable, Ladder
      <4>2. /\ Reached("independentReview")'
            /\ \A v \in Ladder \ {"independentReview"} : Reached(v)' = Reached(v)
        BY <1>3, <3>4 DEF Review, Ladder, Reached, States
      <4>3. QED
        BY <4>1, <4>2, RungReached
    <3>5. QED
      BY <1>4, <3>1, <3>2, <3>3, <3>4
  <2>2. t = u
    BY <1>2, <2>1 DEF Inv, OneToolPerStep
  <2>3. calls'[c].tool = t /\ \A d \in Calls : d # c => calls'[d] = calls[d]
    BY <1>2 DEF Inv, TypeOK, At
  <2>4. QED
    BY <1>1, <2>1, <2>2, <2>3, CallClimbs
<1>5. CASE InvalidCall(c) \/ Deliver(c) \/ Propose(c) \/ Abstain(c)
  <2>1. Rungs' = Rungs
    BY <1>3, <1>5 DEF InvalidCall, Deliver, Propose, Abstain, Rungs, Reached, States, Ladder
  <2>2. calls'[c].stage = "error" \/ calls'[c].tool \notin Ladder
    BY <1>5 DEF InvalidCall, Deliver, Propose, Abstain, Advance, At, Ladder, Inv, TypeOK
  <2>3. \A d \in Calls : d # c => calls'[d] = calls[d]
    BY <1>2
  <2>4. QED
    BY <1>1, <2>1, <2>2, <2>3, CallClimbs
<1>6. QED
  BY <1>4, <1>5 DEF Call

\* What a waiting call does later reaches no rung.
LEMMA ContinueLadder == ASSUME Inv, LadderInv, NEW c \in Calls, Continue(c) PROVE LadderInv'
<1> USE DEF Continue, Retrieve, CheckIntegrity, Verdict, Draft, Record, Fail
<1>1. UNCHANGED loopVars /\ calls[c].stage \notin {"unused", "error"}
  BY DEF AtStage
<1>2. Rungs' = Rungs
  <2>1. state \in States
    BY StateIsTyped
  <2>2. UNCHANGED <<state.searchAttempted, state.calculations, state.integrityAttempted,
                    state.independentAttempted>>
    BY <2>1 DEF States, Check
  <2>3. QED
    BY <2>2 DEF Rungs, Reached, Ladder
<1>3. calls'[c].tool = calls[c].tool /\ \A d \in Calls : d # c => calls'[d] = calls[d]
  <2>1. calls[c] \in CallRows /\ DOMAIN calls = Calls
    BY DEF Inv, TypeOK, CallRows
  <2>2. CASE Retrieve(c)
    BY <2>1, <2>2 DEF At
  <2>3. CASE CheckIntegrity(c) \/ Verdict(c)
    BY <2>1, <2>3 DEF At, AtStage, Advance
  <2>4. CASE Draft(c)
    BY <2>1, <2>4 DEF At, AtStage, Advance, Throw, CallRows
  <2>5. CASE Record(c) \/ Fail(c)
    BY <2>1, <2>5 DEF Throw, CallRows
  <2>6. QED
    BY <2>2, <2>3, <2>4, <2>5
<1>4. QED
  BY <1>1, <1>2, <1>3, CallClimbs DEF LadderInv, CallsReach

\* The tool of a new step is not a rung that is reached already.
LEMMA BeginStepLadder == ASSUME Inv, LadderInv, BeginStep PROVE LadderInv'
<1>1. /\ ended = "no" /\ active = {} /\ active' = {NextTool} /\ step' = AtMost(step + 1, MaxSteps)
      /\ calls' = [c \in Calls |-> NoCall]
      /\ UNCHANGED <<state, failed, toolCalls, ended>>
  BY DEF BeginStep, ActiveTools
<1>2. Rungs' = Rungs
  BY <1>1 DEF Rungs, Reached
<1>3. CallsReach' /\ LimitsAllowAnOutcome'
  BY <1>1 DEF CallsReach, NoCall, LimitsAllowAnOutcome
<1>4. NextTool \notin Rungs
  BY DEF NextTool, Rungs, Reached, Ladder
<1>5. Cardinality(Rungs \cup {NextTool}) = Cardinality(Rungs) + 1
  <2>1. IsFiniteSet(Rungs)
    BY FourRungs DEF Rungs
  <2>2. QED
    BY <1>4, <2>1, FS_AddElement
<1>6. StepsAreRungs'
  <2>1. SUFFICES ASSUME ~failed PROVE step' <= Cardinality(Rungs \cup {NextTool})
    BY <1>1, <1>2 DEF StepsAreRungs
  <2>2. step <= Cardinality(Rungs)
    <3>1. Rungs \cup active = Rungs
      BY <1>1
    <3>2. QED
      BY <1>1, <2>1, <3>1 DEF LadderInv, StepsAreRungs
  <2>3. step \in Nat /\ Cardinality(Rungs) \in Nat /\ step' <= step + 1
    <3>1. step \in Nat
      BY DEF Inv, TypeOK
    <3>2. Cardinality(Rungs) \in Nat
      BY FourRungs, FS_CardinalityType DEF Rungs
    <3>3. QED
      BY <1>1, <3>1, <3>2 DEF AtMost
  <2>4. step' \in Nat
    BY <1>1, <2>3 DEF AtMost
  <2>5. QED
    BY <1>5, <2>2, <2>3, <2>4
<1>7. QED
  BY <1>3, <1>6 DEF LadderInv

\* A step without a failure that does not end the loop has reached its rung:
\* there were four of them at most.
LEMMA EndStepLadder == ASSUME Inv, LadderInv, EndStep PROVE LadderInv'
<1>1. /\ ended = "no" /\ active # {} /\ active' = {} /\ ended' = AfterStep
      /\ \A c \in Used : calls[c].stage \in {"done", "error"}
      /\ failed' = (failed \/ \E c \in Used : calls[c].stage = "error")
      /\ UNCHANGED <<state, calls, step>>
  BY DEF EndStep
<1>2. Rungs' = Rungs
  BY <1>1 DEF Rungs, Reached
<1>3. CallsReach'
  BY <1>1, <1>2 DEF LadderInv, CallsReach
<1>4. IsFiniteSet(Rungs) /\ Cardinality(Rungs) \in Nat /\ Cardinality(Rungs) <= 4
  BY FourRungs, FS_CardinalityType DEF Rungs
<1>5. ASSUME ~failed', ended' # "finished" PROVE step <= Cardinality(Rungs)
  <2>1. Used # {} /\ ~Stops
    BY <1>1, <1>5 DEF AfterStep
  <2>2. PICK c \in Calls : calls[c] # NoCall /\ calls[c].stage = "done"
    BY <1>1, <1>5, <2>1 DEF Used
  <2>3. calls[c].tool \in active
    BY <1>1, <2>2 DEF Inv, OneToolPerStep
  <2>4. calls[c].tool \in Ladder
    <3>1. calls[c].tool \notin OutcomeTools
      BY <2>1, <2>2 DEF Inv, OneOutcomeCall, Passed
    <3>2. calls[c].tool # "abstain"
      BY <2>1, <2>2 DEF Inv, ShownWasPassed, Stops
    <3>3. calls[c].tool \in Tools
      BY <2>3 DEF Inv, TypeOK
    <3>4. QED
      BY <3>1, <3>2, <3>3 DEF Tools, Ladder, OutcomeTools
  <2>5. calls[c].tool \in Rungs
    BY <2>2, <2>4 DEF LadderInv, CallsReach
  <2>6. Rungs \cup active = Rungs
    BY <2>3, <2>5 DEF Inv, OneToolPerStep
  <2>7. ~failed
    BY <1>1, <1>5
  <2>8. QED
    BY <1>1, <2>6, <2>7 DEF LadderInv, StepsAreRungs
<1>6. StepsAreRungs'
  BY <1>1, <1>2, <1>5 DEF StepsAreRungs
<1>7. LimitsAllowAnOutcome'
  <2>1. SUFFICES ASSUME ended' = "limit", ~failed' PROVE toolCalls' > step
    BY <1>1 DEF LimitsAllowAnOutcome
  <2>2. step \in Nat /\ step <= 4
    BY <1>4, <1>5, <2>1 DEF Inv, TypeOK
  <2>3. toolCalls' > MaxToolCalls
    BY <1>1, <2>1, <2>2, LadderAssumption DEF AfterStep
  <2>4. toolCalls' \in Nat
    BY EndStepInv DEF Inv, TypeOK
  <2>5. QED
    BY <2>2, <2>3, <2>4, LadderAssumption
<1>8. QED
  BY <1>3, <1>6, <1>7 DEF LadderInv

LEMMA LadderStep == Inv /\ LadderInv /\ [Next]_vars => LadderInv'
<1> SUFFICES ASSUME Inv, LadderInv, [Next]_vars PROVE LadderInv'
  OBVIOUS
<1>1. CASE \E c \in Calls : Call(c) \/ Continue(c)
  BY <1>1, CallLadder, ContinueLadder
<1>2. CASE BeginStep \/ EndStep
  BY <1>2, BeginStepLadder, EndStepLadder
<1>3. CASE Abort
  BY <1>3 DEF Abort, LadderInv, CallsReach, StepsAreRungs, LimitsAllowAnOutcome, Rungs, Reached
<1>4. CASE UNCHANGED vars
  BY <1>4 DEF vars, loopVars, LadderInv, CallsReach, StepsAreRungs, LimitsAllowAnOutcome, Rungs, Reached
<1>5. QED
  BY <1>1, <1>2, <1>3, <1>4 DEF Next

\* The limits of budget.ts leave room for an outcome: whatever the model calls,
\* they cut off only a run in which a call has failed or was made twice, because
\* nextTool never chooses a tool of the ladder again.
THEOREM LimitsLeaveRoom == Spec => []LimitsAllowAnOutcome
<1>1. Init => LadderInv
  <2>1. SUFFICES ASSUME Init PROVE LadderInv
    OBVIOUS
  <2>2. CallsReach /\ LimitsAllowAnOutcome
    BY <2>1 DEF Init, CallsReach, LimitsAllowAnOutcome, NoCall
  <2>3. Cardinality(Rungs \cup active) \in Nat
    <3>1. Rungs \cup active = Rungs
      BY <2>1 DEF Init
    <3>2. QED
      BY <3>1, FourRungs, FS_CardinalityType DEF Rungs
  <2>4. StepsAreRungs
    BY <2>1, <2>3 DEF Init, StepsAreRungs
  <2>5. QED
    BY <2>2, <2>4 DEF LadderInv
<1>2. LadderInv => LimitsAllowAnOutcome
  BY DEF LadderInv
<1>3. QED
  BY <1>1, <1>2, Invariant, LadderStep, PTL DEF Spec
=============================================================================
