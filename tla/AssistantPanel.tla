--------------------------- MODULE AssistantPanel ---------------------------
(***************************************************************************)
(* What the assistant's page shows beside the chat while answers stream    *)
(* in: the evidence and the verification, derived from the messages        *)
(* (components/use-tax-assistant.ts, assistant-message-model.ts). Answers  *)
(* come from the agent, of whose tools the client sees the outcome, or     *)
(* from the deterministic demo (lib/ai/demo-stream.ts). Evidence is        *)
(* numbered by the question it was found for, so that an excerpt found     *)
(* again for another question is another excerpt.                          *)
(***************************************************************************)
EXTENDS Naturals, FiniteSets, SequencesExt

CONSTANTS
  Sources,        \* evidence ids of the matter
  Reconciled,     \* the ids the claims of the demo cite (requiredEvidence)
  MaxQuestions    \* questions, repetitions included

ASSUME SourcesAssumption == IsFiniteSet(Sources) /\ Reconciled \subseteq Sources

VARIABLES
  messages,       \* [role, parts]
  questions,      \* questions sent so far
  found,          \* the evidence retrieved for each of them
  streaming,      \* the parts the server has still to send
  busy            \* status is submitted or streaming

panelVars == <<messages, questions, found, streaming, busy>>

PanelInit ==
  /\ messages = <<>>
  /\ questions = 0
  /\ found = <<>>
  /\ streaming = <<>>
  /\ busy = FALSE

Excerpts(ids, question) == {[id |-> s, question |-> question] : s \in ids}

-----------------------------------------------------------------------------
(* The answers                                                             *)

Stage(name) == [type |-> "data-workflow", stage |-> name]
Evidence(excerpt) == [type |-> "data-evidence", excerpt |-> excerpt]
Verification(status) == [type |-> "data-verification", status |-> status]

\* createDemoTaxResponse: evidence, then the answer it supports, then the
\* verification, "verified" only for the question the fixed claims are about and
\* if exactly the evidence they cite was found (verifyClaims then covers them).
DemoAnswer(ids, question, reconciliation) ==
  LET verified == reconciliation /\ ids = Reconciled
  IN <<Stage("RETRIEVE")>>
       \o [k \in 1..Cardinality(ids) |->
             Evidence(SetToSeq(Excerpts(ids, question))[k])]
       \o <<Stage("DRAFT"), [type |-> "text"],
            Verification(IF verified THEN "verified" ELSE "needs-review"),
            Stage("AWAITING_REVIEW")>>

Outcomes == {"tool-deliverVerifiedAnswer", "tool-proposeWorkpaper"}

\* The tool calls of the agent the client is shown: the answer or the workpaper
\* that ends a run brings the evidence it cites along, abstaining brings none.
AgentAnswer(tool, cited, question) ==
  IF cited = {} THEN << [type |-> "tool-abstain"] >>
  ELSE << [type |-> "tool-independentReview"],
          [type |-> tool, evidenceIds |-> cited,
           evidence |-> Excerpts(cited, question)] >>

\* The message of the user is appended and its answer begins to stream.
Submit(history) ==
  \E ids \in SUBSET Sources :
    /\ questions' = questions + 1
    /\ found' = Append(found, ids)
    /\ messages' = history
    /\ busy' = TRUE
    /\ \/ \E reconciliation \in BOOLEAN :
            streaming' = DemoAnswer(ids, questions', reconciliation)
       \/ \E cited \in SUBSET ids, tool \in Outcomes :
            streaming' = AgentAnswer(tool, cited, questions')

Ask ==
  /\ ~busy /\ questions < MaxQuestions
  /\ Submit(Append(messages, [role |-> "user", parts |-> <<>>]))

\* regenerate: the last answer is removed and its question sent again.
Regenerate ==
  /\ ~busy /\ questions < MaxQuestions /\ messages # <<>>
  /\ Submit(IF Last(messages).role = "assistant" THEN Front(messages) ELSE messages)

\* Parts with the same id are replaced in place: there is one workflow part.
Update(parts, part) ==
  LET k == SelectInSeq(parts, LAMBDA p : p.type = part.type)
  IN IF part.type = "data-workflow" /\ k # 0
     THEN ReplaceAt(parts, k, part) ELSE Append(parts, part)

\* The next part arrives; the first one brings the message of the assistant.
Receive ==
  /\ busy /\ streaming # <<>>
  /\ LET part == Head(streaming)
     IN messages' =
          IF Last(messages).role = "user"
          THEN Append(messages, [role |-> "assistant", parts |-> <<part>>])
          ELSE ReplaceAt(messages, Len(messages),
                 [Last(messages) EXCEPT !.parts = Update(@, part)])
  /\ streaming' = Tail(streaming)
  /\ UNCHANGED <<questions, found, busy>>

\* The stream ends, is stopped by the user, or breaks off.
StreamEnds ==
  /\ busy
  /\ busy' = FALSE
  /\ streaming' = <<>>
  /\ UNCHANGED <<messages, questions, found>>

PanelNext == Ask \/ Regenerate \/ Receive \/ StreamEnds
PanelSpec == PanelInit /\ [][PanelNext]_panelVars

-----------------------------------------------------------------------------
(* The panel                                                               *)

\* chat.messages.at(-1), if it is an answer.
LatestParts ==
  IF messages # <<>> /\ Last(messages).role = "assistant"
  THEN Last(messages).parts ELSE <<>>

\* Mutant: the parts of all messages, as currentAssistantStage looks at them.
AllParts == FlattenSeq([k \in DOMAIN messages |-> messages[k].parts])

\* What both the evidence and the verification of the panel are taken from.
PanelParts == LatestParts

StreamedAssistantEvidence ==
  UNION { IF part.type = "data-evidence" THEN {part.excerpt}
          ELSE IF part.type \in Outcomes THEN part.evidence ELSE {} :
          part \in ToSet(PanelParts) }

ExtractCitedEvidenceIds ==
  LET k == SelectLastInSeq(PanelParts, LAMBDA p : p.type \in Outcomes)
  IN IF k = 0 THEN {} ELSE PanelParts[k].evidenceIds

\* "initial" stands for the evidence shown before the first question.
PanelEvidence ==
  LET cited == {e \in StreamedAssistantEvidence : e.id \in ExtractCitedEvidenceIds}
      shown == IF ExtractCitedEvidenceIds # {} THEN cited ELSE StreamedAssistantEvidence
  IN IF shown = {} /\ messages = <<>> THEN {"initial"} ELSE shown

LatestAssistantVerification ==
  LET k == SelectLastInSeq(PanelParts, LAMBDA p : p.type = "data-verification")
  IN IF k = 0 THEN "none" ELSE PanelParts[k].status

-----------------------------------------------------------------------------
(* Properties                                                              *)

\* use-tax-assistant.ts:45: whatever was stopped, repeated or broken off
\* before, the page shows evidence of the latest question only, the evidence an
\* answer cites if there is one, and calls an answer verified only beside all
\* the evidence its claims rest on.
PanelShowsLatestAnswer ==
  messages # <<>> =>
    /\ PanelEvidence \subseteq Excerpts(found[questions], questions)
    /\ \A part \in ToSet(LatestParts) :
         part.type \in Outcomes => PanelEvidence = part.evidence
    /\ LatestAssistantVerification = "verified" =>
         Excerpts(Reconciled, questions) \subseteq PanelEvidence
=============================================================================
