------------------------ MODULE ReviewServiceProofs ------------------------
(***************************************************************************)
(* Proofs about ReviewService for every number of tabs, requests, versions *)
(* and lost answers: the type invariant, what the tabs show, on which      *)
(* version decisions are made, and that the service implements             *)
(* DecisionLedger.                                                         *)
(*                                                                         *)
(* The strengthening follows the manifest of a preview: from the document  *)
(* to the tab, into the request, into the message and back to the document *)
(* (ManifestsPreviewed), and a decision from the row of the request to the *)
(* answer that tells of it (AnswersAreTrue).                               *)
(***************************************************************************)
EXTENDS ReviewService, TLAPS

Row == [at : Stages, want : Decided \cup {None}, manifest : 0..MaxVersion, answer : Answers]

Message == [kind : {"none", "tokens", "workpaper", "evidence"},
            want : Decided \cup {None}, manifest : 0..MaxVersion]

\* An answer that tells a decision tells the one of the row.
AnswersAreTrue == \A r \in Slots : slot[r].answer \in Decided => slot[r].answer = approval.status

\* The manifests on their way to a decision have been shown.
ManifestsPreviewed ==
  /\ \A t \in Tabs : preview[t] # 0 => preview[t] \in previewed
  /\ \A r \in Slots : slot[r].at \in {"patch", "judge"} => slot[r].manifest \in previewed
  /\ \A r \in Slots : message[r].kind = "evidence" => message[r].manifest \in previewed
  /\ \A r \in Slots : slot[r].answer = "preview" => slot[r].manifest # 0

\* What is asked of a transaction is a decision.
RequestsAreDecisions ==
  /\ \A r \in Slots : slot[r].at \in {"read", "check", "post", "patch"} \cup Waiting =>
       slot[r].want \in Decided
  /\ \A r \in Slots : slot[r].answer = "tokens" => slot[r].want \in Decided
  /\ \A r \in Slots : message[r].kind # "none" => message[r].want \in Decided

Inv ==
  /\ TypeOK /\ RequestsAreDecisions
  /\ AnswersAreTrue /\ ToldTruth
  /\ DecidedAsCited
  /\ ManifestsPreviewed /\ DecidedAsPreviewed

USE NoneAssumption, BoundsAssumption

-----------------------------------------------------------------------------

\* A write to one slot.
LEMMA SlotWrite ==
  ASSUME NEW r \in Slots, slot \in [Slots -> Row], NEW row \in Row,
         slot' = [slot EXCEPT ![r] = row]
  PROVE  /\ slot' \in [Slots -> Row]
         /\ slot'[r] = row
         /\ \A q \in Slots : q # r => slot'[q] = slot[q]
OBVIOUS

\* Goto changes the stage of a request only.
LEMMA GotoStep ==
  ASSUME NEW r \in Slots, NEW stage \in Stages, slot \in [Slots -> Row], Goto(r, stage)
  PROVE  /\ slot' \in [Slots -> Row]
         /\ slot'[r].at = stage /\ slot'[r].want = slot[r].want
         /\ slot'[r].manifest = slot[r].manifest /\ slot'[r].answer = slot[r].answer
         /\ \A q \in Slots : q # r => slot'[q] = slot[q]
BY DEF Goto, Row

\* Reply ends the handling of a request with an answer.
LEMMA ReplyStep ==
  ASSUME NEW r \in Slots, NEW answer \in Answers, slot \in [Slots -> Row], Reply(r, answer)
  PROVE  /\ slot' \in [Slots -> Row]
         /\ slot'[r].at = "answered" /\ slot'[r].answer = answer
         /\ slot'[r].manifest = slot[r].manifest /\ slot'[r].want = slot[r].want
         /\ \A q \in Slots : q # r => slot'[q] = slot[q]
BY DEF Reply, Row, Stages

\* Invoke copies the request into a message.
LEMMA InvokeStep ==
  ASSUME NEW r \in Slots, NEW kind \in {"tokens", "workpaper", "evidence"},
         slot \in [Slots -> Row], message \in [Slots -> Message], Invoke(r, kind)
  PROVE  /\ message' \in [Slots -> Message]
         /\ message'[r].kind \in {"none", kind}
         /\ message'[r].kind # "none" =>
              message'[r].manifest = slot[r].manifest /\ message'[r].want = slot[r].want
         /\ \A q \in Slots : q # r => message'[q] = message[q]
BY DEF Invoke, Row, Message, NoMessage

LEMMA TypeRows == TypeOK <=>
  /\ viaService \in BOOLEAN
  /\ doc \in [version : 1..MaxVersion, status : {"INDEXED", "QUARANTINED"},
              evidence : {"PENDING"} \cup Decided]
  /\ approval \in [status : {"none", "PENDING"} \cup Decided, expired : BOOLEAN,
                   version : 0..MaxVersion]
  /\ decidedOn \in 0..MaxVersion
  /\ waits \in [Tabs -> Slots \cup {None}]
  /\ known \in [Tabs -> Decided \cup {None}]
  /\ preview \in [Tabs -> 0..MaxVersion]
  /\ previewed \in SUBSET (1..MaxVersion)
  /\ slot \in [Slots -> Row]
  /\ message \in [Slots -> Message]
  /\ lost \in 0..MaxLost
BY DEF TypeOK, Row, Message

LEMMA InitInv == Init => Inv
BY DEF Init, Inv, TypeOK, AnswersAreTrue, ToldTruth, DecidedAsCited, ManifestsPreviewed,
       DecidedAsPreviewed, RequestsAreDecisions, FreeSlot, NoMessage, Stages, Answers,
       Waiting, Decided

-----------------------------------------------------------------------------
(* Steps of the rows and of the tabs                                       *)

\* The document and the request move on; no tab and no request is touched.
LEMMA RowsStep == Inv /\ Rows => Inv'
<1> SUFFICES ASSUME Inv, Rows PROVE Inv'
  OBVIOUS
<1> USE DEF Inv, AnswersAreTrue, ToldTruth, DecidedAsCited, ManifestsPreviewed,
            DecidedAsPreviewed, RequestsAreDecisions, tabVars, webVars, Decided
<1>1. CASE Rescan
  BY <1>1 DEF Rescan, TypeOK
<1>2. CASE Index
  BY <1>2 DEF Index, TypeOK
<1>3. CASE RequestReview
  BY <1>3 DEF RequestReview, TypeOK
<1>4. CASE Expire
  BY <1>4 DEF Expire, TypeOK
<1> QED
  BY <1>1, <1>2, <1>3, <1>4 DEF Rows

\* A tab sends a request with what it shows.
LEMMA SendStep ==
  ASSUME Inv, NEW t \in Tabs, NEW stage \in Stages, NEW want \in Decided \cup {None},
         NEW manifest \in 0..MaxVersion, Send(t, stage, want, manifest),
         preview' \in [Tabs -> 0..MaxVersion],
         \A u \in Tabs : preview'[u] \in {0, preview[u]},
         stage \in {"patch", "judge"} => manifest \in previewed,
         stage = "inspect" \/ want \in Decided
  PROVE  Inv'
<1> USE DEF Inv, Decided
<1> DEFINE r == CHOOSE r \in FreeSlots : TRUE
           row == [at |-> stage, want |-> want, manifest |-> manifest, answer |-> None]
<1>1. r \in Slots
  BY DEF Send, FreeSlots
<1>2. row \in Row
  BY DEF Row, Answers
<1>3. slot' = [slot EXCEPT ![r] = row] /\ waits' = [waits EXCEPT ![t] = r]
      /\ UNCHANGED <<viaService, rowVars, known, previewed, message, lost>>
  BY DEF Send
<1> HIDE DEF r, row
<1>4. /\ slot' \in [Slots -> Row]
      /\ slot'[r] = row
      /\ \A q \in Slots : q # r => slot'[q] = slot[q]
  BY <1>1, <1>2, <1>3, TypeRows, SlotWrite
<1>5. TypeOK'
  BY <1>1, <1>3, <1>4, TypeRows DEF TypeOK, Row, Message, rowVars
<1>6. row.answer = None /\ row.at = stage /\ row.manifest = manifest /\ row.want = want
  BY DEF row
<1>7. AnswersAreTrue' /\ ToldTruth' /\ DecidedAsCited' /\ DecidedAsPreviewed'
  BY <1>3, <1>4, <1>6 DEF AnswersAreTrue, ToldTruth, DecidedAsCited, DecidedAsPreviewed, rowVars
<1>8. ManifestsPreviewed' /\ RequestsAreDecisions'
  BY <1>3, <1>4, <1>6 DEF ManifestsPreviewed, RequestsAreDecisions, Waiting
<1> QED
  BY <1>5, <1>7, <1>8

\* An answer is shown, or the tokens are sent back.
LEMMA ReceiveStep ==
  ASSUME Inv, NEW t \in Tabs, NEW r \in Slots, Receive(t, r)
  PROVE  Inv'
<1> USE DEF Inv, Decided
<1>0. FreeSlot \in Row /\ FreeSlot.answer = None /\ FreeSlot.at = "free"
  BY DEF FreeSlot, Row, Stages, Answers
<1>1. CASE slot[r].answer = "tokens"
  <2>1. /\ slot' = [slot EXCEPT ![r] = [slot[r] EXCEPT !.at = "post", !.answer = None]]
        /\ UNCHANGED <<viaService, rowVars, tabVars, message, lost>>
    BY <1>1, TypeRows DEF Receive, tabVars, Row
  <2>2. /\ slot' \in [Slots -> Row]
        /\ slot'[r].answer = None /\ slot'[r].at = "post" /\ slot'[r].want = slot[r].want
        /\ \A q \in Slots : q # r => slot'[q] = slot[q]
    <3> DEFINE row == [slot[r] EXCEPT !.at = "post", !.answer = None]
    <3>0. slot[r] \in Row
      BY TypeRows
    <3>1. row \in Row /\ row.at = "post" /\ row.answer = None /\ row.want = slot[r].want
      BY <3>0 DEF Row, Stages, Answers
    <3>2. slot' = [slot EXCEPT ![r] = row]
      BY <2>1
    <3> HIDE DEF row
    <3> QED
      BY <3>1, <3>2, TypeRows, SlotWrite
  <2>3. TypeOK'
    BY <2>1, <2>2, TypeRows DEF TypeOK, Row, Message, rowVars, tabVars
  <2>4. AnswersAreTrue' /\ ToldTruth' /\ DecidedAsCited' /\ DecidedAsPreviewed'
    BY <2>1, <2>2 DEF AnswersAreTrue, ToldTruth, DecidedAsCited, DecidedAsPreviewed,
                      rowVars, tabVars
  <2>5. ManifestsPreviewed' /\ RequestsAreDecisions'
    BY <1>1, <2>1, <2>2 DEF ManifestsPreviewed, RequestsAreDecisions, Waiting, tabVars
  <2> QED
    BY <2>3, <2>4, <2>5
<1>2. CASE slot[r].answer # "tokens"
  <2>1. /\ slot' = [slot EXCEPT ![r] = FreeSlot]
        /\ waits' = [waits EXCEPT ![t] = None]
        /\ known' = [known EXCEPT ![t] = IF Shown(r) = None THEN @ ELSE Shown(r)]
        /\ UNCHANGED <<viaService, rowVars, message, lost>>
    BY <1>2 DEF Receive
  <2>2. \/ /\ slot[r].answer = "preview"
           /\ preview' = [preview EXCEPT ![t] = slot[r].manifest]
           /\ previewed' = previewed \cup {slot[r].manifest}
        \/ preview' = [preview EXCEPT ![t] = 0] /\ UNCHANGED previewed
        \/ UNCHANGED <<preview, previewed>>
    BY <1>2 DEF Receive
  <2>3. /\ slot' \in [Slots -> Row] /\ slot'[r] = FreeSlot
        /\ \A q \in Slots : q # r => slot'[q] = slot[q]
    BY <1>0, <2>1, TypeRows, SlotWrite
  <2>4. slot[r].manifest \in 0..MaxVersion /\ (slot[r].answer = "preview" => slot[r].manifest # 0)
    BY TypeRows DEF ManifestsPreviewed, Row
  <2>5. /\ preview' \in [Tabs -> 0..MaxVersion] /\ previewed' \in SUBSET (1..MaxVersion)
        /\ previewed \subseteq previewed'
        /\ \A u \in Tabs : preview'[u] # 0 => preview'[u] \in previewed'
    BY <2>2, <2>4, TypeRows DEF ManifestsPreviewed
  <2>6. Shown(r) \in Decided \cup {None} /\ (Shown(r) # None => Shown(r) = approval.status)
    BY DEF Shown, AnswersAreTrue
  <2>7. known' \in [Tabs -> Decided \cup {None}] /\ ToldTruth'
    BY <2>1, <2>6, TypeRows DEF ToldTruth, rowVars
  <2>8. waits' \in [Tabs -> Slots \cup {None}]
    BY <2>1, TypeRows
  <2>9. TypeOK'
    BY <2>1, <2>3, <2>5, <2>7, <2>8, TypeRows DEF TypeOK, Row, Message, rowVars
  <2>10. AnswersAreTrue' /\ DecidedAsCited' /\ DecidedAsPreviewed'
    BY <1>0, <2>1, <2>3, <2>5 DEF AnswersAreTrue, DecidedAsCited, DecidedAsPreviewed, rowVars
  <2>11. ManifestsPreviewed' /\ RequestsAreDecisions'
    BY <1>0, <2>1, <2>3, <2>5 DEF ManifestsPreviewed, RequestsAreDecisions, Waiting
  <2> QED
    BY <2>7, <2>9, <2>10, <2>11
<1> QED
  BY <1>1, <1>2

LEMMA TabStep == ASSUME Inv, NEW t \in Tabs, Tab(t) PROVE Inv'
<1> USE DEF Decided
<1>0. preview \in [Tabs -> 0..MaxVersion] /\ 0 \in 0..MaxVersion
      /\ {"read", "inspect", "patch"} \subseteq Stages
  BY TypeRows DEF Inv, Stages
<1>1. ASSUME NEW decision \in Decided, Click(t, decision) PROVE Inv'
  BY <1>0, <1>1, SendStep DEF Click
<1>2. CASE Inspect(t)
  <2>1. /\ Send(t, "inspect", None, 0) /\ preview' = [preview EXCEPT ![t] = 0]
    BY <1>2 DEF Inspect
  <2>2. /\ preview' \in [Tabs -> 0..MaxVersion]
        /\ \A u \in Tabs : preview'[u] \in {0, preview[u]}
    BY <1>0, <2>1
  <2> QED
    BY <1>0, <2>1, <2>2, SendStep
<1>3. ASSUME NEW decision \in Decided, Patch(t, decision) PROVE Inv'
  <2>1. preview[t] \in previewed /\ preview[t] \in 0..MaxVersion
    BY <1>0, <1>3 DEF Patch, Inv, ManifestsPreviewed
  <2> QED
    BY <1>0, <1>3, <2>1, SendStep DEF Patch
<1>4. CASE GiveUp(t)
  BY <1>4 DEF GiveUp, Inv, TypeOK, AnswersAreTrue, ToldTruth, DecidedAsCited,
              ManifestsPreviewed, DecidedAsPreviewed, RequestsAreDecisions, rowVars, webVars
<1>5. ASSUME NEW r \in Slots, Receive(t, r) PROVE Inv'
  BY <1>5, ReceiveStep
<1> QED
  BY <1>1, <1>2, <1>3, <1>4, <1>5 DEF Tab

-----------------------------------------------------------------------------
(* Steps of the web application                                            *)

\* A request goes from one stage to the next and may leave a message.
LEMMA GotoInv ==
  ASSUME Inv, NEW r \in Slots, NEW stage \in {"check", "issue", "decide", "judge"},
         Goto(r, stage),
         slot[r].at \in {"read", "check", "post", "patch"},
         stage = "judge" => slot[r].at = "patch",
         \/ UNCHANGED message
         \/ \E kind \in {"tokens", "workpaper"} : Invoke(r, kind)
         \/ stage = "judge" /\ Invoke(r, "evidence"),
         UNCHANGED <<viaService, rowVars, tabVars, lost>>
  PROVE  Inv'
<1> USE DEF Inv, Decided
<1>1. /\ slot' \in [Slots -> Row]
      /\ slot'[r].at = stage /\ slot'[r].want = slot[r].want
      /\ slot'[r].manifest = slot[r].manifest /\ slot'[r].answer = slot[r].answer
      /\ \A q \in Slots : q # r => slot'[q] = slot[q]
  BY TypeRows, GotoStep DEF Stages, Waiting
<1>2. slot[r].want \in Decided /\ (stage = "judge" => slot[r].manifest \in previewed)
  BY DEF RequestsAreDecisions, ManifestsPreviewed
<1>3. /\ message' \in [Slots -> Message]
      /\ \A q \in Slots : message'[q].kind # "none" => message'[q].want \in Decided
      /\ \A q \in Slots : message'[q].kind = "evidence" => message'[q].manifest \in previewed
  <2>1. CASE UNCHANGED message
    BY <2>1, TypeRows DEF RequestsAreDecisions, ManifestsPreviewed
  <2>2. ASSUME NEW kind \in {"tokens", "workpaper", "evidence"}, Invoke(r, kind),
               kind = "evidence" => stage = "judge"
        PROVE  <1>3!1 /\ <1>3!2 /\ <1>3!3
    <3>1. /\ message' \in [Slots -> Message]
          /\ message'[r].kind \in {"none", kind}
          /\ message'[r].kind # "none" =>
               message'[r].manifest = slot[r].manifest /\ message'[r].want = slot[r].want
          /\ \A q \in Slots : q # r => message'[q] = message[q]
      BY <2>2, TypeRows, InvokeStep
    <3> QED
      BY <1>2, <2>2, <3>1 DEF RequestsAreDecisions, ManifestsPreviewed
  <2> QED
    BY <2>1, <2>2
<1>4. TypeOK'
  BY <1>1, <1>3, TypeRows DEF TypeOK, Row, Message, rowVars, tabVars
<1>5. AnswersAreTrue' /\ ToldTruth' /\ DecidedAsCited' /\ DecidedAsPreviewed'
  BY <1>1 DEF AnswersAreTrue, ToldTruth, DecidedAsCited, DecidedAsPreviewed, rowVars, tabVars
<1>6. ManifestsPreviewed' /\ RequestsAreDecisions'
  BY <1>1, <1>2, <1>3 DEF ManifestsPreviewed, RequestsAreDecisions, Waiting, tabVars
<1> QED
  BY <1>4, <1>5, <1>6

\* A request is answered; its message may be gone.
LEMMA ReplyInv ==
  ASSUME Inv, NEW r \in Slots, NEW answer \in {"tokens", "done", "error"} \cup Decided,
         Reply(r, answer),
         answer = "tokens" => slot[r].want \in Decided,
         answer \in Decided => answer = approval.status,
         message' \in {message, [message EXCEPT ![r] = NoMessage]},
         UNCHANGED <<viaService, rowVars, tabVars, lost>>
  PROVE  Inv'
<1> USE DEF Inv, Decided
<1>1. /\ slot' \in [Slots -> Row]
      /\ slot'[r].at = "answered" /\ slot'[r].answer = answer
      /\ slot'[r].manifest = slot[r].manifest /\ slot'[r].want = slot[r].want
      /\ \A q \in Slots : q # r => slot'[q] = slot[q]
  BY TypeRows, ReplyStep DEF Answers
<1>2. /\ message' \in [Slots -> Message]
      /\ \A q \in Slots : message'[q].kind # "none" => message'[q] = message[q]
  BY TypeRows DEF Message, NoMessage
<1>3. TypeOK'
  BY <1>1, <1>2, TypeRows DEF TypeOK, Row, Message, rowVars, tabVars
<1>4. AnswersAreTrue' /\ ToldTruth' /\ DecidedAsCited' /\ DecidedAsPreviewed'
  BY <1>1 DEF AnswersAreTrue, ToldTruth, DecidedAsCited, DecidedAsPreviewed, rowVars, tabVars
<1>5. ManifestsPreviewed' /\ RequestsAreDecisions'
  BY <1>1, <1>2 DEF ManifestsPreviewed, RequestsAreDecisions, Waiting, tabVars
<1> QED
  BY <1>3, <1>4, <1>5

\* What the transactions leave in the rows: a decision on the version that is
\* cited or was previewed, or nothing.
LEMMA RowsDecided ==
  ASSUME Inv, NEW want \in Decided, NEW manifest \in previewed,
         DecideWorkpaper(want) \/ DecideEvidence(want, manifest),
         UNCHANGED tabVars
  PROVE  /\ doc' \in [version : 1..MaxVersion, status : {"INDEXED", "QUARANTINED"},
                      evidence : {"PENDING"} \cup Decided]
         /\ approval' \in [status : {"none", "PENDING"} \cup Decided, expired : BOOLEAN,
                           version : 0..MaxVersion]
         /\ decidedOn' \in 0..MaxVersion
         /\ DecidedAsCited' /\ DecidedAsPreviewed'
         /\ approval.status \in Decided => approval'.status = approval.status
<1> USE DEF Inv, Decided
<1>1. CASE DecideWorkpaper(want)
  BY <1>1, TypeRows DEF DecideWorkpaper, WorkpaperDecidable, Open, EvidenceIsCurrent,
                        DecidedAsCited, DecidedAsPreviewed, tabVars
<1>2. CASE DecideEvidence(want, manifest)
  BY <1>2, TypeRows DEF DecideEvidence, EvidenceDecidable, DecidedAsCited,
                        DecidedAsPreviewed, tabVars
<1> QED
  BY <1>1, <1>2

\* A transaction and its answer, if somebody waits for it.
LEMMA TransactionInv ==
  ASSUME Inv, NEW r \in Slots, NEW want \in Decided, NEW manifest \in previewed,
         NEW answer \in {"done", "error"} \cup Decided,
         \/ DecideWorkpaper(want) /\ answer \in {WorkpaperAnswer(want), "error"}
         \/ DecideEvidence(want, manifest) /\ answer \in {EvidenceAnswer(manifest), "error"},
         Reply(r, answer) \/ UNCHANGED slot,
         message' \in {message, [message EXCEPT ![r] = NoMessage]},
         UNCHANGED <<viaService, tabVars, lost>>
  PROVE  Inv'
<1> USE DEF Inv, Decided
<1>1. /\ doc' \in [version : 1..MaxVersion, status : {"INDEXED", "QUARANTINED"},
                   evidence : {"PENDING"} \cup Decided]
      /\ approval' \in [status : {"none", "PENDING"} \cup Decided, expired : BOOLEAN,
                        version : 0..MaxVersion]
      /\ decidedOn' \in 0..MaxVersion
      /\ DecidedAsCited' /\ DecidedAsPreviewed'
      /\ approval.status \in Decided => approval'.status = approval.status
  BY RowsDecided
<1>2. /\ slot' \in [Slots -> Row]
      /\ \A q \in Slots :
           \/ slot'[q] = slot[q]
           \/ q = r /\ slot'[q].at = "answered" /\ slot'[q].answer = answer
  BY TypeRows, ReplyStep DEF Answers
<1>3. answer \in Decided => answer = approval'.status
  BY TypeRows DEF DecideWorkpaper, WorkpaperAnswer, DecideEvidence, EvidenceAnswer
<1>4. /\ message' \in [Slots -> Message]
      /\ \A q \in Slots : message'[q].kind # "none" => message'[q] = message[q]
  BY TypeRows DEF Message, NoMessage
<1>5. TypeOK'
  BY <1>1, <1>2, <1>4, TypeRows DEF TypeOK, Row, Message, tabVars
<1>6. AnswersAreTrue' /\ ToldTruth'
  BY <1>1, <1>2, <1>3, TypeRows DEF AnswersAreTrue, ToldTruth, tabVars
<1>7. ManifestsPreviewed' /\ RequestsAreDecisions'
  BY <1>2, <1>4 DEF ManifestsPreviewed, RequestsAreDecisions, Waiting, tabVars
<1> QED
  BY <1>1, <1>5, <1>6, <1>7

LEMMA HandlerStep == ASSUME Inv, NEW r \in Slots, Handler(r) PROVE Inv'
<1> USE DEF Decided
<1>0. /\ slot[r] \in Row /\ slot[r].want \in Decided \cup {None}
      /\ approval.status \in {"none", "PENDING"} \cup Decided
      /\ \A q \in Slots : slot[q].at \in Waiting => slot[q].want \in Decided
  BY TypeRows DEF Inv, Row, RequestsAreDecisions
<1>1. CASE Read(r)
  <2>1. CASE Reply(r, approval.status) /\ approval.status \in Decided
    BY <1>1, <2>1, ReplyInv DEF Read
  <2>2. CASE Goto(r, "check")
    BY <1>1, <2>2, GotoInv DEF Read
  <2> QED
    BY <1>1, <2>1, <2>2 DEF Read, ReadDecision
<1>2. CASE Check(r)
  <2>1. CASE Goto(r, "issue") /\ Invoke(r, "tokens")
    BY <1>2, <2>1, GotoInv DEF Check
  <2>2. CASE Reply(r, "error") /\ UNCHANGED message
    BY <1>2, <2>2, ReplyInv DEF Check
  <2> QED
    BY <1>2, <2>1, <2>2 DEF Check
<1>3. CASE Post(r)
  <2>1. CASE Goto(r, "decide") /\ Invoke(r, "workpaper")
    BY <1>3, <2>1, GotoInv DEF Post
  <2>2. CASE Reply(r, "error") /\ UNCHANGED message
    BY <1>3, <2>2, ReplyInv DEF Post
  <2> QED
    BY <1>3, <2>1, <2>2 DEF Post
<1>4. CASE Judge(r)
  BY <1>4, GotoInv DEF Judge
<1>5. CASE ReadPreview(r)
  <2> DEFINE found == EvidenceDecidable(doc.version)
             answer == IF found THEN "preview" ELSE "error"
             manifest == IF found THEN doc.version ELSE 0
             row == [slot[r] EXCEPT !.at = "answered", !.answer = answer,
                                    !.manifest = manifest]
  <2>1. doc.version \in 1..MaxVersion
    BY TypeRows DEF Inv
  <2>2. /\ row \in Row /\ row.at = "answered"
        /\ row.answer = answer /\ row.manifest = manifest
        /\ answer \in {"preview", "error"} /\ (answer = "preview" => manifest # 0)
    <3>1. /\ answer \in {"preview", "error"} /\ manifest \in 0..MaxVersion
          /\ answer = "preview" => manifest # 0
      BY <2>1
    <3> HIDE DEF answer, manifest
    <3>2. /\ row \in Row /\ row.at = "answered"
          /\ row.answer = answer /\ row.manifest = manifest
      BY <1>0, <3>1 DEF Row, Stages, Answers
    <3> QED
      BY <3>1, <3>2
  <2>3. /\ slot' = [slot EXCEPT ![r] = row]
        /\ UNCHANGED <<viaService, rowVars, tabVars, message, lost>>
    BY <1>5 DEF ReadPreview
  <2> HIDE DEF found, answer, manifest, row
  <2>4. /\ slot' \in [Slots -> Row] /\ slot'[r] = row
        /\ \A q \in Slots : q # r => slot'[q] = slot[q]
    BY <2>2, <2>3, TypeRows, SlotWrite DEF Inv
  <2>5. TypeOK'
    BY <2>3, <2>4, TypeRows DEF Inv, TypeOK, Row, Message, rowVars, tabVars
  <2>6. AnswersAreTrue' /\ ToldTruth' /\ DecidedAsCited' /\ DecidedAsPreviewed'
    BY <2>2, <2>3, <2>4 DEF Inv, AnswersAreTrue, ToldTruth, DecidedAsCited,
                            DecidedAsPreviewed, rowVars, tabVars
  <2>7. ManifestsPreviewed' /\ RequestsAreDecisions'
    BY <2>1, <2>2, <2>3, <2>4 DEF Inv, ManifestsPreviewed, RequestsAreDecisions, Waiting, tabVars
  <2> QED
    BY <2>5, <2>6, <2>7 DEF Inv
<1>6. CASE Direct(r)
  <2>1. CASE slot[r].at = "issue" /\ Reply(r, "tokens") /\ UNCHANGED rowVars
    BY <1>0, <1>6, <2>1, ReplyInv DEF Direct, Waiting
  <2>2. ASSUME slot[r].at = "decide", DecideWorkpaper(slot[r].want),
               NEW answer \in {WorkpaperAnswer(slot[r].want), "error"}, Reply(r, answer)
        PROVE  Inv'
    <3>1. slot[r].want \in Decided /\ answer \in {"done", "error"} \cup Decided
      BY <1>0, <2>2 DEF Waiting, WorkpaperAnswer
    <3>2. CASE previewed # {}
      BY <1>6, <2>2, <3>1, <3>2, TransactionInv DEF Direct
    <3>3. CASE previewed = {}
      <4>1. ~WorkpaperDecidable
        BY <3>3 DEF Inv, DecidedAsPreviewed, WorkpaperDecidable, Open
      <4>2. UNCHANGED rowVars /\ answer = "error"
        BY <2>2, <4>1 DEF DecideWorkpaper, WorkpaperAnswer, rowVars
      <4> QED
        BY <1>6, <2>2, <4>2, ReplyInv DEF Direct
    <3> QED
      BY <3>2, <3>3
  <2>3. ASSUME slot[r].at = "judge", DecideEvidence(slot[r].want, slot[r].manifest),
               NEW answer \in {EvidenceAnswer(slot[r].manifest), "error"}, Reply(r, answer)
        PROVE  Inv'
    <3>1. /\ slot[r].want \in Decided /\ slot[r].manifest \in previewed
          /\ answer \in {"done", "error"} \cup Decided
      BY <1>0, <2>3 DEF Inv, ManifestsPreviewed, Waiting, EvidenceAnswer
    <3> QED
      BY <1>6, <2>3, <3>1, TransactionInv DEF Direct
  <2> QED
    BY <1>6, <2>1, <2>2, <2>3 DEF Direct
<1>7. CASE TimeOut(r)
  BY <1>7, ReplyInv DEF TimeOut
<1>8. CASE Discard(r)
  <2>1. /\ FreeSlot \in Row /\ FreeSlot.answer = None /\ FreeSlot.at = "free"
        /\ slot' = [slot EXCEPT ![r] = FreeSlot]
        /\ UNCHANGED <<viaService, rowVars, tabVars, message, lost>>
    BY <1>8 DEF Discard, FreeSlot, Row, Stages, Answers
  <2>2. /\ slot' \in [Slots -> Row] /\ slot'[r] = FreeSlot
        /\ \A q \in Slots : q # r => slot'[q] = slot[q]
    BY <2>1, TypeRows, SlotWrite DEF Inv
  <2>3. TypeOK'
    BY <2>1, <2>2, TypeRows DEF Inv, TypeOK, Row, Message, rowVars, tabVars
  <2>4. AnswersAreTrue' /\ ToldTruth' /\ DecidedAsCited' /\ DecidedAsPreviewed'
    BY <2>1, <2>2 DEF Inv, AnswersAreTrue, ToldTruth, DecidedAsCited,
                      DecidedAsPreviewed, rowVars, tabVars
  <2>5. ManifestsPreviewed' /\ RequestsAreDecisions'
    BY <2>1, <2>2 DEF Inv, ManifestsPreviewed, RequestsAreDecisions, Waiting, tabVars
  <2> QED
    BY <2>3, <2>4, <2>5 DEF Inv
<1> QED
  BY <1>1, <1>2, <1>3, <1>4, <1>5, <1>6, <1>7, <1>8 DEF Handler

-----------------------------------------------------------------------------
(* Steps of the reviewer service, and the theorems                         *)

LEMMA ServiceStep == ASSUME Inv, NEW r \in Slots, Service(r) PROVE Inv'
<1> USE DEF Decided
<1>0. /\ \A q \in Slots : slot[q].at \in Waiting => slot[q].want \in Decided
      /\ \A q \in Slots : message[q].kind # "none" => message[q].want \in Decided
      /\ \A q \in Slots : message[q].kind = "evidence" => message[q].manifest \in previewed
  BY DEF Inv, RequestsAreDecisions, ManifestsPreviewed
<1>1. ASSUME slot[r].at \in Waiting \/ UNCHANGED slot,
             NEW answer \in {"tokens", "done", "error"} \cup Decided,
             Reply(r, answer) \/ UNCHANGED slot,
             answer \notin Decided, UNCHANGED rowVars, Handled(r, message[r].kind) \/
               (message' = [message EXCEPT ![r] = NoMessage] /\ UNCHANGED <<viaService, tabVars, lost>>)
      PROVE  Inv'
  <2>1. /\ message' = [message EXCEPT ![r] = NoMessage]
        /\ UNCHANGED <<viaService, rowVars, tabVars, lost>>
    BY <1>1 DEF Handled
  <2>2. CASE Reply(r, answer) /\ slot[r].at \in Waiting
    BY <1>0, <1>1, <2>1, <2>2, ReplyInv
  <2>3. CASE UNCHANGED slot
    <3>1. /\ message' \in [Slots -> Message]
          /\ \A q \in Slots : message'[q].kind # "none" => message'[q] = message[q]
      BY <2>1, TypeRows DEF Inv, Message, NoMessage
    <3>2. TypeOK'
      BY <2>1, <2>3, <3>1, TypeRows DEF Inv, TypeOK, Message, rowVars, tabVars
    <3> QED
      BY <2>1, <2>3, <3>1, <3>2 DEF Inv, AnswersAreTrue, ToldTruth, DecidedAsCited,
         DecidedAsPreviewed, ManifestsPreviewed, RequestsAreDecisions, rowVars, tabVars
  <2> QED
    BY <1>1, <2>2, <2>3
<1>2. CASE IssueTokens(r)
  <2>1. TokenAnswer \in {"tokens", "error"}
    BY DEF TokenAnswer
  <2>2. PICK answer \in {"tokens", "error"} :
          /\ slot[r].at \in Waiting \/ UNCHANGED slot
          /\ Reply(r, answer) \/ UNCHANGED slot
    BY <1>2, <2>1 DEF IssueTokens, Deliver
  <2>3. Handled(r, message[r].kind) /\ UNCHANGED rowVars
    BY <1>2 DEF IssueTokens, Handled
  <2> QED
    BY <1>1, <2>2, <2>3
<1>3. CASE Lose(r)
  <2>1. /\ message' = [message EXCEPT ![r] = NoMessage]
        /\ UNCHANGED <<viaService, rowVars, tabVars, lost>>
        /\ slot[r].at \in Waiting \/ UNCHANGED slot
        /\ Reply(r, "error") \/ UNCHANGED slot
    BY <1>3 DEF Lose, Deliver
  <2> QED
    BY <1>1, <2>1
<1>4. CASE HandleWorkpaper(r)
  <2> DEFINE want == message[r].want
  <2>1. /\ want \in Decided /\ DecideWorkpaper(want)
        /\ message' = [message EXCEPT ![r] = NoMessage]
        /\ UNCHANGED <<viaService, tabVars, lost>>
        /\ WorkpaperAnswer(want) \in {"error"} \cup Decided
    BY <1>0, <1>4 DEF HandleWorkpaper, Handled, WorkpaperAnswer
  <2>2. PICK answer \in {WorkpaperAnswer(want), "error"} :
          /\ Reply(r, answer) \/ UNCHANGED slot
          /\ slot[r].at \in Waiting \/ UNCHANGED slot
    BY <1>4 DEF HandleWorkpaper, Deliver
  <2> HIDE DEF want
  <2>3. CASE previewed # {}
    BY <2>1, <2>2, <2>3, TransactionInv
  <2>4. CASE previewed = {}
    <3>1. ~WorkpaperDecidable
      BY <2>4 DEF Inv, DecidedAsPreviewed, WorkpaperDecidable, Open
    <3>2. UNCHANGED rowVars /\ answer = "error"
      BY <2>1, <2>2, <3>1 DEF DecideWorkpaper, WorkpaperAnswer, rowVars
    <3> QED
      BY <1>1, <2>1, <2>2, <3>2
  <2> QED
    BY <2>3, <2>4
<1>5. CASE HandleEvidence(r)
  <2> DEFINE want == message[r].want
             manifest == message[r].manifest
  <2>1. /\ want \in Decided /\ manifest \in previewed /\ DecideEvidence(want, manifest)
        /\ message' = [message EXCEPT ![r] = NoMessage]
        /\ UNCHANGED <<viaService, tabVars, lost>>
        /\ EvidenceAnswer(manifest) \in {"done", "error"}
    BY <1>0, <1>5 DEF HandleEvidence, Handled, EvidenceAnswer
  <2>2. PICK answer \in {EvidenceAnswer(manifest), "error"} : Reply(r, answer) \/ UNCHANGED slot
    BY <1>5 DEF HandleEvidence, Deliver
  <2> HIDE DEF want, manifest
  <2> QED
    BY <2>1, <2>2, TransactionInv
<1> QED
  BY <1>2, <1>3, <1>4, <1>5 DEF Service

LEMMA StepInv == Inv /\ [Next]_vars => Inv'
<1> SUFFICES ASSUME Inv, [Next]_vars PROVE Inv'
  OBVIOUS
<1>1. CASE Rows
  BY <1>1, RowsStep
<1>2. ASSUME NEW t \in Tabs, Tab(t) PROVE Inv'
  BY <1>2, TabStep
<1>3. ASSUME NEW r \in Slots, Handler(r) PROVE Inv'
  BY <1>3, HandlerStep
<1>4. ASSUME NEW r \in Slots, Service(r) PROVE Inv'
  BY <1>4, ServiceStep
<1>5. CASE UNCHANGED vars
  BY <1>5 DEF Inv, TypeOK, AnswersAreTrue, ToldTruth, DecidedAsCited, DecidedAsPreviewed,
              ManifestsPreviewed, RequestsAreDecisions, vars, rowVars, tabVars, webVars
<1> QED
  BY <1>1, <1>2, <1>3, <1>4, <1>5 DEF Next

\* The strengthening holds in every reachable state.
THEOREM Invariant == Spec => []Inv
<1>1. Init => Inv
  BY InitInv
<1>2. Inv /\ [Next]_vars => Inv'
  BY StepInv
<1> QED
  BY <1>1, <1>2, PTL DEF Spec

\* Every variable has its type.
THEOREM TypeCorrect == Spec => []TypeOK
<1>1. Inv => TypeOK
  BY DEF Inv
<1> QED
  BY <1>1, Invariant, PTL

\* A tab shows the decision the database holds, or none.
THEOREM TabsShowTheTruth == Spec => []ToldTruth
<1>1. Inv => ToldTruth
  BY DEF Inv
<1> QED
  BY <1>1, Invariant, PTL

\* A workpaper is decided on the version of the evidence it cites.
THEOREM WorkpaperDecidedAsCited == Spec => []DecidedAsCited
<1>1. Inv => DecidedAsCited
  BY DEF Inv
<1> QED
  BY <1>1, Invariant, PTL

\* Evidence is decided on in a version the reviewer was shown.
THEOREM EvidenceDecidedAsPreviewed == Spec => []DecidedAsPreviewed
<1>1. Inv => DecidedAsPreviewed
  BY DEF Inv
<1> QED
  BY <1>1, Invariant, PTL

-----------------------------------------------------------------------------
(* Refinement                                                              *)

\* The decision of the ledger.
LedgerDecision == IF approval.status \in Decided THEN approval.status ELSE None

\* Only an undecided request is decided, and no tab learns of it in that step.
DecidesOnce ==
  /\ UNCHANGED known
  /\ \/ LedgerDecision' = LedgerDecision
     \/ LedgerDecision = None /\ LedgerDecision' \in Decided

LEMMA DecideWorkpaperOnce ==
  ASSUME Inv, NEW want \in Decided, DecideWorkpaper(want), UNCHANGED tabVars
  PROVE  DecidesOnce
BY TypeRows DEF Inv, DecideWorkpaper, WorkpaperDecidable, Open, DecidesOnce, LedgerDecision,
                Decided, tabVars

LEMMA RowsUnchanged ==
  ASSUME UNCHANGED <<approval, known>>
  PROVE  DecidesOnce
BY DEF DecidesOnce, LedgerDecision

LEMMA RowsDecideNothing == ASSUME Inv, Rows PROVE DecidesOnce
BY DEF Inv, Rows, Rescan, Index, RequestReview, Expire, DecidesOnce, LedgerDecision, Decided, tabVars

LEMMA HandlerDecidesOnce == ASSUME Inv, NEW r \in Slots, Handler(r) PROVE DecidesOnce
<1>1. CASE Direct(r)
  <2>1. CASE slot[r].at = "decide" /\ DecideWorkpaper(slot[r].want)
    <3>1. slot[r].want \in Decided
      BY <2>1 DEF Inv, RequestsAreDecisions, Waiting
    <3> QED
      BY <1>1, <2>1, <3>1, DecideWorkpaperOnce DEF Direct
  <2>2. CASE UNCHANGED approval
    BY <1>1, <2>2, RowsUnchanged DEF Direct, tabVars
  <2> QED
    BY <1>1, <2>1, <2>2 DEF Direct, DecideEvidence, rowVars
<1>2. CASE Read(r) \/ Check(r) \/ Post(r) \/ Judge(r) \/ ReadPreview(r) \/ TimeOut(r) \/ Discard(r)
  BY <1>2, RowsUnchanged DEF Read, Check, Post, Judge, ReadPreview, TimeOut, Discard, rowVars, tabVars
<1> QED
  BY <1>1, <1>2 DEF Handler

LEMMA ServiceDecidesOnce == ASSUME Inv, NEW r \in Slots, Service(r) PROVE DecidesOnce
<1>1. CASE HandleWorkpaper(r)
  <2>1. message[r].want \in Decided
    BY <1>1 DEF HandleWorkpaper, Handled, Inv, RequestsAreDecisions
  <2> QED
    BY <1>1, <2>1, DecideWorkpaperOnce DEF HandleWorkpaper, Handled
<1>2. CASE IssueTokens(r) \/ HandleEvidence(r) \/ Lose(r)
  BY <1>2, RowsUnchanged DEF IssueTokens, HandleEvidence, Lose, Handled, DecideEvidence, rowVars, tabVars
<1> QED
  BY <1>1, <1>2 DEF Service

\* A tab is told the decision, or nothing changes that the ledger knows.
LEMMA TabTells ==
  ASSUME Inv, NEW t \in Tabs, Tab(t)
  PROVE  /\ LedgerDecision' = LedgerDecision
         /\ \/ UNCHANGED known
            \/ LedgerDecision # None /\ known' = [known EXCEPT ![t] = LedgerDecision]
<1>1. CASE \E r \in Slots : Receive(t, r)
  <2> PICK r \in Slots : Receive(t, r)
    BY <1>1
  <2>1. UNCHANGED approval
    BY DEF Receive, rowVars
  <2>2. UNCHANGED known \/ known' = [known EXCEPT ![t] = IF Shown(r) = None THEN @ ELSE Shown(r)]
    BY DEF Receive
  <2>3. Shown(r) # None => Shown(r) = LedgerDecision
    BY DEF Shown, Inv, AnswersAreTrue, LedgerDecision
  <2>4. known = [known EXCEPT ![t] = known[t]]
    BY TypeRows DEF Inv
  <2> QED
    BY <2>1, <2>2, <2>3, <2>4 DEF LedgerDecision
<1>2. CASE ~\E r \in Slots : Receive(t, r)
  BY <1>2 DEF Tab, Click, Inspect, Patch, Send, GiveUp, LedgerDecision, rowVars
<1> QED
  BY <1>1, <1>2

LEMMA DecidesOnceSimulates ==
  ASSUME DecidesOnce PROVE [Ledger!Next]_<<LedgerDecision, known>>
BY DEF DecidesOnce, LedgerDecision, Ledger!Next, Ledger!Decide

LEMMA StepSimulates == Inv /\ [Next]_vars => [Ledger!Next]_<<LedgerDecision, known>>
<1> SUFFICES ASSUME Inv, [Next]_vars PROVE [Ledger!Next]_<<LedgerDecision, known>>
  OBVIOUS
<1>1. CASE Rows
  BY <1>1, RowsDecideNothing, DecidesOnceSimulates
<1>2. ASSUME NEW r \in Slots, Handler(r) \/ Service(r)
      PROVE  [Ledger!Next]_<<LedgerDecision, known>>
  BY <1>2, HandlerDecidesOnce, ServiceDecidesOnce, DecidesOnceSimulates
<1>3. ASSUME NEW t \in Tabs, Tab(t) PROVE [Ledger!Next]_<<LedgerDecision, known>>
  BY <1>3, TabTells DEF LedgerDecision, Ledger!Next, Ledger!Tell
<1>4. CASE UNCHANGED vars
  BY <1>4 DEF vars, rowVars, tabVars, LedgerDecision
<1> QED
  BY <1>1, <1>2, <1>3, <1>4 DEF Next

\* The reviewer service, the routes and the tabs implement DecisionLedger.
THEOREM ServiceImplementsLedger == Spec => ImplementsLedger
<1>1. Init => Ledger!Init
  BY DEF Init, Ledger!Init, Decided
<1>2. Inv /\ [Next]_vars => [Ledger!Next]_<<LedgerDecision, known>>
  BY StepSimulates
<1> QED
  BY <1>1, <1>2, Invariant, PTL DEF Spec, ImplementsLedger, Ledger!Spec, LedgerDecision
=============================================================================
