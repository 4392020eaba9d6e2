--------------------------- MODULE ReviewService ---------------------------
(***************************************************************************)
(* The decisions of a reviewer on one document and on the workpaper that   *)
(* cites it, from the click in a browser tab through the handlers of the   *)
(* web application to the transaction in the reviewer service and back     *)
(* (use-review-workspace.ts, document-evidence-action.tsx, the two routes, *)
(* service-client.ts, http-server.ts, server.ts and drizzle/0008, 0010).   *)
(*                                                                         *)
(* The browser waits 30 seconds for the web application, which waits five  *)
(* for the service, which never learns that nobody waits any more.  The    *)
(* handling of every request goes on after its client has given up.        *)
(*                                                                         *)
(* The manifest of a document hashes its version and its chunks, and no    *)
(* two versions share one: the version stands for it.  Artifact hashes     *)
(* never change, and the checksum is the same in every version.            *)
(***************************************************************************)
EXTENDS Naturals, FiniteSets

CONSTANTS
  ReviewTabs,   \* browser tabs of the reviewer, with the review page open
  EvidenceTabs, \* those with the documents page open
  Slots,        \* requests the web application can be handling at a time
  None,         \* no value
  MaxVersion,   \* bound: versions of the document
  MaxLost       \* bound: requests a tab stops waiting for

ASSUME NoneAssumption ==
  None \notin Slots \cup {"tokens", "preview", "done", "error", "APPROVED", "REJECTED"}
ASSUME BoundsAssumption == MaxVersion \in Nat \ {0} /\ MaxLost \in Nat

Decided == {"APPROVED", "REJECTED"}

Tabs == ReviewTabs \cup EvidenceTabs

VARIABLES
  viaService,   \* reviewServiceIsConfigured()
  doc,          \* the row of the document
  approval,     \* the row of the review request, with the version it cites
  decidedOn,    \* history: the version the document had at the decision, or 0
  waits,        \* waits[t]: the request tab t waits for
  known,        \* known[t]: the decision tab t shows
  preview,      \* preview[t]: the manifest of the preview tab t shows, or 0
  previewed,    \* history: the manifests some tab has shown
  slot,         \* slot[r]: the stage and the answer of request r
  message,      \* message[r]: what request r has sent to the reviewer service
  lost          \* requests whose tab stopped waiting

rowVars == <<doc, approval, decidedOn>>
tabVars == <<waits, known, preview, previewed>>
webVars == <<slot, message>>
vars == <<viaService, rowVars, tabVars, webVars, lost>>

\* A request waits for the reviewer service in the stages of Waiting.
Waiting == {"issue", "decide", "judge"}
Stages == {"free", "read", "check", "post", "inspect", "patch", "answered"} \cup Waiting
Answers == {None, "tokens", "preview", "done", "error"} \cup Decided
NoMessage == [kind |-> "none", want |-> None, manifest |-> 0]
FreeSlot == [at |-> "free", want |-> None, manifest |-> 0, answer |-> None]

Init ==
  /\ viaService \in BOOLEAN
  /\ doc = [version |-> 1, status |-> "INDEXED", evidence |-> "PENDING"]
  /\ approval = [status |-> "none", expired |-> FALSE, version |-> 0]
  /\ decidedOn = 0
  /\ waits = [t \in Tabs |-> None]
  /\ known = [t \in Tabs |-> None]
  /\ preview = [t \in Tabs |-> 0]
  /\ previewed = {}
  /\ slot = [r \in Slots |-> FreeSlot]
  /\ message = [r \in Slots |-> NoMessage]
  /\ lost = 0

-----------------------------------------------------------------------------
(* The document and the request                                            *)

\* The migration of drizzle/0006 sends an indexed document back to ingestion.
Rescan ==
  /\ doc.status = "INDEXED" /\ doc.version < MaxVersion
  /\ doc' = [version |-> doc.version + 1, status |-> "QUARANTINED", evidence |-> "PENDING"]
  /\ UNCHANGED <<viaService, approval, decidedOn, tabVars, webVars, lost>>

\* Ingestion seals the new version; see module Ingestion.
Index ==
  /\ doc.status = "QUARANTINED"
  /\ doc' = [doc EXCEPT !.status = "INDEXED"]
  /\ UNCHANGED <<viaService, approval, decidedOn, tabVars, webVars, lost>>

\* create_workpaper_review_request on approved evidence; see module AgentRuns.
RequestReview ==
  /\ approval.status = "none"
  /\ doc.status = "INDEXED" /\ doc.evidence = "APPROVED"
  /\ approval' = [status |-> "PENDING", expired |-> FALSE, version |-> doc.version]
  /\ UNCHANGED <<viaService, doc, decidedOn, tabVars, webVars, lost>>

Expire ==
  /\ approval.status = "PENDING" /\ ~approval.expired
  /\ approval' = [approval EXCEPT !.expired = TRUE]
  /\ UNCHANGED <<viaService, doc, decidedOn, tabVars, webVars, lost>>

-----------------------------------------------------------------------------
(* What the transactions ask                                               *)

\* getReviewArtifactHash: the request can still be decided.
Open == approval.status = "PENDING" /\ ~approval.expired

\* Mutant: any approved version of the document will do.
EvidenceApproved == doc.status = "INDEXED" /\ doc.evidence = "APPROVED"

\* workpaper_evidence_is_current
EvidenceIsCurrent ==
  doc.status = "INDEXED" /\ doc.evidence = "APPROVED" /\ doc.version = approval.version

\* Mutant: the select does not ask whether the request is still pending.
WorkpaperCurrent == approval.status # "none" /\ EvidenceIsCurrent

\* The locked select of decide_workpaper_review.
WorkpaperDecidable == Open /\ EvidenceIsCurrent

\* Mutant: the file is compared and the manifest is not.
EvidenceSameFile(manifest) == doc.status = "INDEXED" /\ doc.evidence = "PENDING"

\* The conditions of decide_document_evidence.
EvidenceDecidable(manifest) ==
  doc.status = "INDEXED" /\ doc.evidence = "PENDING" /\ doc.version = manifest

\* decideWorkpaper with decide_workpaper_review: one transaction.
DecideWorkpaper(decision) ==
  /\ IF WorkpaperDecidable
     THEN /\ approval' = [approval EXCEPT !.status = decision]
          /\ decidedOn' = doc.version
     ELSE UNCHANGED <<approval, decidedOn>>
  /\ UNCHANGED doc

\* decideEvidence with decide_document_evidence: one transaction.
DecideEvidence(decision, manifest) ==
  /\ doc' = IF EvidenceDecidable(manifest) THEN [doc EXCEPT !.evidence = decision] ELSE doc
  /\ UNCHANGED <<approval, decidedOn>>

-----------------------------------------------------------------------------
(* The browser                                                             *)

\* Which of the free slots takes a request makes no difference.
FreeSlots == {r \in Slots : slot[r].at = "free" /\ message[r] = NoMessage}

\* A tab holds one request at a time (decisionLock).
Send(t, stage, want, manifest) ==
  /\ waits[t] = None /\ FreeSlots # {}
  /\ LET r == CHOOSE r \in FreeSlots : TRUE
     IN /\ slot' = [slot EXCEPT ![r] =
             [at |-> stage, want |-> want, manifest |-> manifest, answer |-> None]]
        /\ waits' = [waits EXCEPT ![t] = r]
  /\ UNCHANGED <<viaService, rowVars, known, previewed, message, lost>>

\* decide of use-review-workspace.ts begins with a GET; the buttons are there
\* while the tab knows of no decision.
Click(t, decision) ==
  /\ approval.status # "none" /\ known[t] = None
  /\ Send(t, "read", decision, 0)
  /\ UNCHANGED preview

\* inspect of document-evidence-action.tsx
Inspect(t) ==
  /\ Send(t, "inspect", None, 0)
  /\ preview' = [preview EXCEPT ![t] = 0]

\* decide of document-evidence-action.tsx sends what the tab shows.
Patch(t, decision) ==
  /\ preview[t] # 0
  /\ Send(t, "patch", decision, preview[t])
  /\ UNCHANGED preview

\* The request is aborted or times out, and the lock is released.
GiveUp(t) ==
  /\ waits[t] # None /\ lost < MaxLost
  /\ waits' = [waits EXCEPT ![t] = None]
  /\ lost' = lost + 1
  /\ UNCHANGED <<viaService, rowVars, known, preview, previewed, webVars>>

\* The decision an answer tells of.
Shown(r) == IF slot[r].answer \in Decided THEN slot[r].answer ELSE None

\* A tab receives its answer: tokens are used at once for the POST, a decision
\* and a preview are shown, everything else is an error message.
Receive(t, r) ==
  /\ waits[t] = r /\ slot[r].at = "answered"
  /\ IF slot[r].answer = "tokens"
     THEN /\ slot' = [slot EXCEPT ![r].at = "post", ![r].answer = None]
          /\ UNCHANGED <<waits, known, preview, previewed>>
     ELSE /\ slot' = [slot EXCEPT ![r] = FreeSlot]
          /\ waits' = [waits EXCEPT ![t] = None]
          /\ known' = [known EXCEPT ![t] = IF Shown(r) = None THEN @ ELSE Shown(r)]
          /\ CASE slot[r].answer = "preview" ->
                    /\ preview' = [preview EXCEPT ![t] = slot[r].manifest]
                    /\ previewed' = previewed \cup {slot[r].manifest}
               [] slot[r].answer = "done" ->
                    /\ preview' = [preview EXCEPT ![t] = 0]
                    /\ UNCHANGED previewed
               [] OTHER -> UNCHANGED <<preview, previewed>>
  /\ UNCHANGED <<viaService, rowVars, message, lost>>

\* The answer of a request nobody waits for.
Discard(r) ==
  /\ slot[r].at = "answered" /\ \A t \in Tabs : waits[t] # r
  /\ slot' = [slot EXCEPT ![r] = FreeSlot]
  /\ UNCHANGED <<viaService, rowVars, tabVars, message, lost>>

-----------------------------------------------------------------------------
(* The web application                                                     *)

Goto(r, stage) == slot' = [slot EXCEPT ![r].at = stage]
Reply(r, answer) == slot' = [slot EXCEPT ![r].at = "answered", ![r].answer = answer]

\* invokeReviewService sends what the request asks for, if there is a service.
Invoke(r, kind) ==
  message' = [message EXCEPT ![r] =
    IF viaService THEN [kind |-> kind, want |-> slot[r].want, manifest |-> slot[r].manifest]
    ELSE NoMessage]

\* Mutant: the GET goes on to the tokens whatever has been decided.
ReadNothing(r) == Goto(r, "check")

\* getReviewDecision: a request that has been decided is answered with it.
ReadDecision(r) ==
  IF approval.status \in Decided THEN Reply(r, approval.status) ELSE Goto(r, "check")

\* The three reads of GET and the one of POST are transactions of their own.
\* getReviewRequest finds the row and getReviewDecision knows it is not stale.
Read(r) ==
  /\ slot[r].at = "read"
  /\ ReadDecision(r)
  /\ UNCHANGED <<viaService, rowVars, tabVars, message, lost>>

Check(r) ==
  /\ slot[r].at = "check"
  /\ IF Open THEN Goto(r, "issue") /\ Invoke(r, "tokens")
             ELSE Reply(r, "error") /\ UNCHANGED message
  /\ UNCHANGED <<viaService, rowVars, tabVars, lost>>

Post(r) ==
  /\ slot[r].at = "post"
  /\ IF Open THEN Goto(r, "decide") /\ Invoke(r, "workpaper")
             ELSE Reply(r, "error") /\ UNCHANGED message
  /\ UNCHANGED <<viaService, rowVars, tabVars, lost>>

\* setDocumentEvidenceDecision reads nothing before it calls the service.
Judge(r) ==
  /\ slot[r].at = "patch"
  /\ Goto(r, "judge") /\ Invoke(r, "evidence")
  /\ UNCHANGED <<viaService, rowVars, tabVars, lost>>

\* getDocumentEvidenceReview
ReadPreview(r) ==
  /\ slot[r].at = "inspect"
  /\ slot' = [slot EXCEPT ![r].at = "answered",
       ![r].answer = IF EvidenceDecidable(doc.version) THEN "preview" ELSE "error",
       ![r].manifest = IF EvidenceDecidable(doc.version) THEN doc.version ELSE 0]
  /\ UNCHANGED <<viaService, rowVars, tabVars, message, lost>>

\* What the three transactions answer.
TokenAnswer == IF WorkpaperDecidable THEN "tokens" ELSE "error"
WorkpaperAnswer(want) == IF WorkpaperDecidable THEN want ELSE "error"
EvidenceAnswer(manifest) == IF EvidenceDecidable(manifest) THEN "done" ELSE "error"

\* Without a service the web application issues the tokens unasked and runs the
\* transactions itself; a commit whose acknowledgement is lost is an error.
Direct(r) ==
  /\ ~viaService
  /\ \/ slot[r].at = "issue" /\ Reply(r, "tokens") /\ UNCHANGED rowVars
     \/ /\ slot[r].at = "decide" /\ DecideWorkpaper(slot[r].want)
        /\ Reply(r, WorkpaperAnswer(slot[r].want)) \/ Reply(r, "error")
     \/ /\ slot[r].at = "judge" /\ DecideEvidence(slot[r].want, slot[r].manifest)
        /\ Reply(r, EvidenceAnswer(slot[r].manifest)) \/ Reply(r, "error")
  /\ UNCHANGED <<viaService, tabVars, message, lost>>

\* AbortSignal.timeout(5_000), or any failure of the call: answered 503.
TimeOut(r) ==
  /\ viaService /\ slot[r].at \in Waiting
  /\ Reply(r, "error")
  /\ UNCHANGED <<viaService, rowVars, tabVars, message, lost>>

-----------------------------------------------------------------------------
(* The reviewer service                                                    *)

\* The answer arrives if somebody waits for it and the network delivers it.
Deliver(r, answer) ==
  IF slot[r].at \in Waiting THEN Reply(r, answer) \/ Reply(r, "error") ELSE UNCHANGED slot

Handled(r, kind) ==
  /\ message[r].kind = kind
  /\ message' = [message EXCEPT ![r] = NoMessage]
  /\ UNCHANGED <<viaService, tabVars, lost>>

IssueTokens(r) ==
  Handled(r, "tokens") /\ Deliver(r, TokenAnswer) /\ UNCHANGED rowVars

HandleWorkpaper(r) ==
  /\ Handled(r, "workpaper")
  /\ DecideWorkpaper(message[r].want) /\ Deliver(r, WorkpaperAnswer(message[r].want))

HandleEvidence(r) ==
  /\ Handled(r, "evidence")
  /\ DecideEvidence(message[r].want, message[r].manifest)
  /\ Deliver(r, EvidenceAnswer(message[r].manifest))

\* A message is lost or refused (openReviewServiceEnvelope), too old when it
\* arrives (assertFreshReviewServiceRequest), or the service restarts.
Lose(r) ==
  /\ message[r] # NoMessage
  /\ message' = [message EXCEPT ![r] = NoMessage]
  /\ Deliver(r, "error")
  /\ UNCHANGED <<viaService, rowVars, tabVars, lost>>
-----------------------------------------------------------------------------
(* Specification                                                           *)

Rows == Rescan \/ Index \/ RequestReview \/ Expire
Tab(t) ==
  \/ t \in ReviewTabs /\ \E decision \in Decided : Click(t, decision)
  \/ t \in EvidenceTabs /\ (Inspect(t) \/ \E decision \in Decided : Patch(t, decision))
  \/ GiveUp(t) \/ \E r \in Slots : Receive(t, r)
Handler(r) ==
  \/ Read(r) \/ Check(r) \/ Post(r) \/ Judge(r) \/ ReadPreview(r)
  \/ Direct(r) \/ TimeOut(r) \/ Discard(r)
Service(r) == IssueTokens(r) \/ HandleWorkpaper(r) \/ HandleEvidence(r) \/ Lose(r)

Next ==
  \/ Rows
  \/ \E t \in Tabs : Tab(t)
  \/ \E r \in Slots : Handler(r) \/ Service(r)

Spec == Init /\ [][Next]_vars

\* Handlers and messages come to an end, answers are shown, and a reviewer whose
\* tab shows no decision tries again whenever the page lets him.
FairSpec ==
  /\ Spec
  /\ \A r \in Slots : WF_vars(Handler(r)) /\ WF_vars(Service(r))
  /\ \A t \in Tabs, r \in Slots : WF_vars(Receive(t, r))
  /\ \A t \in ReviewTabs : SF_vars(\E decision \in Decided : Click(t, decision))

-----------------------------------------------------------------------------
(* Properties                                                              *)

TypeOK ==
  /\ viaService \in BOOLEAN
  /\ doc \in [version : 1..MaxVersion, status : {"INDEXED", "QUARANTINED"},
              evidence : {"PENDING"} \cup Decided]
  /\ approval \in [status : {"none", "PENDING"} \cup Decided, expired : BOOLEAN,
                   version : 0..MaxVersion]
  /\ decidedOn \in 0..MaxVersion
  /\ waits \in [Tabs -> Slots \cup {None}]
  /\ known \in [Tabs -> Decided \cup {None}]
  /\ preview \in [Tabs -> 0..MaxVersion]
  /\ previewed \in SUBSET (1..MaxVersion)
  /\ slot \in [Slots -> [at : Stages, want : Decided \cup {None},
                         manifest : 0..MaxVersion, answer : Answers]]
  /\ message \in [Slots -> [kind : {"none", "tokens", "workpaper", "evidence"},
                            want : Decided \cup {None}, manifest : 0..MaxVersion]]
  /\ lost \in 0..MaxLost

\* service-client.ts:109, route.ts:171: the decision commits after its client has
\* given up, in another tab, or twice at a time; whatever a tab shows as decided
\* is what the database holds.
ToldTruth == \A t \in Tabs : known[t] # None => known[t] = approval.status

\* reviewer/server.ts:282: tokens are issued to several tabs and used at the same
\* time, repeated and late; a workpaper is decided at most once, and the
\* reviewer is told nothing else.
Ledger == INSTANCE DecisionLedger WITH
  Readers <- Tabs, Decisions <- Decided, Undecided <- None, told <- known,
  decision <- IF approval.status \in Decided THEN approval.status ELSE None
ImplementsLedger == Ledger!Spec

\* drizzle/0008:148, 0010:313: between the request and the decision the document
\* is scanned again, and another version is indexed and approved; a workpaper is
\* decided on the version it cites or not at all.
DecidedAsCited == approval.status \in Decided => decidedOn = approval.version

\* document-evidence-action.tsx:87: the document changes between its preview and
\* the decision, which may arrive late; evidence is decided on, and cited by a
\* request, only in a version the reviewer was shown.
DecidedAsPreviewed ==
  /\ doc.evidence \in Decided => doc.version \in previewed
  /\ approval.status # "none" => approval.version \in previewed

\* use-review-workspace.ts:79: a reviewer who lost the answer of a decision learns
\* of it by trying again.
LearnsDecision ==
  \A t \in ReviewTabs : (approval.status \in Decided) ~> (known[t] = approval.status)
=============================================================================
