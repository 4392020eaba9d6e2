----------------------------- MODULE DemoStore -----------------------------
(***************************************************************************)
(* The store of the portfolio demo (lib/repository/demo-store.ts), which   *)
(* takes the place of the database: matters, documents with their jobs,    *)
(* workpapers and their decisions in the memory of one process.  Every     *)
(* operation runs to its end.  One user, Reviewer, decides.                *)
(*                                                                         *)
(* Users are those of the demo tenant; the hashes an operation is given    *)
(* are the current ones, or it does nothing.                               *)
(***************************************************************************)
EXTENDS Naturals, FiniteSets

CONSTANTS
  Users, Analysts,
  Reviewer,          \* demoReviewerId
  SeededMatters,     \* ids of the matters of the fixtures
  ReviewerOf,        \* their reviewers
  EvidenceMatter,    \* the seeded matter that has evidence, of another owner
  NewMatters,        \* bound: ids of matters users create
  SeededDocument,    \* doc_evidence_review, of that owner and in that matter
  NewDocuments,      \* bound: ids of documents users upload
  SeededTarget,      \* the workpaper the demo begins with, of the same owner
  NewTargets,        \* bound: ids of workpapers the assistant drafts
  Owner,             \* that owner
  Keys,              \* idempotency keys
  Files,             \* names of files, with their source types
  Absent

\* The fixtures: Reviewer reviews the matter with the evidence, whose owner is
\* another, and ids that are made up are new.
ASSUME FixturesAssumption ==
  /\ EvidenceMatter \in SeededMatters /\ ReviewerOf[EvidenceMatter] = Reviewer
  /\ Owner \in Users /\ Owner # Reviewer
  /\ Absent \notin Users /\ Reviewer \in Users
  /\ SeededDocument \notin NewDocuments

VARIABLES
  matters,       \* matters[m]: the reviewer of m, Absent before it is created
  documents,     \* rows of documents, Absent before the upload
  jobs,          \* documents with a job
  idempotency,   \* the document of every key that was used
  reviews,       \* rows of reviews, Absent before the draft
  decisions,     \* reviewDecisions
  auditEvents    \* who has done what to which target, without the order

demoVars == <<matters, documents, jobs, idempotency, reviews, decisions, auditEvents>>

Matters == SeededMatters \cup NewMatters
Documents == {SeededDocument} \cup NewDocuments
Targets == {SeededTarget} \cup NewTargets
DemoDecisions == {"APPROVED", "REJECTED"}

\* getStore seeds the store from the fixtures.
Seeded ==
  [matters |-> [m \in Matters |-> IF m \in SeededMatters THEN ReviewerOf[m] ELSE Absent],
   documents |-> [d \in Documents |->
     IF d = SeededDocument
     THEN [matter |-> EvidenceMatter, file |-> Absent, uploadedBy |-> Owner,
           status |-> "INDEXED", evidenceStatus |-> "PENDING"]
     ELSE Absent],
   reviews |-> [t \in Targets |->
     IF t = SeededTarget THEN [requestedBy |-> Owner, status |-> "PENDING"] ELSE Absent]]

DemoInit ==
  /\ matters = Seeded.matters /\ documents = Seeded.documents /\ reviews = Seeded.reviews
  /\ jobs = {} /\ auditEvents = {}
  /\ idempotency = [k \in Keys |-> Absent] /\ decisions = [t \in Targets |-> Absent]

Log(user, action, target) == auditEvents' = auditEvents \cup {<<user, action, target>>}

-----------------------------------------------------------------------------

CreateMatter(user, m, reviewer) ==
  /\ matters[m] = Absent
  /\ reviewer \in Users \ Analysts /\ reviewer # user
  /\ matters' = [matters EXCEPT ![m] = reviewer]
  /\ Log(user, "MATTER_CREATED", m)
  /\ UNCHANGED <<documents, jobs, idempotency, reviews, decisions>>

\* enqueueDocument with a key that is new: a document and its job.
EnqueueDocument(user, d, m, file, k) ==
  /\ matters[m] # Absent /\ documents[d] = Absent /\ idempotency[k] = Absent
  /\ documents' = [documents EXCEPT ![d] =
       [matter |-> m, file |-> file, uploadedBy |-> user,
        status |-> "QUARANTINED", evidenceStatus |-> "PENDING"]]
  /\ jobs' = jobs \cup {d}
  /\ idempotency' = [idempotency EXCEPT ![k] = d]
  /\ Log(user, "DOCUMENT_QUEUED", d)
  /\ UNCHANGED <<matters, reviews, decisions>>

\* With a key that was used for the same file of the same matter.
Deduplicate(user, m, file, k) ==
  /\ idempotency[k] # Absent
  /\ documents[idempotency[k]].matter = m /\ documents[idempotency[k]].file = file
  /\ Log(user, "DOCUMENT_UPLOAD_DEDUPLICATED", idempotency[k])
  /\ UNCHANGED <<matters, documents, jobs, idempotency, reviews, decisions>>

\* Mutant: the reviewer of a matter may have the assistant draft for it.
AnyoneMayDraft(user, m) == matters[m] # Absent

\* The actor is not the reviewer of the matter.
MayDraft(user, m) == matters[m] \notin {Absent, user}

\* createWorkpaperDraft for evidence of the matter that the assistant cites.
CreateWorkpaperDraft(user, m, t) ==
  /\ MayDraft(user, m) /\ m = EvidenceMatter
  /\ reviews[t] = Absent
  /\ reviews' = [reviews EXCEPT ![t] = [requestedBy |-> user, status |-> "PENDING"]]
  /\ UNCHANGED <<matters, documents, jobs, idempotency, decisions, auditEvents>>

\* setDocumentEvidenceDecision
DecideEvidence(user, d, decision) ==
  /\ user = Reviewer /\ d = SeededDocument
  /\ matters[documents[d].matter] = user /\ documents[d].uploadedBy # user
  /\ documents[d].status = "INDEXED" /\ documents[d].evidenceStatus = "PENDING"
  /\ documents' = [documents EXCEPT ![d].evidenceStatus = decision]
  /\ Log(user, "DOCUMENT_EVIDENCE_DECIDED", d)
  /\ UNCHANGED <<matters, jobs, idempotency, reviews, decisions>>

\* setReviewDecision asks who decides, and neither who reviews the matter nor
\* who requested the review.
SetReviewDecision(user, t, decision) ==
  /\ user = Reviewer
  /\ reviews[t] # Absent /\ reviews[t].status = "PENDING"
  /\ reviews' = [reviews EXCEPT ![t].status = decision]
  /\ decisions' = [decisions EXCEPT ![t] = [decision |-> decision, reviewer |-> user]]
  /\ Log(user, "WORKPAPER_DECIDED", t)
  /\ UNCHANGED <<matters, documents, jobs, idempotency>>

\* resetDemoStoreForTests and the getStore after it.
Reset ==
  /\ matters' = Seeded.matters /\ documents' = Seeded.documents /\ reviews' = Seeded.reviews
  /\ jobs' = {} /\ auditEvents' = {}
  /\ idempotency' = [k \in Keys |-> Absent] /\ decisions' = [t \in Targets |-> Absent]

DemoNext ==
  \/ Reset
  \/ \E user \in Users :
       \/ \E m \in NewMatters, reviewer \in Users : CreateMatter(user, m, reviewer)
       \/ \E m \in Matters, file \in Files, k \in Keys :
            \/ \E d \in NewDocuments : EnqueueDocument(user, d, m, file, k)
            \/ Deduplicate(user, m, file, k)
       \/ \E m \in Matters, t \in NewTargets : CreateWorkpaperDraft(user, m, t)
       \/ \E d \in Documents, decision \in DemoDecisions : DecideEvidence(user, d, decision)
       \/ \E t \in Targets, decision \in DemoDecisions : SetReviewDecision(user, t, decision)

DemoSpec == DemoInit /\ [][DemoNext]_demoVars

-----------------------------------------------------------------------------

\* demo-store.ts:677: the decision on a workpaper does not ask who requested it, and
\* reviewers may create matters, upload and ask the assistant as everybody may;
\* still nobody decides on a workpaper or a document of his own.
FourEyes ==
  \A e \in auditEvents :
    /\ e[2] = "WORKPAPER_DECIDED" => reviews[e[3]].requestedBy # e[1]
    /\ e[2] = "DOCUMENT_EVIDENCE_DECIDED" => documents[e[3]].uploadedBy # e[1]
=============================================================================
