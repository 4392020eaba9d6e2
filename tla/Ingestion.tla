----------------------------- MODULE Ingestion -----------------------------
(***************************************************************************)
(* The ingestion worker: several worker processes take leases on the rows  *)
(* of the jobs table and carry each uploaded document from quarantine to   *)
(* the evidence index (src/worker/runtime.ts, ingestion-service.ts and the *)
(* claim function of drizzle/0000), while a reviewer decides on what was   *)
(* indexed (drizzle/0008).                                                 *)
(*                                                                         *)
(* One action is one transaction, one object-store call or one external    *)
(* call of a worker: everything in between is local to the process.  After *)
(* every such call the worker may also receive a connection error although *)
(* the call took effect (operator Proceed), it may crash, and its lease    *)
(* may run out while it is still working.                                  *)
(*                                                                         *)
(* The two transactions that read and write chunks, persistChunks and the  *)
(* index transaction, run statement by statement at READ COMMITTED: the    *)
(* tables hold what is committed, and who holds which row lock follows     *)
(* from the step each worker has come to.  All other transactions have one *)
(* statement that matters, or wait for nobody.                             *)
(*                                                                         *)
(* Object versions are numbers: 0 is the quarantined upload, n > 0 is the  *)
(* n-th copy made under the clean key.  A parse is the set of              *)
(* <<chunk_index, content_hash>> pairs the document processor returns.     *)
(***************************************************************************)
EXTENDS Naturals, FiniteSets

CONSTANTS
  Docs,         \* documents, each uploaded together with its ingestion job
  Workers,      \* worker processes
  NoWorker,     \* lease_owner IS NULL
  Parses,       \* the chunk sets the document processor may return
  Suspicious,   \* parses the semantic classifier labels SUSPICIOUS
  Instructing,  \* parses the instruction pattern matches
  MaxAttempts,  \* jobs.max_attempts
  MaxStalls,    \* bound: leases that run out while the owner still works
  MaxCrashes    \* bound: crashes of worker processes

ASSUME NoWorkerAssumption == NoWorker \notin Workers
\* Chunk indices are positions in an array: they start at 0, leave no gap and
\* name one content each.
IsParse(p) ==
  /\ IsFiniteSet(p) /\ p # {}
  /\ \A c \in p :
       /\ c = <<c[1], c[2]>> /\ c[1] \in Nat
       /\ \A i \in 0 .. c[1] : \E e \in p : e[1] = i
       /\ \A e \in p : e[1] = c[1] => e = c

ASSUME ParsesAssumption ==
  /\ \A p \in Parses : IsParse(p)
  /\ Suspicious \subseteq Parses
  /\ Instructing \subseteq Parses
ASSUME BoundsAssumption ==
  MaxAttempts \in Nat \ {0} /\ MaxStalls \in Nat /\ MaxCrashes \in Nat

VARIABLES
  jobStatus, attempts, leaseOwner, leaseExpired,       \* table jobs
  status, scanStatus, evidence, object, manifest,      \* table documents
  rows, current,                                       \* table document_chunks
  outbox,                                              \* documents with a document.indexed event
  live, copies, condemned,                             \* object store
  pc, task, tries, binding, clean, parse, permanent,   \* worker processes
  listed,                                              \* manifestChunks of a worker
  stalls, crashes                                      \* environment budgets

jobVars == <<jobStatus, attempts, leaseOwner, leaseExpired>>
docVars == <<status, scanStatus, evidence, object, manifest>>
chunkVars == <<rows, current>>
storeVars == <<live, copies, condemned>>
localVars == <<task, tries, binding, clean, parse, listed>>
budgetVars == <<stalls, crashes>>
vars == <<jobVars, docVars, chunkVars, outbox, storeVars, localVars, pc,
          permanent, budgetVars>>

-----------------------------------------------------------------------------
(* Rows, versions and processes                                            *)

InFlight == {"QUARANTINED", "SCANNING", "PARSING"}
DocumentStatuses == InFlight \cup {"INDEXED", "FAILED"}
JobStatuses == {"QUEUED", "RUNNING", "RETRYING", "SUCCEEDED", "DEAD"}
Quarantined == 0
NoClean == 0
Chunks == UNION Parses
Admissible == Parses \ (Suspicious \cup Instructing)

\* The step that follows each updateProgress call of processDocument (the calls
\* at 35 and 55 are one step: only the embedding call lies between them).
NextStage ==
  [renew10 |-> "scan", renew25 |-> "copy", renew30 |-> "classify",
   renew55 |-> "enterParsing", renew65 |-> "persist", renew85 |-> "index"]

Stages == {"idle", "claimed", "begin", "download", "renew10", "scan", "renew25",
           "copy", "verify", "promote", "discard", "sweep", "parse", "renew30",
           "classify", "renew55", "enterParsing", "renew65", "persist",
           "writing", "written", "renew85", "index", "listing", "sealing",
           "complete", "failing", "tagging"}

\* Steps inside persistChunks, which hold the document row, and inside the
\* index transaction, which hold the job row.
Writing == {"writing", "written"}
Indexing == {"listing", "sealing"}

JobTypes ==
  /\ jobStatus \in [Docs -> JobStatuses]
  /\ attempts \in [Docs -> Nat]
  /\ leaseOwner \in [Docs -> Workers \cup {NoWorker}]
  /\ leaseExpired \in [Docs -> BOOLEAN]
DocumentTypes ==
  /\ status \in [Docs -> DocumentStatuses]
  /\ scanStatus \in [Docs -> {"UNSCANNED", "SAFE", "BLOCKED"}]
  /\ evidence \in [Docs -> {"PENDING", "APPROVED", "REJECTED"}]
  /\ object \in [Docs -> Nat]
  /\ manifest \in [Docs -> SUBSET Chunks]
ChunkTypes ==
  /\ rows \in [Docs -> SUBSET Chunks]
  /\ current \in [Docs -> SUBSET Chunks]
  /\ outbox \in SUBSET Docs
StoreTypes ==
  /\ live \in [Docs -> SUBSET Nat]
  /\ copies \in [Docs -> Nat]
  /\ condemned \in [Docs -> SUBSET Nat]
MemoryTypes ==
  /\ task \in [Workers -> Docs]
  /\ tries \in [Workers -> Nat]
  /\ binding \in [Workers -> Nat]
  /\ clean \in [Workers -> Nat]
  /\ parse \in [Workers -> Parses \cup {{}}]
  /\ listed \in [Workers -> SUBSET Chunks]
ControlTypes ==
  /\ pc \in [Workers -> Stages]
  /\ permanent \in [Workers -> BOOLEAN]
BudgetTypes == stalls \in 0..MaxStalls /\ crashes \in 0..MaxCrashes

TypeOK ==
  /\ JobTypes /\ DocumentTypes /\ ChunkTypes /\ StoreTypes
  /\ MemoryTypes /\ ControlTypes /\ BudgetTypes

\* A document row and its job are inserted by one upload transaction.
Init ==
  /\ jobStatus = [d \in Docs |-> "QUEUED"]
  /\ attempts = [d \in Docs |-> 0]
  /\ leaseOwner = [d \in Docs |-> NoWorker]
  /\ leaseExpired = [d \in Docs |-> FALSE]
  /\ status = [d \in Docs |-> "QUARANTINED"]
  /\ scanStatus = [d \in Docs |-> "UNSCANNED"]
  /\ evidence = [d \in Docs |-> "PENDING"]
  /\ object = [d \in Docs |-> Quarantined]
  /\ manifest = [d \in Docs |-> {}]
  /\ rows = [d \in Docs |-> {}]
  /\ current = [d \in Docs |-> {}]
  /\ outbox = {}
  /\ live = [d \in Docs |-> {Quarantined}]
  /\ copies = [d \in Docs |-> 0]
  /\ condemned = [d \in Docs |-> {}]
  /\ pc = [w \in Workers |-> "idle"]
  /\ task \in [Workers -> Docs]
  /\ tries = [w \in Workers |-> 0]
  /\ binding = [w \in Workers |-> Quarantined]
  /\ clean = [w \in Workers |-> NoClean]
  /\ parse = [w \in Workers |-> {}]
  /\ listed = [w \in Workers |-> {}]
  /\ permanent = [w \in Workers |-> FALSE]
  /\ stalls = 0
  /\ crashes = 0

-----------------------------------------------------------------------------
(* Control flow of one worker                                              *)

\* The call returns and the worker goes on, or the connection fails after the
\* call took effect and the error reaches the catch block of run().
Proceed(w, next) ==
  /\ \E stage \in {next, "failing"} : pc' = [pc EXCEPT ![w] = stage]
  /\ UNCHANGED permanent

\* The worker throws an error of its own.
Throw(w, isPermanent) ==
  /\ pc' = [pc EXCEPT ![w] = "failing"]
  /\ permanent' = [permanent EXCEPT ![w] = isPermanent]

\* The attempt is over; what the process knew about it is gone.
Leave(w) ==
  /\ pc' = [pc EXCEPT ![w] = "idle"]
  /\ tries' = [tries EXCEPT ![w] = 0]
  /\ binding' = [binding EXCEPT ![w] = Quarantined]
  /\ clean' = [clean EXCEPT ![w] = NoClean]
  /\ parse' = [parse EXCEPT ![w] = {}]
  /\ listed' = [listed EXCEPT ![w] = {}]
  /\ permanent' = [permanent EXCEPT ![w] = FALSE]
  /\ UNCHANGED task

\* An error outside the try block that attaches cleanObject.
Abandon(w, isPermanent) ==
  /\ Throw(w, isPermanent)
  /\ clean' = [clean EXCEPT ![w] = NoClean]

LeaseHeld(w) ==
  /\ leaseOwner[task[w]] = w
  /\ jobStatus[task[w]] = "RUNNING"

\* The WHERE clause the document updates share: undecided evidence and the
\* object version the worker read.
Unmoved(w, version) ==
  /\ evidence[task[w]] = "PENDING"
  /\ object[task[w]] = version

\* The row lock of w's document is not held by the persistChunks of another
\* worker; the lock of d's job is not held by an index transaction.
DocumentRowFree(w) ==
  \A v \in Workers \ {w} : task[v] = task[w] => pc[v] \notin Writing
JobRowFree(d) == \A v \in Workers : task[v] = d => pc[v] \notin Indexing

\* Mutant: an expired lease is never taken over.
ClaimableNoTakeover(d) == jobStatus[d] \in {"QUEUED", "RETRYING"}

Claimable(d) ==
  \/ jobStatus[d] \in {"QUEUED", "RETRYING"}
  \/ jobStatus[d] = "RUNNING" /\ leaseExpired[d]

\* claim_next_job skips locked rows.
Claim(w, d) ==
  /\ pc[w] = "idle"
  /\ Claimable(d) /\ JobRowFree(d)
  /\ jobStatus' = [jobStatus EXCEPT ![d] = "RUNNING"]
  /\ attempts' = [attempts EXCEPT ![d] = @ + 1]
  /\ leaseOwner' = [leaseOwner EXCEPT ![d] = w]
  /\ leaseExpired' = [leaseExpired EXCEPT ![d] = FALSE]
  /\ task' = [task EXCEPT ![w] = d]
  /\ tries' = [tries EXCEPT ![w] = attempts[d] + 1]
  /\ pc' = [pc EXCEPT ![w] = "claimed"]
  /\ UNCHANGED <<docVars, chunkVars, outbox, storeVars, binding, clean, parse,
                 listed, permanent, budgetVars>>

\* run() refuses a job whose attempts are used up, else reads the document row.
ReadDocument(w) ==
  /\ pc[w] = "claimed"
  /\ IF tries[w] > MaxAttempts
     THEN Throw(w, TRUE) /\ UNCHANGED binding
     ELSE /\ binding' = [binding EXCEPT ![w] = object[task[w]]]
          /\ Proceed(w, "begin")
  /\ UNCHANGED <<jobVars, docVars, chunkVars, outbox, storeVars, task, tries,
                 clean, parse, listed, budgetVars>>

\* Mutant: the update to SCANNING forgets the states it may leave.
RestartableAlways(w) == Unmoved(w, binding[w])

Restartable(w) == status[task[w]] \in InFlight /\ Unmoved(w, binding[w])

BeginScanning(w) ==
  /\ pc[w] = "begin"
  /\ IF Restartable(w)
     THEN /\ DocumentRowFree(w)
          /\ status' = [status EXCEPT ![task[w]] = "SCANNING"]
          /\ Proceed(w, "download")
     ELSE Throw(w, FALSE) /\ UNCHANGED status
  /\ UNCHANGED <<jobVars, scanStatus, evidence, object, manifest, chunkVars,
                 outbox, storeVars, localVars, budgetVars>>

\* The bound version is read, is missing or unreadable, or differs from its
\* binding.
Download(w) ==
  /\ pc[w] = "download"
  /\ \/ binding[w] \in live[task[w]] /\ Proceed(w, "renew10")
     \/ \E isPermanent \in BOOLEAN : Throw(w, isPermanent)
  /\ UNCHANGED <<jobVars, docVars, chunkVars, outbox, storeVars, localVars,
                 budgetVars>>

\* updateProgress: extends the lease as long as no other worker took the job,
\* even when it had already run out.
RenewLease(w) ==
  /\ pc[w] \in DOMAIN NextStage
  /\ IF LeaseHeld(w)
     THEN /\ leaseExpired' = [leaseExpired EXCEPT ![task[w]] = FALSE]
          /\ Proceed(w, NextStage[pc[w]])
     ELSE Throw(w, FALSE) /\ UNCHANGED leaseExpired
  /\ UNCHANGED <<jobStatus, attempts, leaseOwner, docVars, chunkVars, outbox,
                 storeVars, localVars, budgetVars>>

\* ClamAV finds nothing, or it rejects the object, whose version is then tagged
\* "malware" (a failed tag is only logged).
ScanMalware(w) ==
  /\ pc[w] = "scan"
  /\ \/ Proceed(w, "renew25") /\ UNCHANGED condemned
     \/ /\ Throw(w, TRUE)
        /\ \/ UNCHANGED condemned
           \/ /\ binding[w] \in live[task[w]]
              /\ condemned' = [condemned EXCEPT ![task[w]] = @ \cup {binding[w]}]
  /\ UNCHANGED <<jobVars, docVars, chunkVars, outbox, live, copies, localVars,
                 budgetVars>>

-----------------------------------------------------------------------------
(* promoteCleanObject: copy, verify, rebind, delete the source             *)

\* An already clean object is used as it is; the quarantined version is copied
\* under the clean key, the answer to the copy is lost or names no version, or
\* nothing is copied because the call fails or the version is gone.
CopyClean(w) ==
  LET d == task[w]
      copy == copies[d] + 1
  IN
  /\ pc[w] = "copy"
  /\ \/ /\ binding[w] # Quarantined
        /\ clean' = [clean EXCEPT ![w] = binding[w]]
        /\ pc' = [pc EXCEPT ![w] = "parse"]
        /\ UNCHANGED <<live, copies, permanent>>
     \/ /\ binding[w] = Quarantined
        /\ Quarantined \in live[d]
        /\ copies' = [copies EXCEPT ![d] = copy]
        /\ live' = [live EXCEPT ![d] = @ \cup {copy}]
        /\ \/ /\ clean' = [clean EXCEPT ![w] = copy]
              /\ pc' = [pc EXCEPT ![w] = "verify"]
              /\ UNCHANGED permanent
           \/ (\E isPermanent \in BOOLEAN : Throw(w, isPermanent)) /\ UNCHANGED clean
     \/ /\ binding[w] = Quarantined
        /\ Throw(w, FALSE)
        /\ UNCHANGED <<live, copies, clean>>
  /\ UNCHANGED <<jobVars, docVars, chunkVars, outbox, condemned, task, tries,
                 binding, parse, listed, budgetVars>>

\* HeadObject on the copy: it matches, it differs and the copy is deleted, or
\* the call fails and the copy stays behind.
VerifyCopy(w) ==
  /\ pc[w] = "verify"
  /\ \/ /\ pc' = [pc EXCEPT ![w] = "promote"]
        /\ UNCHANGED <<live, clean, permanent>>
     \/ /\ live' = [live EXCEPT ![task[w]] = @ \ {clean[w]}]
        /\ Abandon(w, TRUE)
     \/ Abandon(w, FALSE) /\ UNCHANGED live
  /\ UNCHANGED <<jobVars, docVars, chunkVars, outbox, copies, condemned, task,
                 tries, binding, parse, listed, budgetVars>>

\* The conditional update that rebinds the document row to the clean version.
Promotable(w) == status[task[w]] = "SCANNING" /\ Unmoved(w, binding[w])

\* Mutant: the row count of the conditional update is not looked at.
PromoteUnchecked(w) ==
  /\ pc[w] = "promote"
  /\ object' = IF Promotable(w) THEN [object EXCEPT ![task[w]] = clean[w]] ELSE object
  /\ pc' = [pc EXCEPT ![w] = "sweep"]
  /\ UNCHANGED <<jobVars, status, scanStatus, evidence, manifest, chunkVars,
                 outbox, storeVars, localVars, permanent, budgetVars>>

Promote(w) ==
  /\ pc[w] = "promote"
  /\ IF Promotable(w)
     THEN /\ object' = [object EXCEPT ![task[w]] = clean[w]]
          /\ \/ /\ pc' = [pc EXCEPT ![w] = "sweep"]
                /\ UNCHANGED <<clean, permanent>>
             \/ Abandon(w, FALSE)
     ELSE /\ pc' = [pc EXCEPT ![w] = "discard"]
          /\ UNCHANGED <<object, clean, permanent>>
  /\ UNCHANGED <<jobVars, status, scanStatus, evidence, manifest, chunkVars,
                 outbox, storeVars, task, tries, binding, parse, listed, budgetVars>>

\* The row had moved: the worker deletes the copy it made and gives up.
DiscardCopy(w) ==
  /\ pc[w] = "discard"
  /\ \E gone \in {{}, {clean[w]}} : live' = [live EXCEPT ![task[w]] = @ \ gone]
  /\ Abandon(w, FALSE)
  /\ UNCHANGED <<jobVars, docVars, chunkVars, outbox, copies, condemned, task,
                 tries, binding, parse, listed, budgetVars>>

\* The quarantined source is deleted; a failure is logged and left to the
\* lifecycle rule of the bucket.
SweepSource(w) ==
  /\ pc[w] = "sweep"
  /\ \E gone \in {{}, {binding[w]}} : live' = [live EXCEPT ![task[w]] = @ \ gone]
  /\ pc' = [pc EXCEPT ![w] = "parse"]
  /\ UNCHANGED <<jobVars, docVars, chunkVars, outbox, copies, condemned,
                 localVars, permanent, budgetVars>>

-----------------------------------------------------------------------------
(* Parsing, classification, chunks and the index                           *)

ParseDocument(w) ==
  /\ pc[w] = "parse"
  /\ \/ /\ \E p \in Parses : parse' = [parse EXCEPT ![w] = p]
        /\ Proceed(w, "renew30")
     \/ Throw(w, TRUE) /\ UNCHANGED parse
  /\ UNCHANGED <<jobVars, docVars, chunkVars, outbox, storeVars, task, tries,
                 binding, clean, listed, budgetVars>>

ScanVerdict(w) == IF parse[w] \in Suspicious THEN "BLOCKED" ELSE "SAFE"

\* recordInjectionScan writes the classifier's verdict; a BLOCKED verdict or a
\* match of the instruction pattern is a permanent error.
RecordScan(w) ==
  /\ pc[w] = "classify"
  /\ IF status[task[w]] = "SCANNING" /\ Unmoved(w, clean[w])
     THEN /\ scanStatus' = [scanStatus EXCEPT ![task[w]] = ScanVerdict(w)]
          /\ IF parse[w] \in Suspicious \cup Instructing
             THEN \E isPermanent \in BOOLEAN : Throw(w, isPermanent)
             ELSE Proceed(w, "renew55")
     ELSE Throw(w, FALSE) /\ UNCHANGED scanStatus
  /\ UNCHANGED <<jobVars, status, evidence, object, manifest, chunkVars, outbox,
                 storeVars, localVars, budgetVars>>

EnterParsing(w) ==
  LET d == task[w]
  IN
  /\ pc[w] = "enterParsing"
  /\ IF status[d] = "SCANNING" /\ scanStatus[d] = "SAFE" /\ Unmoved(w, clean[w])
     THEN /\ status' = [status EXCEPT ![d] = "PARSING"]
          /\ Proceed(w, "renew65")
     ELSE Throw(w, FALSE) /\ UNCHANGED status
  /\ UNCHANGED <<jobVars, scanStatus, evidence, object, manifest, chunkVars,
                 outbox, storeVars, localVars, budgetVars>>

\* An existing row for the same index with other content.
Conflicts(d, p) ==
  \E r \in rows[d], c \in p : r[1] = c[1] /\ r[2] # c[2]

\* The state of the document, not the lease, decides who may write chunks.
WritableChunks(d) ==
  /\ status[d] = "PARSING"
  /\ evidence[d] = "PENDING"
  /\ scanStatus[d] = "SAFE"

\* persistChunks locks the document row first (SELECT ... FOR UPDATE).
LockDocument(w) ==
  /\ pc[w] = "persist"
  /\ DocumentRowFree(w)
  /\ IF WritableChunks(task[w])
     THEN pc' = [pc EXCEPT ![w] = "writing"] /\ UNCHANGED permanent
     ELSE Throw(w, TRUE)
  /\ UNCHANGED <<jobVars, docVars, chunkVars, outbox, storeVars, localVars,
                 budgetVars>>

\* is_current is cleared on every row of the document and the chunks are
\* upserted; rows that an index transaction has locked are waited for.
WriteChunks(w) ==
  /\ pc[w] = "writing"
  /\ \A v \in Workers : task[v] = task[w] => pc[v] # "sealing"
  /\ IF Conflicts(task[w], parse[w])
     THEN Throw(w, TRUE)
     ELSE pc' = [pc EXCEPT ![w] = "written"] /\ UNCHANGED permanent
  /\ UNCHANGED <<jobVars, docVars, chunkVars, outbox, storeVars, localVars,
                 budgetVars>>

CommitChunks(w) ==
  /\ pc[w] = "written"
  /\ rows' = [rows EXCEPT ![task[w]] = @ \cup parse[w]]
  /\ current' = [current EXCEPT ![task[w]] = parse[w]]
  /\ Proceed(w, "renew85")
  /\ UNCHANGED <<jobVars, docVars, outbox, storeVars, localVars, budgetVars>>

\* The index transaction locks the job row of the lease and takes the snapshot
\* of SELECT ... FOR SHARE: the chunks that are current and committed now.
OpenIndex(w) ==
  /\ pc[w] = "index"
  /\ IF LeaseHeld(w)
     THEN /\ listed' = [listed EXCEPT ![w] = current[task[w]]]
          /\ pc' = [pc EXCEPT ![w] = "listing"]
          /\ UNCHANGED permanent
     ELSE Throw(w, FALSE) /\ UNCHANGED listed
  /\ UNCHANGED <<jobVars, docVars, chunkVars, outbox, storeVars, task, tries,
                 binding, clean, parse, budgetVars>>

\* Mutant: the chunks are read without FOR SHARE.
LockChunksUnlocked(w) ==
  /\ pc[w] = "listing"
  /\ IF Cardinality(listed[w]) = Cardinality(parse[w])
     THEN pc' = [pc EXCEPT ![w] = "sealing"] /\ UNCHANGED <<listed, permanent>>
     ELSE Throw(w, TRUE) /\ listed' = [listed EXCEPT ![w] = {}]
  /\ UNCHANGED <<jobVars, docVars, chunkVars, outbox, storeVars, task, tries,
                 binding, clean, parse, budgetVars>>

\* FOR SHARE waits for the writer of a listed row and then drops what is no
\* longer current; rows that became current meanwhile are not in the snapshot.
LockChunks(w) ==
  LET locked == listed[w] \cap current[task[w]]
  IN
  /\ pc[w] = "listing"
  /\ \A v \in Workers : task[v] = task[w] => pc[v] # "written"
  /\ IF Cardinality(locked) = Cardinality(parse[w])
     THEN /\ listed' = [listed EXCEPT ![w] = locked]
          /\ pc' = [pc EXCEPT ![w] = "sealing"]
          /\ UNCHANGED permanent
     ELSE Throw(w, TRUE) /\ listed' = [listed EXCEPT ![w] = {}]
  /\ UNCHANGED <<jobVars, docVars, chunkVars, outbox, storeVars, task, tries,
                 binding, clean, parse, budgetVars>>

Indexable(w) ==
  /\ WritableChunks(task[w])
  /\ object[task[w]] = clean[w]

\* The update of the document with the manifest of the locked chunks, the outbox
\* event and the commit.
IndexDocument(w) ==
  LET d == task[w]
  IN
  /\ pc[w] = "sealing"
  /\ IF Indexable(w)
     THEN /\ DocumentRowFree(w)
          /\ status' = [status EXCEPT ![d] = "INDEXED"]
          /\ manifest' = [manifest EXCEPT ![d] = listed[w]]
          /\ outbox' = outbox \cup {d}
          /\ Proceed(w, "complete")
     ELSE Throw(w, FALSE) /\ UNCHANGED <<status, manifest, outbox>>
  /\ listed' = [listed EXCEPT ![w] = {}]
  /\ UNCHANGED <<jobVars, scanStatus, evidence, object, chunkVars, storeVars,
                 task, tries, binding, clean, parse, budgetVars>>

\* A statement or the commit of either transaction fails, or the database picks
\* it as the victim of a deadlock: nothing of it remains.
RollBack(w) ==
  /\ pc[w] \in Writing \cup Indexing
  /\ Throw(w, FALSE)
  /\ listed' = [listed EXCEPT ![w] = {}]
  /\ UNCHANGED <<jobVars, docVars, chunkVars, outbox, storeVars, task, tries,
                 binding, clean, parse, budgetVars>>

-----------------------------------------------------------------------------
(* The end of an attempt                                                   *)

CompleteJob(w) ==
  LET d == task[w]
  IN
  /\ pc[w] = "complete"
  /\ \/ /\ leaseOwner[d] = w
        /\ jobStatus' = [jobStatus EXCEPT ![d] = "SUCCEEDED"]
        /\ leaseOwner' = [leaseOwner EXCEPT ![d] = NoWorker]
        /\ leaseExpired' = [leaseExpired EXCEPT ![d] = FALSE]
     \/ /\ leaseOwner[d] # w
        /\ UNCHANGED <<jobStatus, leaseOwner, leaseExpired>>
  /\ \/ leaseOwner[d] = w /\ Leave(w)
     \/ Abandon(w, FALSE) /\ UNCHANGED <<task, tries, binding, parse, listed>>
  /\ UNCHANGED <<attempts, docVars, chunkVars, outbox, storeVars, budgetVars>>

\* Mutant: one attempt too many.
FinalFailureLate(w) == permanent[w] \/ tries[w] > MaxAttempts

\* failureDisposition
FinalFailure(w) == permanent[w] \/ tries[w] >= MaxAttempts

\* Mutant: the document fails although the job update found no row.
FailsDocumentUnowned(w) ==
  FinalFailure(w) /\ evidence[task[w]] = "PENDING" /\ status[task[w]] \in InFlight

\* The document update of failJob: only with the lease, only when it is dead.
FailsDocument(w) ==
  /\ leaseOwner[task[w]] = w
  /\ FinalFailure(w)
  /\ evidence[task[w]] = "PENDING"
  /\ status[task[w]] \in InFlight

\* failJob: one transaction over the job and, when the job is dead, its
\* document, whose row it may have to wait for; the clean object is tagged
\* afterwards even without the lease.
FailJob(w) ==
  LET d == task[w]
      dead == FinalFailure(w)
  IN
  /\ pc[w] = "failing"
  /\ FailsDocument(w) => DocumentRowFree(w)
  /\ IF leaseOwner[d] = w
     THEN /\ jobStatus' = [jobStatus EXCEPT ![d] = IF dead THEN "DEAD" ELSE "RETRYING"]
          /\ leaseOwner' = [leaseOwner EXCEPT ![d] = NoWorker]
          /\ leaseExpired' = [leaseExpired EXCEPT ![d] = FALSE]
     ELSE UNCHANGED <<jobStatus, leaseOwner, leaseExpired>>
  /\ status' = IF FailsDocument(w) THEN [status EXCEPT ![d] = "FAILED"] ELSE status
  /\ IF dead /\ clean[w] # NoClean
     THEN /\ pc' = [pc EXCEPT ![w] = "tagging"]
          /\ UNCHANGED <<localVars, permanent>>
     ELSE Leave(w)
  /\ UNCHANGED <<attempts, scanStatus, evidence, object, manifest, chunkVars,
                 outbox, storeVars, budgetVars>>

\* The clean version is tagged "failed", which hands it to the expiry rule of
\* the bucket; a failed tag is only logged.
TagFailed(w) ==
  /\ pc[w] = "tagging"
  /\ \E tagged \in {{}, {clean[w]} \cap live[task[w]]} :
       condemned' = [condemned EXCEPT ![task[w]] = @ \cup tagged]
  /\ Leave(w)
  /\ UNCHANGED <<jobVars, docVars, chunkVars, outbox, live, copies, budgetVars>>

-----------------------------------------------------------------------------
(* Environment                                                             *)

\* The process dies; its replacement starts under a new worker id, which no
\* lease names, so it begins idle.
Crash(w) ==
  /\ pc[w] # "idle"
  /\ crashes < MaxCrashes
  /\ crashes' = crashes + 1
  /\ Leave(w)
  /\ UNCHANGED <<jobVars, docVars, chunkVars, outbox, storeVars, stalls>>

\* Some process is still busy with the lease on d.
Attended(d) == \E w \in Workers : pc[w] # "idle" /\ task[w] = d /\ leaseOwner[d] = w

\* A lease nobody works under runs out in time; one whose owner is slow runs
\* out at most MaxStalls times.
ExpireLease(d) ==
  /\ jobStatus[d] = "RUNNING"
  /\ ~leaseExpired[d]
  /\ IF Attended(d)
     THEN stalls < MaxStalls /\ stalls' = stalls + 1
     ELSE UNCHANGED stalls
  /\ leaseExpired' = [leaseExpired EXCEPT ![d] = TRUE]
  /\ UNCHANGED <<jobStatus, attempts, leaseOwner, docVars, chunkVars, outbox,
                 storeVars, localVars, pc, permanent, crashes>>

\* Mutant: a decided document can be decided again.
DecideEvidenceAgain(d) ==
  /\ status[d] = "INDEXED" /\ scanStatus[d] = "SAFE"
  /\ current[d] # {} /\ manifest[d] = current[d]
  /\ \E decision \in {"APPROVED", "REJECTED"} :
       evidence' = [evidence EXCEPT ![d] = decision]
  /\ UNCHANGED <<jobVars, status, scanStatus, object, manifest, chunkVars,
                 outbox, storeVars, localVars, pc, permanent, budgetVars>>

\* setDocumentEvidenceDecision and decide_document_evidence: the reviewer's
\* manifest is recomputed from the current chunks and compared with the row.
DecideEvidence(d) ==
  /\ status[d] = "INDEXED"
  /\ scanStatus[d] = "SAFE"
  /\ evidence[d] = "PENDING"
  /\ current[d] # {} /\ manifest[d] = current[d]
  /\ \E decision \in {"APPROVED", "REJECTED"} :
       evidence' = [evidence EXCEPT ![d] = decision]
  /\ UNCHANGED <<jobVars, status, scanStatus, object, manifest, chunkVars,
                 outbox, storeVars, localVars, pc, permanent, budgetVars>>

-----------------------------------------------------------------------------
(* Specification                                                           *)

Prepare(w) ==
  \/ ReadDocument(w) \/ BeginScanning(w) \/ Download(w) \/ ScanMalware(w)
  \/ CopyClean(w) \/ VerifyCopy(w) \/ Promote(w) \/ DiscardCopy(w)
  \/ SweepSource(w)

Publish(w) ==
  \/ ParseDocument(w) \/ RecordScan(w) \/ EnterParsing(w) \/ LockDocument(w)
  \/ WriteChunks(w) \/ CommitChunks(w) \/ OpenIndex(w) \/ LockChunks(w)
  \/ IndexDocument(w) \/ RollBack(w) \/ CompleteJob(w)

Work(w) ==
  RenewLease(w) \/ Prepare(w) \/ Publish(w) \/ FailJob(w) \/ TagFailed(w)

Next ==
  \/ \E w \in Workers : Work(w) \/ Crash(w) \/ \E d \in Docs : Claim(w, d)
  \/ \E d \in Docs : ExpireLease(d) \/ DecideEvidence(d)

\* A running process keeps executing, the poll loop claims what is claimable,
\* and an abandoned lease runs out.  Two transactions that wait for each other
\* are ended by the deadlock detector (RollBack).  Nothing makes a call succeed.
Fairness ==
  /\ \A w \in Workers : WF_vars(Work(w))
  /\ \A d \in Docs : WF_vars(\E w \in Workers : Claim(w, d))
  /\ \A d \in Docs : WF_vars(~Attended(d) /\ ExpireLease(d))

Spec == Init /\ [][Next]_vars
FairSpec == Spec /\ Fairness

-----------------------------------------------------------------------------
(* Properties                                                              *)

\* What the index transaction publishes is a whole admissible parse, scanned
\* SAFE, stored under the clean key and announced, and it is the parse of the
\* worker that indexes -- whatever superseded workers write after losing their
\* lease.  All of it is still current; when a superseded worker has added chunks
\* behind the snapshot of the index transaction, they belong to one admissible
\* parse too and the document is never decided on.
IndexedEvidenceIntact ==
  /\ \A d \in Docs : status[d] = "INDEXED" =>
       /\ manifest[d] \in Admissible
       /\ current[d] \in Admissible /\ manifest[d] \subseteq current[d]
       /\ evidence[d] # "PENDING" => manifest[d] = current[d]
       /\ scanStatus[d] = "SAFE"
       /\ object[d] # Quarantined
       /\ d \in outbox
  /\ \A w \in Workers : pc[w] = "complete" => manifest[task[w]] = parse[w]

\* The object version a document row names is never deleted by a worker, in
\* any order of copies, conditional rebinds, discards and source deletions.
BoundObjectStored == \A d \in Docs : object[d] \in live[d]

\* The two tables tell one story: success is only reported for an indexed
\* document, a dead job leaves no document in flight, and a document only
\* fails with its job.
JobAndDocumentAgree ==
  \A d \in Docs :
    /\ jobStatus[d] = "SUCCEEDED" => status[d] = "INDEXED"
    /\ jobStatus[d] = "DEAD" => status[d] \in {"INDEXED", "FAILED"}
    /\ status[d] = "FAILED" => jobStatus[d] = "DEAD"

\* Every attempt beyond max_attempts is the recovery of a lease that ran out
\* under a slow or dead owner: failures alone never exceed the budget.
RetriesAreLimited ==
  \A d \in Docs : attempts[d] <= MaxAttempts + stalls + crashes

\* No worker, however late, changes a document that is INDEXED or FAILED or a
\* job that is SUCCEEDED or DEAD.
SettledStaysSettled ==
  [][\A d \in Docs :
       /\ status[d] \in {"INDEXED", "FAILED"} =>
            /\ status'[d] = status[d] /\ object'[d] = object[d]
            /\ scanStatus'[d] = scanStatus[d] /\ current'[d] = current[d]
       /\ jobStatus[d] \in {"SUCCEEDED", "DEAD"} =>
            jobStatus'[d] = jobStatus[d]]_vars

\* Every job is eventually finished or given up, however its workers fail.
EveryJobEnds == \A d \in Docs : <>(jobStatus[d] \in {"SUCCEEDED", "DEAD"})

\* The workers implement the evidence ledger.
Ledger == INSTANCE EvidenceLedger WITH
  phase <- [d \in Docs |-> CASE status[d] = "INDEXED" -> "sealed"
                              [] status[d] = "FAILED" -> "refused"
                              [] OTHER -> "ingesting"],
  sealed <- manifest,
  verdict <- evidence
ImplementsLedger == Ledger!LedgerSpec

\* docs/architecture.md:115 "a file that fails processing is marked FAILED and
\* kept out of search": a job given up for dead leaves a FAILED document.
DeadJobMeansFailedDocument ==
  \A d \in Docs : jobStatus[d] = "DEAD" => status[d] = "FAILED"

\* docs/architecture.md:78 "only after chunks, embeddings and the evidence
\* manifest are recorded as a new version": the manifest an indexed document
\* carries is the manifest of its current chunks.
ManifestNamesCurrentChunks ==
  \A d \in Docs : status[d] = "INDEXED" => manifest[d] = current[d]

\* ingestion-service.ts:266 "the immutable clean version is the source of
\* truth": the clean version of an indexed document is not handed to the expiry
\* rule for failed processing.
IndexedObjectRetained ==
  \A d \in Docs : status[d] = "INDEXED" => object[d] \notin condemned[d]
=============================================================================
