-------------------------- MODULE IngestionProofs --------------------------
(***************************************************************************)
(* Proofs about the ingestion worker, for any documents, workers, parses   *)
(* and bounds.  The inductive invariant is the conjunction of TypeOK and   *)
(* of one invariant per concern: IndexInv (what is indexed), ChunkInv (the *)
(* two transactions that write and read chunks, and their row locks),      *)
(* JobInv (jobs against documents) and StoreInv (the object store against  *)
(* the rows that name its versions).  RetryInv, at the end, accounts for   *)
(* every attempt beyond max_attempts.                                      *)
(***************************************************************************)
EXTENDS Ingestion, FiniteSetTheorems, TLAPS

\* Steps at which a worker holds a parse that passed classification.
Classified == {"renew55", "enterParsing", "renew65", "persist", "writing",
               "written", "renew85", "index", "listing", "sealing"}
\* Steps at which a worker knows its clean object version.
Cleaned == {"verify", "promote", "discard", "sweep", "parse", "renew30",
            "classify"} \cup Classified
\* Steps at which a worker answers alone for the copy it made.
Copying == {"verify", "promote", "discard"}

IndexedDocs ==
  \A d \in Docs :
    /\ evidence[d] # "PENDING" => status[d] = "INDEXED" /\ manifest[d] = current[d]
    /\ current[d] = {} \/ current[d] \in Admissible
    /\ status[d] = "INDEXED" =>
         /\ manifest[d] \in Admissible
         /\ current[d] \in Admissible /\ manifest[d] \subseteq current[d]
         /\ scanStatus[d] = "SAFE"
         /\ object[d] # Quarantined
         /\ d \in outbox
IndexingWorkers ==
  \A w \in Workers :
    /\ pc[w] \in {"renew30", "classify"} => parse[w] \in Parses
    /\ pc[w] \in Classified => parse[w] \in Admissible
    /\ pc[w] \in Cleaned => clean[w] # NoClean
    /\ pc[w] \in {"renew85", "index"} \cup Indexing => current[task[w]] # {}
IndexInv == IndexedDocs /\ IndexingWorkers

\* One content for each chunk index.
Functional(chunks) == \A a, b \in chunks : a[1] = b[1] => a = b
ChunkDocs == \A d \in Docs : Functional(rows[d]) /\ current[d] \subseteq rows[d]
\* A worker inside persistChunks is alone with the row of its document, whose
\* state stays as it was when it was locked.
Writers ==
  \A w \in Workers :
    /\ pc[w] \in Writing => WritableChunks(task[w]) /\ DocumentRowFree(w)
    /\ pc[w] = "written" => ~Conflicts(task[w], parse[w])
\* What a worker has persisted stays stored; its index transaction sees a parse,
\* and once the rows are locked, its own.
Readers ==
  \A w \in Workers :
    /\ pc[w] \in {"renew85", "index"} \cup Indexing => parse[w] \subseteq rows[task[w]]
    /\ pc[w] = "listing" => listed[w] \in Admissible /\ listed[w] \subseteq rows[task[w]]
    /\ pc[w] = "sealing" =>
         /\ listed[w] = parse[w] /\ parse[w] \subseteq current[task[w]]
         /\ \A v \in Workers : task[v] = task[w] => pc[v] # "written"
ChunkInv == ChunkDocs /\ Writers /\ Readers

JobOfDocs ==
  \A d \in Docs :
    /\ leaseOwner[d] # NoWorker => jobStatus[d] = "RUNNING"
    /\ jobStatus[d] = "SUCCEEDED" => status[d] = "INDEXED"
    /\ jobStatus[d] = "DEAD" => status[d] \in {"INDEXED", "FAILED"}
    /\ status[d] = "FAILED" => jobStatus[d] = "DEAD"
Completing ==
  \A w \in Workers :
    pc[w] = "complete" => status[task[w]] = "INDEXED" /\ manifest[task[w]] = parse[w]
JobInv == JobOfDocs /\ Completing

StoredDocs ==
  \A d \in Docs : object[d] \in live[d] /\ \A v \in live[d] : v <= copies[d]
CopyingWorkers ==
  \A w \in Workers :
    /\ pc[w] \in Copying =>
         /\ clean[w] \in 1 .. copies[task[w]]
         /\ clean[w] # object[task[w]]
         /\ \A x \in Workers \ {w} :
              pc[x] \in Copying /\ task[x] = task[w] => clean[x] # clean[w]
    /\ pc[w] \in {"verify", "promote"} => clean[w] \in live[task[w]]
    /\ pc[w] \in Copying \cup {"sweep"} => binding[w] = Quarantined
    /\ pc[w] = "sweep" => object[task[w]] # Quarantined
StoreInv == StoredDocs /\ CopyingWorkers

-----------------------------------------------------------------------------
(* Type correctness                                                        *)

LEMMA InitType == Init => TypeOK
  BY BoundsAssumption DEF Init, TypeOK, JobTypes, DocumentTypes, ChunkTypes,
    StoreTypes, MemoryTypes, ControlTypes, BudgetTypes, JobStatuses,
    DocumentStatuses, InFlight, Stages, Quarantined, NoClean, Chunks

\* Every step of every process keeps the types.
LEMMA TypeStep == TypeOK /\ [Next]_vars => TypeOK'
<1> SUFFICES ASSUME TypeOK, [Next]_vars PROVE TypeOK'
  OBVIOUS
<1> USE DEF TypeOK
<1>1. ASSUME NEW w \in Workers, NEW d \in Docs, Claim(w, d) PROVE TypeOK'
  <2>1. JobTypes'
    BY <1>1 DEF Claim, JobTypes, MemoryTypes, JobStatuses
  <2>2. MemoryTypes'
    BY <1>1 DEF Claim, JobTypes, MemoryTypes
  <2>3. DocumentTypes' /\ ChunkTypes' /\ StoreTypes'
    BY <1>1 DEF Claim, docVars, chunkVars, storeVars, DocumentTypes,
      ChunkTypes, StoreTypes
  <2>4. pc' \in [Workers -> Stages]
    BY <1>1 DEF Claim, ControlTypes, Stages
  <2>5. permanent' \in [Workers -> BOOLEAN]
    BY Zenon, <1>1 DEF Claim, ControlTypes
  <2>6. BudgetTypes'
    BY <1>1 DEF Claim, budgetVars, BudgetTypes
  <2> QED BY <2>1, <2>2, <2>3, <2>4, <2>5, <2>6 DEF ControlTypes
<1>2. ASSUME NEW w \in Workers, ReadDocument(w) PROVE TypeOK'
  <2>1. MemoryTypes'
    BY <1>2 DEF ReadDocument, DocumentTypes, MemoryTypes
  <2>2. JobTypes' /\ DocumentTypes' /\ ChunkTypes' /\ StoreTypes'
    BY <1>2 DEF ReadDocument, jobVars, docVars, chunkVars, storeVars,
      JobTypes, DocumentTypes, ChunkTypes, StoreTypes
  <2>3. pc' \in [Workers -> Stages]
    BY <1>2 DEF ReadDocument, Proceed, Throw, ControlTypes, Stages
  <2>4. permanent' \in [Workers -> BOOLEAN]
    BY Zenon, <1>2 DEF ReadDocument, Proceed, Throw, ControlTypes
  <2>5. BudgetTypes'
    BY <1>2 DEF ReadDocument, budgetVars, BudgetTypes
  <2> QED BY <2>1, <2>2, <2>3, <2>4, <2>5 DEF ControlTypes
<1>3. ASSUME NEW w \in Workers, BeginScanning(w) PROVE TypeOK'
  <2>1. DocumentTypes'
    BY <1>3 DEF BeginScanning, DocumentTypes, MemoryTypes, DocumentStatuses,
      InFlight
  <2>2. JobTypes' /\ ChunkTypes' /\ StoreTypes' /\ MemoryTypes'
    BY <1>3 DEF BeginScanning, jobVars, chunkVars, storeVars, localVars,
      JobTypes, ChunkTypes, StoreTypes, MemoryTypes
  <2>3. pc' \in [Workers -> Stages]
    BY <1>3 DEF BeginScanning, Proceed, Throw, ControlTypes, Stages
  <2>4. permanent' \in [Workers -> BOOLEAN]
    BY Zenon, <1>3 DEF BeginScanning, Proceed, Throw, ControlTypes
  <2>5. BudgetTypes'
    BY <1>3 DEF BeginScanning, budgetVars, BudgetTypes
  <2> QED BY <2>1, <2>2, <2>3, <2>4, <2>5 DEF ControlTypes
<1>4. ASSUME NEW w \in Workers, Download(w) PROVE TypeOK'
  <2>1. JobTypes' /\ DocumentTypes' /\ ChunkTypes' /\ StoreTypes' /\ MemoryTypes'
    BY <1>4 DEF Download, jobVars, docVars, chunkVars, storeVars, localVars,
      JobTypes, DocumentTypes, ChunkTypes, StoreTypes, MemoryTypes
  <2>2. pc' \in [Workers -> Stages]
    BY <1>4 DEF Download, Proceed, Throw, ControlTypes, Stages
  <2>3. permanent' \in [Workers -> BOOLEAN]
    BY Zenon, <1>4 DEF Download, Proceed, Throw, ControlTypes
  <2>4. BudgetTypes'
    BY <1>4 DEF Download, budgetVars, BudgetTypes
  <2> QED BY <2>1, <2>2, <2>3, <2>4 DEF ControlTypes
<1>5. ASSUME NEW w \in Workers, RenewLease(w) PROVE TypeOK'
  <2>1. JobTypes'
    BY <1>5 DEF RenewLease, JobTypes, MemoryTypes, JobStatuses
  <2>2. DocumentTypes' /\ ChunkTypes' /\ StoreTypes' /\ MemoryTypes'
    BY <1>5 DEF RenewLease, docVars, chunkVars, storeVars, localVars,
      DocumentTypes, ChunkTypes, StoreTypes, MemoryTypes
  <2>3. pc' \in [Workers -> Stages]
    BY <1>5 DEF RenewLease, Proceed, Throw, ControlTypes, Stages, NextStage
  <2>4. permanent' \in [Workers -> BOOLEAN]
    BY Zenon, <1>5 DEF RenewLease, Proceed, Throw, ControlTypes
  <2>5. BudgetTypes'
    BY <1>5 DEF RenewLease, budgetVars, BudgetTypes
  <2> QED BY <2>1, <2>2, <2>3, <2>4, <2>5 DEF ControlTypes
<1>6. ASSUME NEW w \in Workers, ScanMalware(w) PROVE TypeOK'
  <2>1. StoreTypes'
    <3>1. condemned[task[w]] \cup {binding[w]} \in SUBSET Nat
      BY DEF StoreTypes, MemoryTypes
    <3> QED BY <1>6, <3>1 DEF ScanMalware, StoreTypes
  <2>2. JobTypes' /\ DocumentTypes' /\ ChunkTypes' /\ MemoryTypes'
    BY <1>6 DEF ScanMalware, jobVars, docVars, chunkVars, localVars, JobTypes,
      DocumentTypes, ChunkTypes, MemoryTypes
  <2>3. pc' \in [Workers -> Stages]
    BY <1>6 DEF ScanMalware, Proceed, Throw, ControlTypes, Stages
  <2>4. permanent' \in [Workers -> BOOLEAN]
    BY Zenon, <1>6 DEF ScanMalware, Proceed, Throw, ControlTypes
  <2>5. BudgetTypes'
    BY <1>6 DEF ScanMalware, budgetVars, BudgetTypes
  <2> QED BY <2>1, <2>2, <2>3, <2>4, <2>5 DEF ControlTypes
<1>7. ASSUME NEW w \in Workers, CopyClean(w) PROVE TypeOK'
  <2>1. StoreTypes'
    <3>1. copies[task[w]] + 1 \in Nat
      BY DEF StoreTypes, MemoryTypes
    <3>2. live[task[w]] \cup {copies[task[w]] + 1} \in SUBSET Nat
      BY <3>1 DEF StoreTypes, MemoryTypes
    <3> QED BY <1>7, <3>1, <3>2 DEF CopyClean, StoreTypes
  <2>2. MemoryTypes'
    <3>1. copies[task[w]] + 1 \in Nat /\ binding[w] \in Nat
      BY DEF StoreTypes, MemoryTypes
    <3>2. clean' \in [Workers -> Nat]
      BY <1>7, <3>1 DEF CopyClean, MemoryTypes
    <3> QED BY <1>7, <3>2 DEF CopyClean, MemoryTypes
  <2>3. JobTypes' /\ DocumentTypes' /\ ChunkTypes'
    BY <1>7 DEF CopyClean, jobVars, docVars, chunkVars, JobTypes,
      DocumentTypes, ChunkTypes
  <2>4. pc' \in [Workers -> Stages]
    BY <1>7 DEF CopyClean, Throw, ControlTypes, Stages
  <2>5. permanent' \in [Workers -> BOOLEAN]
    BY Zenon, <1>7 DEF CopyClean, Throw, ControlTypes
  <2>6. BudgetTypes'
    BY <1>7 DEF CopyClean, budgetVars, BudgetTypes
  <2> QED BY <2>1, <2>2, <2>3, <2>4, <2>5, <2>6 DEF ControlTypes
<1>8. ASSUME NEW w \in Workers, VerifyCopy(w) PROVE TypeOK'
  <2>1. StoreTypes'
    <3>1. live[task[w]] \ {clean[w]} \in SUBSET Nat
      BY DEF StoreTypes, MemoryTypes
    <3> QED BY <1>8, <3>1 DEF VerifyCopy, StoreTypes
  <2>2. MemoryTypes'
    <3>1. clean' = clean \/ clean' = [clean EXCEPT ![w] = NoClean]
      BY <1>8 DEF VerifyCopy, Abandon
    <3>2. clean' \in [Workers -> Nat]
      BY <3>1 DEF MemoryTypes, NoClean
    <3> QED BY <1>8, <3>2 DEF VerifyCopy, MemoryTypes
  <2>3. JobTypes' /\ DocumentTypes' /\ ChunkTypes'
    BY <1>8 DEF VerifyCopy, jobVars, docVars, chunkVars, JobTypes,
      DocumentTypes, ChunkTypes
  <2>4. pc' \in [Workers -> Stages]
    BY <1>8 DEF VerifyCopy, Throw, Abandon, ControlTypes, Stages
  <2>5. permanent' \in [Workers -> BOOLEAN]
    BY Zenon, <1>8 DEF VerifyCopy, Throw, Abandon, ControlTypes
  <2>6. BudgetTypes'
    BY <1>8 DEF VerifyCopy, budgetVars, BudgetTypes
  <2> QED BY <2>1, <2>2, <2>3, <2>4, <2>5, <2>6 DEF ControlTypes
<1>9. ASSUME NEW w \in Workers, Promote(w) PROVE TypeOK'
  <2>1. DocumentTypes'
    BY <1>9, ZenonT(60) DEF Promote, DocumentTypes, MemoryTypes, DocumentStatuses,
      InFlight
  <2>2. MemoryTypes'
    <3>1. clean' = clean \/ clean' = [clean EXCEPT ![w] = NoClean]
      BY <1>9 DEF Promote, Abandon
    <3>2. clean' \in [Workers -> Nat]
      BY <3>1 DEF MemoryTypes, NoClean
    <3> QED BY <1>9, <3>2 DEF Promote, MemoryTypes
  <2>3. JobTypes' /\ ChunkTypes' /\ StoreTypes'
    BY <1>9 DEF Promote, jobVars, chunkVars, storeVars, JobTypes, ChunkTypes,
      StoreTypes
  <2>4. pc' \in [Workers -> Stages]
    BY <1>9 DEF Promote, Throw, Abandon, ControlTypes, Stages
  <2>5. permanent' \in [Workers -> BOOLEAN]
    BY Zenon, <1>9 DEF Promote, Throw, Abandon, ControlTypes
  <2>6. BudgetTypes'
    BY <1>9 DEF Promote, budgetVars, BudgetTypes
  <2> QED BY <2>1, <2>2, <2>3, <2>4, <2>5, <2>6 DEF ControlTypes
<1>10. ASSUME NEW w \in Workers, DiscardCopy(w) PROVE TypeOK'
  <2>1. StoreTypes'
    BY <1>10 DEF DiscardCopy, StoreTypes, MemoryTypes
  <2>2. MemoryTypes'
    BY <1>10 DEF DiscardCopy, MemoryTypes, Quarantined, NoClean, Abandon
  <2>3. JobTypes' /\ DocumentTypes' /\ ChunkTypes'
    BY <1>10 DEF DiscardCopy, jobVars, docVars, chunkVars, JobTypes,
      DocumentTypes, ChunkTypes
  <2>4. pc' \in [Workers -> Stages]
    BY <1>10 DEF DiscardCopy, Throw, Abandon, ControlTypes, Stages
  <2>5. permanent' \in [Workers -> BOOLEAN]
    BY Zenon, <1>10 DEF DiscardCopy, Throw, Abandon, ControlTypes
  <2>6. BudgetTypes'
    BY <1>10 DEF DiscardCopy, budgetVars, BudgetTypes
  <2> QED BY <2>1, <2>2, <2>3, <2>4, <2>5, <2>6 DEF ControlTypes
<1>11. ASSUME NEW w \in Workers, SweepSource(w) PROVE TypeOK'
  <2>1. StoreTypes'
    BY <1>11 DEF SweepSource, StoreTypes, MemoryTypes
  <2>2. JobTypes' /\ DocumentTypes' /\ ChunkTypes' /\ MemoryTypes'
    BY <1>11 DEF SweepSource, jobVars, docVars, chunkVars, localVars,
      JobTypes, DocumentTypes, ChunkTypes, MemoryTypes
  <2>3. pc' \in [Workers -> Stages]
    BY <1>11 DEF SweepSource, ControlTypes, Stages
  <2>4. permanent' \in [Workers -> BOOLEAN]
    BY Zenon, <1>11 DEF SweepSource, ControlTypes
  <2>5. BudgetTypes'
    BY <1>11 DEF SweepSource, budgetVars, BudgetTypes
  <2> QED BY <2>1, <2>2, <2>3, <2>4, <2>5 DEF ControlTypes
<1>12. ASSUME NEW w \in Workers, ParseDocument(w) PROVE TypeOK'
  <2>1. MemoryTypes'
    BY <1>12 DEF ParseDocument, MemoryTypes, Quarantined, NoClean
  <2>2. JobTypes' /\ DocumentTypes' /\ ChunkTypes' /\ StoreTypes'
    BY <1>12 DEF ParseDocument, jobVars, docVars, chunkVars, storeVars,
      JobTypes, DocumentTypes, ChunkTypes, StoreTypes
  <2>3. pc' \in [Workers -> Stages]
    BY <1>12 DEF ParseDocument, Proceed, Throw, ControlTypes, Stages
  <2>4. permanent' \in [Workers -> BOOLEAN]
    BY Zenon, <1>12 DEF ParseDocument, Proceed, Throw, ControlTypes
  <2>5. BudgetTypes'
    BY <1>12 DEF ParseDocument, budgetVars, BudgetTypes
  <2> QED BY <2>1, <2>2, <2>3, <2>4, <2>5 DEF ControlTypes
<1>13. ASSUME NEW w \in Workers, RecordScan(w) PROVE TypeOK'
  <2>1. DocumentTypes'
    BY <1>13 DEF RecordScan, DocumentTypes, MemoryTypes, DocumentStatuses,
      InFlight, ScanVerdict
  <2>2. JobTypes' /\ ChunkTypes' /\ StoreTypes' /\ MemoryTypes'
    BY <1>13 DEF RecordScan, jobVars, chunkVars, storeVars, localVars,
      JobTypes, ChunkTypes, StoreTypes, MemoryTypes
  <2>3. pc' \in [Workers -> Stages]
    BY <1>13 DEF RecordScan, Proceed, Throw, ControlTypes, Stages
  <2>4. permanent' \in [Workers -> BOOLEAN]
    BY Zenon, <1>13 DEF RecordScan, Proceed, Throw, ControlTypes
  <2>5. BudgetTypes'
    BY <1>13 DEF RecordScan, budgetVars, BudgetTypes
  <2> QED BY <2>1, <2>2, <2>3, <2>4, <2>5 DEF ControlTypes
<1>14. ASSUME NEW w \in Workers, EnterParsing(w) PROVE TypeOK'
  <2>1. DocumentTypes'
    BY <1>14 DEF EnterParsing, DocumentTypes, MemoryTypes, DocumentStatuses,
      InFlight
  <2>2. JobTypes' /\ ChunkTypes' /\ StoreTypes' /\ MemoryTypes'
    BY <1>14 DEF EnterParsing, jobVars, chunkVars, storeVars, localVars,
      JobTypes, ChunkTypes, StoreTypes, MemoryTypes
  <2>3. pc' \in [Workers -> Stages]
    BY <1>14 DEF EnterParsing, Proceed, Throw, ControlTypes, Stages
  <2>4. permanent' \in [Workers -> BOOLEAN]
    BY Zenon, <1>14 DEF EnterParsing, Proceed, Throw, ControlTypes
  <2>5. BudgetTypes'
    BY <1>14 DEF EnterParsing, budgetVars, BudgetTypes
  <2> QED BY <2>1, <2>2, <2>3, <2>4, <2>5 DEF ControlTypes
<1>15. ASSUME NEW w \in Workers, LockDocument(w) \/ WriteChunks(w) PROVE TypeOK'
  <2>1. JobTypes' /\ DocumentTypes' /\ ChunkTypes' /\ StoreTypes' /\ MemoryTypes'
    BY <1>15 DEF LockDocument, WriteChunks, jobVars, docVars, chunkVars,
      storeVars, localVars, JobTypes, DocumentTypes, ChunkTypes, StoreTypes,
      MemoryTypes
  <2>2. pc' \in [Workers -> Stages]
    BY <1>15 DEF LockDocument, WriteChunks, Throw, ControlTypes, Stages
  <2>3. permanent' \in [Workers -> BOOLEAN]
    BY Zenon, <1>15 DEF LockDocument, WriteChunks, Throw, ControlTypes
  <2>4. BudgetTypes'
    BY <1>15 DEF LockDocument, WriteChunks, budgetVars, BudgetTypes
  <2> QED BY <2>1, <2>2, <2>3, <2>4 DEF ControlTypes
<1>16. ASSUME NEW w \in Workers, CommitChunks(w) PROVE TypeOK'
  <2>1. ChunkTypes'
    <3>1. parse[w] \in SUBSET Chunks
      BY DEF MemoryTypes, Chunks
    <3>2. task[w] \in Docs /\ rows[task[w]] \cup parse[w] \in SUBSET Chunks
      BY <3>1 DEF ChunkTypes, MemoryTypes
    <3> QED BY <1>16, <3>1, <3>2 DEF CommitChunks, ChunkTypes
  <2>2. JobTypes' /\ DocumentTypes' /\ StoreTypes' /\ MemoryTypes'
    BY <1>16 DEF CommitChunks, jobVars, docVars, storeVars, localVars,
      JobTypes, DocumentTypes, StoreTypes, MemoryTypes
  <2>3. pc' \in [Workers -> Stages]
    BY <1>16 DEF CommitChunks, Proceed, ControlTypes, Stages
  <2>4. permanent' \in [Workers -> BOOLEAN]
    BY Zenon, <1>16 DEF CommitChunks, Proceed, ControlTypes
  <2>5. BudgetTypes'
    BY <1>16 DEF CommitChunks, budgetVars, BudgetTypes
  <2> QED BY <2>1, <2>2, <2>3, <2>4, <2>5 DEF ControlTypes
<1>17. ASSUME NEW w \in Workers, OpenIndex(w) \/ LockChunks(w) \/ RollBack(w) PROVE TypeOK'
  <2>1. MemoryTypes'
    <3>1. \E l \in SUBSET Chunks : listed' = [listed EXCEPT ![w] = l] \/ listed' = listed
      <4>1. current[task[w]] \in SUBSET Chunks
        BY DEF ChunkTypes, MemoryTypes
      <4>2. listed[w] \cap current[task[w]] \in SUBSET Chunks /\ {} \in SUBSET Chunks
        BY <4>1
      <4> QED BY <1>17, <4>1, <4>2 DEF OpenIndex, LockChunks, RollBack
    <3>2. listed' \in [Workers -> SUBSET Chunks]
      BY <3>1 DEF MemoryTypes
    <3>3. UNCHANGED <<task, tries, binding, clean, parse>>
      BY <1>17 DEF OpenIndex, LockChunks, RollBack
    <3> QED BY <3>2, <3>3 DEF MemoryTypes
  <2>2. JobTypes' /\ DocumentTypes' /\ ChunkTypes' /\ StoreTypes'
    BY <1>17 DEF OpenIndex, LockChunks, RollBack, jobVars, docVars, chunkVars,
      storeVars, JobTypes, DocumentTypes, ChunkTypes, StoreTypes
  <2>3. pc' \in [Workers -> Stages]
    BY <1>17 DEF OpenIndex, LockChunks, RollBack, Throw, ControlTypes, Stages
  <2>4. permanent' \in [Workers -> BOOLEAN]
    BY Zenon, <1>17 DEF OpenIndex, LockChunks, RollBack, Throw, ControlTypes
  <2>5. BudgetTypes'
    BY <1>17 DEF OpenIndex, LockChunks, RollBack, budgetVars, BudgetTypes
  <2> QED BY <2>1, <2>2, <2>3, <2>4, <2>5 DEF ControlTypes
<1>18. ASSUME NEW w \in Workers, IndexDocument(w) PROVE TypeOK'
  <2>1. DocumentTypes'
    <3>1. task[w] \in Docs /\ listed[w] \in SUBSET Chunks
      BY DEF MemoryTypes
    <3>2. status' \in [Docs -> DocumentStatuses]
      BY <1>18, <3>1 DEF IndexDocument, DocumentTypes, DocumentStatuses
    <3>3. manifest' \in [Docs -> SUBSET Chunks]
      BY <1>18, <3>1 DEF IndexDocument, DocumentTypes
    <3> QED BY <1>18, <3>2, <3>3 DEF IndexDocument, DocumentTypes
  <2>2. ChunkTypes'
    <3>1. UNCHANGED <<rows, current>> /\ outbox' \subseteq outbox \cup {task[w]}
      BY <1>18 DEF IndexDocument, chunkVars
    <3>2. task[w] \in Docs
      BY DEF MemoryTypes
    <3> QED BY <3>1, <3>2 DEF ChunkTypes
  <2>3. JobTypes' /\ StoreTypes' /\ MemoryTypes'
    BY <1>18 DEF IndexDocument, jobVars, storeVars, JobTypes, StoreTypes,
      MemoryTypes
  <2>4. pc' \in [Workers -> Stages]
    BY <1>18 DEF IndexDocument, Proceed, Throw, ControlTypes, Stages
  <2>5. permanent' \in [Workers -> BOOLEAN]
    BY Zenon, <1>18 DEF IndexDocument, Proceed, Throw, ControlTypes
  <2>6. BudgetTypes'
    BY <1>18 DEF IndexDocument, budgetVars, BudgetTypes
  <2> QED BY <2>1, <2>2, <2>3, <2>4, <2>5, <2>6 DEF ControlTypes
<1>19. ASSUME NEW w \in Workers, CompleteJob(w) PROVE TypeOK'
  <2>1. JobTypes'
    <3>1. jobStatus' \in [Docs -> JobStatuses]
      BY <1>19 DEF CompleteJob, JobTypes, JobStatuses
    <3>2. leaseOwner' \in [Docs -> Workers \cup {NoWorker}]
      BY <1>19 DEF CompleteJob, JobTypes
    <3>3. leaseExpired' \in [Docs -> BOOLEAN]
      BY Zenon, <1>19 DEF CompleteJob, JobTypes
    <3> QED BY <1>19, <3>1, <3>2, <3>3 DEF CompleteJob, JobTypes
  <2>2. MemoryTypes'
    <3>1. CASE Leave(w)
      BY <3>1 DEF Leave, MemoryTypes, Quarantined, NoClean
    <3>2. CASE Abandon(w, FALSE) /\ UNCHANGED <<task, tries, binding, parse, listed>>
      BY <3>2 DEF Abandon, MemoryTypes, NoClean
    <3> QED BY <1>19, <3>1, <3>2 DEF CompleteJob
  <2>3. DocumentTypes' /\ ChunkTypes' /\ StoreTypes'
    BY <1>19 DEF CompleteJob, docVars, chunkVars, storeVars, DocumentTypes,
      ChunkTypes, StoreTypes
  <2>4. pc' \in [Workers -> Stages]
    BY <1>19 DEF CompleteJob, Throw, Abandon, Leave, ControlTypes, Stages
  <2>5. permanent' \in [Workers -> BOOLEAN]
    BY Zenon, <1>19 DEF CompleteJob, Throw, Abandon, Leave, ControlTypes
  <2>6. BudgetTypes'
    BY <1>19 DEF CompleteJob, budgetVars, BudgetTypes
  <2> QED BY <2>1, <2>2, <2>3, <2>4, <2>5, <2>6 DEF ControlTypes
<1>20. ASSUME NEW w \in Workers, FailJob(w) PROVE TypeOK'
  <2>1. JobTypes'
    BY <1>20 DEF FailJob, JobTypes, MemoryTypes, JobStatuses
  <2>2. DocumentTypes'
    BY <1>20 DEF FailJob, DocumentTypes, MemoryTypes, DocumentStatuses,
      InFlight
  <2>3. MemoryTypes'
    BY <1>20 DEF FailJob, MemoryTypes, Quarantined, NoClean, Leave, localVars
  <2>4. ChunkTypes' /\ StoreTypes'
    BY <1>20 DEF FailJob, chunkVars, storeVars, ChunkTypes, StoreTypes
  <2>5. pc' \in [Workers -> Stages]
    BY <1>20 DEF FailJob, Leave, ControlTypes, Stages
  <2>6. permanent' \in [Workers -> BOOLEAN]
    BY Zenon, <1>20 DEF FailJob, Leave, ControlTypes
  <2>7. BudgetTypes'
    BY <1>20 DEF FailJob, budgetVars, BudgetTypes
  <2> QED BY <2>1, <2>2, <2>3, <2>4, <2>5, <2>6, <2>7 DEF ControlTypes
<1>21. ASSUME NEW w \in Workers, TagFailed(w) PROVE TypeOK'
  <2>1. StoreTypes'
    BY <1>21 DEF TagFailed, StoreTypes, MemoryTypes
  <2>2. MemoryTypes'
    BY <1>21 DEF TagFailed, MemoryTypes, Quarantined, NoClean, Leave
  <2>3. JobTypes' /\ DocumentTypes' /\ ChunkTypes'
    BY <1>21 DEF TagFailed, jobVars, docVars, chunkVars, JobTypes,
      DocumentTypes, ChunkTypes
  <2>4. pc' \in [Workers -> Stages]
    BY <1>21 DEF TagFailed, Leave, ControlTypes, Stages
  <2>5. permanent' \in [Workers -> BOOLEAN]
    BY Zenon, <1>21 DEF TagFailed, Leave, ControlTypes
  <2>6. BudgetTypes'
    BY <1>21 DEF TagFailed, budgetVars, BudgetTypes
  <2> QED BY <2>1, <2>2, <2>3, <2>4, <2>5, <2>6 DEF ControlTypes
<1>22. ASSUME NEW w \in Workers, Crash(w) PROVE TypeOK'
  <2>1. MemoryTypes'
    BY <1>22 DEF Crash, MemoryTypes, Quarantined, NoClean, Leave
  <2>2. JobTypes' /\ DocumentTypes' /\ ChunkTypes' /\ StoreTypes'
    BY <1>22 DEF Crash, jobVars, docVars, chunkVars, storeVars, JobTypes,
      DocumentTypes, ChunkTypes, StoreTypes
  <2>3. pc' \in [Workers -> Stages]
    BY <1>22 DEF Crash, Leave, ControlTypes, Stages
  <2>4. permanent' \in [Workers -> BOOLEAN]
    BY Zenon, <1>22 DEF Crash, Leave, ControlTypes
  <2>5. BudgetTypes'
    BY <1>22, BoundsAssumption DEF Crash, budgetVars, BudgetTypes
  <2> QED BY <2>1, <2>2, <2>3, <2>4, <2>5 DEF ControlTypes
<1>23. ASSUME NEW d \in Docs, ExpireLease(d) PROVE TypeOK'
  <2>1. JobTypes'
    BY <1>23 DEF ExpireLease, JobTypes, JobStatuses
  <2>2. DocumentTypes' /\ ChunkTypes' /\ StoreTypes' /\ MemoryTypes'
    BY <1>23 DEF ExpireLease, docVars, chunkVars, storeVars, localVars,
      DocumentTypes, ChunkTypes, StoreTypes, MemoryTypes
  <2>3. pc' \in [Workers -> Stages]
    BY <1>23 DEF ExpireLease, ControlTypes, Stages
  <2>4. permanent' \in [Workers -> BOOLEAN]
    BY Zenon, <1>23 DEF ExpireLease, ControlTypes
  <2>5. BudgetTypes'
    BY <1>23, BoundsAssumption DEF ExpireLease, budgetVars, BudgetTypes
  <2> QED BY <2>1, <2>2, <2>3, <2>4, <2>5 DEF ControlTypes
<1>24. ASSUME NEW d \in Docs, DecideEvidence(d) PROVE TypeOK'
  <2>1. DocumentTypes'
    BY <1>24 DEF DecideEvidence, DocumentTypes, DocumentStatuses, InFlight
  <2>2. JobTypes' /\ ChunkTypes' /\ StoreTypes' /\ MemoryTypes'
    BY <1>24 DEF DecideEvidence, jobVars, chunkVars, storeVars, localVars,
      JobTypes, ChunkTypes, StoreTypes, MemoryTypes
  <2>3. pc' \in [Workers -> Stages]
    BY <1>24 DEF DecideEvidence, ControlTypes, Stages
  <2>4. permanent' \in [Workers -> BOOLEAN]
    BY Zenon, <1>24 DEF DecideEvidence, ControlTypes
  <2>5. BudgetTypes'
    BY <1>24 DEF DecideEvidence, budgetVars, BudgetTypes
  <2> QED BY <2>1, <2>2, <2>3, <2>4, <2>5 DEF ControlTypes
<1>25. CASE UNCHANGED vars
  BY <1>25 DEF vars, jobVars, docVars, chunkVars, storeVars, localVars, budgetVars,
    JobTypes, DocumentTypes, ChunkTypes, StoreTypes, MemoryTypes, ControlTypes,
    BudgetTypes
<1> HIDE DEF TypeOK
<1> QED
  BY <1>1, <1>2, <1>3, <1>4, <1>5, <1>6, <1>7, <1>8, <1>9, <1>10, <1>11,
    <1>12, <1>13, <1>14, <1>15, <1>16, <1>17, <1>18, <1>19, <1>20, <1>21,
    <1>22, <1>23, <1>24, <1>25
     DEF Next, Work, Prepare, Publish

\* Every variable keeps its type in every reachable state of the worker model.
THEOREM TypeCorrect == Spec => []TypeOK
  BY InitType, TypeStep, PTL DEF Spec
-----------------------------------------------------------------------------
(* The transactions that write and read chunks                             *)

\* Two parses whose chunks are stored together: the shorter one begins the
\* longer one.
LEMMA ParsesAreComparable ==
  ASSUME NEW stored, Functional(stored),
         NEW p, IsParse(p), p \subseteq stored,
         NEW q, IsParse(q), q \subseteq stored
  PROVE  p \subseteq q \/ q \subseteq p
<1> SUFFICES ASSUME NEW c \in p, c \notin q, NEW e \in q PROVE e \in p
  OBVIOUS
<1>1. c[1] \in Nat /\ e[1] \in Nat
  BY DEF IsParse
<1>2. CASE e[1] <= c[1]
  <2>1. PICK f \in p : f[1] = e[1]
    BY <1>1, <1>2 DEF IsParse
  <2> QED BY <2>1 DEF Functional
<1>3. CASE c[1] <= e[1]
  <2>1. PICK f \in q : f[1] = c[1]
    BY <1>1, <1>3 DEF IsParse
  <2>2. f = c
    BY <2>1 DEF Functional
  <2> QED BY <2>2
<1> QED BY <1>1, <1>2, <1>3

LEMMA SameSize ==
  ASSUME NEW p, NEW q, IsFiniteSet(p), IsFiniteSet(q), p \subseteq q \/ q \subseteq p,
         Cardinality(p) = Cardinality(q)
  PROVE  p = q
<1>1. CASE p \subseteq q
  BY <1>1, FS_Subset
<1>2. CASE q \subseteq p
  BY <1>2, FS_Subset
<1> QED BY <1>1, <1>2

\* Counting is enough: the locked rows are as many as the chunks of the worker
\* only when they are its chunks.
LEMMA LockedIsParse ==
  ASSUME TypeOK, IndexInv, ChunkInv, NEW w \in Workers, pc[w] = "listing",
         Cardinality(listed[w] \cap current[task[w]]) = Cardinality(parse[w])
  PROVE  listed[w] \cap current[task[w]] = parse[w]
<1> DEFINE stored == rows[task[w]]
           now == current[task[w]]
<1>1. Functional(stored) /\ now \subseteq stored
  BY DEF ChunkInv, ChunkDocs, TypeOK, MemoryTypes
<1>2. IsParse(listed[w]) /\ listed[w] \subseteq stored
  BY ParsesAssumption DEF ChunkInv, Readers, Admissible
<1>3. IsParse(parse[w]) /\ parse[w] \subseteq stored
  BY ParsesAssumption DEF ChunkInv, Readers, Indexing, IndexInv, IndexingWorkers,
    Classified, Admissible
<1>4. IsParse(now)
  BY ParsesAssumption DEF IndexInv, IndexedDocs, IndexingWorkers, Indexing, Admissible,
    TypeOK, MemoryTypes
<1> HIDE DEF stored, now
<1>5. listed[w] \subseteq now \/ now \subseteq listed[w]
  BY <1>1, <1>2, <1>4, ParsesAreComparable
<1>6. PICK locked : locked = listed[w] \cap now
  OBVIOUS
<1>7. IsParse(locked) /\ locked \subseteq stored
  <2>1. locked = listed[w] \/ locked = now
    BY <1>5, <1>6
  <2> QED BY <1>1, <1>2, <1>4, <2>1
<1>8. locked \subseteq parse[w] \/ parse[w] \subseteq locked
  BY <1>1, <1>3, <1>7, ParsesAreComparable
<1>9. Cardinality(locked) = Cardinality(parse[w])
  BY <1>6 DEF now
<1>10. locked = parse[w]
  BY <1>3, <1>7, <1>8, <1>9, SameSize DEF IsParse
<1> QED BY <1>6, <1>10 DEF now

\* A step of w outside of the two transactions, or one that leaves them: it
\* changes no chunk and no document whose row another worker holds.
Aside(w) ==
  /\ UNCHANGED <<rows, current>>
  /\ \A v \in Workers \ {w} : /\ pc'[v] = pc[v] /\ task'[v] = task[v]
                              /\ parse'[v] = parse[v] /\ listed'[v] = listed[v]
  /\ pc'[w] \notin Writing \cup Indexing
  /\ pc'[w] \in {"renew85", "index"} =>
       pc[w] = "renew85" /\ task'[w] = task[w] /\ parse'[w] = parse[w]
  /\ \A v \in Workers \ {w} :
       pc[v] \in Writing /\ WritableChunks(task[v]) => WritableChunks(task[v])'

LEMMA AsideStep ==
  ASSUME TypeOK, ChunkInv, NEW w \in Workers, Aside(w)
  PROVE  ChunkInv'
<1>1. ChunkDocs'
  BY DEF Aside, ChunkInv, ChunkDocs
<1>2. Writers'
  <2> SUFFICES ASSUME NEW v \in Workers, pc'[v] \in Writing
               PROVE  /\ WritableChunks(task[v])' /\ DocumentRowFree(v)'
                      /\ pc'[v] = "written" => ~Conflicts(task[v], parse[v])'
    BY DEF Writers, Writing
  <2>1. v # w /\ pc[v] \in Writing
    BY DEF Aside
  <2>2. WritableChunks(task[v])'
    BY <2>1 DEF Aside, ChunkInv, Writers
  <2>3. DocumentRowFree(v)'
    BY <2>1 DEF Aside, ChunkInv, Writers, DocumentRowFree
  <2>4. pc'[v] = "written" => ~Conflicts(task[v], parse[v])'
    BY <2>1 DEF Aside, ChunkInv, Writers, Conflicts
  <2> QED BY <2>2, <2>3, <2>4
<1>3. Readers'
  BY DEF Aside, ChunkInv, Readers, Writing, Indexing
<1> QED BY <1>1, <1>2, <1>3 DEF ChunkInv

\* A step after which every worker is where it was, with what it knew, and the
\* chunks and the documents that may be written are the same.
LEMMA StillStep ==
  ASSUME TypeOK, ChunkInv, UNCHANGED <<rows, current, pc, task, parse, listed>>,
         \A d \in Docs : WritableChunks(d) => WritableChunks(d)'
  PROVE  ChunkInv'
<1>1. ChunkDocs'
  BY DEF ChunkInv, ChunkDocs
<1>2. Writers'
  BY DEF ChunkInv, Writers, DocumentRowFree, Conflicts, TypeOK, MemoryTypes
<1>3. Readers'
  BY DEF ChunkInv, Readers
<1> QED BY <1>1, <1>2, <1>3 DEF ChunkInv

\* A worker that fails or ends its attempt does so aside.
LEMMA ThrowIsAside ==
  ASSUME TypeOK, NEW w \in Workers, NEW isPermanent, Throw(w, isPermanent),
         UNCHANGED <<rows, current, status, evidence, scanStatus, task, parse>>,
         listed' = listed \/ listed' = [listed EXCEPT ![w] = {}]
  PROVE  Aside(w)
  BY DEF Aside, Throw, TypeOK, ControlTypes, MemoryTypes, Writing, Indexing, WritableChunks

\* Reading, copying, parsing and the end of an attempt leave the documents alone.
LEMMA LocalIsAside ==
  ASSUME TypeOK, NEW w \in Workers,
         \/ RenewLease(w) \/ ReadDocument(w) \/ Download(w) \/ ScanMalware(w)
         \/ CopyClean(w) \/ VerifyCopy(w) \/ DiscardCopy(w) \/ SweepSource(w)
         \/ ParseDocument(w) \/ CompleteJob(w) \/ TagFailed(w) \/ RollBack(w) \/ Crash(w)
  PROVE  Aside(w)
<1> USE DEF TypeOK, ControlTypes, Writing, Indexing, docVars, chunkVars, localVars
<1> DEFINE Kept == /\ UNCHANGED <<rows, current, status, evidence, scanStatus, task>>
                   /\ \A v \in Workers \ {w} : /\ pc'[v] = pc[v] /\ parse'[v] = parse[v]
                                               /\ listed'[v] = listed[v]
                   /\ pc'[w] \notin Writing \cup Indexing
                   /\ pc'[w] \in {"renew85", "index"} => pc[w] = "renew85" /\ parse' = parse
<1>1. ASSUME RenewLease(w) PROVE Kept
  <2>1. pc'[w] \notin Writing \cup Indexing /\ (pc'[w] \in {"renew85", "index"} => pc[w] = "renew85")
    BY <1>1 DEF RenewLease, NextStage, Proceed, Throw
  <2> QED BY <1>1, <2>1 DEF RenewLease, Proceed, Throw
<1>2. ASSUME ReadDocument(w) \/ Download(w) \/ ScanMalware(w) PROVE Kept
  BY <1>2 DEF ReadDocument, Download, ScanMalware, Proceed, Throw
<1>3. ASSUME CopyClean(w) \/ VerifyCopy(w) PROVE Kept
  BY <1>3 DEF CopyClean, VerifyCopy, Throw, Abandon
<1>4. ASSUME DiscardCopy(w) \/ SweepSource(w) PROVE Kept
  BY <1>4 DEF DiscardCopy, SweepSource, Throw, Abandon
<1>5. ASSUME ParseDocument(w) PROVE Kept
  BY <1>5 DEF ParseDocument, Proceed, Throw, MemoryTypes
<1>6. ASSUME CompleteJob(w) PROVE Kept
  BY <1>6 DEF CompleteJob, Leave, Throw, Abandon, MemoryTypes
<1>7. ASSUME TagFailed(w) \/ Crash(w) PROVE Kept
  BY <1>7 DEF TagFailed, Crash, Leave, MemoryTypes
<1>8. ASSUME RollBack(w) PROVE Kept
  BY <1>8 DEF RollBack, Throw, MemoryTypes
<1>9. Kept
  BY <1>1, <1>2, <1>3, <1>4, <1>5, <1>6, <1>7, <1>8
<1> QED BY <1>9 DEF Aside, WritableChunks

\* A worker that updates a document either finds its row free or finds another
\* state than the one chunks are written in.
LEMMA UpdateIsAside ==
  ASSUME TypeOK, NEW w \in Workers,
         \/ BeginScanning(w) \/ Promote(w) \/ RecordScan(w) \/ EnterParsing(w)
         \/ IndexDocument(w) \/ FailJob(w)
  PROVE  Aside(w)
<1> USE DEF TypeOK, ControlTypes, Writing, Indexing, docVars, chunkVars, localVars
<1>1. /\ UNCHANGED <<rows, current, task>>
      /\ \A v \in Workers \ {w} : /\ pc'[v] = pc[v] /\ parse'[v] = parse[v]
                                  /\ listed'[v] = listed[v]
      /\ pc'[w] \notin Writing \cup Indexing \cup {"renew85", "index"}
  <2>1. CASE BeginScanning(w) \/ Promote(w) \/ RecordScan(w) \/ EnterParsing(w)
    BY <2>1 DEF BeginScanning, Promote, RecordScan, EnterParsing, Proceed, Throw, Abandon
  <2>2. CASE IndexDocument(w)
    BY <2>2 DEF IndexDocument, Proceed, Throw, MemoryTypes
  <2>3. CASE FailJob(w)
    BY <2>3 DEF FailJob, Leave, MemoryTypes
  <2> QED BY <2>1, <2>2, <2>3
<1>2. ASSUME NEW v \in Workers \ {w}, pc[v] \in Writing, WritableChunks(task[v])
      PROVE  WritableChunks(task[v])'
  <2> PICK d \in Docs : d = task[v]
    BY DEF MemoryTypes
  <2>1. task[w] = d => ~DocumentRowFree(w)
    BY <1>2 DEF DocumentRowFree
  <2>2. UNCHANGED <<status[d], evidence[d], scanStatus[d]>>
    <3>1. CASE BeginScanning(w) \/ IndexDocument(w) \/ FailJob(w)
      BY <2>1, <3>1 DEF BeginScanning, IndexDocument, FailJob, DocumentTypes, MemoryTypes
    <3>2. CASE Promote(w) \/ RecordScan(w) \/ EnterParsing(w)
      BY <1>2, <3>2 DEF Promote, Promotable, RecordScan, EnterParsing, DocumentTypes,
        MemoryTypes, WritableChunks
    <3> QED BY <3>1, <3>2
  <2> QED BY <1>1, <1>2, <2>2 DEF WritableChunks
<1> QED BY <1>1, <1>2 DEF Aside

\* Writers exclude each other and the last step of the index transaction; what a
\* reader counts on stays stored.
LEMMA ChunkStep == TypeOK /\ IndexInv /\ ChunkInv /\ [Next]_vars => ChunkInv'
<1> SUFFICES ASSUME TypeOK, IndexInv, ChunkInv, [Next]_vars PROVE ChunkInv'
  OBVIOUS
<1>1. ASSUME NEW w \in Workers, NEW d \in Docs, Claim(w, d) PROVE ChunkInv'
  <2>1. Aside(w)
    BY <1>1 DEF Claim, docVars, chunkVars, Aside, TypeOK, ControlTypes, MemoryTypes,
      Writing, Indexing, WritableChunks
  <2> QED BY <2>1, AsideStep
<1>2. ASSUME NEW w \in Workers, RenewLease(w) \/ Prepare(w) \/ TagFailed(w) \/ FailJob(w) \/ Crash(w)
      PROVE  ChunkInv'
  <2>1. Aside(w)
    BY <1>2, LocalIsAside, UpdateIsAside DEF Prepare
  <2> QED BY <2>1, AsideStep
<1>3. ASSUME NEW w \in Workers,
             \/ ParseDocument(w) \/ RecordScan(w) \/ EnterParsing(w)
             \/ IndexDocument(w) \/ RollBack(w) \/ CompleteJob(w)
      PROVE  ChunkInv'
  <2>1. Aside(w)
    BY <1>3, LocalIsAside, UpdateIsAside
  <2> QED BY <2>1, AsideStep
<1>4. ASSUME NEW w \in Workers, LockDocument(w) PROVE ChunkInv'
  <2>1. CASE Throw(w, TRUE)
    <3>1. Aside(w)
      BY <1>4, <2>1, ThrowIsAside DEF LockDocument, docVars, chunkVars, localVars
    <3> QED BY <3>1, AsideStep
  <2>2. CASE WritableChunks(task[w]) /\ pc' = [pc EXCEPT ![w] = "writing"]
    <3> USE <1>4, <2>2 DEF LockDocument, docVars, chunkVars, localVars, ChunkInv, TypeOK, ControlTypes
    <3>1. ChunkDocs'
      BY DEF ChunkDocs
    <3>2. Writers'
      BY DEF Writers, Writing, DocumentRowFree, WritableChunks, Conflicts
    <3>3. Readers'
      BY DEF Readers, Indexing
    <3> QED BY <3>1, <3>2, <3>3
  <2> QED BY <1>4, <2>1, <2>2 DEF LockDocument
<1>5. ASSUME NEW w \in Workers, WriteChunks(w) PROVE ChunkInv'
  <2>1. CASE Throw(w, TRUE)
    <3>1. Aside(w)
      BY <1>5, <2>1, ThrowIsAside DEF WriteChunks, docVars, chunkVars, localVars
    <3> QED BY <3>1, AsideStep
  <2>2. CASE ~Conflicts(task[w], parse[w]) /\ pc' = [pc EXCEPT ![w] = "written"]
    <3> USE <1>5, <2>2 DEF WriteChunks, docVars, chunkVars, localVars, ChunkInv, TypeOK, ControlTypes
    <3>1. ChunkDocs'
      BY DEF ChunkDocs
    <3>2. Writers'
      BY DEF Writers, Writing, DocumentRowFree, WritableChunks, Conflicts
    <3>3. Readers'
      BY DEF Readers, Indexing
    <3> QED BY <3>1, <3>2, <3>3
  <2> QED BY <1>5, <2>1, <2>2 DEF WriteChunks
<1>6. ASSUME NEW w \in Workers, CommitChunks(w) PROVE ChunkInv'
  <2> DEFINE d == task[w]
  <2>1. /\ pc[w] = "written" /\ d \in Docs
        /\ rows' = [rows EXCEPT ![d] = @ \cup parse[w]]
        /\ current' = [current EXCEPT ![d] = parse[w]]
        /\ \E stage \in {"renew85", "failing"} : pc' = [pc EXCEPT ![w] = stage]
        /\ UNCHANGED <<task, parse, listed, status, evidence, scanStatus>>
    BY <1>6 DEF CommitChunks, Proceed, docVars, localVars, TypeOK, MemoryTypes
  <2>2. IsParse(parse[w])
    BY <2>1, ParsesAssumption DEF IndexInv, IndexingWorkers, Classified, Admissible
  <2>3. DocumentRowFree(w) /\ ~Conflicts(d, parse[w])
    BY <2>1 DEF ChunkInv, Writers, Writing
  <2>4. Functional(rows[d] \cup parse[w])
    <3>1. \A c \in rows[d] \cup parse[w] : c = <<c[1], c[2]>>
      <4>1. \A c \in Chunks : c = <<c[1], c[2]>>
        BY ParsesAssumption DEF Chunks, IsParse
      <4>2. rows[d] \subseteq Chunks /\ parse[w] \subseteq Chunks
        BY <2>1 DEF TypeOK, ChunkTypes, MemoryTypes, Chunks
      <4> QED BY <4>1, <4>2
    <3>2. \A r \in rows[d], c \in parse[w] : r[1] = c[1] => r = c
      BY <2>3, <3>1 DEF Conflicts
    <3>3. \A a, b \in parse[w] : a[1] = b[1] => a = b
      BY <2>2 DEF IsParse
    <3>4. \A a, b \in rows[d] : a[1] = b[1] => a = b
      BY <2>1 DEF ChunkInv, ChunkDocs, Functional
    <3> QED BY <3>2, <3>3, <3>4 DEF Functional
  <2>5. rows'[d] = rows[d] \cup parse[w] /\ current'[d] = parse[w]
    BY <2>1 DEF TypeOK, ChunkTypes
  <2>6. \A x \in Docs \ {d} : rows'[x] = rows[x] /\ current'[x] = current[x]
    BY <2>1 DEF TypeOK, ChunkTypes
  <2>7. ChunkDocs'
    BY <2>4, <2>5, <2>6 DEF ChunkInv, ChunkDocs
  <2>8. \A v \in Workers \ {w} : pc'[v] = pc[v]
    BY <2>1 DEF TypeOK, ControlTypes
  <2>9. pc'[w] \in {"renew85", "failing"}
    BY <2>1 DEF TypeOK, ControlTypes
  <2> HIDE DEF d
  <2>10. Writers'
    <3> SUFFICES ASSUME NEW v \in Workers, pc'[v] \in Writing
                 PROVE  /\ WritableChunks(task[v])' /\ DocumentRowFree(v)'
                        /\ pc'[v] = "written" => ~Conflicts(task[v], parse[v])'
      BY DEF Writers, Writing
    <3>1. v # w /\ pc[v] \in Writing
      BY <2>8, <2>9 DEF Writing
    <3>2. task[v] # d /\ task[v] \in Docs
      BY <2>3, <3>1 DEF DocumentRowFree, d, TypeOK, MemoryTypes
    <3>3. WritableChunks(task[v])'
      BY <2>1, <3>1 DEF ChunkInv, Writers, WritableChunks
    <3>4. DocumentRowFree(v)'
      BY <2>1, <2>8, <2>9, <3>1 DEF ChunkInv, Writers, DocumentRowFree, Writing
    <3>5. pc'[v] = "written" => ~Conflicts(task[v], parse[v])'
      BY <2>1, <2>6, <2>8, <3>1, <3>2 DEF ChunkInv, Writers, Conflicts
    <3> QED BY <3>3, <3>4, <3>5
  <2>11. \A x \in Docs : rows[x] \subseteq rows'[x]
    BY <2>5, <2>6
  <2>12. Readers'
    <3> SUFFICES ASSUME NEW v \in Workers
                 PROVE  /\ pc'[v] \in {"renew85", "index"} \cup Indexing =>
                             parse'[v] \subseteq rows'[task'[v]]
                        /\ pc'[v] = "listing" =>
                             listed'[v] \in Admissible /\ listed'[v] \subseteq rows'[task'[v]]
                        /\ pc'[v] = "sealing" =>
                             /\ listed'[v] = parse'[v] /\ parse'[v] \subseteq current'[task'[v]]
                             /\ \A x \in Workers : task'[x] = task'[v] => pc'[x] # "written"
      BY DEF Readers
    <3>1. CASE v = w
      BY <2>1, <2>5, <2>9, <3>1 DEF Indexing, d
    <3>2. CASE v # w
      <4>1. task[v] \in Docs
        BY DEF TypeOK, MemoryTypes
      <4>2. pc[v] = "sealing" => task[v] # d
        BY <2>1 DEF ChunkInv, Readers, d
      <4> QED BY <2>1, <2>6, <2>8, <2>9, <2>11, <3>2, <4>1, <4>2 DEF ChunkInv, Readers
    <3> QED BY <3>1, <3>2
  <2> QED BY <2>7, <2>10, <2>12 DEF ChunkInv
<1>7. ASSUME NEW w \in Workers, OpenIndex(w) PROVE ChunkInv'
  <2>1. CASE Throw(w, FALSE) /\ UNCHANGED listed
    <3>1. Aside(w)
      BY <1>7, <2>1, ThrowIsAside DEF OpenIndex, docVars, chunkVars
    <3> QED BY <3>1, AsideStep
  <2>2. CASE listed' = [listed EXCEPT ![w] = current[task[w]]] /\ pc' = [pc EXCEPT ![w] = "listing"]
    <3>1. /\ current[task[w]] \in Admissible /\ current[task[w]] \subseteq rows[task[w]]
          /\ pc[w] = "index"
      BY <1>7 DEF OpenIndex, IndexInv, IndexedDocs, IndexingWorkers, ChunkInv, ChunkDocs,
        TypeOK, MemoryTypes
    <3> USE <1>7, <2>2, <3>1 DEF OpenIndex, docVars, chunkVars, ChunkInv, TypeOK, ControlTypes,
          MemoryTypes
    <3>2. ChunkDocs'
      BY DEF ChunkDocs
    <3>3. Writers'
      BY DEF Writers, Writing, DocumentRowFree, WritableChunks, Conflicts
    <3>4. Readers'
      BY DEF Readers, Indexing
    <3> QED BY <3>2, <3>3, <3>4
  <2> QED BY <1>7, <2>1, <2>2 DEF OpenIndex
<1>8. ASSUME NEW w \in Workers, LockChunks(w) PROVE ChunkInv'
  <2> DEFINE locked == listed[w] \cap current[task[w]]
  <2>1. CASE Throw(w, TRUE) /\ listed' = [listed EXCEPT ![w] = {}]
    <3>1. Aside(w)
      BY <1>8, <2>1, ThrowIsAside DEF LockChunks, docVars, chunkVars
    <3> QED BY <3>1, AsideStep
  <2>2. CASE /\ Cardinality(locked) = Cardinality(parse[w])
             /\ listed' = [listed EXCEPT ![w] = locked] /\ pc' = [pc EXCEPT ![w] = "sealing"]
    <3>1. locked = parse[w] /\ parse[w] \subseteq current[task[w]] /\ pc[w] = "listing"
      BY <1>8, <2>2, LockedIsParse DEF LockChunks
    <3> HIDE DEF locked
    <3>2. listed' = [listed EXCEPT ![w] = parse[w]]
      BY <2>2, <3>1
    <3> USE <1>8, <2>2, <3>1, <3>2 DEF LockChunks, docVars, chunkVars, ChunkInv, TypeOK, ControlTypes,
          MemoryTypes
    <3>3. ChunkDocs'
      BY DEF ChunkDocs
    <3>4. Writers'
      BY DEF Writers, Writing, DocumentRowFree, WritableChunks, Conflicts
    <3>5. Readers'
      BY DEF Readers, Indexing
    <3> QED BY <3>3, <3>4, <3>5
  <2> QED BY <1>8, <2>1, <2>2 DEF LockChunks
<1>9. ASSUME NEW d \in Docs, ExpireLease(d) \/ DecideEvidence(d) PROVE ChunkInv'
  <2>1. UNCHANGED <<rows, current, pc, task, parse, listed, status, scanStatus>>
    BY <1>9 DEF ExpireLease, DecideEvidence, docVars, chunkVars, localVars
  <2>2. \A x \in Docs : WritableChunks(x) => WritableChunks(x)'
    BY <1>9, <2>1 DEF ExpireLease, DecideEvidence, WritableChunks, docVars, TypeOK, DocumentTypes
  <2> QED BY <2>1, <2>2, StillStep
<1>10. CASE UNCHANGED vars
  <2>1. UNCHANGED <<rows, current, pc, task, parse, listed, status, scanStatus, evidence>>
    BY <1>10 DEF vars, docVars, chunkVars, localVars
  <2> QED BY <2>1, StillStep DEF WritableChunks
<1> QED
  BY <1>1, <1>2, <1>3, <1>4, <1>5, <1>6, <1>7, <1>8, <1>9, <1>10
     DEF Next, Work, Publish

-----------------------------------------------------------------------------
(* The evidence index                                                      *)

\* What is indexed is one whole classified parse under the clean key, and a
\* worker about to index holds such a parse.
LEMMA IndexStep == TypeOK /\ IndexInv /\ ChunkInv /\ [Next]_vars => IndexInv'
<1> SUFFICES ASSUME TypeOK, IndexInv, ChunkInv, [Next]_vars PROVE IndexInv'
  OBVIOUS
<1> USE DEF TypeOK, IndexInv, Indexing
<1>1. ASSUME NEW w \in Workers, NEW d \in Docs, Claim(w, d) PROVE IndexInv'
  <2>1. IndexedDocs'
    BY <1>1 DEF Claim, IndexedDocs, docVars, chunkVars
  <2>2. IndexingWorkers'
    BY <1>1 DEF Claim, IndexingWorkers, localVars, chunkVars, MemoryTypes,
      ControlTypes, ChunkTypes, Classified, Cleaned, NoClean, Quarantined
  <2> QED BY <2>1, <2>2
<1>2. ASSUME NEW w \in Workers, ReadDocument(w) PROVE IndexInv'
  <2>1. IndexedDocs'
    BY <1>2 DEF ReadDocument, IndexedDocs, docVars, chunkVars
  <2>2. IndexingWorkers'
    BY <1>2 DEF ReadDocument, IndexingWorkers, localVars, chunkVars,
      MemoryTypes, ControlTypes, ChunkTypes, Classified, Cleaned, NoClean,
      Quarantined, Proceed, Throw
  <2> QED BY <2>1, <2>2
<1>3. ASSUME NEW w \in Workers, BeginScanning(w) PROVE IndexInv'
  <2>1. IndexedDocs'
    BY <1>3, ZenonT(60) DEF BeginScanning, IndexedDocs, docVars, chunkVars, DocumentTypes,
      MemoryTypes, Restartable, Unmoved, InFlight
  <2>2. IndexingWorkers'
    BY <1>3 DEF BeginScanning, IndexingWorkers, localVars, chunkVars,
      MemoryTypes, ControlTypes, ChunkTypes, Classified, Cleaned, NoClean,
      Quarantined, Proceed, Throw
  <2> QED BY <2>1, <2>2
<1>4. ASSUME NEW w \in Workers, Download(w) PROVE IndexInv'
  <2>1. IndexedDocs'
    BY <1>4 DEF Download, IndexedDocs, docVars, chunkVars
  <2>2. IndexingWorkers'
    BY <1>4 DEF Download, IndexingWorkers, localVars, chunkVars, MemoryTypes,
      ControlTypes, ChunkTypes, Classified, Cleaned, NoClean, Quarantined,
      Proceed, Throw
  <2> QED BY <2>1, <2>2
<1>5. ASSUME NEW w \in Workers, RenewLease(w) PROVE IndexInv'
  <2>1. IndexedDocs'
    BY <1>5 DEF RenewLease, IndexedDocs, docVars, chunkVars
  <2>2. IndexingWorkers'
    BY <1>5 DEF RenewLease, IndexingWorkers, localVars, chunkVars,
      MemoryTypes, ControlTypes, ChunkTypes, Classified, Cleaned, NoClean,
      Quarantined, Proceed, Throw, NextStage
  <2> QED BY <2>1, <2>2
<1>6. ASSUME NEW w \in Workers, ScanMalware(w) PROVE IndexInv'
  <2>1. IndexedDocs'
    BY <1>6 DEF ScanMalware, IndexedDocs, docVars, chunkVars
  <2>2. IndexingWorkers'
    BY <1>6 DEF ScanMalware, IndexingWorkers, localVars, chunkVars,
      MemoryTypes, ControlTypes, ChunkTypes, Classified, Cleaned, NoClean,
      Quarantined, Proceed, Throw
  <2> QED BY <2>1, <2>2
<1>7. ASSUME NEW w \in Workers, CopyClean(w) PROVE IndexInv'
  <2>1. IndexedDocs'
    BY <1>7 DEF CopyClean, IndexedDocs, docVars, chunkVars
  <2>2. IndexingWorkers'
    BY <1>7 DEF CopyClean, IndexingWorkers, localVars, chunkVars, MemoryTypes,
      ControlTypes, StoreTypes, Classified, Cleaned, NoClean, Quarantined,
      Throw
  <2> QED BY <2>1, <2>2
<1>8. ASSUME NEW w \in Workers, VerifyCopy(w) PROVE IndexInv'
  <2>1. IndexedDocs'
    BY <1>8 DEF VerifyCopy, IndexedDocs, docVars, chunkVars
  <2>2. IndexingWorkers'
    BY <1>8 DEF VerifyCopy, IndexingWorkers, localVars, chunkVars,
      MemoryTypes, ControlTypes, ChunkTypes, Classified, Cleaned, NoClean,
      Quarantined, Throw, Abandon
  <2> QED BY <2>1, <2>2
<1>9. ASSUME NEW w \in Workers, Promote(w) PROVE IndexInv'
  <2>1. IndexedDocs'
    BY <1>9, ZenonT(60) DEF Promote, IndexedDocs, docVars, chunkVars, DocumentTypes,
      MemoryTypes, Promotable
  <2>2. IndexingWorkers'
    BY <1>9 DEF Promote, IndexingWorkers, localVars, chunkVars, MemoryTypes,
      ControlTypes, ChunkTypes, Classified, Cleaned, NoClean, Quarantined,
      Throw, Abandon
  <2> QED BY <2>1, <2>2
<1>10. ASSUME NEW w \in Workers, DiscardCopy(w) PROVE IndexInv'
  <2>1. IndexedDocs'
    BY <1>10 DEF DiscardCopy, IndexedDocs, docVars, chunkVars
  <2>2. IndexingWorkers'
    BY <1>10 DEF DiscardCopy, IndexingWorkers, localVars, chunkVars,
      MemoryTypes, ControlTypes, ChunkTypes, Classified, Cleaned, NoClean,
      Quarantined, Throw, Abandon
  <2> QED BY <2>1, <2>2
<1>11. ASSUME NEW w \in Workers, SweepSource(w) PROVE IndexInv'
  <2>1. IndexedDocs'
    BY <1>11 DEF SweepSource, IndexedDocs, docVars, chunkVars
  <2>2. IndexingWorkers'
    BY <1>11 DEF SweepSource, IndexingWorkers, localVars, chunkVars,
      MemoryTypes, ControlTypes, ChunkTypes, Classified, Cleaned, NoClean,
      Quarantined
  <2> QED BY <2>1, <2>2
<1>12. ASSUME NEW w \in Workers, ParseDocument(w) PROVE IndexInv'
  <2>1. IndexedDocs'
    BY <1>12 DEF ParseDocument, IndexedDocs, docVars, chunkVars
  <2>2. IndexingWorkers'
    BY <1>12 DEF ParseDocument, IndexingWorkers, localVars, chunkVars,
      MemoryTypes, ControlTypes, ChunkTypes, Classified, Cleaned, NoClean,
      Quarantined, Proceed, Throw
  <2> QED BY <2>1, <2>2
<1>13. ASSUME NEW w \in Workers, RecordScan(w) PROVE IndexInv'
  <2>1. IndexedDocs'
    BY <1>13, ZenonT(60) DEF RecordScan, IndexedDocs, docVars, chunkVars, DocumentTypes,
      MemoryTypes
  <2>2. IndexingWorkers'
    BY <1>13 DEF RecordScan, IndexingWorkers, localVars, chunkVars,
      MemoryTypes, ControlTypes, Classified, Cleaned, Admissible, Proceed,
      Throw
  <2> QED BY <2>1, <2>2
<1>14. ASSUME NEW w \in Workers, EnterParsing(w) PROVE IndexInv'
  <2>1. IndexedDocs'
    BY <1>14, ZenonT(60) DEF EnterParsing, IndexedDocs, docVars, chunkVars, DocumentTypes,
      MemoryTypes, Unmoved
  <2>2. IndexingWorkers'
    BY <1>14 DEF EnterParsing, IndexingWorkers, localVars, chunkVars,
      MemoryTypes, ControlTypes, ChunkTypes, Classified, Cleaned, NoClean,
      Quarantined, Proceed, Throw
  <2> QED BY <2>1, <2>2
<1>15. ASSUME NEW w \in Workers, LockDocument(w) \/ WriteChunks(w) PROVE IndexInv'
  <2>1. IndexedDocs'
    BY <1>15 DEF LockDocument, WriteChunks, IndexedDocs, docVars, chunkVars
  <2>2. IndexingWorkers'
    BY <1>15 DEF LockDocument, WriteChunks, IndexingWorkers, localVars,
      chunkVars, ControlTypes, Classified, Cleaned, Throw
  <2> QED BY <2>1, <2>2
<1>16. ASSUME NEW w \in Workers, CommitChunks(w) PROVE IndexInv'
  <2>1. parse[w] \in Admissible /\ parse[w] # {}
    BY <1>16, ParsesAssumption DEF CommitChunks, IndexingWorkers, Classified,
      Admissible, IsParse
  <2>2. WritableChunks(task[w])
    BY <1>16 DEF CommitChunks, ChunkInv, Writers, Writing
  <2>3. IndexedDocs'
    BY <1>16, <2>1, <2>2 DEF CommitChunks, WritableChunks, IndexedDocs,
      docVars, ChunkTypes, MemoryTypes
  <2>4. IndexingWorkers'
    BY <1>16, <2>1 DEF CommitChunks, IndexingWorkers, localVars, MemoryTypes,
      ControlTypes, ChunkTypes, Classified, Cleaned, Proceed
  <2> QED BY <2>3, <2>4
<1>17. ASSUME NEW w \in Workers, OpenIndex(w) \/ LockChunks(w) \/ RollBack(w) PROVE IndexInv'
  <2>1. IndexedDocs'
    BY <1>17 DEF OpenIndex, LockChunks, RollBack, IndexedDocs, docVars, chunkVars
  <2>2. IndexingWorkers'
    BY <1>17 DEF OpenIndex, LockChunks, RollBack, IndexingWorkers, chunkVars,
      ControlTypes, Classified, Cleaned, Throw
  <2> QED BY <2>1, <2>2
<1>18. ASSUME NEW w \in Workers, IndexDocument(w) PROVE IndexInv'
  <2>1. IndexedDocs'
    <3>1. /\ listed[w] \in Admissible /\ listed[w] \subseteq current[task[w]]
          /\ current[task[w]] \in Admissible /\ clean[w] # NoClean
      BY <1>18 DEF IndexDocument, IndexingWorkers, Classified, Cleaned,
        IndexedDocs, ChunkInv, Readers, MemoryTypes
    <3>2. CASE Indexable(w) /\ status' = [status EXCEPT ![task[w]] = "INDEXED"]
               /\ manifest' = [manifest EXCEPT ![task[w]] = listed[w]]
               /\ outbox' = outbox \cup {task[w]}
      BY <1>18, <3>1, <3>2 DEF IndexDocument, IndexedDocs, chunkVars,
        DocumentTypes, ChunkTypes, MemoryTypes, WritableChunks, Indexable,
        Quarantined, NoClean
    <3>3. CASE UNCHANGED <<status, manifest, outbox>>
      BY <1>18, <3>3 DEF IndexDocument, IndexedDocs, chunkVars
    <3> QED BY <1>18, <3>2, <3>3 DEF IndexDocument
  <2>2. IndexingWorkers'
    BY <1>18 DEF IndexDocument, IndexingWorkers, chunkVars, ControlTypes,
      Classified, Cleaned, Proceed, Throw
  <2> QED BY <2>1, <2>2
<1>19. ASSUME NEW w \in Workers, CompleteJob(w) PROVE IndexInv'
  <2>1. IndexedDocs'
    BY <1>19 DEF CompleteJob, IndexedDocs, docVars, chunkVars
  <2>2. IndexingWorkers'
    BY <1>19 DEF CompleteJob, IndexingWorkers, localVars, chunkVars,
      MemoryTypes, ControlTypes, ChunkTypes, Classified, Cleaned, NoClean,
      Quarantined, Throw, Abandon, Leave
  <2> QED BY <2>1, <2>2
<1>20. ASSUME NEW w \in Workers, FailJob(w) PROVE IndexInv'
  <2>1. IndexedDocs'
    BY <1>20 DEF FailJob, IndexedDocs, docVars, chunkVars, DocumentTypes,
      MemoryTypes, FailsDocument
  <2>2. IndexingWorkers'
    BY <1>20 DEF FailJob, IndexingWorkers, localVars, chunkVars, MemoryTypes,
      ControlTypes, ChunkTypes, Classified, Cleaned, NoClean, Quarantined,
      Leave
  <2> QED BY <2>1, <2>2
<1>21. ASSUME NEW w \in Workers, TagFailed(w) PROVE IndexInv'
  <2>1. IndexedDocs'
    BY <1>21 DEF TagFailed, IndexedDocs, docVars, chunkVars
  <2>2. IndexingWorkers'
    BY <1>21 DEF TagFailed, IndexingWorkers, localVars, chunkVars,
      MemoryTypes, ControlTypes, ChunkTypes, Classified, Cleaned, NoClean,
      Quarantined, Leave
  <2> QED BY <2>1, <2>2
<1>22. ASSUME NEW w \in Workers, Crash(w) PROVE IndexInv'
  <2>1. IndexedDocs'
    BY <1>22 DEF Crash, IndexedDocs, docVars, chunkVars
  <2>2. IndexingWorkers'
    BY <1>22 DEF Crash, IndexingWorkers, localVars, chunkVars, MemoryTypes,
      ControlTypes, ChunkTypes, Classified, Cleaned, NoClean, Quarantined,
      Leave
  <2> QED BY <2>1, <2>2
<1>23. ASSUME NEW d \in Docs, ExpireLease(d) PROVE IndexInv'
  <2>1. IndexedDocs'
    BY <1>23 DEF ExpireLease, IndexedDocs, docVars, chunkVars
  <2>2. IndexingWorkers'
    BY <1>23 DEF ExpireLease, IndexingWorkers, localVars, chunkVars,
      MemoryTypes, ControlTypes, ChunkTypes, Classified, Cleaned, NoClean,
      Quarantined
  <2> QED BY <2>1, <2>2
<1>24. ASSUME NEW d \in Docs, DecideEvidence(d) PROVE IndexInv'
  <2>1. IndexedDocs'
    BY <1>24 DEF DecideEvidence, IndexedDocs, DocumentTypes, ChunkTypes,
      MemoryTypes, docVars, chunkVars, IndexingWorkers, Classified, Cleaned,
      InFlight, Quarantined, NoClean
  <2>2. IndexingWorkers'
    BY <1>24 DEF DecideEvidence, IndexingWorkers, localVars, chunkVars,
      MemoryTypes, ControlTypes, ChunkTypes, Classified, Cleaned, NoClean,
      Quarantined
  <2> QED BY <2>1, <2>2
<1>25. CASE UNCHANGED vars
  BY <1>25 DEF vars, jobVars, docVars, chunkVars, storeVars, localVars,
    budgetVars, IndexedDocs, IndexingWorkers
<1> HIDE DEF IndexInv
<1> QED
  BY <1>1, <1>2, <1>3, <1>4, <1>5, <1>6, <1>7, <1>8, <1>9, <1>10, <1>11,
    <1>12, <1>13, <1>14, <1>15, <1>16, <1>17, <1>18, <1>19, <1>20, <1>21,
    <1>22, <1>23, <1>24, <1>25
     DEF Next, Work, Prepare, Publish

-----------------------------------------------------------------------------
(* Jobs and documents                                                      *)

\* A lease goes with a running job, and success and death agree with the row.
LEMMA JobStep == TypeOK /\ IndexInv /\ ChunkInv /\ JobInv /\ [Next]_vars => JobInv'
<1> SUFFICES ASSUME TypeOK, IndexInv, ChunkInv, JobInv, [Next]_vars PROVE JobInv'
  OBVIOUS
<1> USE DEF TypeOK, JobInv
<1>1. ASSUME NEW w \in Workers, NEW d \in Docs, Claim(w, d) PROVE JobInv'
  <2>1. JobOfDocs'
    BY <1>1, NoWorkerAssumption DEF Claim, JobOfDocs, docVars, JobTypes,
      DocumentTypes, Claimable
  <2>2. Completing'
    BY <1>1 DEF Claim, Completing, docVars, localVars, DocumentTypes,
      MemoryTypes, ControlTypes, InFlight, Restartable, FailsDocument
  <2> QED BY <2>1, <2>2
<1>2. ASSUME NEW w \in Workers, ReadDocument(w) PROVE JobInv'
  <2>1. JobOfDocs'
    BY <1>2 DEF ReadDocument, JobOfDocs, jobVars, docVars
  <2>2. Completing'
    BY <1>2 DEF ReadDocument, Completing, docVars, localVars, DocumentTypes,
      MemoryTypes, ControlTypes, InFlight, Restartable, FailsDocument,
      Proceed, Throw
  <2> QED BY <2>1, <2>2
<1>3. ASSUME NEW w \in Workers, BeginScanning(w) PROVE JobInv'
  <2>1. JobOfDocs'
    BY <1>3, NoWorkerAssumption, ZenonT(60) DEF BeginScanning, JobOfDocs, jobVars,
      JobTypes, DocumentTypes, MemoryTypes, InFlight, Restartable
  <2>2. Completing'
    BY <1>3 DEF BeginScanning, Completing, docVars, localVars, DocumentTypes,
      MemoryTypes, ControlTypes, InFlight, Restartable, FailsDocument,
      Proceed, Throw
  <2> QED BY <2>1, <2>2
<1>4. ASSUME NEW w \in Workers, Download(w) PROVE JobInv'
  <2>1. JobOfDocs'
    BY <1>4 DEF Download, JobOfDocs, jobVars, docVars
  <2>2. Completing'
    BY <1>4 DEF Download, Completing, docVars, localVars, DocumentTypes,
      MemoryTypes, ControlTypes, InFlight, Restartable, FailsDocument,
      Proceed, Throw
  <2> QED BY <2>1, <2>2
<1>5. ASSUME NEW w \in Workers, RenewLease(w) PROVE JobInv'
  <2>1. JobOfDocs'
    BY <1>5 DEF RenewLease, JobOfDocs, jobVars, docVars, JobTypes,
      DocumentTypes, MemoryTypes, InFlight, Completing
  <2>2. Completing'
    BY <1>5 DEF RenewLease, Completing, docVars, localVars, DocumentTypes,
      MemoryTypes, ControlTypes, InFlight, Restartable, FailsDocument,
      Proceed, Throw, NextStage
  <2> QED BY <2>1, <2>2
<1>6. ASSUME NEW w \in Workers, ScanMalware(w) PROVE JobInv'
  <2>1. JobOfDocs'
    BY <1>6 DEF ScanMalware, JobOfDocs, jobVars, docVars
  <2>2. Completing'
    BY <1>6 DEF ScanMalware, Completing, docVars, localVars, DocumentTypes,
      MemoryTypes, ControlTypes, InFlight, Restartable, FailsDocument,
      Proceed, Throw
  <2> QED BY <2>1, <2>2
<1>7. ASSUME NEW w \in Workers, CopyClean(w) PROVE JobInv'
  <2>1. JobOfDocs'
    BY <1>7 DEF CopyClean, JobOfDocs, jobVars, docVars
  <2>2. Completing'
    BY <1>7 DEF CopyClean, Completing, docVars, localVars, DocumentTypes,
      MemoryTypes, ControlTypes, InFlight, Restartable, FailsDocument, Throw
  <2> QED BY <2>1, <2>2
<1>8. ASSUME NEW w \in Workers, VerifyCopy(w) PROVE JobInv'
  <2>1. JobOfDocs'
    BY <1>8 DEF VerifyCopy, JobOfDocs, jobVars, docVars
  <2>2. Completing'
    BY <1>8 DEF VerifyCopy, Completing, docVars, localVars, DocumentTypes,
      MemoryTypes, ControlTypes, InFlight, Restartable, FailsDocument, Throw,
      Abandon
  <2> QED BY <2>1, <2>2
<1>9. ASSUME NEW w \in Workers, Promote(w) PROVE JobInv'
  <2>1. JobOfDocs'
    BY <1>9 DEF Promote, JobOfDocs, jobVars, docVars
  <2>2. Completing'
    BY <1>9 DEF Promote, Completing, docVars, localVars, DocumentTypes,
      MemoryTypes, ControlTypes, InFlight, Restartable, FailsDocument, Throw,
      Abandon
  <2> QED BY <2>1, <2>2
<1>10. ASSUME NEW w \in Workers, DiscardCopy(w) PROVE JobInv'
  <2>1. JobOfDocs'
    BY <1>10 DEF DiscardCopy, JobOfDocs, jobVars, docVars
  <2>2. Completing'
    BY <1>10 DEF DiscardCopy, Completing, docVars, localVars, DocumentTypes,
      MemoryTypes, ControlTypes, InFlight, Restartable, FailsDocument, Throw,
      Abandon
  <2> QED BY <2>1, <2>2
<1>11. ASSUME NEW w \in Workers, SweepSource(w) PROVE JobInv'
  <2>1. JobOfDocs'
    BY <1>11 DEF SweepSource, JobOfDocs, jobVars, docVars
  <2>2. Completing'
    BY <1>11 DEF SweepSource, Completing, docVars, localVars, DocumentTypes,
      MemoryTypes, ControlTypes, InFlight, Restartable, FailsDocument
  <2> QED BY <2>1, <2>2
<1>12. ASSUME NEW w \in Workers, ParseDocument(w) PROVE JobInv'
  <2>1. JobOfDocs'
    BY <1>12 DEF ParseDocument, JobOfDocs, jobVars, docVars
  <2>2. Completing'
    BY <1>12 DEF ParseDocument, Completing, docVars, localVars, DocumentTypes,
      MemoryTypes, ControlTypes, InFlight, Restartable, FailsDocument,
      Proceed, Throw
  <2> QED BY <2>1, <2>2
<1>13. ASSUME NEW w \in Workers, RecordScan(w) PROVE JobInv'
  <2>1. JobOfDocs'
    BY <1>13 DEF RecordScan, JobOfDocs, jobVars, docVars
  <2>2. Completing'
    BY <1>13 DEF RecordScan, Completing, docVars, localVars, DocumentTypes,
      MemoryTypes, ControlTypes, InFlight, Restartable, FailsDocument,
      Proceed, Throw
  <2> QED BY <2>1, <2>2
<1>14. ASSUME NEW w \in Workers, EnterParsing(w) PROVE JobInv'
  <2>1. JobOfDocs'
    BY <1>14, ZenonT(60) DEF EnterParsing, JobOfDocs, jobVars, docVars, JobTypes,
      DocumentTypes, MemoryTypes, InFlight, Completing
  <2>2. Completing'
    BY <1>14 DEF EnterParsing, Completing, docVars, localVars, DocumentTypes,
      MemoryTypes, ControlTypes, InFlight, Restartable, FailsDocument,
      Proceed, Throw
  <2> QED BY <2>1, <2>2
<1>15. ASSUME NEW w \in Workers, LockDocument(w) \/ WriteChunks(w) PROVE JobInv'
  <2>1. JobOfDocs'
    BY <1>15 DEF LockDocument, WriteChunks, JobOfDocs, jobVars, docVars
  <2>2. Completing'
    BY <1>15 DEF LockDocument, WriteChunks, Completing, docVars, localVars,
      ControlTypes, Throw
  <2> QED BY <2>1, <2>2
<1>16. ASSUME NEW w \in Workers, CommitChunks(w) PROVE JobInv'
  <2>1. JobOfDocs'
    BY <1>16 DEF CommitChunks, JobOfDocs, jobVars, docVars
  <2>2. Completing'
    BY <1>16 DEF CommitChunks, Completing, docVars, localVars, ControlTypes,
      Proceed
  <2> QED BY <2>1, <2>2
<1>17. ASSUME NEW w \in Workers, OpenIndex(w) \/ LockChunks(w) \/ RollBack(w) PROVE JobInv'
  <2>1. JobOfDocs'
    BY <1>17 DEF OpenIndex, LockChunks, RollBack, JobOfDocs, jobVars, docVars
  <2>2. Completing'
    BY <1>17 DEF OpenIndex, LockChunks, RollBack, Completing, docVars,
      ControlTypes, Throw
  <2> QED BY <2>1, <2>2
<1>18. ASSUME NEW w \in Workers, IndexDocument(w) PROVE JobInv'
  <2>1. JobOfDocs'
    <3>1. CASE Indexable(w) /\ status' = [status EXCEPT ![task[w]] = "INDEXED"]
      BY <1>18, <3>1 DEF IndexDocument, JobOfDocs, jobVars, DocumentTypes,
        Indexable, WritableChunks
    <3>2. CASE UNCHANGED status
      BY <1>18, <3>2 DEF IndexDocument, JobOfDocs, jobVars
    <3> QED BY <1>18, <3>1, <3>2 DEF IndexDocument
  <2>2. Completing'
    <3>1. listed[w] = parse[w] /\ task[w] \in Docs
      BY <1>18 DEF IndexDocument, ChunkInv, Readers, MemoryTypes
    <3>2. CASE Indexable(w) /\ status' = [status EXCEPT ![task[w]] = "INDEXED"]
               /\ manifest' = [manifest EXCEPT ![task[w]] = listed[w]]
      BY <1>18, <3>1, <3>2 DEF IndexDocument, Completing, DocumentTypes,
        MemoryTypes, ControlTypes, Indexable, WritableChunks, Proceed
    <3>3. CASE Throw(w, FALSE) /\ UNCHANGED <<status, manifest>>
      BY <1>18, <3>3 DEF IndexDocument, Completing, ControlTypes, Throw
    <3> QED BY <1>18, <3>2, <3>3 DEF IndexDocument
  <2> QED BY <2>1, <2>2
<1>19. ASSUME NEW w \in Workers, CompleteJob(w) PROVE JobInv'
  <2>1. JobOfDocs'
    BY <1>19 DEF CompleteJob, JobOfDocs, jobVars, docVars, JobTypes,
      DocumentTypes, MemoryTypes, InFlight, Completing
  <2>2. Completing'
    BY <1>19 DEF CompleteJob, Completing, docVars, localVars, DocumentTypes,
      MemoryTypes, ControlTypes, InFlight, Restartable, FailsDocument, Throw,
      Abandon, Leave
  <2> QED BY <2>1, <2>2
<1>20. ASSUME NEW w \in Workers, FailJob(w) PROVE JobInv'
  <2>1. JobOfDocs'
    <3> DEFINE d == task[w]
    <3>1. CASE leaseOwner[d] = w
      <4>1. jobStatus[d] = "RUNNING" /\ leaseOwner' = [leaseOwner EXCEPT ![d] = NoWorker]
        BY <1>20, <3>1, NoWorkerAssumption DEF FailJob, JobOfDocs, MemoryTypes
      <4>2. CASE FinalFailure(w)
        <5>1. jobStatus' = [jobStatus EXCEPT ![d] = "DEAD"]
          BY <1>20, <3>1, <4>2 DEF FailJob
        <5>2. status'[d] \in {"INDEXED", "FAILED"}
          BY <1>20, <3>1, <4>1, <4>2 DEF FailJob, FailsDocument, JobOfDocs, InFlight,
            DocumentTypes, DocumentStatuses, MemoryTypes, IndexInv, IndexedDocs
        <5>3. \A e \in Docs \ {d} : status'[e] = status[e]
          BY <1>20 DEF FailJob, DocumentTypes
        <5> QED
          BY <4>1, <5>1, <5>2, <5>3 DEF JobOfDocs, JobTypes, MemoryTypes
      <4>3. CASE ~FinalFailure(w)
        <5>1. jobStatus' = [jobStatus EXCEPT ![d] = "RETRYING"] /\ status' = status
          BY <1>20, <3>1, <4>3 DEF FailJob, FailsDocument
        <5> QED
          BY <4>1, <5>1 DEF JobOfDocs, JobTypes, MemoryTypes
      <4> QED BY <4>2, <4>3
    <3>2. CASE leaseOwner[d] # w
      BY <1>20, <3>2 DEF FailJob, FailsDocument, JobOfDocs
    <3> QED BY <3>1, <3>2
  <2>2. Completing'
    BY <1>20 DEF FailJob, Completing, docVars, localVars, DocumentTypes,
      MemoryTypes, ControlTypes, InFlight, Restartable, FailsDocument, Leave
  <2> QED BY <2>1, <2>2
<1>21. ASSUME NEW w \in Workers, TagFailed(w) PROVE JobInv'
  <2>1. JobOfDocs'
    BY <1>21 DEF TagFailed, JobOfDocs, jobVars, docVars
  <2>2. Completing'
    BY <1>21 DEF TagFailed, Completing, docVars, localVars, DocumentTypes,
      MemoryTypes, ControlTypes, InFlight, Restartable, FailsDocument, Leave
  <2> QED BY <2>1, <2>2
<1>22. ASSUME NEW w \in Workers, Crash(w) PROVE JobInv'
  <2>1. JobOfDocs'
    BY <1>22 DEF Crash, JobOfDocs, jobVars, docVars
  <2>2. Completing'
    BY <1>22 DEF Crash, Completing, docVars, localVars, DocumentTypes,
      MemoryTypes, ControlTypes, InFlight, Restartable, FailsDocument, Leave
  <2> QED BY <2>1, <2>2
<1>23. ASSUME NEW d \in Docs, ExpireLease(d) PROVE JobInv'
  <2>1. JobOfDocs'
    BY <1>23 DEF ExpireLease, JobOfDocs, jobVars, docVars
  <2>2. Completing'
    BY <1>23 DEF ExpireLease, Completing, docVars, localVars, DocumentTypes,
      MemoryTypes, ControlTypes, InFlight, Restartable, FailsDocument
  <2> QED BY <2>1, <2>2
<1>24. ASSUME NEW d \in Docs, DecideEvidence(d) PROVE JobInv'
  <2>1. JobOfDocs'
    BY <1>24 DEF DecideEvidence, JobOfDocs, jobVars, docVars
  <2>2. Completing'
    BY <1>24 DEF DecideEvidence, Completing, docVars, localVars,
      DocumentTypes, MemoryTypes, ControlTypes, InFlight, Restartable,
      FailsDocument
  <2> QED BY <2>1, <2>2
<1>25. CASE UNCHANGED vars
  BY <1>25 DEF vars, jobVars, docVars, chunkVars, storeVars, localVars,
    budgetVars, JobOfDocs, Completing
<1> HIDE DEF JobInv
<1> QED
  BY <1>1, <1>2, <1>3, <1>4, <1>5, <1>6, <1>7, <1>8, <1>9, <1>10, <1>11,
    <1>12, <1>13, <1>14, <1>15, <1>16, <1>17, <1>18, <1>19, <1>20, <1>21,
    <1>22, <1>23, <1>24, <1>25
     DEF Next, Work, Prepare, Publish

-----------------------------------------------------------------------------
(* The object store                                                        *)

\* A copy in progress belongs to one worker and to no row; the quarantined
\* source goes only when the row has left it for good.
LEMMA StoreStep == TypeOK /\ StoreInv /\ [Next]_vars => StoreInv'
<1> SUFFICES ASSUME TypeOK, StoreInv, [Next]_vars PROVE StoreInv'
  OBVIOUS
<1> USE DEF TypeOK, StoreInv
<1>1. ASSUME NEW w \in Workers, NEW d \in Docs, Claim(w, d) PROVE StoreInv'
  <2>1. StoredDocs'
    BY <1>1 DEF Claim, StoredDocs, docVars, storeVars
  <2>2. CopyingWorkers'
    BY <1>1 DEF Claim, CopyingWorkers, docVars, storeVars, localVars,
      DocumentTypes, StoreTypes, MemoryTypes, ControlTypes, StoredDocs,
      Copying, Quarantined
  <2> QED BY <2>1, <2>2
<1>2. ASSUME NEW w \in Workers, ReadDocument(w) PROVE StoreInv'
  <2>1. StoredDocs'
    BY <1>2 DEF ReadDocument, StoredDocs, docVars, storeVars
  <2>2. CopyingWorkers'
    BY <1>2 DEF ReadDocument, CopyingWorkers, docVars, storeVars, localVars,
      DocumentTypes, StoreTypes, MemoryTypes, ControlTypes, StoredDocs,
      Copying, Quarantined, Proceed, Throw
  <2> QED BY <2>1, <2>2
<1>3. ASSUME NEW w \in Workers, BeginScanning(w) PROVE StoreInv'
  <2>1. StoredDocs'
    BY <1>3 DEF BeginScanning, StoredDocs, docVars, storeVars
  <2>2. CopyingWorkers'
    BY <1>3 DEF BeginScanning, CopyingWorkers, docVars, storeVars, localVars,
      DocumentTypes, StoreTypes, MemoryTypes, ControlTypes, StoredDocs,
      Copying, Quarantined, Proceed, Throw
  <2> QED BY <2>1, <2>2
<1>4. ASSUME NEW w \in Workers, Download(w) PROVE StoreInv'
  <2>1. StoredDocs'
    BY <1>4 DEF Download, StoredDocs, docVars, storeVars
  <2>2. CopyingWorkers'
    BY <1>4 DEF Download, CopyingWorkers, docVars, storeVars, localVars,
      DocumentTypes, StoreTypes, MemoryTypes, ControlTypes, StoredDocs,
      Copying, Quarantined, Proceed, Throw
  <2> QED BY <2>1, <2>2
<1>5. ASSUME NEW w \in Workers, RenewLease(w) PROVE StoreInv'
  <2>1. StoredDocs'
    BY <1>5 DEF RenewLease, StoredDocs, docVars, storeVars
  <2>2. CopyingWorkers'
    BY <1>5 DEF RenewLease, CopyingWorkers, docVars, storeVars, localVars,
      DocumentTypes, StoreTypes, MemoryTypes, ControlTypes, StoredDocs,
      Copying, Quarantined, Proceed, Throw, NextStage
  <2> QED BY <2>1, <2>2
<1>6. ASSUME NEW w \in Workers, ScanMalware(w) PROVE StoreInv'
  <2>1. StoredDocs'
    BY <1>6 DEF ScanMalware, StoredDocs, docVars, storeVars
  <2>2. CopyingWorkers'
    BY <1>6 DEF ScanMalware, CopyingWorkers, docVars, storeVars, localVars,
      DocumentTypes, StoreTypes, MemoryTypes, ControlTypes, StoredDocs,
      Copying, Quarantined, Proceed, Throw
  <2> QED BY <2>1, <2>2
<1>7. ASSUME NEW w \in Workers, CopyClean(w) PROVE StoreInv'
  <2>1. StoredDocs'
    <3> DEFINE d == task[w]
    <3>1. CASE UNCHANGED <<live, copies>>
      BY <1>7, <3>1 DEF CopyClean, StoredDocs, docVars
    <3>2. CASE /\ copies' = [copies EXCEPT ![d] = copies[d] + 1]
               /\ live' = [live EXCEPT ![d] = @ \cup {copies[d] + 1}]
      <4>1. copies[d] \in Nat /\ live[d] \in SUBSET Nat /\ d \in Docs
        BY DEF StoreTypes, MemoryTypes
      <4>2. \A v \in live'[d] : v <= copies'[d]
        BY <3>2, <4>1 DEF StoredDocs, StoreTypes
      <4> QED
        BY <1>7, <3>2, <4>1, <4>2 DEF CopyClean, StoredDocs, docVars, StoreTypes
    <3> QED BY <1>7, <3>1, <3>2 DEF CopyClean
  <2>2. CopyingWorkers'
    BY <1>7 DEF CopyClean, CopyingWorkers, docVars, storeVars, localVars,
      DocumentTypes, StoreTypes, MemoryTypes, ControlTypes, StoredDocs,
      Copying, Quarantined, Throw
  <2> QED BY <2>1, <2>2
<1>8. ASSUME NEW w \in Workers, VerifyCopy(w) PROVE StoreInv'
  <2>1. StoredDocs'
    <3>1. CASE live' = [live EXCEPT ![task[w]] = @ \ {clean[w]}]
      BY <1>8, <3>1 DEF VerifyCopy, StoredDocs, docVars, StoreTypes, MemoryTypes,
        CopyingWorkers, Copying
    <3>2. CASE UNCHANGED live
      BY <1>8, <3>2 DEF VerifyCopy, StoredDocs, docVars
    <3> QED BY <1>8, <3>1, <3>2 DEF VerifyCopy
  <2>2. CopyingWorkers'
    <3>1. CASE pc' = [pc EXCEPT ![w] = "promote"] /\ UNCHANGED <<live, clean>>
      BY <1>8, <3>1 DEF VerifyCopy, CopyingWorkers, Copying, docVars, ControlTypes
    <3>2. CASE pc' = [pc EXCEPT ![w] = "failing"] /\ live' = [live EXCEPT ![task[w]] = @ \ {clean[w]}]
               /\ clean' = [clean EXCEPT ![w] = NoClean]
      BY <1>8, <3>2 DEF VerifyCopy, CopyingWorkers, Copying, docVars, ControlTypes,
        MemoryTypes, StoreTypes
    <3>3. CASE pc' = [pc EXCEPT ![w] = "failing"] /\ clean' = [clean EXCEPT ![w] = NoClean]
               /\ UNCHANGED live
      BY <1>8, <3>3 DEF VerifyCopy, CopyingWorkers, Copying, docVars, ControlTypes,
        MemoryTypes
    <3> QED BY <1>8, <3>1, <3>2, <3>3 DEF VerifyCopy, Abandon, Throw
  <2> QED BY <2>1, <2>2
<1>9. ASSUME NEW w \in Workers, Promote(w) PROVE StoreInv'
  <2>1. StoredDocs'
    BY <1>9 DEF Promote, StoredDocs, docVars, storeVars, DocumentTypes,
      StoreTypes, MemoryTypes, CopyingWorkers, Copying, Quarantined
  <2>2. CopyingWorkers'
    BY <1>9 DEF Promote, CopyingWorkers, docVars, storeVars, localVars,
      DocumentTypes, StoreTypes, MemoryTypes, ControlTypes, StoredDocs,
      Copying, Quarantined, Throw, Abandon
  <2> QED BY <2>1, <2>2
<1>10. ASSUME NEW w \in Workers, DiscardCopy(w) PROVE StoreInv'
  <2>1. StoredDocs'
    BY <1>10 DEF DiscardCopy, StoredDocs, docVars, storeVars, DocumentTypes,
      StoreTypes, MemoryTypes, CopyingWorkers, Copying, Quarantined
  <2>2. CopyingWorkers'
    BY <1>10 DEF DiscardCopy, CopyingWorkers, docVars, storeVars, localVars,
      DocumentTypes, StoreTypes, MemoryTypes, ControlTypes, StoredDocs,
      Copying, Quarantined, Throw, Abandon
  <2> QED BY <2>1, <2>2
<1>11. ASSUME NEW w \in Workers, SweepSource(w) PROVE StoreInv'
  <2>1. StoredDocs'
    BY <1>11 DEF SweepSource, StoredDocs, docVars, storeVars, DocumentTypes,
      StoreTypes, MemoryTypes, CopyingWorkers, Copying, Quarantined
  <2>2. CopyingWorkers'
    BY <1>11 DEF SweepSource, CopyingWorkers, docVars, storeVars, localVars,
      DocumentTypes, StoreTypes, MemoryTypes, ControlTypes, StoredDocs,
      Copying, Quarantined
  <2> QED BY <2>1, <2>2
<1>12. ASSUME NEW w \in Workers, ParseDocument(w) PROVE StoreInv'
  <2>1. StoredDocs'
    BY <1>12 DEF ParseDocument, StoredDocs, docVars, storeVars
  <2>2. CopyingWorkers'
    BY <1>12 DEF ParseDocument, CopyingWorkers, docVars, storeVars, localVars,
      DocumentTypes, StoreTypes, MemoryTypes, ControlTypes, StoredDocs,
      Copying, Quarantined, Proceed, Throw
  <2> QED BY <2>1, <2>2
<1>13. ASSUME NEW w \in Workers, RecordScan(w) PROVE StoreInv'
  <2>1. StoredDocs'
    BY <1>13 DEF RecordScan, StoredDocs, docVars, storeVars
  <2>2. CopyingWorkers'
    BY <1>13 DEF RecordScan, CopyingWorkers, docVars, storeVars, localVars,
      DocumentTypes, StoreTypes, MemoryTypes, ControlTypes, StoredDocs,
      Copying, Quarantined, Proceed, Throw
  <2> QED BY <2>1, <2>2
<1>14. ASSUME NEW w \in Workers, EnterParsing(w) PROVE StoreInv'
  <2>1. StoredDocs'
    BY <1>14 DEF EnterParsing, StoredDocs, docVars, storeVars
  <2>2. CopyingWorkers'
    BY <1>14 DEF EnterParsing, CopyingWorkers, docVars, storeVars, localVars,
      DocumentTypes, StoreTypes, MemoryTypes, ControlTypes, StoredDocs,
      Copying, Quarantined, Proceed, Throw
  <2> QED BY <2>1, <2>2
<1>15. ASSUME NEW w \in Workers, LockDocument(w) \/ WriteChunks(w) PROVE StoreInv'
  <2>1. StoredDocs'
    BY <1>15 DEF LockDocument, WriteChunks, StoredDocs, docVars, storeVars
  <2>2. CopyingWorkers'
    BY <1>15 DEF LockDocument, WriteChunks, CopyingWorkers, docVars, storeVars,
      localVars, ControlTypes, Copying, Throw
  <2> QED BY <2>1, <2>2
<1>16. ASSUME NEW w \in Workers, CommitChunks(w) PROVE StoreInv'
  <2>1. StoredDocs'
    BY <1>16 DEF CommitChunks, StoredDocs, docVars, storeVars
  <2>2. CopyingWorkers'
    BY <1>16 DEF CommitChunks, CopyingWorkers, docVars, storeVars, localVars,
      ControlTypes, Copying, Proceed
  <2> QED BY <2>1, <2>2
<1>17. ASSUME NEW w \in Workers, OpenIndex(w) \/ LockChunks(w) \/ RollBack(w) PROVE StoreInv'
  <2>1. StoredDocs'
    BY <1>17 DEF OpenIndex, LockChunks, RollBack, StoredDocs, docVars, storeVars
  <2>2. CopyingWorkers'
    BY <1>17 DEF OpenIndex, LockChunks, RollBack, CopyingWorkers, docVars,
      storeVars, ControlTypes, Copying, Throw
  <2> QED BY <2>1, <2>2
<1>18. ASSUME NEW w \in Workers, IndexDocument(w) PROVE StoreInv'
  <2>1. StoredDocs'
    BY <1>18 DEF IndexDocument, StoredDocs, docVars, storeVars
  <2>2. CopyingWorkers'
    BY <1>18 DEF IndexDocument, CopyingWorkers, storeVars, ControlTypes,
      Copying, Proceed, Throw
  <2> QED BY <2>1, <2>2
<1>19. ASSUME NEW w \in Workers, CompleteJob(w) PROVE StoreInv'
  <2>1. StoredDocs'
    BY <1>19 DEF CompleteJob, StoredDocs, docVars, storeVars
  <2>2. CopyingWorkers'
    <3>1. \E stage \in {"idle", "failing"} : pc' = [pc EXCEPT ![w] = stage]
      BY <1>19 DEF CompleteJob, Leave, Abandon, Throw
    <3>2. \A x \in Workers \ {w} : clean'[x] = clean[x] /\ binding'[x] = binding[x]
      BY <1>19 DEF CompleteJob, Leave, Abandon, MemoryTypes
    <3>3. task' = task
      BY <1>19 DEF CompleteJob, Leave
    <3> QED
      BY <1>19, <3>1, <3>2, <3>3 DEF CompleteJob, CopyingWorkers, Copying, docVars,
        storeVars, ControlTypes
  <2> QED BY <2>1, <2>2
<1>20. ASSUME NEW w \in Workers, FailJob(w) PROVE StoreInv'
  <2>1. StoredDocs'
    BY <1>20 DEF FailJob, StoredDocs, docVars, storeVars
  <2>2. CopyingWorkers'
    BY <1>20 DEF FailJob, CopyingWorkers, docVars, storeVars, localVars,
      DocumentTypes, StoreTypes, MemoryTypes, ControlTypes, StoredDocs,
      Copying, Quarantined, Leave
  <2> QED BY <2>1, <2>2
<1>21. ASSUME NEW w \in Workers, TagFailed(w) PROVE StoreInv'
  <2>1. StoredDocs'
    BY <1>21 DEF TagFailed, StoredDocs, docVars, storeVars
  <2>2. CopyingWorkers'
    BY <1>21 DEF TagFailed, CopyingWorkers, docVars, storeVars, localVars,
      DocumentTypes, StoreTypes, MemoryTypes, ControlTypes, StoredDocs,
      Copying, Quarantined, Leave
  <2> QED BY <2>1, <2>2
<1>22. ASSUME NEW w \in Workers, Crash(w) PROVE StoreInv'
  <2>1. StoredDocs'
    BY <1>22 DEF Crash, StoredDocs, docVars, storeVars
  <2>2. CopyingWorkers'
    BY <1>22 DEF Crash, CopyingWorkers, docVars, storeVars, localVars,
      DocumentTypes, StoreTypes, MemoryTypes, ControlTypes, StoredDocs,
      Copying, Quarantined, Leave
  <2> QED BY <2>1, <2>2
<1>23. ASSUME NEW d \in Docs, ExpireLease(d) PROVE StoreInv'
  <2>1. StoredDocs'
    BY <1>23 DEF ExpireLease, StoredDocs, docVars, storeVars
  <2>2. CopyingWorkers'
    BY <1>23 DEF ExpireLease, CopyingWorkers, docVars, storeVars, localVars,
      DocumentTypes, StoreTypes, MemoryTypes, ControlTypes, StoredDocs,
      Copying, Quarantined
  <2> QED BY <2>1, <2>2
<1>24. ASSUME NEW d \in Docs, DecideEvidence(d) PROVE StoreInv'
  <2>1. StoredDocs'
    BY <1>24 DEF DecideEvidence, StoredDocs, docVars, storeVars
  <2>2. CopyingWorkers'
    BY <1>24 DEF DecideEvidence, CopyingWorkers, docVars, storeVars,
      localVars, DocumentTypes, StoreTypes, MemoryTypes, ControlTypes,
      StoredDocs, Copying, Quarantined
  <2> QED BY <2>1, <2>2
<1>25. CASE UNCHANGED vars
  BY <1>25 DEF vars, jobVars, docVars, chunkVars, storeVars, localVars,
    budgetVars, StoredDocs, CopyingWorkers
<1> HIDE DEF StoreInv
<1> QED
  BY <1>1, <1>2, <1>3, <1>4, <1>5, <1>6, <1>7, <1>8, <1>9, <1>10, <1>11,
    <1>12, <1>13, <1>14, <1>15, <1>16, <1>17, <1>18, <1>19, <1>20, <1>21,
    <1>22, <1>23, <1>24, <1>25
     DEF Next, Work, Prepare, Publish

-----------------------------------------------------------------------------
(* The theorems                                                            *)

LEMMA InitInv == Init => IndexInv /\ ChunkInv /\ JobInv /\ StoreInv
<1> SUFFICES ASSUME Init PROVE IndexInv /\ ChunkInv /\ JobInv /\ StoreInv
  OBVIOUS
<1>1. IndexInv
  BY DEF Init, IndexInv, IndexedDocs, IndexingWorkers, Classified, Cleaned, Indexing
<1>2. JobInv
  BY DEF Init, JobInv, JobOfDocs, Completing
<1>3. StoreInv
  BY DEF Init, StoreInv, StoredDocs, CopyingWorkers, Copying, Quarantined
<1>4. ChunkInv
  BY DEF Init, ChunkInv, ChunkDocs, Functional, Writers, Writing, Readers, Indexing
<1> QED BY <1>1, <1>2, <1>3, <1>4

LEMMA Invariance == Spec => [](TypeOK /\ IndexInv /\ ChunkInv /\ JobInv /\ StoreInv)
  BY InitType, TypeStep, InitInv, IndexStep, ChunkStep, JobStep, StoreStep, PTL DEF Spec

\* An indexed document carries the admissible parse of the worker that indexed
\* it, whatever a superseded worker commits between the statements of the index
\* transaction; it is decided on only when its current chunks are that parse.
THEOREM EvidenceIntact == Spec => []IndexedEvidenceIntact
<1>1. IndexInv /\ JobInv => IndexedEvidenceIntact
  BY DEF IndexInv, IndexedDocs, JobInv, Completing, IndexedEvidenceIntact
<1> QED BY <1>1, Invariance, PTL

\* No interleaving of workers deletes the object version a row names.
THEOREM ObjectStored == Spec => []BoundObjectStored
<1>1. StoreInv => BoundObjectStored
  BY DEF StoreInv, StoredDocs, BoundObjectStored
<1> QED BY <1>1, Invariance, PTL

\* The tables jobs and documents agree on how an ingestion ended.
THEOREM Agreement == Spec => []JobAndDocumentAgree
<1>1. JobInv => JobAndDocumentAgree
  BY DEF JobInv, JobOfDocs, JobAndDocumentAgree
<1> QED BY <1>1, Invariance, PTL

\* A settled document or job, and the step that leaves it settled.
DocumentSettled(d) ==
  status[d] \in {"INDEXED", "FAILED"} =>
    /\ status'[d] = status[d] /\ object'[d] = object[d]
    /\ scanStatus'[d] = scanStatus[d] /\ current'[d] = current[d]
JobSettled(d) ==
  jobStatus[d] \in {"SUCCEEDED", "DEAD"} => jobStatus'[d] = jobStatus[d]
Settling == \A d \in Docs : DocumentSettled(d) /\ JobSettled(d)

LEMMA SettledStep == TypeOK /\ ChunkInv /\ JobInv /\ [Next]_vars => Settling
<1> SUFFICES ASSUME TypeOK, ChunkInv, JobInv, [Next]_vars PROVE Settling
  OBVIOUS
<1> USE DEF Settling, DocumentSettled, JobSettled
<1>1. ASSUME NEW w \in Workers, NEW d \in Docs, Claim(w, d) PROVE Settling
  BY <1>1 DEF Claim, TypeOK, docVars, chunkVars, JobTypes, Claimable
<1>2. ASSUME NEW w \in Workers, ReadDocument(w) PROVE Settling
  BY <1>2 DEF ReadDocument, jobVars, docVars, chunkVars
<1>3. ASSUME NEW w \in Workers, BeginScanning(w) PROVE Settling
  BY <1>3 DEF BeginScanning, TypeOK, jobVars, chunkVars, DocumentTypes,
    MemoryTypes, Restartable, InFlight
<1>4. ASSUME NEW w \in Workers, Download(w) PROVE Settling
  BY <1>4 DEF Download, jobVars, docVars, chunkVars
<1>5. ASSUME NEW w \in Workers, RenewLease(w) PROVE Settling
  BY <1>5 DEF RenewLease, jobVars, docVars, chunkVars
<1>6. ASSUME NEW w \in Workers, ScanMalware(w) PROVE Settling
  BY <1>6 DEF ScanMalware, jobVars, docVars, chunkVars
<1>7. ASSUME NEW w \in Workers, CopyClean(w) PROVE Settling
  BY <1>7 DEF CopyClean, jobVars, docVars, chunkVars
<1>8. ASSUME NEW w \in Workers, VerifyCopy(w) PROVE Settling
  BY <1>8 DEF VerifyCopy, jobVars, docVars, chunkVars
<1>9. ASSUME NEW w \in Workers, Promote(w) PROVE Settling
  BY <1>9 DEF Promote, TypeOK, jobVars, chunkVars, DocumentTypes, MemoryTypes,
    Promotable
<1>10. ASSUME NEW w \in Workers, DiscardCopy(w) PROVE Settling
  BY <1>10 DEF DiscardCopy, jobVars, docVars, chunkVars
<1>11. ASSUME NEW w \in Workers, SweepSource(w) PROVE Settling
  BY <1>11 DEF SweepSource, jobVars, docVars, chunkVars
<1>12. ASSUME NEW w \in Workers, ParseDocument(w) PROVE Settling
  BY <1>12 DEF ParseDocument, jobVars, docVars, chunkVars
<1>13. ASSUME NEW w \in Workers, RecordScan(w) PROVE Settling
  BY <1>13 DEF RecordScan, TypeOK, jobVars, chunkVars, DocumentTypes,
    MemoryTypes
<1>14. ASSUME NEW w \in Workers, EnterParsing(w) PROVE Settling
  BY <1>14 DEF EnterParsing, TypeOK, jobVars, chunkVars, DocumentTypes,
    MemoryTypes
<1>15. ASSUME NEW w \in Workers, LockDocument(w) \/ WriteChunks(w) PROVE Settling
  BY <1>15 DEF LockDocument, WriteChunks, jobVars, docVars, chunkVars
<1>16. ASSUME NEW w \in Workers, CommitChunks(w) PROVE Settling
  BY <1>16 DEF CommitChunks, TypeOK, jobVars, docVars, ChunkTypes, MemoryTypes,
    ChunkInv, Writers, Writing, WritableChunks
<1>17. ASSUME NEW w \in Workers, OpenIndex(w) \/ LockChunks(w) \/ RollBack(w) PROVE Settling
  BY <1>17 DEF OpenIndex, LockChunks, RollBack, jobVars, docVars, chunkVars
<1>18. ASSUME NEW w \in Workers, IndexDocument(w) PROVE Settling
  BY <1>18 DEF IndexDocument, TypeOK, jobVars, chunkVars, DocumentTypes,
    MemoryTypes, Indexable, WritableChunks
<1>19. ASSUME NEW w \in Workers, CompleteJob(w) PROVE Settling
  BY <1>19, NoWorkerAssumption DEF CompleteJob, TypeOK, docVars, chunkVars,
    JobTypes, MemoryTypes, JobInv, JobOfDocs
<1>20. ASSUME NEW w \in Workers, FailJob(w) PROVE Settling
  BY <1>20, NoWorkerAssumption DEF FailJob, TypeOK, chunkVars, JobTypes,
    DocumentTypes, MemoryTypes, JobInv, JobOfDocs, FailsDocument, InFlight
<1>21. ASSUME NEW w \in Workers, TagFailed(w) PROVE Settling
  BY <1>21 DEF TagFailed, jobVars, docVars, chunkVars
<1>22. ASSUME NEW w \in Workers, Crash(w) PROVE Settling
  BY <1>22 DEF Crash, jobVars, docVars, chunkVars
<1>23. ASSUME NEW d \in Docs, ExpireLease(d) PROVE Settling
  BY <1>23 DEF ExpireLease, jobVars, docVars, chunkVars
<1>24. ASSUME NEW d \in Docs, DecideEvidence(d) PROVE Settling
  BY <1>24 DEF DecideEvidence, jobVars, docVars, chunkVars
<1>25. CASE UNCHANGED vars
  BY <1>25 DEF vars, jobVars, docVars, chunkVars
<1> HIDE DEF Settling
<1> QED
  BY <1>1, <1>2, <1>3, <1>4, <1>5, <1>6, <1>7, <1>8, <1>9, <1>10, <1>11,
    <1>12, <1>13, <1>14, <1>15, <1>16, <1>17, <1>18, <1>19, <1>20, <1>21,
    <1>22, <1>23, <1>24, <1>25
     DEF Next, Work, Prepare, Publish

\* No worker, however late, disturbs a settled document or job.
THEOREM SettledForGood == Spec => SettledStaysSettled
<1>1. TypeOK /\ ChunkInv /\ JobInv /\ [Next]_vars =>
        [\A d \in Docs :
           /\ status[d] \in {"INDEXED", "FAILED"} =>
                /\ status'[d] = status[d] /\ object'[d] = object[d]
                /\ scanStatus'[d] = scanStatus[d] /\ current'[d] = current[d]
           /\ jobStatus[d] \in {"SUCCEEDED", "DEAD"} =>
                jobStatus'[d] = jobStatus[d]]_vars
  BY SettledStep DEF Settling, DocumentSettled, JobSettled
<1> QED
  BY <1>1, Invariance, PTL DEF Spec, SettledStaysSettled

-----------------------------------------------------------------------------
(* The workers implement the evidence ledger (its safety part)             *)

\* The refinement mapping of Ledger, named.
Phase == [d \in Docs |-> CASE status[d] = "INDEXED" -> "sealed"
                           [] status[d] = "FAILED" -> "refused"
                           [] OTHER -> "ingesting"]

\* A step that keeps the three columns of the ledger is a stutter; a document
\* in flight that stays in flight keeps its phase.
LEMMA LedgerStutter ==
  ASSUME TypeOK, UNCHANGED <<manifest, evidence>>,
         \A d \in Docs : status'[d] = status[d] \/ {status[d], status'[d]} \subseteq InFlight
  PROVE  UNCHANGED Ledger!ledgerVars
<1>1. Phase' = Phase
  BY DEF Phase, InFlight
<1> QED
  BY <1>1 DEF Ledger!ledgerVars, Phase

LEMMA LedgerInitially == Init => Ledger!LedgerInit
  BY DEF Init, Ledger!LedgerInit

\* Indexing seals, the death of a job refuses, a decision decides; every other
\* step is invisible to the ledger.
LEMMA LedgerStep ==
  TypeOK /\ IndexInv /\ ChunkInv /\ JobInv /\ [Next]_vars => [Ledger!LedgerNext]_(Ledger!ledgerVars)
<1> SUFFICES ASSUME TypeOK, IndexInv, ChunkInv, JobInv, [Next]_vars
             PROVE  [Ledger!LedgerNext]_(Ledger!ledgerVars)
  OBVIOUS
<1>1. ASSUME NEW w \in Workers, NEW d \in Docs, Claim(w, d) PROVE [Ledger!LedgerNext]_(Ledger!ledgerVars)
  BY <1>1, LedgerStutter DEF Claim, docVars
<1>2. ASSUME NEW w \in Workers, ReadDocument(w) PROVE [Ledger!LedgerNext]_(Ledger!ledgerVars)
  BY <1>2, LedgerStutter DEF ReadDocument, docVars
<1>3. ASSUME NEW w \in Workers, BeginScanning(w) PROVE [Ledger!LedgerNext]_(Ledger!ledgerVars)
  <2>1. UNCHANGED <<manifest, evidence>>
    BY <1>3 DEF BeginScanning
  <2>2. \A d \in Docs : status'[d] = status[d] \/ {status[d], status'[d]} \subseteq InFlight
    BY <1>3 DEF BeginScanning, Restartable, InFlight, TypeOK, DocumentTypes, MemoryTypes
  <2> QED BY <2>1, <2>2, LedgerStutter
<1>4. ASSUME NEW w \in Workers, Download(w) PROVE [Ledger!LedgerNext]_(Ledger!ledgerVars)
  BY <1>4, LedgerStutter DEF Download, docVars
<1>5. ASSUME NEW w \in Workers, RenewLease(w) PROVE [Ledger!LedgerNext]_(Ledger!ledgerVars)
  BY <1>5, LedgerStutter DEF RenewLease, docVars
<1>6. ASSUME NEW w \in Workers, ScanMalware(w) PROVE [Ledger!LedgerNext]_(Ledger!ledgerVars)
  BY <1>6, LedgerStutter DEF ScanMalware, docVars
<1>7. ASSUME NEW w \in Workers, CopyClean(w) PROVE [Ledger!LedgerNext]_(Ledger!ledgerVars)
  BY <1>7, LedgerStutter DEF CopyClean, docVars
<1>8. ASSUME NEW w \in Workers, VerifyCopy(w) PROVE [Ledger!LedgerNext]_(Ledger!ledgerVars)
  BY <1>8, LedgerStutter DEF VerifyCopy, docVars
<1>9. ASSUME NEW w \in Workers, Promote(w) PROVE [Ledger!LedgerNext]_(Ledger!ledgerVars)
  BY <1>9, LedgerStutter DEF Promote
<1>10. ASSUME NEW w \in Workers, DiscardCopy(w) PROVE [Ledger!LedgerNext]_(Ledger!ledgerVars)
  BY <1>10, LedgerStutter DEF DiscardCopy, docVars
<1>11. ASSUME NEW w \in Workers, SweepSource(w) PROVE [Ledger!LedgerNext]_(Ledger!ledgerVars)
  BY <1>11, LedgerStutter DEF SweepSource, docVars
<1>12. ASSUME NEW w \in Workers, ParseDocument(w) PROVE [Ledger!LedgerNext]_(Ledger!ledgerVars)
  BY <1>12, LedgerStutter DEF ParseDocument, docVars
<1>13. ASSUME NEW w \in Workers, RecordScan(w) PROVE [Ledger!LedgerNext]_(Ledger!ledgerVars)
  BY <1>13, LedgerStutter DEF RecordScan
<1>14. ASSUME NEW w \in Workers, EnterParsing(w) PROVE [Ledger!LedgerNext]_(Ledger!ledgerVars)
  <2>1. UNCHANGED <<manifest, evidence>>
    BY <1>14 DEF EnterParsing
  <2>2. \A d \in Docs : status'[d] = status[d] \/ {status[d], status'[d]} \subseteq InFlight
    BY <1>14 DEF EnterParsing, InFlight, TypeOK, DocumentTypes, MemoryTypes
  <2> QED BY <2>1, <2>2, LedgerStutter
<1>15. ASSUME NEW w \in Workers, LockDocument(w) \/ WriteChunks(w) PROVE [Ledger!LedgerNext]_(Ledger!ledgerVars)
  BY <1>15, LedgerStutter DEF LockDocument, WriteChunks, docVars
<1>16. ASSUME NEW w \in Workers, CommitChunks(w) PROVE [Ledger!LedgerNext]_(Ledger!ledgerVars)
  BY <1>16, LedgerStutter DEF CommitChunks, docVars
<1>17. ASSUME NEW w \in Workers, OpenIndex(w) \/ LockChunks(w) \/ RollBack(w)
       PROVE  [Ledger!LedgerNext]_(Ledger!ledgerVars)
  BY <1>17, LedgerStutter DEF OpenIndex, LockChunks, RollBack, docVars
<1>18. ASSUME NEW w \in Workers, IndexDocument(w) PROVE [Ledger!LedgerNext]_(Ledger!ledgerVars)
  <2> PICK d \in Docs : d = task[w]
    BY DEF TypeOK, MemoryTypes
  <2>1. CASE UNCHANGED <<status, manifest>>
    BY <1>18, <2>1, LedgerStutter DEF IndexDocument
  <2>2. CASE Indexable(w) /\ ~UNCHANGED <<status, manifest>>
    <3>1. listed[w] \in Admissible
      BY <1>18 DEF IndexDocument, IndexInv, IndexingWorkers, Classified,
        ChunkInv, Readers
    <3>2. /\ status' = [status EXCEPT ![d] = "INDEXED"]
          /\ manifest' = [manifest EXCEPT ![d] = listed[w]]
          /\ UNCHANGED evidence
      BY <1>18, <2>2 DEF IndexDocument
    <3>3. Phase[d] = "ingesting" /\ Phase' = [Phase EXCEPT ![d] = "sealed"]
      BY <2>2, <3>1, <3>2 DEF Phase, Indexable, WritableChunks, TypeOK, DocumentTypes
    <3>4. Ledger!Seal(d)
      BY <3>1, <3>2, <3>3 DEF Ledger!Seal, Phase
    <3> QED BY <3>1, <3>4 DEF Ledger!LedgerNext
  <2> QED BY <1>18, <2>1, <2>2 DEF IndexDocument
<1>19. ASSUME NEW w \in Workers, CompleteJob(w) PROVE [Ledger!LedgerNext]_(Ledger!ledgerVars)
  BY <1>19, LedgerStutter DEF CompleteJob, docVars
<1>20. ASSUME NEW w \in Workers, FailJob(w) PROVE [Ledger!LedgerNext]_(Ledger!ledgerVars)
  <2> PICK d \in Docs : d = task[w]
    BY DEF TypeOK, MemoryTypes
  <2>1. UNCHANGED <<manifest, evidence>>
    BY <1>20 DEF FailJob
  <2>2. CASE FailsDocument(w)
    <3>1. status' = [status EXCEPT ![d] = "FAILED"] /\ status[d] \in InFlight
      BY <1>20, <2>2 DEF FailJob, FailsDocument
    <3>2. Phase[d] = "ingesting" /\ Phase' = [Phase EXCEPT ![d] = "refused"]
      BY <2>1, <3>1 DEF Phase, InFlight, TypeOK, DocumentTypes
    <3>3. Ledger!Refuse(d)
      BY <2>1, <3>2 DEF Ledger!Refuse, Phase
    <3> QED BY <2>1, <3>3 DEF Ledger!LedgerNext
  <2>3. CASE ~FailsDocument(w)
    BY <1>20, <2>1, <2>3, LedgerStutter DEF FailJob
  <2> QED BY <2>2, <2>3
<1>21. ASSUME NEW w \in Workers, TagFailed(w) PROVE [Ledger!LedgerNext]_(Ledger!ledgerVars)
  BY <1>21, LedgerStutter DEF TagFailed, docVars
<1>22. ASSUME NEW w \in Workers, Crash(w) PROVE [Ledger!LedgerNext]_(Ledger!ledgerVars)
  BY <1>22, LedgerStutter DEF Crash, docVars
<1>23. ASSUME NEW d \in Docs, ExpireLease(d) PROVE [Ledger!LedgerNext]_(Ledger!ledgerVars)
  BY <1>23, LedgerStutter DEF ExpireLease, docVars
<1>24. ASSUME NEW d \in Docs, DecideEvidence(d) PROVE [Ledger!LedgerNext]_(Ledger!ledgerVars)
  <2>1. Phase[d] = "sealed" /\ Phase' = Phase
    BY <1>24 DEF DecideEvidence, Phase
  <2>2. Ledger!Decide(d)
    BY <1>24, <2>1 DEF DecideEvidence, Ledger!Decide, Phase
  <2> QED BY <2>2 DEF Ledger!LedgerNext
<1>25. CASE UNCHANGED vars
  BY <1>25, LedgerStutter DEF vars, docVars
<1> QED
  BY <1>1, <1>2, <1>3, <1>4, <1>5, <1>6, <1>7, <1>8, <1>9, <1>10, <1>11,
    <1>12, <1>13, <1>14, <1>15, <1>16, <1>17, <1>18, <1>19, <1>20, <1>21,
    <1>22, <1>23, <1>24, <1>25
     DEF Next, Work, Prepare, Publish

\* Everything the workers do to documents, evidence and manifests is a behaviour
\* of the ledger (liveness apart).
THEOREM ImplementsLedgerSafety == Spec => Ledger!LedgerSafety
  BY LedgerInitially, LedgerStep, Invariance, PTL DEF Spec, Ledger!LedgerSafety

-----------------------------------------------------------------------------
(* Retries                                                                 *)

\* What an attempt beyond max_attempts is paid for with: a lease that has run
\* out, or that nobody works under, has cost a stall or a crash.
Spendable(d) == attempts[d] < MaxAttempts + stalls + crashes
RetryDocs ==
  \A d \in Docs :
    /\ attempts[d] <= MaxAttempts + stalls + crashes
    /\ jobStatus[d] \in {"QUEUED", "RETRYING"} => attempts[d] < MaxAttempts
    /\ jobStatus[d] = "RUNNING" => leaseOwner[d] \in Workers
    /\ jobStatus[d] = "RUNNING" /\ (leaseExpired[d] \/ ~Attended(d)) => Spendable(d)
\* The owner of a lease works under the last attempt of the job; a worker that
\* tags has given its lease up.
RetryWorkers ==
  \A w \in Workers :
    /\ pc[w] # "idle" /\ leaseOwner[task[w]] = w => tries[w] = attempts[task[w]]
    /\ pc[w] = "tagging" => leaseOwner[task[w]] # w
RetryInv == RetryDocs /\ RetryWorkers

\* A step of the attempt of w that neither begins nor ends it.
Continues(w) ==
  /\ pc[w] \notin {"idle", "tagging"}
  /\ pc'[w] \notin {"idle", "tagging"}
  /\ \A v \in Workers \ {w} : pc'[v] = pc[v]
  /\ \A d \in Docs : leaseExpired'[d] => leaseExpired[d]
  /\ UNCHANGED <<jobStatus, attempts, leaseOwner, task, tries, stalls, crashes>>

LEMMA ContinuesStep ==
  ASSUME TypeOK, RetryInv, NEW w \in Workers, Continues(w)
  PROVE  RetryInv'
<1>1. \A d \in Docs : Attended(d) => Attended(d)'
  BY DEF Continues, Attended
<1>2. RetryDocs'
  BY <1>1 DEF Continues, RetryInv, RetryDocs, Spendable
<1>3. RetryWorkers'
  BY DEF Continues, RetryInv, RetryWorkers
<1> QED BY <1>2, <1>3 DEF RetryInv

\* Reading, scanning, copying, parsing, indexing and renewing the lease are
\* such steps.
LEMMA AttemptContinues ==
  ASSUME TypeOK, NEW w \in Workers, RenewLease(w) \/ Prepare(w) \/ (Publish(w) /\ ~CompleteJob(w))
  PROVE  Continues(w)
<1> USE DEF TypeOK, ControlTypes, Continues, jobVars, budgetVars, localVars, Proceed, Throw, Abandon
<1>1. CASE RenewLease(w)
  BY <1>1 DEF RenewLease, NextStage, JobTypes, MemoryTypes
<1>2. CASE ReadDocument(w) \/ BeginScanning(w) \/ Download(w) \/ ScanMalware(w)
  BY <1>2 DEF ReadDocument, BeginScanning, Download, ScanMalware
<1>3. CASE CopyClean(w) \/ VerifyCopy(w)
  BY <1>3 DEF CopyClean, VerifyCopy
<1>4. CASE Promote(w) \/ DiscardCopy(w) \/ SweepSource(w)
  BY <1>4 DEF Promote, DiscardCopy, SweepSource
<1>5. CASE ParseDocument(w) \/ RecordScan(w) \/ EnterParsing(w)
  BY <1>5 DEF ParseDocument, RecordScan, EnterParsing
<1>6. CASE LockDocument(w) \/ WriteChunks(w) \/ CommitChunks(w)
  BY <1>6 DEF LockDocument, WriteChunks, CommitChunks
<1>7. CASE OpenIndex(w) \/ LockChunks(w) \/ IndexDocument(w)
  BY <1>7 DEF OpenIndex, LockChunks, IndexDocument
<1>8. CASE RollBack(w)
  BY <1>8 DEF RollBack, Writing, Indexing
<1> QED BY <1>1, <1>2, <1>3, <1>4, <1>5, <1>6, <1>7, <1>8 DEF Prepare, Publish

\* A worker that gives up a task it has no lease on changes nothing anybody
\* counts on.
LEMMA RetryStep == TypeOK /\ JobInv /\ RetryInv /\ [Next]_vars => RetryInv'
<1> SUFFICES ASSUME TypeOK, JobInv, RetryInv, [Next]_vars PROVE RetryInv'
  OBVIOUS
<1> USE NoWorkerAssumption, BoundsAssumption DEF TypeOK, JobTypes, MemoryTypes, ControlTypes, BudgetTypes
<1>1. ASSUME NEW w \in Workers, NEW d \in Docs, Claim(w, d) PROVE RetryInv'
  <2>1. /\ pc[w] = "idle" /\ Claimable(d)
        /\ jobStatus' = [jobStatus EXCEPT ![d] = "RUNNING"]
        /\ attempts' = [attempts EXCEPT ![d] = @ + 1]
        /\ leaseOwner' = [leaseOwner EXCEPT ![d] = w]
        /\ leaseExpired' = [leaseExpired EXCEPT ![d] = FALSE]
        /\ task' = [task EXCEPT ![w] = d]
        /\ tries' = [tries EXCEPT ![w] = attempts[d] + 1]
        /\ pc' = [pc EXCEPT ![w] = "claimed"]
        /\ UNCHANGED <<stalls, crashes>>
    BY <1>1 DEF Claim, budgetVars
  <2>2. attempts[d] < MaxAttempts + stalls + crashes
    BY <2>1 DEF Claimable, RetryInv, RetryDocs, Spendable
  <2>3. Attended(d)'
    BY <2>1 DEF Attended
  <2>4. \A x \in Docs \ {d} : Attended(x) => Attended(x)'
    BY <2>1 DEF Attended
  <2>5. RetryDocs'
    BY <2>1, <2>2, <2>3, <2>4 DEF RetryInv, RetryDocs, Spendable
  <2>6. RetryWorkers'
    BY <2>1 DEF RetryInv, RetryWorkers
  <2> QED BY <2>5, <2>6 DEF RetryInv
<1>2. ASSUME NEW w \in Workers, RenewLease(w) \/ Prepare(w) \/ (Publish(w) /\ ~CompleteJob(w))
      PROVE RetryInv'
  BY <1>2, AttemptContinues, ContinuesStep
\* The end of an attempt: the job is no longer RUNNING, or it was not the
\* worker's any more.
<1>3. ASSUME NEW w \in Workers, CompleteJob(w) \/ FailJob(w) \/ TagFailed(w) PROVE RetryInv'
  <2> DEFINE d == task[w]
  <2>1. /\ pc[w] # "idle" /\ \A v \in Workers \ {w} : pc'[v] = pc[v] /\ tries'[v] = tries[v]
        /\ UNCHANGED <<attempts, task, stalls, crashes>>
    BY <1>3 DEF CompleteJob, FailJob, TagFailed, Leave, Abandon, Throw, budgetVars, jobVars, localVars
  <2>2. CASE UNCHANGED jobVars /\ leaseOwner[d] # w
    <3>1. \A x \in Docs : Attended(x) => Attended(x)'
      BY <2>1, <2>2 DEF Attended, jobVars
    <3>2. RetryDocs'
      BY <2>1, <2>2, <3>1 DEF RetryInv, RetryDocs, Spendable, jobVars
    <3>3. RetryWorkers'
      BY <2>1, <2>2 DEF RetryInv, RetryWorkers, jobVars
    <3> QED BY <3>2, <3>3 DEF RetryInv
  <2>3. CASE /\ leaseOwner[d] = w
             /\ leaseOwner' = [leaseOwner EXCEPT ![d] = NoWorker]
             /\ leaseExpired' = [leaseExpired EXCEPT ![d] = FALSE]
             /\ \E s \in {"SUCCEEDED", "DEAD", "RETRYING"} :
                  /\ jobStatus' = [jobStatus EXCEPT ![d] = s]
                  /\ s = "RETRYING" => tries[w] < MaxAttempts
    <3>1. \A x \in Docs \ {d} : Attended(x) => Attended(x)'
      BY <2>1, <2>3 DEF Attended
    <3>2. RetryDocs'
      BY <2>1, <2>3, <3>1 DEF RetryInv, RetryDocs, RetryWorkers, Spendable
    <3>3. RetryWorkers'
      BY <2>1, <2>3 DEF RetryInv, RetryWorkers
    <3> QED BY <3>2, <3>3 DEF RetryInv
  <2>4. CompleteJob(w) => \/ UNCHANGED jobVars /\ leaseOwner[d] # w
                          \/ /\ leaseOwner[d] = w
                             /\ leaseOwner' = [leaseOwner EXCEPT ![d] = NoWorker]
                             /\ leaseExpired' = [leaseExpired EXCEPT ![d] = FALSE]
                             /\ jobStatus' = [jobStatus EXCEPT ![d] = "SUCCEEDED"]
    BY DEF CompleteJob, jobVars
  <2>5. FailJob(w) => \/ UNCHANGED jobVars /\ leaseOwner[d] # w
                      \/ /\ leaseOwner[d] = w
                         /\ leaseOwner' = [leaseOwner EXCEPT ![d] = NoWorker]
                         /\ leaseExpired' = [leaseExpired EXCEPT ![d] = FALSE]
                         /\ jobStatus' = [jobStatus EXCEPT ![d] =
                                            IF FinalFailure(w) THEN "DEAD" ELSE "RETRYING"]
    BY DEF FailJob, jobVars
  <2>6. ~FinalFailure(w) => tries[w] < MaxAttempts
    BY DEF FinalFailure
  <2>7. TagFailed(w) => UNCHANGED jobVars /\ leaseOwner[d] # w
    BY DEF TagFailed, RetryInv, RetryWorkers
  <2> QED BY <1>3, <2>2, <2>3, <2>4, <2>5, <2>6, <2>7
<1>4. ASSUME NEW w \in Workers, Crash(w) PROVE RetryInv'
  <2>1. /\ crashes' = crashes + 1 /\ pc'[w] = "idle"
        /\ \A v \in Workers \ {w} : pc'[v] = pc[v] /\ tries'[v] = tries[v]
        /\ UNCHANGED <<jobVars, task, stalls>>
    BY <1>4 DEF Crash, Leave
  <2>2. RetryDocs'
    BY <2>1 DEF RetryInv, RetryDocs, Spendable, jobVars
  <2>3. RetryWorkers'
    BY <2>1 DEF RetryInv, RetryWorkers, jobVars
  <2> QED BY <2>2, <2>3 DEF RetryInv
<1>5. ASSUME NEW d \in Docs, ExpireLease(d) PROVE RetryInv'
  <2>1. /\ jobStatus[d] = "RUNNING"
        /\ Attended(d) => stalls' = stalls + 1
        /\ ~Attended(d) => stalls' = stalls
        /\ leaseExpired' = [leaseExpired EXCEPT ![d] = TRUE]
        /\ UNCHANGED <<jobStatus, attempts, leaseOwner, task, tries, pc, crashes>>
    BY <1>5 DEF ExpireLease, localVars
  <2>2. \A x \in Docs : Attended(x) <=> Attended(x)'
    BY <2>1 DEF Attended
  <2>3. RetryDocs'
    BY <2>1, <2>2 DEF RetryInv, RetryDocs, Spendable
  <2>4. RetryWorkers'
    BY <2>1 DEF RetryInv, RetryWorkers
  <2> QED BY <2>3, <2>4 DEF RetryInv
<1>6. ASSUME UNCHANGED <<jobVars, pc, task, tries, budgetVars>> PROVE RetryInv'
  <2>1. \A x \in Docs : Attended(x) <=> Attended(x)'
    BY <1>6 DEF Attended, jobVars
  <2> QED
    BY <1>6, <2>1 DEF RetryInv, RetryDocs, RetryWorkers, Spendable, jobVars, budgetVars
<1>7. ASSUME NEW d \in Docs, DecideEvidence(d) PROVE RetryInv'
  BY <1>6, <1>7 DEF DecideEvidence, localVars
<1>8. CASE UNCHANGED vars
  BY <1>6, <1>8 DEF vars, localVars
<1> QED
  BY <1>1, <1>2, <1>3, <1>4, <1>5, <1>7, <1>8 DEF Next, Work, Prepare, Publish

\* Failures alone never exceed max_attempts, for any number of workers that
\* stall and crash.
THEOREM RetriesBounded == Spec => []RetriesAreLimited
<1>1. Init => RetryInv
  BY NoWorkerAssumption, BoundsAssumption DEF Init, RetryInv, RetryDocs, RetryWorkers, Spendable
<1>2. TypeOK /\ JobInv /\ RetryInv /\ [Next]_vars => RetryInv'
  BY RetryStep
<1>3. RetryInv => RetriesAreLimited
  BY DEF RetryInv, RetryDocs, RetriesAreLimited
<1> QED BY <1>1, <1>2, <1>3, Invariance, PTL DEF Spec
=============================================================================
