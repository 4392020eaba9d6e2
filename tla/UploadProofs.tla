---------------------------- MODULE UploadProofs ----------------------------
(***************************************************************************)
(* Theorems about Upload for any number of requests, keys and files.       *)
(*                                                                         *)
(* The invariant follows one request through its transaction: an           *)
(* uncommitted row keeps its unique key free of committed rows, a request  *)
(* that will answer with an earlier document has found the committed row   *)
(* of its own file, and nobody deletes the object of a request before its  *)
(* transaction is over.                                                    *)
(***************************************************************************)
EXTENDS Upload, TLAPS

\* An uncommitted row belongs to a transaction that is about to commit it, and
\* no committed row has its unique key.
PendingFiles ==
  \A f \in Files : filePending[f] # NoRequest =>
    /\ Upload[filePending[f]].file = f
    /\ pc[filePending[f]] \in {"job", "commit"}
    /\ pc[filePending[f]] = "commit" => found[filePending[f]] = filePending[f]
    /\ document[f] = NoRequest
PendingKeys ==
  \A k \in Keys : keyPending[k] # NoRequest =>
    /\ Upload[keyPending[k]].key = k
    /\ pc[keyPending[k]] = "commit"
    /\ found[keyPending[k]] = keyPending[k]
    /\ job[k] = NoRequest

\* What a request in its transaction has written or found.
Inserting ==
  \A r \in Requests :
    /\ pc[r] = "job" => filePending[Upload[r].file] = r
    /\ pc[r] = "commit" /\ found[r] = r =>
         filePending[Upload[r].file] = r /\ keyPending[Upload[r].key] = r
Finding ==
  \A r \in Requests :
    /\ pc[r] = "sweep" => found[r] \in Requests \ {r}
    /\ pc[r] \in {"commit", "sweep"} /\ found[r] # r =>
         found[r] = document[Upload[r].file] /\ SameOrigin(r, found[r])

\* A committed document was inserted by a request that is past its transaction.
Committed ==
  \A f \in Files : document[f] # NoRequest => pc[document[f]] \in {"failing", "ended"}

\* The object of a request is stored while its transaction runs, and only an
\* ended request has an answer.
Stored ==
  \A r \in Requests :
    /\ pc[r] \in InTransaction => r \in live
    /\ answer[r] # "none" => pc[r] = "ended"

RowInv == PendingFiles /\ PendingKeys /\ Inserting /\ DocumentsAndJobsPair /\ Committed
AnswerInv == Finding /\ Stored /\ AnswersMatchUploads /\ AnswersAccountForObjects
Inv == TypeOK /\ RowInv /\ AnswerInv

-----------------------------------------------------------------------------
(* Initial states, requests and locks                                      *)

LEMMA InitInv == Init => Inv
  BY UploadAssumption DEF Init, Inv, RowInv, AnswerInv, TypeOK, Rows, Stages, InTransaction, Answers,
    PendingFiles, PendingKeys, Inserting, Finding, Committed, Stored,
    DocumentsAndJobsPair, AnswersMatchUploads, AnswersAccountForObjects

LEMMA UploadFields ==
  \A r \in Requests :
    /\ Upload[r].actor \in Actors /\ Upload[r].key \in Keys /\ Upload[r].file \in Files
    /\ r # NoRequest
  BY UploadAssumption

\* Releasing the locks of one request leaves those of the others.
LEMMA UnlockedLocks ==
  ASSUME NEW S, NEW locks \in [S -> Rows], NEW r \in Requests
  PROVE  /\ Unlocked(locks, r) \in [S -> Rows]
         /\ \A x \in S : Unlocked(locks, r)[x] = IF locks[x] = r THEN NoRequest ELSE locks[x]
  BY DEF Unlocked, Rows

\* Committing publishes the rows of one request and leaves the others.
LEMMA PublishedRows ==
  ASSUME NEW S, NEW rows \in [S -> Rows], NEW locks \in [S -> Rows], NEW r \in Requests
  PROVE  /\ Published(rows, locks, r) \in [S -> Rows]
         /\ \A x \in S : Published(rows, locks, r)[x] = IF locks[x] = r THEN r ELSE rows[x]
  BY DEF Published, Rows

-----------------------------------------------------------------------------
(* Steps                                                                   *)

\* A transaction that rolls back, wherever it stands and wherever its request
\* goes on, leaves no trace in the rows.
LEMMA RollbackStep ==
  ASSUME Inv, NEW r \in Requests, pc[r] # "ended",
         filePending' = Unlocked(filePending, r),
         keyPending' = Unlocked(keyPending, r),
         found' = [found EXCEPT ![r] = NoRequest],
         \/ pc' = [pc EXCEPT ![r] = "failing"] /\ answer' = answer
         \/ /\ pc' = [pc EXCEPT ![r] = "ended"]
            /\ answer' = [answer EXCEPT ![r] = "error"],
         UNCHANGED <<rowVars, phase, live>>
  PROVE  Inv'
<1>1. /\ filePending' \in [Files -> Rows]
      /\ \A f \in Files : filePending'[f] = IF filePending[f] = r THEN NoRequest ELSE filePending[f]
      /\ keyPending' \in [Keys -> Rows]
      /\ \A k \in Keys : keyPending'[k] = IF keyPending[k] = r THEN NoRequest ELSE keyPending[k]
  <2>1. filePending \in [Files -> Rows] /\ keyPending \in [Keys -> Rows]
    BY DEF Inv, TypeOK
  <2> QED BY <2>1, UnlockedLocks
<1> USE UploadFields DEF Inv, RowInv, AnswerInv, TypeOK, Stages, InTransaction, Answers, Rows, rowVars
<1>2. TypeOK'
  BY <1>1
<1>3. PendingFiles' /\ PendingKeys' /\ Inserting'
  BY <1>1 DEF PendingFiles, PendingKeys, Inserting
<1>4. DocumentsAndJobsPair' /\ Committed'
  BY DEF DocumentsAndJobsPair, Committed
<1>5. Finding' /\ Stored'
  BY DEF Finding, Stored, SameOrigin
<1>6. AnswersMatchUploads' /\ AnswersAccountForObjects'
  BY DEF Stored, AnswersMatchUploads, AnswersAccountForObjects
<1> QED BY <1>2, <1>3, <1>4, <1>5, <1>6

LEMMA RolledBack ==
  ASSUME Inv, NEW r \in Requests, pc[r] \in InTransaction, Rollback(r),
         UNCHANGED <<rowVars, phase, live, answer>>
  PROVE  Inv'
<1>1. pc[r] # "ended"
  BY DEF InTransaction
<1>2. /\ filePending' = Unlocked(filePending, r)
      /\ keyPending' = Unlocked(keyPending, r)
      /\ found' = [found EXCEPT ![r] = NoRequest]
      /\ pc' = [pc EXCEPT ![r] = "failing"]
  BY DEF Rollback, Goto
<1>3. UNCHANGED <<rowVars, phase, live>> /\ answer' = answer
  OBVIOUS
<1> QED BY <1>1, <1>2, <1>3, RollbackStep

\* A transaction that returns the committed document of its file.
LEMMA ReturnStep ==
  ASSUME Inv, NEW r \in Requests, pc[r] \in {"key", "checksum", "raced"},
         NEW d \in Requests, d = document[Upload[r].file], SameOrigin(r, d), Return(r, d),
         UNCHANGED <<rowVars, phase, live, answer>>
  PROVE  Inv'
<1> USE UploadFields DEF Inv, RowInv, AnswerInv, TypeOK, Stages, InTransaction, Answers, Rows, rowVars,
      lockVars, Return, Goto
<1>1. d # r
  BY DEF Committed
<1>2. TypeOK'
  OBVIOUS
<1>3. PendingFiles' /\ PendingKeys' /\ Inserting'
  BY <1>1 DEF PendingFiles, PendingKeys, Inserting
<1>4. DocumentsAndJobsPair' /\ Committed'
  BY DEF DocumentsAndJobsPair, Committed
<1>5. Finding'
  <2>1. \A x \in Requests \ {r} : pc'[x] = pc[x] /\ found'[x] = found[x]
    OBVIOUS
  <2>2. pc'[r] = "commit" /\ found'[r] = d /\ document' = document
    OBVIOUS
  <2> QED BY <1>1, <2>1, <2>2 DEF Finding, SameOrigin
<1>6. Stored'
  BY DEF Stored
<1>7. AnswersMatchUploads' /\ AnswersAccountForObjects'
  BY DEF Stored, AnswersMatchUploads, AnswersAccountForObjects
<1> QED BY <1>2, <1>3, <1>4, <1>5, <1>6, <1>7

\* The request goes from one statement to the next and changes nothing else.
LEMMA GotoStep ==
  ASSUME Inv, NEW r \in Requests, pc[r] \in {"key", "checksum", "insert"},
         NEW stage \in {"checksum", "insert", "raced"}, Goto(r, stage),
         UNCHANGED <<rowVars, lockVars, phase, live, found, answer>>
  PROVE  Inv'
  BY UploadFields DEF Inv, RowInv, AnswerInv, TypeOK, Stages, InTransaction, Answers, Rows, rowVars, lockVars,
    Goto, PendingFiles, PendingKeys, Inserting, DocumentsAndJobsPair, Committed,
    Finding, Stored, SameOrigin, AnswersMatchUploads, AnswersAccountForObjects

LEMMA PutObjectStep ==
  ASSUME Inv, NEW r \in Requests, PutObject(r)
  PROVE  Inv'
<1> USE UploadFields DEF Inv, RowInv, AnswerInv, TypeOK, Stages, InTransaction, Answers, Rows, rowVars,
      lockVars, PutObject, Goto, Tell
<1>1. TypeOK'
  OBVIOUS
<1>2. PendingFiles' /\ PendingKeys' /\ Inserting' /\ DocumentsAndJobsPair' /\ Committed'
  BY DEF PendingFiles, PendingKeys, Inserting, DocumentsAndJobsPair, Committed
<1>3. Finding' /\ Stored'
  BY DEF Finding, Stored, SameOrigin
<1>4. AnswersMatchUploads' /\ AnswersAccountForObjects'
  BY DEF Stored, AnswersMatchUploads, AnswersAccountForObjects
<1> QED BY <1>1, <1>2, <1>3, <1>4

LEMMA LookupKeyStep ==
  ASSUME Inv, NEW r \in Requests, LookupKey(r)
  PROVE  Inv'
<1> DEFINE d == job[Upload[r].key]
<1>1. pc[r] = "key" /\ UNCHANGED <<rowVars, phase, live, answer>>
  BY DEF LookupKey
<1>2. CASE Goto(r, "checksum") /\ UNCHANGED <<lockVars, found>>
  BY <1>1, <1>2, GotoStep
<1>3. CASE d # NoRequest /\ SameUpload(r, d) /\ Return(r, d)
  <2>1. d \in Requests /\ d = document[Upload[r].file] /\ SameOrigin(r, d)
    BY <1>3, UploadFields DEF Inv, RowInv, DocumentsAndJobsPair, TypeOK, Rows, SameUpload, SameOrigin
  <2> QED BY <1>1, <1>3, <2>1, ReturnStep
<1>4. CASE Rollback(r)
  BY <1>1, <1>4, RolledBack DEF InTransaction
<1> QED BY <1>2, <1>3, <1>4 DEF LookupKey

LEMMA LookupChecksumStep ==
  ASSUME Inv, NEW r \in Requests, LookupChecksum(r)
  PROVE  Inv'
<1> DEFINE d == document[Upload[r].file]
<1>1. pc[r] \in {"checksum", "raced"} /\ UNCHANGED <<rowVars, phase, live, answer>>
  BY DEF LookupChecksum
<1>2. CASE pc[r] = "checksum" /\ Goto(r, "insert") /\ UNCHANGED <<lockVars, found>>
  BY <1>1, <1>2, GotoStep
<1>3. CASE d # NoRequest /\ SameOrigin(r, d) /\ Return(r, d)
  <2>1. d \in Requests
    BY <1>3, UploadFields DEF Inv, TypeOK, Rows
  <2> QED BY <1>1, <1>3, <2>1, ReturnStep
<1>4. CASE Rollback(r)
  BY <1>1, <1>4, RolledBack DEF InTransaction
<1> QED BY <1>2, <1>3, <1>4 DEF LookupChecksum

LEMMA InsertDocumentStep ==
  ASSUME Inv, NEW r \in Requests, InsertDocument(r)
  PROVE  Inv'
<1> DEFINE f == Upload[r].file
<1>1. /\ pc[r] = "insert" /\ filePending[f] = NoRequest
      /\ UNCHANGED <<rowVars, keyPending, phase, live, found, answer>>
  BY DEF InsertDocument
<1>2. CASE Goto(r, "raced") /\ UNCHANGED filePending
  BY <1>1, <1>2, GotoStep DEF lockVars
<1>3. CASE /\ document[f] = NoRequest
           /\ filePending' = [filePending EXCEPT ![f] = r] /\ Goto(r, "job")
  <2> USE UploadFields, <1>1, <1>3 DEF Inv, RowInv, AnswerInv, TypeOK, Stages, InTransaction, Answers, Rows,
        rowVars, Goto
  <2>1. TypeOK'
    OBVIOUS
  <2>2. PendingFiles' /\ PendingKeys' /\ Inserting'
    BY DEF PendingFiles, PendingKeys, Inserting
  <2>3. DocumentsAndJobsPair' /\ Committed'
    BY DEF DocumentsAndJobsPair, Committed
  <2>4. Finding' /\ Stored'
    BY DEF Finding, Stored, SameOrigin
  <2>5. AnswersMatchUploads' /\ AnswersAccountForObjects'
    BY DEF Stored, AnswersMatchUploads, AnswersAccountForObjects
  <2> QED BY <2>1, <2>2, <2>3, <2>4, <2>5
<1> QED BY <1>2, <1>3 DEF InsertDocument

LEMMA InsertJobStep ==
  ASSUME Inv, NEW r \in Requests, InsertJob(r)
  PROVE  Inv'
<1> DEFINE k == Upload[r].key
<1>1. /\ pc[r] = "job" /\ keyPending[k] = NoRequest
      /\ UNCHANGED <<rowVars, phase, live, answer>>
  BY DEF InsertJob
<1>2. CASE Rollback(r)
  BY <1>1, <1>2, RolledBack DEF InTransaction
<1>3. CASE /\ job[k] = NoRequest
           /\ keyPending' = [keyPending EXCEPT ![k] = r]
           /\ found' = [found EXCEPT ![r] = r]
           /\ Goto(r, "commit") /\ UNCHANGED filePending
  <2> USE UploadFields, <1>1, <1>3 DEF Inv, RowInv, AnswerInv, TypeOK, Stages, InTransaction, Answers, Rows,
        rowVars, Goto
  <2>1. TypeOK'
    OBVIOUS
  <2>2. PendingFiles' /\ PendingKeys' /\ Inserting'
    BY DEF PendingFiles, PendingKeys, Inserting
  <2>3. DocumentsAndJobsPair' /\ Committed'
    BY DEF DocumentsAndJobsPair, Committed
  <2>4. Finding' /\ Stored'
    BY DEF Finding, Stored, SameOrigin
  <2>5. AnswersMatchUploads' /\ AnswersAccountForObjects'
    BY DEF Stored, AnswersMatchUploads, AnswersAccountForObjects
  <2> QED BY <2>1, <2>2, <2>3, <2>4, <2>5
<1> QED BY <1>2, <1>3 DEF InsertJob

\* The commit of a document with its job, and the commit of a transaction that
\* wrote nothing.
LEMMA CommitStep ==
  ASSUME Inv, NEW r \in Requests, Commit(r)
  PROVE  Inv'
<1>1. /\ pc[r] = "commit" /\ found[r] \in Requests /\ r \in live /\ live' = live
      /\ answer[r] = "none"
  BY DEF Commit, Inv, TypeOK, Answers, AnswerInv, Stored, InTransaction
<1>2. /\ filePending \in [Files -> Rows] /\ keyPending \in [Keys -> Rows]
      /\ document \in [Files -> Rows] /\ job \in [Keys -> Rows]
  BY DEF Inv, TypeOK
<1>3. /\ filePending' \in [Files -> Rows]
      /\ \A f \in Files : filePending'[f] = IF filePending[f] = r THEN NoRequest ELSE filePending[f]
      /\ keyPending' \in [Keys -> Rows]
      /\ \A k \in Keys : keyPending'[k] = IF keyPending[k] = r THEN NoRequest ELSE keyPending[k]
  BY <1>2, UnlockedLocks DEF Commit
<1>4. /\ document' \in [Files -> Rows]
      /\ \A f \in Files : document'[f] = IF filePending[f] = r THEN r ELSE document[f]
      /\ job' \in [Keys -> Rows]
      /\ \A k \in Keys : job'[k] = IF keyPending[k] = r THEN r ELSE job[k]
  BY <1>2, PublishedRows DEF Commit
<1> USE UploadFields DEF Inv, RowInv, AnswerInv, TypeOK, Stages, InTransaction, Answers, Rows, Goto
<1>5. /\ phase' \in [Files -> {"none", "queued", "promoted", "indexed", "failed"}]
      /\ \A f \in Files : phase'[f] = IF filePending[f] = r THEN "queued" ELSE phase[f]
  BY DEF Commit
<1>6. \A x \in Requests \ {r} :
        pc'[x] = pc[x] /\ found'[x] = found[x] /\ answer'[x] = answer[x]
  BY DEF Commit
<1>7. \/ /\ pc'[r] = "ended" /\ answer'[r] = "created"
         /\ found[r] = r /\ found'[r] = r
      \/ /\ pc'[r] = "sweep" /\ answer'[r] = "none"
         /\ found[r] # r /\ found'[r] = found[r]
      \/ /\ pc'[r] = "failing" /\ answer'[r] = "none"
         /\ found'[r] = NoRequest
  BY <1>1 DEF Commit, AfterCommit
<1>8. pc' \in [Requests -> Stages] /\ found' \in [Requests -> Rows] /\ answer' \in [Requests -> Answers]
  BY <1>1 DEF Commit, AfterCommit
<1>9. /\ \A f \in Files : filePending[f] = r =>
           f = Upload[r].file /\ found[r] = r /\ document[f] = NoRequest
      /\ \A k \in Keys : keyPending[k] = r =>
           k = Upload[r].key /\ found[r] = r /\ job[k] = NoRequest
      /\ found[r] = r => filePending[Upload[r].file] = r /\ keyPending[Upload[r].key] = r
  BY <1>1 DEF PendingFiles, PendingKeys, Inserting
<1> HIDE DEF Rows, Stages, Answers
<1>10. TypeOK'
  BY <1>1, <1>3, <1>4, <1>5, <1>6, <1>7, <1>8
<1>11. PendingFiles' /\ PendingKeys' /\ Inserting'
  BY <1>1, <1>3, <1>4, <1>6, <1>7, <1>9 DEF PendingFiles, PendingKeys, Inserting, Rows
<1>12. DocumentsAndJobsPair'
  BY <1>4, <1>9 DEF DocumentsAndJobsPair, Rows
<1>13. Committed'
  BY <1>1, <1>4, <1>6, <1>7, <1>9 DEF Committed, Rows
<1>14. Finding'
  BY <1>1, <1>4, <1>6, <1>7, <1>9 DEF Finding, SameOrigin, PendingFiles, Rows
<1>15. Stored'
  BY <1>1, <1>6, <1>7 DEF Stored
<1>16. AnswersMatchUploads'
  BY <1>1, <1>4, <1>6, <1>7, <1>9 DEF AnswersMatchUploads, Rows
<1>17. AnswersAccountForObjects'
  BY <1>1, <1>4, <1>5, <1>6, <1>7, <1>9 DEF AnswersAccountForObjects, Rows
<1> QED BY <1>10, <1>11, <1>12, <1>13, <1>14, <1>15, <1>16, <1>17

\* The deletions of the request's own object.
LEMMA SweepStep ==
  ASSUME Inv, NEW r \in Requests, Sweep(r) \/ CleanUp(r)
  PROVE  Inv'
<1> USE UploadFields DEF Inv, RowInv, AnswerInv, TypeOK, Stages, InTransaction, Answers, Rows, rowVars,
      lockVars, Sweep, CleanUp, Goto, Tell
<1>1. TypeOK'
  OBVIOUS
<1>2. PendingFiles' /\ PendingKeys' /\ Inserting' /\ DocumentsAndJobsPair' /\ Committed'
  BY DEF PendingFiles, PendingKeys, Inserting, DocumentsAndJobsPair, Committed
<1>3. Finding' /\ Stored'
  BY DEF Finding, Stored, SameOrigin
<1>4. AnswersMatchUploads'
  BY DEF Finding, Stored, AnswersMatchUploads, SameOrigin
<1>5. AnswersAccountForObjects'
  BY DEF Finding, Stored, AnswersAccountForObjects
<1> QED BY <1>1, <1>2, <1>3, <1>4, <1>5

\* A crash rolls an open transaction back and answers with an error.
LEMMA CrashStep ==
  ASSUME Inv, NEW r \in Requests, Crash(r)
  PROVE  Inv'
  BY RollbackStep DEF Crash, Tell, Goto

\* The worker deletes the object of a document only when it takes the document
\* out of the queue.
LEMMA WorkerStep ==
  ASSUME Inv, NEW f \in Files, Promote(f) \/ Settle(f)
  PROVE  Inv'
<1> USE UploadFields DEF Inv, RowInv, AnswerInv, TypeOK, Stages, InTransaction, Answers, Rows, rowVars,
      lockVars, Promote, Settle
<1>1. TypeOK'
  OBVIOUS
<1>2. PendingFiles' /\ PendingKeys' /\ Inserting' /\ DocumentsAndJobsPair' /\ Committed'
  BY DEF PendingFiles, PendingKeys, Inserting, DocumentsAndJobsPair, Committed
<1>3. Finding' /\ Stored'
  BY DEF Finding, Stored, SameOrigin, Committed
<1>4. AnswersMatchUploads'
  BY DEF AnswersMatchUploads
<1>5. AnswersAccountForObjects'
  BY DEF AnswersAccountForObjects, DocumentsAndJobsPair
<1> QED BY <1>1, <1>2, <1>3, <1>4, <1>5

\* The strengthening holds in every reachable state.
THEOREM Invariance == Spec => []Inv
<1>1. ASSUME Inv, Next PROVE Inv'
  <2>1. ASSUME NEW r \in Requests, Abort(r) PROVE Inv'
    BY <1>1, <2>1, RolledBack DEF Abort
  <2> QED
    BY <1>1, <2>1, PutObjectStep, LookupKeyStep, LookupChecksumStep, InsertDocumentStep,
       InsertJobStep, CommitStep, SweepStep, CrashStep, WorkerStep DEF Next, Work
<1>2. ASSUME Inv, UNCHANGED vars PROVE Inv'
  BY <1>2 DEF vars, Inv, RowInv, AnswerInv, TypeOK, PendingFiles, PendingKeys, Inserting, Finding, Committed,
    Stored, SameOrigin, DocumentsAndJobsPair, AnswersMatchUploads, AnswersAccountForObjects
<1> QED BY InitInv, <1>1, <1>2, PTL DEF Spec

-----------------------------------------------------------------------------
(* Theorems                                                                *)

\* Rows, locks and the memory of each request keep their types, and no
\* transaction commits without a result.
THEOREM UploadTypes == Spec => []TypeOK
<1>1. Inv => TypeOK
  BY DEF Inv
<1> QED BY <1>1, Invariance, PTL

\* Documents and jobs come in pairs, however the statements interleave.
THEOREM RowsPair == Spec => []DocumentsAndJobsPair
<1>1. Inv => DocumentsAndJobsPair
  BY DEF Inv, RowInv
<1> QED BY <1>1, Invariance, PTL

\* Every answer names the document that holds the file of the request.
THEOREM AnswersMatch == Spec => []AnswersMatchUploads
<1>1. Inv => AnswersMatchUploads
  BY DEF Inv, AnswerInv
<1> QED BY <1>1, Invariance, PTL

\* A created document keeps its object until the worker takes it, and a
\* duplicate leaves none.
THEOREM ObjectsAccounted == Spec => []AnswersAccountForObjects
<1>1. Inv => AnswersAccountForObjects
  BY DEF Inv, AnswerInv
<1> QED BY <1>1, Invariance, PTL
=============================================================================
