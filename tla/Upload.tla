------------------------------- MODULE Upload -------------------------------
(***************************************************************************)
(* Uploading a document: each request stores an object of its own, then    *)
(* one transaction looks for its idempotency key, looks for its file, and  *)
(* inserts the document and its ingestion job; a request that inserted     *)
(* nothing deletes its object again (uploads/route.ts, enqueueDocument).   *)
(*                                                                         *)
(* The transaction runs at READ COMMITTED: a statement sees what has been  *)
(* committed, and an insert waits for an uncommitted row with the same     *)
(* unique key.  It may fail at any statement, and it may commit although   *)
(* the acknowledgement is lost.  A document and a job are named by the     *)
(* request that inserted them, and so is the object that request stored.   *)
(***************************************************************************)
CONSTANTS
  Requests,    \* upload requests, retries included
  Upload,      \* Upload[r]: the fields of request r
  Actors, Keys, Files, Sources, Names,
  NoRequest    \* no row under this unique key

\* A file is a matter and a checksum; a source is a classification with its
\* publisher and address.
ASSUME UploadAssumption ==
  /\ NoRequest \notin Requests
  /\ Upload \in [Requests -> [actor : Actors, key : Keys, file : Files,
                              source : Sources, name : Names]]

VARIABLES
  document,    \* document[f]: the request whose row holds file f
  job,         \* job[k]: the request whose job holds idempotency key k
  filePending, \* filePending[f]: the request with an uncommitted row for f
  keyPending,  \* keyPending[k]: the request with an uncommitted job for k
  phase,       \* phase[f]: how far the worker is with the document of f
  live,        \* requests whose quarantine object is stored
  pc,          \* pc[r]: the step of request r
  found,       \* found[r]: the document the transaction of r returns
  answer       \* answer[r]: what the client was told

rowVars == <<document, job>>
lockVars == <<filePending, keyPending>>
vars == <<document, job, filePending, keyPending, phase, live, pc, found, answer>>

InTransaction == {"key", "checksum", "insert", "raced", "job", "commit"}
Stages == {"new", "sweep", "failing", "ended"} \cup InTransaction
\* "error" includes every refusal before anything is stored.
Answers == {"none", "created", "known", "error"}
Rows == Requests \cup {NoRequest}

TypeOK ==
  /\ document \in [Files -> Rows]
  /\ job \in [Keys -> Rows]
  /\ filePending \in [Files -> Rows]
  /\ keyPending \in [Keys -> Rows]
  /\ phase \in [Files -> {"none", "queued", "promoted", "indexed", "failed"}]
  /\ live \in SUBSET Requests
  /\ pc \in [Requests -> Stages]
  /\ found \in [Requests -> Rows]
  /\ answer \in [Requests -> Answers]
  /\ \A r \in Requests : pc[r] = "commit" => found[r] \in Requests

Init ==
  /\ document = [f \in Files |-> NoRequest]
  /\ job = [k \in Keys |-> NoRequest]
  /\ filePending = [f \in Files |-> NoRequest]
  /\ keyPending = [k \in Keys |-> NoRequest]
  /\ phase = [f \in Files |-> "none"]
  /\ live = {}
  /\ pc = [r \in Requests |-> "new"]
  /\ found = [r \in Requests |-> NoRequest]
  /\ answer = [r \in Requests |-> "none"]

-----------------------------------------------------------------------------
(* One request                                                             *)

Goto(r, stage) == pc' = [pc EXCEPT ![r] = stage]

Tell(r, what) ==
  /\ answer' = [answer EXCEPT ![r] = what]
  /\ Goto(r, "ended")

\* PutObject under a key of its own; the request ends when the put fails, with
\* or without the object stored.
PutObject(r) ==
  /\ pc[r] = "new"
  /\ \/ live' = live \cup {r} /\ Goto(r, "key") /\ UNCHANGED answer
     \/ live' \in {live, live \cup {r}} /\ Tell(r, "error")
  /\ UNCHANGED <<rowVars, lockVars, phase, found>>

\* The locks a transaction holds when it is over.
Unlocked(locks, r) ==
  [x \in DOMAIN locks |-> IF locks[x] = r THEN NoRequest ELSE locks[x]]

\* Mutant: the uncommitted document survives the failure of the job.
RollbackJobOnly(r) ==
  /\ keyPending' = Unlocked(keyPending, r)
  /\ found' = [found EXCEPT ![r] = NoRequest]
  /\ Goto(r, "failing")
  /\ UNCHANGED filePending

\* The transaction fails: its rows and locks are gone, and the catch block of
\* the route runs.
Rollback(r) ==
  /\ filePending' = Unlocked(filePending, r)
  /\ keyPending' = Unlocked(keyPending, r)
  /\ found' = [found EXCEPT ![r] = NoRequest]
  /\ Goto(r, "failing")

\* Mutant: the idempotency key alone decides.
SameUploadByKey(r, d) == Upload[d].key = Upload[r].key

\* The fields the key lookup compares before it returns the earlier upload.
SameUpload(r, d) == Upload[d] = Upload[r]

\* What the checksum lookup compares: key and name may differ.
SameOrigin(r, d) ==
  /\ Upload[d].actor = Upload[r].actor
  /\ Upload[d].source = Upload[r].source

\* The transaction returns the document d that was there before.
Return(r, d) ==
  /\ found' = [found EXCEPT ![r] = d]
  /\ Goto(r, "commit")
  /\ UNCHANGED lockVars

LookupKey(r) ==
  LET d == job[Upload[r].key]
  IN
  /\ pc[r] = "key"
  /\ \/ d = NoRequest /\ Goto(r, "checksum") /\ UNCHANGED <<lockVars, found>>
     \/ d # NoRequest /\ SameUpload(r, d) /\ Return(r, d)
     \/ d # NoRequest /\ ~SameUpload(r, d) /\ Rollback(r)
  /\ UNCHANGED <<rowVars, phase, live, answer>>

\* existingByChecksum, before the insert and again when the insert met a row:
\* documents are not deleted, so the second lookup finds one.
LookupChecksum(r) ==
  LET d == document[Upload[r].file]
  IN
  /\ pc[r] \in {"checksum", "raced"}
  /\ \/ /\ d = NoRequest
        /\ pc[r] = "checksum" /\ Goto(r, "insert") /\ UNCHANGED <<lockVars, found>>
     \/ d # NoRequest /\ SameOrigin(r, d) /\ Return(r, d)
     \/ d # NoRequest /\ ~SameOrigin(r, d) /\ Rollback(r)
  /\ UNCHANGED <<rowVars, phase, live, answer>>

\* INSERT ... ON CONFLICT DO NOTHING waits for an uncommitted row.
InsertDocument(r) ==
  LET f == Upload[r].file
  IN
  /\ pc[r] = "insert"
  /\ filePending[f] = NoRequest
  /\ IF document[f] = NoRequest
     THEN filePending' = [filePending EXCEPT ![f] = r] /\ Goto(r, "job")
     ELSE Goto(r, "raced") /\ UNCHANGED filePending
  /\ UNCHANGED <<rowVars, keyPending, phase, live, found, answer>>

\* Mutant: a used key is skipped instead of being an error.
InsertJobOrSkip(r) ==
  LET k == Upload[r].key
  IN
  /\ pc[r] = "job"
  /\ keyPending[k] = NoRequest
  /\ keyPending' = [keyPending EXCEPT ![k] = IF job[k] = NoRequest THEN r ELSE @]
  /\ found' = [found EXCEPT ![r] = r]
  /\ Goto(r, "commit")
  /\ UNCHANGED <<rowVars, filePending, phase, live, answer>>

\* Inserting the job waits for an uncommitted job with the same key; a used key
\* is a unique violation.
InsertJob(r) ==
  LET k == Upload[r].key
  IN
  /\ pc[r] = "job"
  /\ keyPending[k] = NoRequest
  /\ IF job[k] = NoRequest
     THEN /\ keyPending' = [keyPending EXCEPT ![k] = r]
          /\ found' = [found EXCEPT ![r] = r]
          /\ Goto(r, "commit")
          /\ UNCHANGED filePending
     ELSE Rollback(r)
  /\ UNCHANGED <<rowVars, phase, live, answer>>

\* The uncommitted rows of r become rows of the table.
Published(rows, locks, r) ==
  [x \in DOMAIN rows |-> IF locks[x] = r THEN r ELSE rows[x]]

\* Mutant: the object of a created document is the one that is deleted.
AfterCommitSwapped(r) == IF found[r] = r THEN "sweep" ELSE "ended"

\* Where the route goes on: only a request that found an earlier document
\* deletes its object.
AfterCommit(r) == IF found[r] = r THEN "ended" ELSE "sweep"

\* The commit takes effect; its acknowledgement arrives, or is lost and the
\* catch block of the route runs.
Commit(r) ==
  /\ pc[r] = "commit"
  /\ document' = Published(document, filePending, r)
  /\ job' = Published(job, keyPending, r)
  /\ phase' = [f \in Files |-> IF filePending[f] = r THEN "queued" ELSE phase[f]]
  /\ filePending' = Unlocked(filePending, r)
  /\ keyPending' = Unlocked(keyPending, r)
  /\ \/ /\ Goto(r, AfterCommit(r))
        /\ answer' = IF AfterCommit(r) = "ended"
                     THEN [answer EXCEPT ![r] = "created"] ELSE answer
        /\ UNCHANGED found
     \/ /\ Goto(r, "failing")
        /\ found' = [found EXCEPT ![r] = NoRequest]
        /\ UNCHANGED answer
  /\ UNCHANGED live

\* The source or the binding of the object is refused before the transaction, or
\* a statement or the commit itself fails.
Abort(r) ==
  /\ pc[r] \in InTransaction
  /\ Rollback(r)
  /\ UNCHANGED <<rowVars, phase, live, answer>>

\* A duplicate deletes its own object before it answers; when the deletion
\* fails, the catch block tries once more.
Sweep(r) ==
  /\ pc[r] = "sweep"
  /\ \/ /\ live' = live \ {r}
        /\ Tell(r, "known")
        /\ UNCHANGED found
     \/ /\ live' \in {live, live \ {r}}
        /\ Goto(r, "failing")
        /\ found' = [found EXCEPT ![r] = NoRequest]
        /\ UNCHANGED answer
  /\ UNCHANGED <<rowVars, lockVars, phase>>

\* The catch block deletes the object of the request and answers with an error.
CleanUp(r) ==
  /\ pc[r] = "failing"
  /\ live' \in {live, live \ {r}}
  /\ Tell(r, "error")
  /\ UNCHANGED <<rowVars, lockVars, phase, found>>

-----------------------------------------------------------------------------
(* Environment                                                             *)

\* The web process dies: the client sees an error, and the database rolls an
\* open transaction back.
Crash(r) ==
  /\ pc[r] # "ended"
  /\ Tell(r, "error")
  /\ filePending' = Unlocked(filePending, r)
  /\ keyPending' = Unlocked(keyPending, r)
  /\ found' = [found EXCEPT ![r] = NoRequest]
  /\ UNCHANGED <<rowVars, phase, live>>

\* The ingestion worker (module Ingestion): it copies the uploaded object and
\* may delete it, indexes the document, or gives its job up.
Promote(f) ==
  /\ phase[f] = "queued" /\ document[f] \in live
  /\ phase' = [phase EXCEPT ![f] = "promoted"]
  /\ live' \in {live, live \ {document[f]}}
  /\ UNCHANGED <<rowVars, lockVars, pc, found, answer>>

Settle(f) ==
  /\ \/ phase[f] = "promoted" /\ phase' = [phase EXCEPT ![f] = "indexed"]
     \/ /\ phase[f] \in {"queued", "promoted"}
        /\ phase' = [phase EXCEPT ![f] = "failed"]
  /\ UNCHANGED <<rowVars, lockVars, live, pc, found, answer>>

-----------------------------------------------------------------------------
(* Specification                                                           *)

Work(r) ==
  \/ PutObject(r) \/ LookupKey(r) \/ LookupChecksum(r) \/ InsertDocument(r)
  \/ InsertJob(r) \/ Commit(r) \/ Sweep(r) \/ CleanUp(r)

Next ==
  \/ \E r \in Requests : Work(r) \/ Abort(r) \/ Crash(r)
  \/ \E f \in Files : Promote(f) \/ Settle(f)

\* The handler of a request keeps running while its statements can: nothing
\* makes a statement, a commit or an object-store call succeed.
Fairness == \A r \in Requests : WF_vars(Work(r))

Spec == Init /\ [][Next]_vars
FairSpec == Spec /\ Fairness

-----------------------------------------------------------------------------
(* Properties                                                              *)

\* However the lookups, inserts and commits of concurrent uploads interleave, a
\* request that is told about a document is told about the one that holds its
\* file, uploaded by the same person from the same source.
AnswersMatchUploads ==
  \A r \in Requests : answer[r] \in {"created", "known"} =>
    /\ found[r] = document[Upload[r].file] /\ found[r] \in Requests
    /\ Upload[found[r]].actor = Upload[r].actor
    /\ Upload[found[r]].source = Upload[r].source

\* docs/engineering-decisions.md:15 "document and job in one transaction": each
\* document has the job inserted with it, under its key, and no job lacks its
\* document.
DocumentsAndJobsPair ==
  /\ \A f \in Files : LET d == document[f] IN d # NoRequest =>
       Upload[d].file = f /\ job[Upload[d].key] = d
  /\ \A k \in Keys : LET d == job[k] IN d # NoRequest =>
       Upload[d].key = k /\ document[Upload[d].file] = d

\* A request answered as created inserted the document and keeps its object for
\* the worker; one answered as known inserted nothing and leaves no object.
AnswersAccountForObjects ==
  \A r \in Requests :
    /\ answer[r] = "created" =>
         /\ document[Upload[r].file] = r
         /\ phase[Upload[r].file] = "queued" => r \in live
    /\ answer[r] = "known" => document[Upload[r].file] # r /\ r \notin live

\* No order of row locks leaves two uploads waiting for each other.
EveryRequestEnds == \A r \in Requests : <>(pc[r] = "ended")

\* object-storage.ts:125 "cleaning up must not remove the original object
\* referenced by the already persisted document".
PersistedObjectKept ==
  \A f \in Files : phase[f] = "queued" => document[f] \in live

\* docs/operations-runbook.md:52 "after a permanent failure, reprocess under a
\* new idempotency key": an upload under a key no job has is not answered with
\* the document that failed.
NewKeyReprocesses ==
  [][\A r \in Requests :
       pc[r] = "checksum" /\ pc'[r] = "commit" /\ job[Upload[r].key] = NoRequest
         => phase[Upload[r].file] # "failed"]_vars
=============================================================================
