# TaxOps AI: TLA+ specifications

TaxOps AI lets a tax practice upload evidence documents, index them, ask an
agent about them and have a second person review what the agent proposes. This
directory holds TLA+ models of the protocols that carry its guarantees, the TLC
configurations that check them on small instances, and TLAPS proofs of the most
important invariants for every value of the constants. Paths such as
`src/worker/runtime.ts` are relative to the repository.

## 1. Inventory

| Component | State it keeps | Operations | What makes it hard | What makes it correct |
|---|---|---|---|---|
| **Ingestion worker** (`src/worker/runtime.ts`, `ingestion-service.ts`, `lib/jobs/retry-policy.ts`, `drizzle/0000`) | rows of `jobs`, `documents`, `document_chunks`, `outbox_events`; object versions; the memory of each worker process | claim with a lease, download, scan, copy/verify/rebind/delete, parse, classify, persist, index, complete, fail and retry | a worker whose lease ran out races its successor through all transactions, and through the statements of two of them; crash and lost acknowledgement between any two calls | indexed evidence carries one whole admissible parse; bound objects exist; job and document agree; settled rows stay settled; every job ends |
| **Outbox delivery** (`runtime.ts` `dispatchOutbox`, `drizzle/0013`) | `outbox_events` with their lease and attempts | claim, webhook call, publish, book a retry | a webhook call whose answer is lost; a process slower than its lease | at least once; published is final; late answers do not disturb the successor; every event settles |
| **Upload** (`app/api/v1/uploads/route.ts`, `document-store.ts` `enqueueDocument`, `lib/files/object-storage.ts`) | `documents`, `jobs`, unique keys, one object per request | put the object, look up key and checksum, insert, commit, clean up | statement-level interleaving at READ COMMITTED, the object lives outside of the transaction, lost commit acknowledgement | each answer names the row that holds the file; document and job come together; objects are accounted for |
| **Agent run accounting** (`repository/postgres/ai-store.ts`, `lib/ai/budget.ts`) | `agent_runs` with cost and status, two advisory locks per tenant | start under the monthly budget, recover stale runs, settle | concurrent starts, two locks taken in two orders, several settlers per run | the budget holds; a run is settled once; every start ends |
| **Agent session and review request** (`lib/ai/assistant-service.ts`, `tools.ts`, `drizzle/0010`) | flags of one request, its run, its review request | answer, propose a workpaper, stream callbacks | callbacks nobody waits for, abort and timeout, lost answers of the draft | a settlement is final; open runs match their review requests |
| **Agent verification gates** (`lib/ai/tools.ts`, `lib/ai/agents/`, `stream-policy.ts`) | `verificationState`, the step loop, the budget | collect evidence, calculate, verify, review, deliver, propose, abstain | concurrent calls of a step's one tool that share state across awaits | what is released was reviewed as it is released, and is grounded; the client sees one outcome; the limits leave room for one |
| **Reviewer service, workpaper decision, evidence decision** (`src/reviewer/`, `lib/review/`, two routes, two browser pages, `drizzle/0008`, `0010`) | `approvals`, `documents.evidence_status`, encrypted messages, what each tab shows | preview, issue tokens, decide, expire | three timeouts in a row, after each of which the decision may still commit; the evidence changes meanwhile | decided once, on what was cited and shown; a tab shows only what the tables hold |
| **Security rescan** (`drizzle/0006`) | the rows above | send indexed documents back to ingestion | second life of a document | nothing is decided on evidence that is out of date |
| **Audit chain** (`drizzle/0002`, `0008`, `lib/audit/hash-chain.ts`) | `audit_events` | append under an advisory lock, verify | transactions that commit in any order under clocks that disagree | one unbroken chain per tenant that grows at its head |
| **Sessions and sign-in** (`lib/auth/`, `app/api/auth/`) | `web_sessions`, two cookies per browser | begin, return, exchange, register, check, revoke | overlapping requests of one browser, lost answers | signed out means revoked; a session is of one's own login |
| **Rate limit** (`lib/security/rate-limit.ts`) | one row per key, or a map | count a request | `now()` is older than the row it meets; boundary of the window | never more than the limit explains, and refused only when it is used up |
| **Classifiers and redaction** (`lib/security/`) | policy of the tenant, batches in flight | redact, DLP inspection, classification by four senders | answers in any order, partial failures, a model that changes between batches | nothing leaves unprotected; each verdict is about its own item |
| **Web interface** (`components/`) | lists, panel of the assistant, review workspace | reload, stream, decide | stale answers, repeated questions | what is shown is the latest |
| **Demo store** (`repository/demo-store.ts`) | the database of the demo in memory | its six writes | fewer checks than the database makes | four eyes |
| **Pure algorithms** (`lib/files/chunking.ts`, `validation.ts`) | none | cut a text, inspect an archive | boundaries | nothing is lost; what is accepted reads one way |
| **Retrieval and ranking, matters, listings, exports, MCP server** | none that others rely on | read, score, render | arithmetic and text | reference definitions |

How they interact. An **upload** stores an object, then inserts a document and
its job in one transaction. The **ingestion workers** poll `jobs`, move the
document to `INDEXED` or `FAILED` and insert an outbox event in the index
transaction; the same processes poll `outbox_events` and call the webhook. A
**reviewer** decides on indexed evidence, which the **agent** may then cite. An
agent run **reserves** its cost when it starts, may **request a review** of a
workpaper, and is settled by whichever callback or recovery comes first; the
**reviewer** decides on the request, through a service of its own if one is
configured. Almost every transaction appends to the **audit chain** under one
advisory lock per tenant. All interaction goes through PostgreSQL rows and
locks, object versions and HTTP requests: there is no shared memory between
processes.

The complete list of hazards, each at its line with the properties that cover
it, is in `PROJECT.json`, as is the status of every component.

## 2. Modules

| Module | What it is |
|---|---|
| `Ingestion` | the worker protocol and the evidence decision among the workers |
| `EvidenceLedger` | what ingestion promises, abstractly: a document is sealed once or refused, and decided once |
| `Outbox` | delivery of outbox events |
| `Upload` | concurrent upload requests, statement by statement |
| `RunStart` | starting and recovering agent runs under the budget and the locks |
| `AgentRuns` | the life of a run: tools, callbacks, recovery, review request, decision |
| `AgentGate` | one request of the agent: the loop of steps, every tool, the gates |
| `ReviewService` | decisions on a workpaper and its evidence, from the click to the tables and back |
| `DecisionLedger` | what the review promises, abstractly: decided at most once, and told truthfully |
| `AuditChain` | appending to the chain and verifying it |
| `RateLimit` | the shared row and the map of one key |
| `SignIn` | login, reauthentication, callback, session, logout |
| `OutboundGuard` | what is sent to the model provider, the DLP service and the classifier, and what their verdicts decide |
| `PagedQuery`, `AssistantPanel` | two pages of the browser: lists that reload, the panel beside a streamed answer |
| `DemoStore` | the writes of the in-memory store |
| `Chunking`, `Archive` | cutting a text into search units; the inspection of a ZIP archive |
| `MC...` | instances for TLC: parses, upload requests, symmetry |
| `MCOutboxAndStarts` | `Outbox` and `RunStart`, which share no state, in one run |
| `MCBackOffice` | `AgentRuns` and the nine components from `AuditChain` to `Archive` that share no state, in one run |
| `IngestionProofs`, `OutboxProofs`, `UploadProofs`, `RunStartProofs`, `AgentGateProofs`, `ReviewServiceProofs` | theorems and TLAPS proofs of the module they are named after |
| `BackOfficeProofs` | theorems and proofs of `AgentRuns`, `AuditChain`, `SignIn`, `DemoStore`, `PagedQuery`, `RateLimit` |
| `ContentProofs` | theorems and proofs of `Chunking`, `OutboundGuard`, `Archive`, `AssistantPanel` |

Conventions. An action is one transaction, one object-store call, one external
call or one local step that other processes can observe. Where other transactions
can see or wait for something between two statements, an action is one statement:
in `Upload`, in `RunStart`, and in the two transactions of `Ingestion` that read
and write chunks. The other transactions of `Ingestion` have one statement that
matters, wait for nobody, or wait for one row on which everything else they do
depends. A call that may fail after it took effect has both outcomes (`Proceed`,
`Commit`, `Publish`, `WriteDraft`, `Issue`, `Revoke`). Row identifiers, hashes and texts are members
of small sets. A definition preceded by *Mutant* is a deliberate bug: it is used
nowhere in the specification; substituted for the definition it resembles, it
breaks the property `PROJECT.json` pairs it with. A variable marked *history*
records what has happened so that a property can speak of it; no guard reads it.

### Ingestion

State: a job row (`jobStatus`, `attempts`, `leaseOwner`, `leaseExpired`), a
document row (`status`, `scanStatus`, `evidence`, `object`, `manifest`), its
chunks (`rows` is everything ever inserted, `current` the rows whose
`is_current` is true), `outbox`, the object versions (`live`, the counter
`copies`, and `condemned` for versions tagged for expiry), and for each worker
its program counter and what it remembers (`task`, `tries`, `binding`, `clean`,
`parse`, `permanent`, and `listed`, the chunks its index transaction has read).
The tables hold what is committed. `object` is the version the document row names: 0 is the
quarantined upload, n > 0 the n-th copy under the clean key.

| Actions | Code |
|---|---|
| `Claim`, `ReadDocument` | `claim_next_job`; the check of `max_attempts` in `run()`; the row read of `processDocument` |
| `BeginScanning`, `Download`, `ScanMalware` | conditional update to SCANNING; read of the bound version; ClamAV verdict and tag |
| `CopyClean`, `VerifyCopy`, `Promote`, `DiscardCopy`, `SweepSource` | `promoteCleanObject`: copy, HEAD, conditional rebind, deletion of a lost copy, deletion of the source |
| `ParseDocument`, `RecordScan`, `EnterParsing` | document processor, the scan verdict (written before the instruction pattern is looked at), conditional update to PARSING |
| `LockDocument`, `WriteChunks`, `CommitChunks` | `persistChunks`: the document row locked and checked; `is_current` cleared and the chunks upserted, with the conflict check; the commit |
| `OpenIndex`, `LockChunks`, `IndexDocument` | the index transaction: the job row locked under the lease and the snapshot of the chunk query; its `FOR SHARE`, which waits for a writer and re-reads the rows of the snapshot, and the count; the update with the manifest, the outbox event and the commit |
| `RollBack` | a failing statement or commit of either, or the victim of a deadlock |
| `RenewLease` | `updateProgress` between the stages |
| `CompleteJob`, `FailJob`, `TagFailed` | `completeJob`, the transaction of `failJob`, and the tag outside of it |
| `Crash`, `ExpireLease`, `DecideEvidence` | process end, time, reviewer |

The row locks follow from the program counters: a worker in `Writing` holds its
document row, and one at `written` the chunk rows as well; one in `Indexing` holds
its job row, and one at `sealing` the chunk rows it has read. `Claim` skips a
locked job (`FOR UPDATE SKIP LOCKED`); everybody else waits. The snapshot is what
makes the index transaction more than one action: when `LockChunks` waits for
`CommitChunks` of a superseded worker, it re-reads the rows of the snapshot and
does not see the rows that were inserted.

`failing` is the catch block of `run()`. If `failJob` itself fails, the error
leaves `run()` and the process ends, which is `Crash`. A restarted process has a
new worker id; the model reuses the idle worker, which no lease names any more.

### Outbox

State: an event row (`published`, `attempts`, `due` for `available_at <= now()`,
the lease), `received` (the attempts the webhook got) and the workers. `Claim`
is `claim_next_outbox`; `CallWebhook`, `Publish` and `FailDelivery` are the three
parts of `dispatchOutbox`; a failing `FailDelivery` is caught in `run()` and
leaves the row leased.

### Upload

State: committed rows by unique key (`document[file]`, `job[key]`), uncommitted
rows (`filePending`, `keyPending`, which are also the locks an insert waits for),
`phase` of the document in the worker, `live` objects, and each request's step,
result and answer. A row is named by the request that inserted it. `LookupKey`,
`LookupChecksum`, `InsertDocument`, `InsertJob` and `Commit` are the statements
of `enqueueDocument`; `PutObject`, `Sweep` and `CleanUp` are the route around it;
`Promote` and `Settle` are what module `Ingestion` does to the row and the object.

### RunStart and AgentRuns

`RunStart` keeps the rows' `cost`, both advisory locks and the rows each
uncommitted start has updated; its actions are the statements of `startAgentRun`
and the settlement. `AgentRuns` takes a start as one action and models the rest
of a run: the flags of `createVerificationState`, `createWorkpaperDraft` in
flight (`drafting`), the callbacks (`StreamError`, `EndStream`, `FinishEnd`,
`FinishError`), the recovery of stale runs by a later start, and the reviewer.

The AI SDK is external. From how the code uses it the models assume only this:
`onError` may come at any time while the stream is open and is not waited for;
`onEnd` comes at most once, also after a tool was called whose database call has
not returned (the client left); after an abort or timeout neither may come; the
tool calls of one step run concurrently; a tool outside of `activeTools` cannot
be called; a step ends when all of its calls have.

### AgentGate

State: `state` is `createVerificationState` with the verified answer; `calls[c]`
is the stage of one tool call, because every `await` of a tool ends an action;
`active`, `step`, `failed`, `toolCalls` and `ended` are the loop of `tax-agent.ts`
with its budget; `shown` is what `stream-policy.ts` lets through to the client.

| Actions | Code |
|---|---|
| `Search`, `Retrieve`, `Calculate` | `searchTaxSources`, `calculateVat` and the retrieval they wait for |
| `VerifyEvidence`, `CheckIntegrity` | the integrity check of claims against fresh retrieval |
| `Review`, `Verdict` | `independentReview`: the earlier verdict is withdrawn, the verifier is asked, the artifact hash is taken when its answer comes |
| `Deliver`, `Propose`, `Draft`, `Abstain` | the three outcomes with their gate |
| `InvalidCall`, `Fail`, `Record` | schema errors, failing awaits, `recordToolCall` |
| `BeginStep`, `EndStep`, `Abort` | `prepareStep`, `stopWhen`, the client that leaves |

A claim carries whether its words are those of what it cites (`Faithful`); the
arithmetic of that comparison is left out. Which evidence a search finds is
nondeterministic: approvals change while the request runs.

### ReviewService

The path of one decision: a tab clicks (`Click`, `Patch`), a handler of the web
application reads, checks and posts (`Read`, `Check`, `Post`, `Judge`), the
encrypted message is handled or lost by the reviewer service (`IssueTokens`,
`HandleWorkpaper`, `HandleEvidence`, `Lose`), and the answer arrives or comes too
late (`TimeOut`, `Receive`, `GiveUp`, `Discard`). `Direct` is the same without a
service. `Rescan`, `Index`, `RequestReview` and `Expire` are what other parts do to
the rows meanwhile. A decision is one action although `FOR UPDATE` does not lock
the documents: a transaction that decided on the earlier version is ordered
before the rescan. Left out: who may review a matter, the five minutes a token is
valid, the completion of the run (module `AgentRuns`), and stale artifacts, which
the code never makes.

### The components of MCBackOffice

* `AuditChain`: `AppendEvent` is `append_audit_event_secure`, `EndTransaction` the
  end of the transaction around it; an id stands for the hash of its row.
* `RateLimit`: `Begin` fixes `now()`, `Upsert` meets the row later; `Memory` is the
  map of a process without a database.
* `SignIn`: every request has its arrival and its answer as separate actions, and
  a browser's two cookies change when an answer arrives.
* `PagedQuery`: each run of the effect is a fetch with its closure; answers come
  in any order.
* `DemoStore`: the six writes, each run to its end, and the reset.
* `OutboundGuard`: a text is a set of marks (personal data the patterns find or
  only the DLP service finds, an order, a lure); four senders take batches from
  one counter.
* `Chunking`, `Archive`: one action per turn of the loop.
* `AssistantPanel`: messages are sequences of parts, as the hook derives the panel
  from them.

They share no state, so one run explores them one at a time: the initial state
chooses a `focus`, and the others do not move. The run is the union of ten runs,
not their product. `MCOutboxAndStarts` does the same for `Outbox` and `RunStart`;
as both have a liveness property, the one that does not move has come to its end.

## 3. Runs

Bounds are constants of the modules (`MaxAttempts`, `MaxStalls`, `MaxCrashes`,
`MaxVersion`, `MaxLost`, ...) or sizes of the constant sets in the `.cfg` files. No
state constraint is used. `CHECK_DEADLOCK FALSE` is set in every run because each
of these systems comes to rest: when every document, event, request or run is
settled, nothing is left to do.

| Run | Instance | Shows |
|---|---|---|
| `ingestion` | 1 document, 2 workers, 5 parses (one-chunk, two-chunk, a conflicting chunk, a suspicious and an instructing one), 2 attempts, 2 stalls, 1 crash | indexed evidence is intact, bound objects exist, tables agree, retries are limited, settled rows stay; every job ends; the workers implement `EvidenceLedger`, fairness included |
| `ingestion_dead_job` | as above | **violation**: a DEAD job with an INDEXED document |
| `ingestion_retention` | as above | **violation**: the object of an INDEXED document is tagged for expiry |
| `ingestion_manifest` | as above, 1 stall | **violation**: the manifest of an INDEXED document does not name all current chunks |
| `outbox_and_starts` | `Outbox`: 1 event, 3 workers, 3 attempts, 2 stalls, 1 crash; `RunStart`: 3 starts, budget of 2 reserves, overshoot 1 | at least once, leases are kept, every event settles; the budget holds, every start ends |
| `upload_flow` | 4 requests (an upload, its retry, another file under the same key, a stranger's upload of the same file) | answers match, rows pair up, objects are accounted for, every request ends |
| `upload_lost_commit` | 2 requests | **violation**: the object of a persisted document is deleted |
| `upload_new_key` | 2 requests | **violation**: a new key does not reprocess a failed file |
| `agent_gate` | 2 calls per step, 2 pieces of evidence (one an authority), 2 claims (one legal), 8 steps, 6 tool calls | what is released was reviewed and is grounded, one outcome is seen, the limits leave room for one, the loop ends |
| `review` | 1 reviewer tab, 1 evidence tab, 2 requests at a time, 2 versions, 1 lost wait | decided as cited, as previewed; a lost decision is learned; the service implements `DecisionLedger` |
| `back_office` | below | the properties of `AgentRuns` and of nine small components |
| `run_state_machine` | 2 runs | **violation**: a waiting run is overwritten |

| Focus of `back_office` | Instance | Shows |
|---|---|---|
| `AgentRuns` | 2 runs | decisions match runs, requests match open runs, settlements are final |
| `AuditChain` | 2 writers, 4 events, 3 clock readings | the chain verifies and grows at its head |
| `RateLimit` | 6 requests, limit 2, window 2, waits of 2, 6 ticks | bursts are bounded, refusals have a cause |
| `SignIn` | 2 browsers, 2 users, 2 logins | signed out means revoked, sessions are of one's own login |
| `PagedQuery` | 2 filters, 2 reloads, 3 versions, 3 fetches | a reload shows what is at least as new as the click |
| `DemoStore` | 3 users, 2 seeded matters and a new one, 2 documents, 2 workpapers, 2 files | four eyes |
| `OutboundGuard` | a query and 2 items of 3 fields with one mark anywhere, 2 senders, batches of 2, 2 model versions | nothing unprotected leaves, each item is judged by its own fields |
| `Chunking` | every text of at most 12 characters, units of 6, overlap 2 | nothing is lost |
| `Archive` | 3 records over 4 names in 6 cells | what is accepted can be read one way only |
| `AssistantPanel` | 3 sources, 2 questions | the panel shows the latest answer |

Why the bounds are enough. Documents do not interact with each other in
`Ingestion`, except that a worker has one task at a time, so one document with
two workers contains every race over its rows: a superseded worker and its
successor. Two stalls let each of them lose its lease once, and with a crash a
third attempt runs against the remains of two others; two attempts make the
second failure final. The five parses are enough for a chunk set that is larger,
smaller, in conflict, or refused by either check; the larger and the smaller one
are also what the index transaction of one worker needs to miss a row of the
other. In `Outbox` three workers allow
a superseded process whose successor is superseded as well. In `Upload` the four
requests take part in every comparison `enqueueDocument` makes (same key and
same fields; same key and another file; same file and another uploader).
`RunStart` needs three starts so that one of them recovers a run while another
holds the budget lock. `AgentRuns` needs two runs so that the start of one
recovers the other. In `AgentGate` two calls per step contain every race within it,
as all calls of a step are calls of its one tool; steps and tool calls are the code's own limits; all
claims are faithful there, as a check also fails for missing retrieval or
duplicate ids. In `ReviewService` one lost wait leaves an abandoned request
beside its repetition, and two versions make a cited version out of date.
`RateLimit` has room for three windows, so that a request of the first meets a row
of the second. In `Chunking` two units overlap and a third begins within 12
characters.

### Fairness

No run assumes that a call succeeds.

* A process that can take its next step eventually takes it (`WF_vars(Work(w))`,
  `WF_vars(Continue(c))`, `WF_vars(Handler(r))`): Node runs the promise chain of
  `run()`, of a route handler, of a tool and of a start; every external call has
  a timeout that leads to its error branch.
* The poll loop of the workers claims what is claimable
  (`WF_vars(\E w : Claim(w, x))`). Which worker claims is not fixed, and
  no particular row is preferred. The loop serves outbox events before jobs; as
  an event has at most ten attempts, a backlog of events delays a job and does
  not starve it.
* A lease nobody works under runs out, and a retry delay ends: both are
  comparisons with `now()`.
* A lease that runs out under a working process, and a crash, are not fair: they
  happen at most `MaxStalls` and `MaxCrashes` times. Without that bound a process
  could be superseded for ever, and the code does not promise progress then.
* In `Ingestion`, a writer and an index transaction can wait for each other, one
  with the document row and one with chunk rows. PostgreSQL's deadlock detector
  ends that (`RollBack`, which is part of `Work`).
* In `RunStart`, PostgreSQL's deadlock detector ends the cycle of two starts
  that took the audit and the budget lock in opposite orders
  (`WF_vars(InCycle(r) /\ Abort(r))`). Without this conjunct `StartsEnd` fails:
  the code relies on the database there, and the start that is chosen as the
  victim is answered with an error.
* In `AgentGate` the SDK begins and ends steps; the language model need not call
  any tool, and the loop ends all the same.
* In `ReviewService` messages are handled or lost, answers are shown, and a
  reviewer whose tab shows no decision clicks again whenever the page lets him
  (`SF_vars(\E decision : Click(t, decision))`, strong because his own requests
  disable the button in between). This is an assumption about a person:
  `LearnsDecision` says what the page does for somebody who tries again.

`back_office` states no fairness and checks no liveness.

## 4. Findings

1. **A dead job with an indexed document** (`ingestion_dead_job`). If the process
   dies, or an acknowledgement is lost, between the index transaction and
   `completeJob`, the next attempt finds the document INDEXED, cannot restart it
   and throws `LeaseLostError`, until its attempts are used up. The job ends DEAD
   and the document stays searchable, where the architecture document says a
   failed file is marked FAILED and kept out of search.
2. **The clean version of an indexed document is tagged `failed`**
   (`ingestion_retention`). `failJob` tags it outside of its transaction and
   whether or not that transaction found the job.
3. **An INDEXED document whose manifest does not name its current chunks**
   (`ingestion_manifest`). A superseded worker has written chunks 1 and 2 and not
   committed yet when the owner, whose parse is chunk 1 alone, reads the current
   chunks `FOR SHARE`. The query waits for row 1, re-reads it after the commit and
   does not see row 2; its count matches, and the document becomes INDEXED under
   the manifest of chunk 1. The architecture document says that a document is
   indexed only after its chunks and manifest are recorded. Nothing wrong is ever
   approved: the preview recomputes the manifest from the current chunks, finds
   another one and shows nothing, so the document stays PENDING for good.
4. **The object of a persisted document is deleted** (`upload_lost_commit`) when
   the commit acknowledgement of the upload is lost.
5. **A new idempotency key does not reprocess a failed file**
   (`upload_new_key`): the checksum lookup answers first.
6. **AWAITING_REVIEW is left without a decision** (`run_state_machine`): the error
   callback and the recovery write FAILED over it, which the state machine of
   `src/lib/workflows/state-machine.ts` does not allow and which makes the
   pending request undecidable.

Observations that contradict no text of the repository.

*Ingestion, outbox and upload.* A request answered by checksum does not record
its idempotency key. The outbox key of a document has no version, so a document
indexed again after a rescan announces nothing. The worker reads the tenant's AI
policy once, before promotion, and uses it for parsing, classification and
embedding; with AI disabled, or personal data under BLOCK, documents are refused
permanently at classification. ClamAV answers other than OK (size limit, empty)
count as malware. The upload panel sends a new idempotency key with each upload,
so its retries are recognised by checksum only; `new-case-form.tsx` posts without
a key at all.

*Agent.* A run that is settled by `onEnd` while its draft is being written is
AWAITING_REVIEW without a request if the draft is then refused (hence
`OpenRunsMatchRequests` is about open runs), because `onEnd` reads `proposed` while
the draft is under way. An answer is `delivered` although its `recordToolCall`
fails: the run ends VERIFY and the client gets an error. `deliverVerifiedAnswer`
does not ask the database again whether its evidence is still approved. Retrieval
drops unsafe chunks after the limit was applied, so they are not replaced. The two
advisory locks of `startAgentRun` are taken in both orders.

*Review.* The 409 of a decision says "already decided" also when the evidence was
withdrawn. The retry of an evidence decision whose answer was lost is refused as
not reviewable although it was decided as wanted. A request may be 30 seconds old
inclusive and its nonce is kept for 60; a restart of the service forgets its
nonces, but the PENDING guard keeps decisions at most once. Without a service the
tokens are issued without asking about the evidence, which the decision then does.

*Sign-in.* An answer of the callback that arrives after a logout signs in again; a
logout may clear the cookie of a newer session and leave its row active; a lost
answer of the callback leaves an active row nobody holds.

*Rate limit.* `now()` is the start of the transaction: with waiting upserts up to
3 Limit - 2 requests are admitted within a window's length.

*Classification.* Other senders go on sending batches after one has failed. An
archive whose stored size is 0 escapes the ratio limit (the total limit applies).

*Demo and browser.* The demo's `setReviewDecision` checks neither matter reviewer
nor expiry nor requester, and its key check ignores the checksum. While the
assistant is busy its progress label looks at all messages, so after a new
question it shows the last stage of the previous answer until the first workflow
part arrives. `usePagedQuery` keeps its own state across `router.refresh`.

## 5. Proofs

TLAPS proves the following for all values of the constants that satisfy the
`ASSUME`s of the modules, which TLC evaluates on the instances of the runs. Every
invariant and every action property a passing run checks is a theorem. The
theorems are about `Spec`, or the specification of a component of `MCBackOffice`,
without fairness.

What is assumed, and why the code justifies it:

* `NoWorker`, `NoRun`, `None` and `Absent` stand for NULL: they are no worker, run,
  browser or user. Bounds, limits and offsets are natural numbers, ids of audit
  events and clock readings numbers.
* A parse is a finite, non-empty set of chunks whose indices start at 0, leave no
  gap and name one content each (`IsParse`): the positions of an array.
* Finite are the calls of one step, the runs whose costs
  `RunStart` adds up, the sources a search can return, and the items and fields
  a classifier sees. The last two are also numbered from 1, as the arrays of the
  code are.
* Subsets are subsets: authorities are evidence, reconciled sources are sources.
* The limits of a request allow five steps with one call each (`LadderAssumption`;
  the code: eight steps, six calls).
* The overlap of chunks is at most the shortest cut, which is shorter than the
  maximum (`OptionsAssumption`; the only caller uses the defaults, 120, 400 and
  1 200). The code also admits options for which this fails; with those a unit
  could end where the one before it does.
* A request waits for the row of the rate limit no longer than a window
  (`RateAssumption`; routes run 30 seconds at most, the window is 60).
* In the demo data one matter has evidence, and its owner is not its reviewer
  (`FixturesAssumption`).

Nothing is assumed of `Docs`, `Workers`, `Events`, `Tabs`, `Slots`, `Writers`,
`Browsers`, `Logins`, `Queries`, `Senders` or of the `Requests` of `Upload`, not
even that they are finite; the requests of `RateLimit` are any number of numbered
ones.

| Theorem | States |
|---|---|
| `IngestionProofs!TypeCorrect` | `Spec => []TypeOK` |
| `IngestionProofs!EvidenceIntact` | `Spec => []IndexedEvidenceIntact` |
| `IngestionProofs!ObjectStored` | `Spec => []BoundObjectStored` |
| `IngestionProofs!Agreement` | `Spec => []JobAndDocumentAgree` |
| `IngestionProofs!SettledForGood` | `Spec => SettledStaysSettled` |
| `IngestionProofs!RetriesBounded` | `Spec => []RetriesAreLimited` |
| `IngestionProofs!ImplementsLedgerSafety` | every behaviour of `Spec` satisfies the initial condition and the step relation of `EvidenceLedger` |
| `OutboxProofs!DeliveryTypes`, `AtLeastOnce`, `ExclusiveAttempts`, `PublishedForGood`, `LeasesAreKept` | `TypeOK`, `PublishedWasReceived`, `AttemptsAreExclusive`, `PublishedStaysPublished`, `LeaseIsKept` |
| `UploadProofs!UploadTypes`, `RowsPair`, `AnswersMatch`, `ObjectsAccounted` | `TypeOK`, `DocumentsAndJobsPair`, `AnswersMatchUploads`, `AnswersAccountForObjects` |
| `RunStartProofs!StartTypes`, `BudgetExclusion`, `BudgetKept`, `SettledJustOnce` | `StartTypeOK`, the exclusion of the budget lock, `BudgetHolds`, `SettledOnce` |
| `BackOfficeProofs!RunTypes`, `DecisionsMatch`, `RequestsMatch`, `SettlementIsFinal` | `TypeOK`, `DecisionsMatchRuns`, `OpenRunsMatchRequests`, `CompletedRunsStay` |
| `AgentGateProofs!TypeCorrect`, `OnlyReviewedIsReleased`, `OnlyGroundedIsReleased`, `OneOutcomeIsSeen`, `LimitsLeaveRoom` | `TypeOK`, `ReleasedWasReviewed`, `ReleasedIsGrounded`, `ClientSeesOneOutcome`, `LimitsAllowAnOutcome` |
| `ReviewServiceProofs!TypeCorrect`, `TabsShowTheTruth`, `WorkpaperDecidedAsCited`, `EvidenceDecidedAsPreviewed`, `ServiceImplementsLedger` | `TypeOK`, `ToldTruth`, `DecidedAsCited`, `DecidedAsPreviewed`, `ImplementsLedger` |
| `BackOfficeProofs!OneChain`, `HeadsStay` | `ChainVerifies`, `ChainGrowsAtItsHead` |
| `BackOfficeProofs!SignedOutIsRevoked`, `SessionsAreOwn` | `SignedOutMeansRevoked`, `SessionIsOfOwnLogin` |
| `BackOfficeProofs!NobodyDecidesOnOwn` | `FourEyes` |
| `BackOfficeProofs!ListsAreFresh` | `ReloadIsFresh` |
| `BackOfficeProofs!LimitKept` | `LimitIsExact` |
| `ContentProofs!NoTextIsLost` | `NothingIsLost` |
| `ContentProofs!ProtectedOnlyLeaves`, `JudgedByOwn` | `NothingUnprotectedLeaves`, `JudgedByItsOwnFields` |
| `ContentProofs!AcceptedIsUnambiguous` | `AcceptedReadsOneWay` |
| `ContentProofs!PanelIsOfLatest` | `PanelShowsLatestAnswer` |

**Ingestion.** None of the invariants is inductive alone; each is strengthened
by what a worker still holds in memory.

* `IndexInv` = `IndexedDocs /\ IndexingWorkers`. A superseded worker may rewrite
  `current` between its successor's persist and index, so what the index
  transaction reads is not what its worker wrote. `IndexedDocs` says that
  `current`, whoever wrote it, is empty or one whole admissible parse, and that an
  indexed document's manifest is one that `current` contains; `IndexingWorkers`
  says that a worker that has classified its parse holds an admissible one, holds
  a clean version, and that at `index` the document already has chunks. The crux
  is that both checks of the content come before `LockDocument`, and that the
  document row stays locked from there to `CommitChunks`, which replaces `current`
  at once.
* `ChunkInv` = `ChunkDocs /\ Writers /\ Readers` is about the two transactions that
  interleave. `ChunkDocs` says that stored rows have one content per index, and
  that `current` is among them; `Writers` that a worker inside `persistChunks` is
  alone with its document, whose state stays as it was checked; `Readers` that what
  a worker has persisted stays stored, that the snapshot it lists is a parse, and
  that once it holds the chunk rows they are exactly its own parse, still current,
  with no writer at work. That last step is a count: two parses that are stored
  together begin with the same chunks (`ParsesAreComparable`), so the rows that
  remain of the snapshot are a prefix, and a prefix of as many chunks as the
  worker's parse is that parse (`SameSize`, `LockedIsParse`). This is where the
  comparison of lengths in the code turns out to be enough, and it is all the
  code guarantees: `current` may be longer (finding 3).
* `JobInv` = `JobOfDocs /\ Completing`. `Completing` says that a worker at
  `complete` works on an INDEXED document that carries the manifest of its own
  parse, and stays so while the worker loses its lease; `JobOfDocs` adds that an owned job is RUNNING.
* `StoreInv` = `StoredDocs /\ CopyingWorkers`. `CopyingWorkers` says that the copy
  a worker holds during its promotion is a version no document row names and no
  other worker holds, that it is stored until the worker binds or discards it,
  and that a worker at `sweep`, which deletes the quarantined version, works on a
  document that names a clean one.

The refinement maps `status` to the phase of the ledger; `IndexDocument` maps to
`Seal`, `FailJob` of a dead job to `Refuse`, `DecideEvidence` to `Decide`, and
every other action is a stutter, which needs the invariants above.

`RetryInv` accounts for retries: a job that is RUNNING under a lease that ran out
or that nobody works under has been paid for by a stall or a crash, a job that
waits for its next attempt has attempts left, and the owner of a lease works
under the last attempt the row has counted. Every attempt beyond `max_attempts`
is therefore charged to one stall or crash.

**Outbox.** The attempt a worker is on has been counted by the row
(`CountedAttempts`), so the next claim gets a number nobody has; a worker that
publishes has been answered, and a published row has no lease (`Answered`). The
WHERE clause of both updates does the rest.

**Upload.** An uncommitted row keeps its unique key free of committed rows and
belongs to a transaction that will commit exactly it (`PendingFiles`,
`PendingKeys`, `Inserting`), so a commit never overwrites a row and the two rows
of a pair appear together. A request that will answer with an earlier document
has found the committed row of its own file (`Finding`), which stays: documents
are not deleted. `Stored` keeps the object of a request until its transaction is
over.

**RunStart.** The rows an uncommitted start has updated are still open and no
other start's (`LockedRows`), a request that is still starting has no row, and
exactly the starts between the budget lock and their insert hold it
(`StartingRuns`). `BudgetInv` adds that an open run costs its reserve (`Reserved`)
and that the start that has passed the check has room for one more: others may
settle meanwhile, which lowers what is spent or raises the bound by the
overshoot, but none can be admitted. `Spent` is a sum, defined by a fold that
chooses in which order to add. `SumsExist` and `SumsInAnyOrder` show that every
order gives the same number, by a smallest counterexample instead of an
induction; `SumAfterUpdate` is what a step does to it.

**AgentRuns.** The inductive invariant adds `NotStarted`: a request that has not
started has no row, no approval and no draft in progress.

**AgentGate.** Each step allows one tool (`OneToolPerStep`), so while the verifier
is asked nothing else can calculate or check: the calculations it was sent are
those of now when its answer comes (`RequestsAreCurrent`), and the hash taken then
binds a request it has accepted (`VerdictIsBound`). `ClaimsAreGrounded` keeps the
verified claims supported by the last check, `ChecksPrecede` keeps any check from
following a release, and `DraftsAreReviewed` carries both facts through the
`await` of the draft. `OneOutcomeCall` and `ShownWasPassed` trace what the client
sees back to calls of the one last step that passed the gate. `LimitsLeaveRoom`
counts: `nextTool` never chooses again what was called, so a request without
failures has made no more steps than there are tools before the outcome
(`StepsAreRungs`), and five steps are enough.

**ReviewService.** `AnswersAreTrue` says that an answer on its way that tells a
decision tells the one of the row, which never changes again; `ToldTruth` follows
for the tabs. `ManifestsPreviewed` follows the manifest from the tab through the
handler into the message. The refinement maps both decisions to `Decide` of the
ledger, `Receive` of a decision to `Tell` and every other step to a stutter.

**AuditChain.** `Chained` says of a set of rows that each names its predecessor
and that there is a latest one, which makes `Latest` a function of the set without
any induction; `ChainInv` says it of the committed rows and of what each open
transaction sees, and that only the holder of the lock has open rows
(`OneWriter`). `AppendKeepsChain` extends a chain at its end.

**SignIn.** A login owns its transaction: whatever a jar holds belongs to a login
that its browser began (`TransactionIsOwn`, `IssueIsOwn`, `JarIsOwn`). For the
sign-out, a login that is over never issues its session again, so a row that is
not active then stays so (`LogoutRevokes`, `StaysRevoked`).

**DemoStore.** The store asks neither who requested a workpaper nor who uploaded
a document. `DemoInv` finds what separates them: drafts are made for one matter
only, its reviewer may not draft there, and the one document whose evidence can
be decided on was not uploaded by him.

**PagedQuery.** `FreshFor` says the same of the list and of every fetch on its
way: what was read for the current click is no older than that click. The list
counts as loaded only when it shows a result of the current click.

**RateLimit.** The row has forgotten the windows before the last. `RateInv`
therefore states that some numbering of all windows so far exists (`Windows`): they
start a window's length apart, each has counted at most the limit, each request
was admitted in one of them, at a time that is before its end and after its start
except for the wait, and one request is as old as the start itself. `BurstBound`
then counts: any window's length meets three of those windows, or two if nobody
waits, and of these at most one has all of its requests inside. A refusal is
caused by the window that was full, all of which lies around it (`Caused`).

**Chunking.** The loop covers what lies before `coveredEnd` (`CoveredIsCut`), the
next window begins inside (`WindowInside`) and each cut ends behind everything
that was covered (`CutAdvances`), because the overlap is at most the shortest cut.

**OutboundGuard.** Texts are protected when they are prepared, before anything is
asked about them: `Asking` and `Classifying` keep that for the texts that wait.
`Waiting` gives each batch to one sender; `results[b]` is therefore the answer to
batch b, and `FlattenBatches` shows that the concatenation of the results
has the answer of text k at place k, so `CombinedIsOwn` and `SuspicionIsOwn` trace
a verdict back to the fields of its item. The concatenation is a fold of the
library; `Concatenation` proves what it returns for any sequences, again by a
smallest counterexample.

**Archive.** `ArchiveInv` says that the records accepted so far differ in name and
lie apart, pair by pair, which is what each new record is compared with.

**AssistantPanel.** `Fits` relates what is shown of the answer to what is still to
come: all of it is evidence of this question, an outcome comes alone and cites
what it brings, and before the part that says "verified" all reconciled evidence
arrives. The prefix that `stop` leaves still fits, and `PanelFollows` reads the
panel's derived values off it.

**Only model-checked.** Liveness (`EveryJobEnds`, `EveryEventSettles`,
`EveryRequestEnds`, `StartsEnd`, `LoopEnds`, `LearnsDecision`) and the fairness part
of `ImplementsLedger` of `Ingestion`: TLAPS does not prove properties under
fairness with these provers. That the composition `MCBackOffice` moves one
component at a time is its definition and not a theorem. The properties of the
runs that expect a violation are false. Type correctness is part of each proof
and not repeated in the runs.

## 6. What is not modelled

* **MCP server, exports, most pages and forms**: they read, render or post once.
* **Matters**: creation is one insert; only the reading of its list is modelled.
* **Retrieval and ranking**: what a search may return is nondeterministic in
  `AgentGate`; the scores are arithmetic on text and vectors.
* **Canonical JSON, hashes, manifests, token formats, envelope encryption**: they
  work on bytes; the models take a hash to identify its content and a message
  that opens to be the one that was sent.
* **Classifiers, ClamAV, document processor, embedding and language model, DLP
  service, identity provider**: external, their answers are nondeterministic. The
  patterns of redaction and guardrails are marks of a text.
* **Input validation** precedes the protocols and changes no state.
* **Tenant isolation** is row-level security in the database; every model is of
  one tenant.
* **The rescan among the workers**: `ReviewService` has the second life of a
  document, `Ingestion` does not, so that a superseded worker of the first life
  never meets the second one.

## 7. Plan

Done: 1 `Ingestion` with `EvidenceLedger`; 2 `Outbox`; 3 `Upload`; 4 `RunStart`
and `AgentRuns`; 5 `ReviewService` with `DecisionLedger` and the rescan; 6
`AgentGate`; 7 `AuditChain`; 8 `SignIn` and the reviewer service's timeouts; 9
`RateLimit`, `Chunking`, `Archive`; and beyond the first plan `OutboundGuard`,
`PagedQuery`, `AssistantPanel` and `DemoStore`. The proofs of all of them.

Left, in this order:

1. The rescan as an action of `Ingestion`, with the outbox key that has no version,
   and its proofs: a worker of the first life would meet the second one.
2. The completion of a run by the decision, as a composition of `AgentRuns` and
   `ReviewService`.
3. Abstract specifications of `Outbox` (an event is delivered at least once) and
   `Upload` (a file has one document), with the refinements proved.
