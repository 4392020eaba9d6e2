--------------------------- MODULE OutboundGuard ---------------------------
(***************************************************************************)
(* What leaves for the providers, and what their verdicts decide: texts    *)
(* are protected under the tenant's policy, inspected by the DLP service,  *)
(* classified in batches by concurrent senders and only then embedded or   *)
(* shown to the agent (security/ai-policy.ts, injection-classifier.ts,     *)
(* retrieval-service.ts, the embedding stage of ingestion-service.ts).     *)
(*                                                                         *)
(* A text is the set of its marks: "pii" is what the patterns of           *)
(* redaction.ts find, "name" personal data only the DLP service finds,     *)
(* "order" what the patterns of guardrails.ts find, "lure" an instruction  *)
(* only the external classifier finds.                                     *)
(***************************************************************************)
EXTENDS Naturals, FiniteSets, SequencesExt

CONSTANTS
  Items,          \* retrieved evidence, or the chunks of a document: 1..n
  Fields,         \* source-controlled fields of an item: 1..m, 1 is its text
  Contents,       \* the contents considered: [query, items]
  Senders,        \* the concurrency of the classification (four in the code)
  BatchSize,      \* MAX_BATCH_SIZE (32 in the code)
  Models          \* versions of the external classifier

\* Items and fields are numbered, and every item has a text.
ASSUME NumberingAssumption ==
  /\ IsFiniteSet(Items) /\ Items = 1..Cardinality(Items)
  /\ IsFiniteSet(Fields) /\ Fields = 1..Cardinality(Fields) /\ 1 \in Fields
  /\ BatchSize \in Nat \ {0}

VARIABLES
  setting,        \* purpose, environment, policy of the tenant, its content
  stage,          \* what is being prepared, or how the request ended
  outbound,       \* the protected texts of this stage
  asked,          \* the DLP service has been asked about them
  next,           \* nextBatch
  sending,        \* the batch each sender waits for (0: none)
  results,        \* batchResults: the answer to each batch, <<>> while missing
  released,       \* items shown to the agent, or chunks to be indexed
  sent            \* everything that has left: [to, text]

guardVars == <<setting, stage, outbound, asked, next, sending, results, released, sent>>

Ended == {"done", "blocked", "failed"}

Regions == {"provider", "dlp", "classifier"}

\* Texts are protected for the query of a retrieval, for the fields of its
\* evidence or of a document, and for the chunks that are embedded.
Settings ==
  { s \in [ purpose : {"retrieval", "ingestion"}, content : Contents,
            environment : {"development", "production", "overridden"},
            enabled : BOOLEAN, mode : {"BLOCK", "REDACT", "ALLOW"},
            allowed : {Regions} \cup {Regions \ {r} : r \in Regions},
            eligible : SUBSET Items ] :
      \* A document has no source address of each chunk that could be refused.
      s.purpose = "ingestion" => s.eligible = Items }

GuardInit ==
  /\ setting \in Settings
  /\ stage = IF setting.purpose = "retrieval" THEN "query" ELSE "fields"
  /\ outbound = <<>>
  /\ asked = FALSE
  /\ next = 1
  /\ sending = [w \in Senders |-> 0]
  /\ results = <<>>
  /\ released = {}
  /\ sent = {}

-----------------------------------------------------------------------------
(* Texts                                                                   *)

ContainsPii(text) == "pii" \in text

RedactPii(text) == text \ {"pii"}

\* The DLP service finds what the patterns find and names.
DlpFinds(text) == {"pii", "name"} \cap text # {}

DlpRedacts(text) == text \ {"pii", "name"}

DetectUntrustedSourceInstruction(text) == "order" \in text

\* eligibleItems, in some order: what the evidence is ranked by is not modelled.
Eligible == SetToSeq(setting.eligible)

\* The fields of all eligible items in one sequence (flatMap).
AllFields ==
  LET m == Cardinality(Fields)
  IN [ k \in 1..(Len(Eligible) * m) |->
         setting.content.items[Eligible[1 + (k - 1) \div m]][1 + ((k - 1) % m)] ]

\* The position of field f of item i in that sequence.
PositionOf(i, f) ==
  LET e == CHOOSE k \in DOMAIN Eligible : Eligible[k] = i
  IN (e - 1) * Cardinality(Fields) + f

Texts ==
  CASE stage = "query" -> <<setting.content.query>>
    [] stage = "fields" -> AllFields
    [] stage = "chunks" -> [i \in 1..Cardinality(Items) |-> setting.content.items[i][1]]

-----------------------------------------------------------------------------
(* Protection: protectAiOutboundBatch                                      *)

External == setting.environment # "development"

\* protectAiOutbound throws for one of the texts.
Refused(texts) ==
  \/ ~setting.enabled
  \/ "provider" \notin setting.allowed
  \/ setting.mode = "BLOCK" /\ \E k \in DOMAIN texts : ContainsPii(texts[k])

ProtectAiOutbound(text) == IF setting.mode = "REDACT" THEN RedactPii(text) ELSE text

\* Mutant: the redaction of the service is dropped in favour of the local one.
LocalRedactionSent(text) == ProtectAiOutbound(text)

\* What leaves for the provider once the DLP service has answered.
AfterDlp(text) ==
  IF setting.mode = "REDACT" THEN ProtectAiOutbound(DlpRedacts(text)) ELSE text

Send(to, texts) ==
  sent' = sent \cup {[to |-> to, text |-> texts[k]] : k \in DOMAIN texts}

Batches == (Len(outbound) + BatchSize - 1) \div BatchSize

NoAnswers(texts) ==
  [b \in 1..((Len(texts) + BatchSize - 1) \div BatchSize) |-> <<>>]

\* The texts of this stage are protected: the query and the chunks are
\* embedded, the fields are classified.
Protected(texts) ==
  /\ asked' = FALSE
  /\ CASE stage = "query" ->
            /\ stage' = "fields"
            /\ Send("provider", texts)
            /\ UNCHANGED <<outbound, results, released>>
       [] stage = "chunks" ->
            /\ stage' = "done"
            /\ released' = Items
            /\ Send("provider", texts)
            /\ UNCHANGED <<outbound, results>>
       [] stage = "fields" /\ setting.environment = "overridden" ->
            /\ stage' = "failed"
            /\ UNCHANGED <<outbound, results, released, sent>>
       [] stage = "fields" /\ setting.environment # "overridden" ->
            /\ stage' = "classify"
            /\ outbound' = texts
            /\ results' = NoAnswers(texts)
            /\ UNCHANGED <<released, sent>>

Fail ==
  /\ stage' = "failed"
  /\ asked' = FALSE
  /\ UNCHANGED <<outbound, results, released, sent>>

\* embedChunks indexes a document without embeddings if a text is refused for
\* personal data; everything else fails.
RefusedForPii ==
  IF stage = "chunks"
  THEN /\ stage' = "done"
       /\ released' = Items
       /\ asked' = FALSE
       /\ UNCHANGED <<outbound, results, sent>>
  ELSE Fail

\* Refused before anything leaves; the ingestion looks for the override of the
\* local stack before it protects anything.
Forbidden ==
  \/ Refused(Texts)
  \/ External /\ "dlp" \notin setting.allowed
  \/ setting.purpose = "ingestion" /\ setting.environment = "overridden"

\* A retrieval that has found nothing it may show asks nobody.
Protect ==
  /\ stage \in {"query", "fields", "chunks"} /\ ~asked
  /\ CASE Texts = <<>> ->
            /\ stage' = "done"
            /\ UNCHANGED <<outbound, asked, results, released, sent>>
       [] Texts # <<>> /\ Forbidden -> Fail
       [] Texts # <<>> /\ ~Forbidden /\ External ->
            /\ asked' = TRUE
            /\ outbound' = [k \in DOMAIN Texts |-> ProtectAiOutbound(Texts[k])]
            /\ Send("dlp", outbound')
            /\ UNCHANGED <<stage, results, released>>
       [] Texts # <<>> /\ ~Forbidden /\ ~External ->
            Protected([k \in DOMAIN Texts |-> ProtectAiOutbound(Texts[k])])
  /\ UNCHANGED <<setting, next, sending>>

\* The DLP service answers; it may find more than it found the last time.
AnswerDlp ==
  /\ asked
  /\ \E overcautious \in BOOLEAN :
       IF setting.mode = "BLOCK"
          /\ (overcautious \/ \E k \in DOMAIN outbound : DlpFinds(outbound[k]))
       THEN RefusedForPii
       ELSE Protected([k \in DOMAIN outbound |-> AfterDlp(outbound[k])])
  /\ UNCHANGED <<setting, next, sending>>

\* The service does not answer in time, or with something else.
DlpUnavailable ==
  /\ asked
  /\ Fail
  /\ UNCHANGED <<setting, next, sending>>

-----------------------------------------------------------------------------
(* Classification: classifyUntrustedSourceBatch                            *)

BatchRange(b) ==
  (BatchSize * (b - 1) + 1)..(IF b = Batches THEN Len(outbound) ELSE BatchSize * b)

\* validateRegionalServiceEndpoint throws before anything is sent.
EndpointAllowed == "classifier" \in setting.allowed

\* A sender takes the next batch as soon as it is free. The others go on after
\* one of them has failed, so this does not depend on the stage.
TakeBatch(w) ==
  /\ External /\ stage \in {"classify", "failed"} /\ results # <<>>
  /\ sending[w] = 0
  /\ next <= Batches
  /\ sending' = [sending EXCEPT ![w] = next]
  /\ next' = next + 1
  /\ IF EndpointAllowed
     THEN Send("classifier", [k \in BatchRange(next) |-> outbound[k]])
     ELSE UNCHANGED sent
  /\ UNCHANGED <<setting, stage, outbound, asked, results, released>>

\* Mutant: answers are stored in the order in which they arrive.
SlotByArrival(w) == 1 + Cardinality({b \in DOMAIN results : results[b] # <<>>})

\* Where the answer to the batch of a sender is stored: at the index the sender
\* took before it waited.
Slot(w) == sending[w]

AnswerBatch(w) ==
  /\ sending[w] \in 1..Batches /\ EndpointAllowed
  /\ \E model \in Models :
       results' = [results EXCEPT ![Slot(w)] =
         [ model |-> model,
           lures |-> [j \in 1..Cardinality(BatchRange(sending[w])) |->
                        "lure" \in outbound[BatchSize * (sending[w] - 1) + j]] ]]
  /\ sending' = [sending EXCEPT ![w] = 0]
  /\ UNCHANGED <<setting, stage, outbound, asked, next, released, sent>>

\* No answer, an inadmissible one, or an endpoint outside of the tenant's
\* regions: the sender stops (Senders + 1 stands for its end: it takes no more).
BatchFails(w) ==
  /\ sending[w] \in 1..Batches
  /\ sending' = [sending EXCEPT ![w] = Batches + 1]
  /\ stage' = "failed"
  /\ UNCHANGED <<setting, outbound, asked, next, results, released, sent>>

\* combinedItems: the answers in the order of the batches. A field is suspicious
\* by its answer or by the local patterns.
Combined == FlattenSeq([b \in 1..Batches |-> results[b].lures])

Suspicious(k) ==
  \/ DetectUntrustedSourceInstruction(outbound[k])
  \/ External /\ Combined[k]

ModelChanged == External /\ \E b, c \in DOMAIN results : results[b].model # results[c].model

\* All batches are answered: evidence with a suspicious field is left out, a
\* document with one is blocked.
Judge ==
  /\ stage = "classify"
  /\ External => \A b \in 1..Batches : results[b] # <<>>
  /\ IF ModelChanged THEN stage' = "failed" /\ UNCHANGED released
     ELSE IF setting.purpose = "retrieval"
     THEN /\ stage' = "done"
          /\ released' = {i \in setting.eligible :
                            \A f \in Fields : ~Suspicious(PositionOf(i, f))}
     ELSE /\ stage' = IF \/ \E k \in DOMAIN outbound : Suspicious(k)
                         \/ \E k \in DOMAIN AllFields :
                              DetectUntrustedSourceInstruction(AllFields[k])
                      THEN "blocked" ELSE "chunks"
          /\ UNCHANGED released
  /\ UNCHANGED <<setting, outbound, asked, next, sending, results, sent>>

GuardNext ==
  \/ Protect \/ AnswerDlp \/ DlpUnavailable \/ Judge
  \/ \E w \in Senders : TakeBatch(w) \/ AnswerBatch(w) \/ BatchFails(w)

GuardSpec == GuardInit /\ [][GuardNext]_guardVars

-----------------------------------------------------------------------------
(* Properties                                                              *)

\* ai-policy.ts:79: a tenant that blocks or redacts personal data never has any
\* leave: not what the patterns find to anyone, and in production not what the
\* DLP service finds to the providers behind it; and nothing leaves to a region
\* the tenant has not allowed.
NothingUnprotectedLeaves ==
  \A message \in sent :
    /\ setting.enabled /\ {"provider", message.to} \subseteq setting.allowed
    /\ setting.mode # "ALLOW" => "pii" \notin message.text
    /\ setting.mode # "ALLOW" /\ External /\ message.to # "dlp" =>
         "name" \notin message.text

\* injection-classifier.ts:262, retrieval-service.ts:92: however the answers of
\* the concurrent senders arrive, evidence is shown exactly if none of its own
\* fields carries an instruction, and a document passes only without any.
JudgedByItsOwnFields ==
  LET Clean(i) ==
        \A f \in Fields :
          /\ "order" \notin setting.content.items[i][f]
          /\ External => "lure" \notin setting.content.items[i][f]
  IN /\ stage = "done" => released = {i \in setting.eligible : Clean(i)}
     /\ stage = "blocked" => \E i \in Items : ~Clean(i)
=============================================================================
