--------------------------- MODULE EvidenceLedger ---------------------------
(***************************************************************************)
(* What ingestion promises to everything downstream of it: an uploaded     *)
(* document is either sealed, once, with one admissible set of chunks, or  *)
(* refused for good; only a sealed document is decided on, and a decision  *)
(* is final.  Workers, leases, retries and object versions are invisible.  *)
(***************************************************************************)
CONSTANTS
  Docs,        \* uploaded documents
  Admissible   \* the chunk sets a document may be sealed with

VARIABLES
  phase,       \* phase[d]: "ingesting", "sealed" or "refused"
  sealed,      \* sealed[d]: the chunks d was sealed with, {} before
  verdict      \* verdict[d]: the reviewer's decision on the sealed evidence

ledgerVars == <<phase, sealed, verdict>>

LedgerInit ==
  /\ phase = [d \in Docs |-> "ingesting"]
  /\ sealed = [d \in Docs |-> {}]
  /\ verdict = [d \in Docs |-> "PENDING"]

Seal(d) ==
  /\ phase[d] = "ingesting"
  /\ phase' = [phase EXCEPT ![d] = "sealed"]
  /\ \E p \in Admissible : sealed' = [sealed EXCEPT ![d] = p]
  /\ UNCHANGED verdict

Refuse(d) ==
  /\ phase[d] = "ingesting"
  /\ phase' = [phase EXCEPT ![d] = "refused"]
  /\ UNCHANGED <<sealed, verdict>>

Decide(d) ==
  /\ phase[d] = "sealed"
  /\ verdict[d] = "PENDING"
  /\ \E decision \in {"APPROVED", "REJECTED"} :
       verdict' = [verdict EXCEPT ![d] = decision]
  /\ UNCHANGED <<phase, sealed>>

LedgerNext == \E d \in Docs : Seal(d) \/ Refuse(d) \/ Decide(d)

LedgerSafety == LedgerInit /\ [][LedgerNext]_ledgerVars

\* Ingestion always comes to an end; a reviewer may never decide.
LedgerSpec ==
  LedgerSafety /\ \A d \in Docs : WF_ledgerVars(Seal(d) \/ Refuse(d))
=============================================================================
