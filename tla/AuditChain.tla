----------------------------- MODULE AuditChain -----------------------------
(***************************************************************************)
(* The audit chain of one tenant: transactions of the web application and  *)
(* of the reviewer service append events, each with the hash of the event  *)
(* before it (drizzle/0002), and the chain is verified in the order of     *)
(* time (drizzle/0008, lib/audit/hash-chain.ts).                           *)
(*                                                                         *)
(* Hashes do not collide, so the id of an event stands for its hash; ids   *)
(* are random.  The clocks of the writers are not synchronised.            *)
(***************************************************************************)
EXTENDS Naturals, FiniteSets

CONSTANTS
  Writers,   \* transactions that may be under way at a time
  Ids,       \* ids of events, a bound on their number
  Clock      \* what clock_timestamp() may say, in milliseconds

\* Ids are ordered as uuids are, and clocks count.
ASSUME NumbersAssumption == Ids \subseteq Nat /\ Clock \subseteq Nat

VARIABLES
  events,    \* committed rows of audit_events
  added,     \* added[w]: rows inserted by the open transaction of w
  holder     \* the writers that hold the advisory lock of the tenant

auditVars == <<events, added, holder>>

Root == 0    \* the hash of sixty-four zeros
AuditInit == events = {} /\ added = [w \in Writers |-> {}] /\ holder = {}

-----------------------------------------------------------------------------
(* Appending                                                               *)

\* ORDER BY occurred_at, id
Before(e, f) == e.occurred < f.occurred \/ (e.occurred = f.occurred /\ e.id < f.id)
Latest(rows) == CHOOSE e \in rows : \A f \in rows \ {e} : Before(f, e)

\* Mutant: the clock alone says when an event occurred.
OccurredByClock(now, rows) == now

\* greatest(clock_timestamp(), previous + 1 ms)
Occurred(now, rows) ==
  IF rows = {} \/ now > Latest(rows).occurred THEN now ELSE Latest(rows).occurred + 1

\* Mutant: the lock does not last until the end of the transaction.
Unlocked(w) == TRUE

\* pg_advisory_xact_lock: nobody else has it, and it is kept until the end.
Lockable(w) == holder \subseteq {w}

\* append_audit_event_secure: the select after the lock sees what is committed
\* and the rows of its own transaction.
AppendEvent(w) ==
  LET rows == events \cup added[w]
  IN
  /\ Lockable(w)
  /\ \E id \in Ids, now \in Clock :
       /\ \A e \in events \cup UNION {added[v] : v \in Writers} : e.id # id
       /\ added' = [added EXCEPT ![w] = @ \cup
            {[id |-> id, occurred |-> Occurred(now, rows),
              previous |-> IF rows = {} THEN Root ELSE Latest(rows).id]}]
  /\ holder' = holder \cup {w}
  /\ UNCHANGED events

\* The transaction that contains the events commits, or rolls back.
EndTransaction(w) ==
  /\ w \in holder
  /\ events' = events \cup added[w] \/ UNCHANGED events
  /\ added' = [added EXCEPT ![w] = {}]
  /\ holder' = holder \ {w}

AuditNext == \E w \in Writers : AppendEvent(w) \/ EndTransaction(w)
AuditSpec == AuditInit /\ [][AuditNext]_auditVars

-----------------------------------------------------------------------------
(* Verifying                                                               *)

\* verify_audit_chain_integrity: every event names the one before it, the first
\* one the root.
LinkIsValid(e, rows) ==
  LET older == {f \in rows : Before(f, e)}
  IN e.previous = IF older = {} THEN Root ELSE Latest(older).id
Verified(rows) == rows # {} /\ \A e \in rows : LinkIsValid(e, rows)

\* drizzle/0002:141: transactions that append concurrently, several events each,
\* under clocks that disagree, and that may roll back, form one chain: the
\* verification accepts whatever is committed.
ChainVerifies == events # {} => Verified(events)

\* A head that was exported stays in the chain, and what is committed later comes
\* after it: no transaction commits an event between older ones.
ChainGrowsAtItsHead ==
  [][\A e \in events' \ events : \A f \in events : Before(f, e)]_auditVars
=============================================================================
