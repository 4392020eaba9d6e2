----------------------------- MODULE RateLimit -----------------------------
(***************************************************************************)
(* The rate limit of one key (lib/security/rate-limit.ts): one row of      *)
(* rate_limit_buckets that the upserts of concurrent requests count in, or *)
(* the map of a process without a database.                                *)
(*                                                                         *)
(* now() is the time at which a transaction began.  It may be old when the *)
(* upsert has waited for the lock of the row.                              *)
(***************************************************************************)
EXTENDS Naturals, FiniteSets

CONSTANTS
  Total,      \* bound: requests with the key, numbered as they arrive
  Limit,      \* the limit
  Window,     \* windowMs
  MaxClock,   \* bound: the time of the last request
  MaxWait     \* bound: how long an upsert waits for the row

\* A request is over before a window is: the routes run for 30 s at most
\* (api/v1/assistant/route.ts:4, mcp/route.ts:16), a window takes 60 s.
ASSUME RateAssumption ==
  /\ Total \in Nat /\ Limit \in Nat \ {0} /\ Window \in Nat \ {0}
  /\ MaxWait \in 0..Window

VARIABLES
  shared,     \* DATABASE_URL is set
  clock,
  started,    \* window_started_at, or resetAt - windowMs; 0 without a row
  count,      \* count of the row, 0 without a row
  began,      \* began[q]: now() of request q, 0 before it arrives
  verdict     \* verdict[q]: "none", "admitted" or "refused"

Requests == 1..Total
rateVars == <<shared, clock, started, count, began, verdict>>

RateInit ==
  /\ shared \in BOOLEAN
  /\ clock = 1 /\ started = 0 /\ count = 0
  /\ began = [q \in Requests |-> 0]
  /\ verdict = [q \in Requests |-> "none"]

Waiting == {q \in Requests : began[q] # 0 /\ verdict[q] = "none"}

\* No upsert waits longer than MaxWait.
Tick ==
  /\ clock < MaxClock /\ \A q \in Waiting : clock < began[q] + MaxWait
  /\ clock' = clock + 1
  /\ UNCHANGED <<shared, started, count, began, verdict>>

Arrives(q) == began[q] = 0 /\ \A p \in 1..(q - 1) : began[p] # 0

BeginRequest(q) ==
  /\ shared /\ Arrives(q)
  /\ began' = [began EXCEPT ![q] = clock]
  /\ UNCHANGED <<shared, clock, started, count, verdict>>

\* Mutant: the window has already ended in its last millisecond.
EndsEarly(now) == count = 0 \/ started + Window - 1 <= now

\* There is no row yet, or its window is over.
Restarts(now) == count = 0 \/ started + Window <= now

SetVerdict(q, admitted) ==
  verdict' = [verdict EXCEPT ![q] = IF admitted THEN "admitted" ELSE "refused"]

\* The upsert counts every request, the refused ones too.
Upsert(q) ==
  /\ q \in Waiting
  /\ IF Restarts(began[q])
     THEN started' = began[q] /\ count' = 1
     ELSE started' = started /\ count' = count + 1
  /\ SetVerdict(q, count' <= Limit)
  /\ UNCHANGED <<shared, clock, began>>

\* The map counts admitted requests only, in one step.
Memory(q) ==
  /\ ~shared /\ Arrives(q)
  /\ began' = [began EXCEPT ![q] = clock]
  /\ IF Restarts(clock)
     THEN started' = clock /\ count' = 1 /\ SetVerdict(q, TRUE)
     ELSE /\ count' = IF count >= Limit THEN count ELSE count + 1
          /\ SetVerdict(q, count < Limit)
          /\ UNCHANGED started
  /\ UNCHANGED <<shared, clock>>

RateNext == Tick \/ \E q \in Requests : BeginRequest(q) \/ Upsert(q) \/ Memory(q)
RateSpec == RateInit /\ [][RateNext]_rateVars

-----------------------------------------------------------------------------

Admitted(from, to) ==
  Cardinality({q \in Requests : verdict[q] = "admitted" /\ began[q] \in from..to})

\* rate-limit.ts:42: whatever waits for the row and whichever request restarts the
\* window, a stretch of a window's length admits less than twice the limit, and
\* less than three times when upserts wait for each other.
BurstIsBounded ==
  \A from \in 1..MaxClock :
    Admitted(from, from + Window - 1) <= IF shared THEN 3 * Limit - 2 ELSE 2 * Limit - 1

\* rate-limit.ts:42: refused requests count in the shared row too, and the row may
\* be older or newer than the request; a request is refused only when others used
\* up the limit in the window's length before it, give or take what upserts wait.
RefusedForCause ==
  LET wait == IF shared THEN MaxWait ELSE 0
  IN \A q \in Requests : verdict[q] = "refused" =>
       Admitted(IF began[q] + 1 > Window + wait THEN began[q] + 1 - Window - wait ELSE 0,
                began[q] + wait) >= Limit

\* rate-limit.ts:42: the two together: as many as the limit says, no more and,
\* where one is refused, no fewer.
LimitIsExact == BurstIsBounded /\ RefusedForCause
=============================================================================
