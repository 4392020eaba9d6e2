---------------------------- MODULE PagedQuery -----------------------------
(***************************************************************************)
(* The lists of matters and of audit events in the browser                 *)
(* (components/use-paged-query.ts): a debounced fetch per query and per    *)
(* click on reload, whose answers may come late and out of order.          *)
(*                                                                         *)
(* The rows of the server are a version number.  A render and the effect   *)
(* that follows it are one step.                                           *)
(***************************************************************************)
EXTENDS Naturals, Sequences

CONSTANTS
  Queries,    \* what the user may filter by
  MaxRetry,   \* bound: clicks on reload
  MaxVersion, \* bound: versions of the rows
  MaxFetches  \* bound: fetches the effect begins

VARIABLES
  rows,     \* version of the rows in the database
  query, retry,
  state,    \* what is shown: its query, its retry and the version it was read at
  fetches,  \* fetches[n]: the closure of the n-th effect
  clicked   \* history: version of the rows at the last click on reload

pagedVars == <<rows, query, retry, state, fetches, clicked>>

PagedInit ==
  /\ rows = 1 /\ clicked = 0 /\ retry = 0
  /\ query \in Queries
  /\ state = [query |-> query, retry |-> 0, read |-> 1]
  /\ fetches = <<>>

\* Mutant: a reload that is under way does not count.
loadingQuery == state.query # query

\* The list is marked as loading.
loading == state.query # query \/ state.retry # retry

\* The cleanup of the last effect aborts its fetch; the new effect waits 250 ms
\* and fetches, unless what is shown is what is wanted.
Effect(q, r, shown) ==
  LET aborted == [n \in DOMAIN fetches |-> [fetches[n] EXCEPT !.aborted = TRUE]]
  IN fetches' = IF q = shown.query /\ r = shown.retry THEN aborted
                ELSE Append(aborted, [query |-> q, retry |-> r, at |-> "timer",
                                      read |-> 0, aborted |-> FALSE])

Change ==
  /\ rows < MaxVersion
  /\ rows' = rows + 1
  /\ UNCHANGED <<query, retry, state, fetches, clicked>>

\* The user changes the filter.
Choose(q) ==
  /\ q # query /\ Len(fetches) < MaxFetches
  /\ query' = q
  /\ Effect(q, retry, state)
  /\ UNCHANGED <<rows, retry, state, clicked>>

reload ==
  /\ retry < MaxRetry /\ Len(fetches) < MaxFetches
  /\ retry' = retry + 1 /\ clicked' = rows
  /\ Effect(query, retry', state)
  /\ UNCHANGED <<rows, query, state>>

\* The timer fires, unless the cleanup has cleared it.
Fire(n) ==
  /\ fetches[n].at = "timer" /\ ~fetches[n].aborted
  /\ fetches' = [fetches EXCEPT ![n].at = "sent"]
  /\ UNCHANGED <<rows, query, retry, state, clicked>>

\* The server reads the rows, also for a client that has given up.
Serve(n) ==
  /\ fetches[n].at = "sent"
  /\ fetches' = [fetches EXCEPT ![n].at = "served", ![n].read = rows]
  /\ UNCHANGED <<rows, query, retry, state, clicked>>

\* The answer, or an error after at most 15 s, is shown unless the fetch was
\* aborted; read 0 is an empty list with an error message.
Show(n) ==
  /\ fetches[n].at \in {"sent", "served"} /\ ~fetches[n].aborted
  /\ \E read \in {0, fetches[n].read} :
       state' = [query |-> fetches[n].query, retry |-> fetches[n].retry, read |-> read]
  /\ Effect(query, retry, state')
  /\ UNCHANGED <<rows, query, retry, clicked>>

PagedNext ==
  \/ Change \/ reload \/ \E q \in Queries : Choose(q)
  \/ \E n \in DOMAIN fetches : Fire(n) \/ Serve(n) \/ Show(n)

PagedSpec == PagedInit /\ [][PagedNext]_pagedVars

-----------------------------------------------------------------------------

\* use-paged-query.ts:41: fetches of earlier clicks and filters are answered late and
\* in any order; a list that is not marked as loading is no older than the last
\* click on reload.
ReloadIsFresh == ~loading => state.read = 0 \/ state.read >= clicked
=============================================================================
