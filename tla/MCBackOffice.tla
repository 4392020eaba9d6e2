---------------------------- MODULE MCBackOffice ----------------------------
(***************************************************************************)
(* One TLC run for AgentRuns and the small components that share no state  *)
(* with it or with each other: the initial state chooses the component     *)
(* that moves, and the others stay where they begin.                       *)
(***************************************************************************)
EXTENDS AgentRuns, AuditChain, RateLimit, SignIn, PagedQuery, DemoStore,
        OutboundGuard, Chunking, Archive, AssistantPanel, TLC

CONSTANTS r1, r2, analyst, reviewer, admin, vat_q4, payroll

VARIABLE focus    \* the component that moves

MCVars == <<focus, vars, auditVars, rateVars, signVars, pagedVars, demoVars,
            guardVars, chunkVars, archiveVars, panelVars>>

Symmetry == Permutations(Runs)
MCReviewerOf == (vat_q4 :> reviewer) @@ (payroll :> admin)

\* Contents without any mark, or with one in the query or a field.
Clean == [query |-> {}, items |-> [i \in Items |-> [f \in Fields |-> {}]]]
MCContents ==
  {Clean}
  \cup {[Clean EXCEPT !.query = {mark}] : mark \in {"pii", "name"}}
  \cup {[Clean EXCEPT !.items[i][f] = {mark}] :
          i \in Items, f \in Fields, mark \in {"pii", "name", "order", "lure"}}

MCInit ==
  /\ focus \in {"runs", "audit", "rate", "sign-in", "list", "demo",
                "guard", "chunks", "archive", "panel"}
  /\ Init /\ AuditInit /\ SignInit /\ DemoInit /\ PanelInit
  \* One initial state of the components that have several and do not move.
  /\ RateInit /\ (focus # "rate" => ~shared)
  /\ PagedInit /\ (focus # "list" => query = CHOOSE q \in Queries : TRUE)
  /\ IF focus = "guard" THEN setting \in Settings
     ELSE setting = CHOOSE s \in Settings : s.content = Clean
  /\ GuardInit
  /\ IF focus = "chunks" THEN ChunkInit
     ELSE text = <<FALSE>> /\ maxChunks = 2 /\ ChunkInit
  /\ IF focus = "archive" THEN ArchiveInit
     ELSE kind = "office" /\ declared = 1 /\ ArchiveInit

\* All other components stay where they are.
Others(name) ==
  /\ UNCHANGED focus
  /\ name # "runs" => UNCHANGED vars
  /\ name # "audit" => UNCHANGED auditVars
  /\ name # "rate" => UNCHANGED rateVars
  /\ name # "sign-in" => UNCHANGED signVars
  /\ name # "list" => UNCHANGED pagedVars
  /\ name # "demo" => UNCHANGED demoVars
  /\ name # "guard" => UNCHANGED guardVars
  /\ name # "chunks" => UNCHANGED chunkVars
  /\ name # "archive" => UNCHANGED archiveVars
  /\ name # "panel" => UNCHANGED panelVars

MCNext ==
  \/ focus = "runs" /\ Next /\ Others("runs")
  \/ focus = "audit" /\ AuditNext /\ Others("audit")
  \/ focus = "rate" /\ RateNext /\ Others("rate")
  \/ focus = "sign-in" /\ SignNext /\ Others("sign-in")
  \/ focus = "list" /\ PagedNext /\ Others("list")
  \/ focus = "demo" /\ DemoNext /\ Others("demo")
  \/ focus = "guard" /\ GuardNext /\ Others("guard")
  \/ focus = "chunks" /\ ChunkNext /\ Others("chunks")
  \/ focus = "archive" /\ ArchiveNext /\ Others("archive")
  \/ focus = "panel" /\ PanelNext /\ Others("panel")

MCSpec == MCInit /\ [][MCNext]_MCVars
=============================================================================
