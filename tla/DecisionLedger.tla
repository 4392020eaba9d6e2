--------------------------- MODULE DecisionLedger ---------------------------
(***************************************************************************)
(* What the review of a workpaper promises: it is decided at most once,    *)
(* and whoever is told a decision is told that one.  Module ReviewService  *)
(* implements it.                                                          *)
(***************************************************************************)
CONSTANTS Readers, Decisions, Undecided

VARIABLES
  decision,  \* the decision, or Undecided
  told       \* told[t]: the decision reader t was told, or Undecided

Init == decision = Undecided /\ told = [t \in Readers |-> Undecided]

Decide(d) ==
  /\ decision = Undecided
  /\ decision' = d
  /\ UNCHANGED told

Tell(t) ==
  /\ decision # Undecided
  /\ told' = [told EXCEPT ![t] = decision]
  /\ UNCHANGED decision

Next == (\E d \in Decisions : Decide(d)) \/ (\E t \in Readers : Tell(t))
Spec == Init /\ [][Next]_<<decision, told>>
=============================================================================
