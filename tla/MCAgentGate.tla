---------------------------- MODULE MCAgentGate ----------------------------
(* Instances of AgentGate for TLC. *)
EXTENDS AgentGate, TLC

CONSTANTS c1, c2, e1, e2, k1, k2

\* A legal rule with its authority and a fact with its record: a check fails
\* when the retrieval misses what the claims cite.
CitesOfClaims == (k1 :> {e1}) @@ (k2 :> {e2})
=============================================================================
