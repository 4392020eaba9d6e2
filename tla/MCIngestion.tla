---------------------------- MODULE MCIngestion ----------------------------
(* Instances of Ingestion for TLC. *)
EXTENDS Ingestion

CONSTANTS w1, w2

\* Five outcomes of parsing the same bytes: a good one, one without its second
\* chunk, one that contradicts it, one the classifier flags and one the pattern
\* matches.
Good == {<<0, "a">>, <<1, "b">>}
Short == {<<0, "a">>}
Other == {<<0, "a">>, <<1, "c">>}
Flagged == {<<0, "x">>}
Pattern == {<<0, "y">>}
FiveParses == {Good, Short, Other, Flagged, Pattern}
FlaggedOnly == {Flagged}
PatternOnly == {Pattern}
=============================================================================
