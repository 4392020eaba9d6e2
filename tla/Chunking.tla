------------------------------ MODULE Chunking ------------------------------
(***************************************************************************)
(* How a plain text becomes search units (files/chunking.ts): a loop that  *)
(* cuts at a paragraph if one ends far enough into the window, resumes a   *)
(* little before the cut, and gives up if the units run out before the     *)
(* text does. Offsets count characters from 0, as in the code; of a        *)
(* character only matters whether it ends a paragraph.                     *)
(***************************************************************************)
EXTENDS Naturals, Sequences

CONSTANTS
  MaxLength,      \* length of the longest text considered
  Maximum,        \* options.maximum (1 200 in the code)
  Overlap,        \* options.overlap (120)
  ShortestCut,    \* Math.min(400, maximum / 2)
  ChunkLimits     \* values of options.maxChunks considered (500)

\* The options of the only caller are the defaults; with others that the code
\* admits (overlap < maximum) a unit could end where the one before it does.
ASSUME OptionsAssumption ==
  /\ MaxLength \in Nat /\ Maximum \in Nat /\ Overlap \in Nat /\ ShortestCut \in Nat
  /\ Overlap <= ShortestCut /\ ShortestCut < Maximum
  /\ ChunkLimits \subseteq Nat \ {0}

VARIABLES
  text,           \* the characters, TRUE where one ends a paragraph
  maxChunks,
  start,
  coveredEnd,
  chunks,         \* the units: [charStart, charEnd]
  outcome         \* "cutting", "done" or "refused" (DocumentChunkLimitError)

chunkVars == <<text, maxChunks, start, coveredEnd, chunks, outcome>>

\* A normalized text neither begins nor ends with white space and is not empty.
Normalized(t) == t # <<>> /\ ~t[1] /\ ~t[Len(t)]

ChunkInit ==
  /\ text \in UNION {[1..n -> BOOLEAN] : n \in 1..MaxLength} /\ Normalized(text)
  /\ maxChunks \in ChunkLimits
  /\ start = 0
  /\ coveredEnd = 0
  /\ chunks = <<>>
  /\ outcome = "cutting"

Smaller(a, b) == IF a < b THEN a ELSE b
Larger(a, b) == IF a > b THEN a ELSE b

ProposedEnd == Smaller(start + Maximum, Len(text))

\* lastIndexOf: the last paragraph end at an offset up to the proposed end.
ParagraphEnds == {i \in 0..ProposedEnd : i < Len(text) /\ text[i + 1]}
ParagraphEnd == CHOOSE i \in ParagraphEnds : \A j \in ParagraphEnds : j <= i

End ==
  IF ParagraphEnds # {} /\ ParagraphEnd > start + ShortestCut
  THEN ParagraphEnd ELSE ProposedEnd

\* trim() leaves something of the characters after s up to e.
HasText(s, e) == \E k \in (s + 1)..e : ~text[k]

\* Mutant: the whole window counts as covered although the cut came before.
WindowCovered == ProposedEnd

Covered == End

Cut ==
  /\ outcome = "cutting" /\ start < Len(text) /\ Len(chunks) < maxChunks
  /\ chunks' = IF HasText(start, End)
               THEN Append(chunks, [charStart |-> start, charEnd |-> End])
               ELSE chunks
  /\ coveredEnd' = Covered
  /\ IF End >= Len(text)
     THEN outcome' = "done" /\ UNCHANGED start
     ELSE start' = Larger(start + 1, (End - Overlap)) /\ UNCHANGED outcome
  /\ UNCHANGED <<text, maxChunks>>

\* The units have run out.
Stop ==
  /\ outcome = "cutting" /\ Len(chunks) >= maxChunks
  /\ outcome' = IF coveredEnd < Len(text) THEN "refused" ELSE "done"
  /\ UNCHANGED <<text, maxChunks, start, coveredEnd, chunks>>

ChunkNext == Cut \/ Stop
ChunkSpec == ChunkInit /\ [][ChunkNext]_chunkVars

-----------------------------------------------------------------------------
(* Properties                                                              *)

\* chunking.ts:44: a document is either searchable as a whole, every word in a
\* unit of at most the maximum length and every unit after the one before it,
\* or it is refused, and then only because the units were used up.
NothingIsLost ==
  /\ outcome = "done" =>
       \A k \in DOMAIN text : text[k] \/
         \E c \in DOMAIN chunks : k \in (chunks[c].charStart + 1)..chunks[c].charEnd
  /\ outcome = "refused" => Len(chunks) = maxChunks
  /\ Len(chunks) <= maxChunks
  /\ \A c \in DOMAIN chunks :
       /\ chunks[c].charEnd - chunks[c].charStart \in 1..Maximum
       /\ c > 1 => /\ chunks[c].charStart > chunks[c - 1].charStart
                   /\ chunks[c].charEnd > chunks[c - 1].charEnd
=============================================================================
