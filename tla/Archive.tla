------------------------------- MODULE Archive -------------------------------
(***************************************************************************)
(* The inspection of an uploaded office file (files/validation.ts): one    *)
(* pass over the central directory of the ZIP archive that compares every  *)
(* record with its local header, remembers names, offsets and the ranges   *)
(* of bytes in use, and adds up the sizes. Records are read one at a time, *)
(* so the directory is made up while it is read. Offsets count cells of    *)
(* the file, a local header takes one.                                     *)
(***************************************************************************)
EXTENDS Naturals, FiniteSets, SequencesExt

CONSTANTS
  Names,          \* normalized paths, without the case and a trailing slash
  Required,       \* the parts an office file of the declared type must have
  CentralOffset,  \* where the local entries end
  MaxEntries,     \* records considered (the code allows 2 000)
  MaxCompressed, MaxExpanded,  \* sizes considered of one entry
  MaxTotal,       \* most the archive may expand to (100 MiB)
  MaxRatio        \* most it may expand to relative to its size (100)

ASSUME ArchiveAssumption == CentralOffset \in Nat /\ MaxEntries \in Nat

VARIABLES
  kind,           \* the declared type of the file, or the first check it fails
  declared,       \* entryCount of the end record
  entries,        \* the records read and accepted so far
  inspection      \* "none", "reading", "accepted" or "refused"

archiveVars == <<kind, declared, entries, inspection>>

\* What can be wrong with a record by itself: encryption or ZIP64, an unsafe
\* path, a link or special file, a local header that is missing or differs.
Flaws == {"none", "encrypted", "path", "link", "header"}

Records ==
  [ name : Names, offset : 0..CentralOffset, compressed : 0..MaxCompressed,
    expanded : 0..MaxExpanded, flaw : Flaws ]

\* validateFile before it looks into the file: name, size, type and extension.
ArchiveInit ==
  /\ kind \in {"office", "pdf", "text", "unsafe name", "empty", "too large",
               "unsupported type", "other extension", "other signature"}
  /\ declared \in 0..(MaxEntries + 1)
  /\ entries = <<>>
  /\ inspection = "none"

LocalEnd(r) == r.offset + 1 + r.compressed

\* Mutant: only the entry before is looked at, as if they were in order.
OverlapsPrevious(r) ==
  entries # <<>> /\ LET o == Last(entries)
                    IN r.offset < LocalEnd(o) /\ LocalEnd(r) > o.offset

Overlaps(r) ==
  \E k \in DOMAIN entries :
    r.offset < LocalEnd(entries[k]) /\ LocalEnd(r) > entries[k].offset

TotalCompressed == SumFunction([k \in DOMAIN entries |-> entries[k].compressed])
TotalExpanded == SumFunction([k \in DOMAIN entries |-> entries[k].expanded])

NamesRead == {entries[k].name : k \in DOMAIN entries}

\* The checks of validateFile and of the end record.
OpenArchive ==
  /\ inspection = "none"
  /\ inspection' = CASE kind \in {"pdf", "text"} -> "accepted"
                     [] kind = "office" /\ declared \in 1..MaxEntries -> "reading"
                     [] OTHER -> "refused"
  /\ UNCHANGED <<kind, declared, entries>>

\* A record of the central directory.
ReadRecord ==
  /\ inspection = "reading" /\ Len(entries) < declared
  /\ \E r \in Records :
       IF \/ r.flaw # "none"
          \/ r.name \in NamesRead
          \/ LocalEnd(r) > CentralOffset
          \/ Overlaps(r)
       THEN inspection' = "refused" /\ UNCHANGED entries
       ELSE entries' = Append(entries, r) /\ UNCHANGED inspection
  /\ UNCHANGED <<kind, declared>>

\* The directory ends before the declared number of records.
DirectoryEnds ==
  /\ inspection = "reading" /\ Len(entries) < declared
  /\ inspection' = "refused"
  /\ UNCHANGED <<kind, declared, entries>>

\* All declared records are read; bytes may be left in the directory.
Conclude ==
  /\ inspection = "reading" /\ Len(entries) = declared
  /\ \E bytesLeft \in BOOLEAN :
       inspection' =
         IF /\ ~bytesLeft
            /\ TotalExpanded <= MaxTotal
            /\ TotalCompressed > 0 => TotalExpanded <= MaxRatio * TotalCompressed
            /\ Required \subseteq NamesRead
         THEN "accepted" ELSE "refused"
  /\ UNCHANGED <<kind, declared, entries>>

ArchiveNext == OpenArchive \/ ReadRecord \/ DirectoryEnds \/ Conclude
ArchiveSpec == ArchiveInit /\ [][ArchiveNext]_archiveVars

-----------------------------------------------------------------------------
(* Properties                                                              *)

\* validation.ts:103: the document processor, which unpacks the archive later,
\* reads the same parts whichever way it reads: in an accepted archive no cell
\* belongs to two entries, every part is there once and whole, and the parts
\* together expand to no more than is allowed.
AcceptedReadsOneWay ==
  inspection = "accepted" /\ kind = "office" =>
    LET Cells(k) == entries[k].offset..(LocalEnd(entries[k]) - 1)
    IN /\ Cardinality(NamesRead) = Len(entries) /\ Required \subseteq NamesRead
       /\ \A k \in DOMAIN entries : Cells(k) \subseteq 0..(CentralOffset - 1)
       /\ \A k, l \in DOMAIN entries : k # l => Cells(k) \cap Cells(l) = {}
       /\ TotalExpanded <= MaxTotal
=============================================================================
