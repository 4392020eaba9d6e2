------------------------------ MODULE MCUpload ------------------------------
(* Instances of Upload for TLC. *)
EXTENDS Upload, TLC

CONSTANTS first, retry, renamed, other, stranger

From(actor, key, file, name) ==
  [actor |-> actor, key |-> key, file |-> file, source |-> "record", name |-> name]

\* An upload, its retry, another file under its key, and the same file from
\* another person.
FourUploads ==
  first    :> From("kim", "k1", "f1", "n1") @@
  retry    :> From("kim", "k1", "f1", "n1") @@
  other    :> From("kim", "k1", "f2", "n1") @@
  stranger :> From("lee", "k2", "f1", "n1")

\* An upload, and the same file under a new key and name.
TwoUploads ==
  first   :> From("kim", "k1", "f1", "n1") @@
  renamed :> From("kim", "k2", "f1", "n2")
=============================================================================
