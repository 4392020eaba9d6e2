CONSTANTS
  first = first
  retry = retry
  renamed = renamed
  other = other
  stranger = stranger
  Requests = {first, renamed}
  Upload <- TwoUploads
  Actors = {"kim", "lee"}
  Keys = {"k1", "k2"}
  Files = {"f1", "f2"}
  Sources = {"record"}
  Names = {"n1", "n2"}
  NoRequest = NoRequest
SPECIFICATION Spec
INVARIANT PersistedObjectKept
CHECK_DEADLOCK FALSE
