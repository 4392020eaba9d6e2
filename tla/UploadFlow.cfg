CONSTANTS
  first = first
  retry = retry
  renamed = renamed
  other = other
  stranger = stranger
  Requests = {first, retry, other, stranger}
  Upload <- FourUploads
  Actors = {"kim", "lee"}
  Keys = {"k1", "k2"}
  Files = {"f1", "f2"}
  Sources = {"record"}
  Names = {"n1", "n2"}
  NoRequest = NoRequest
SPECIFICATION FairSpec
INVARIANTS
  AnswersMatchUploads
  DocumentsAndJobsPair
  AnswersAccountForObjects
PROPERTY EveryRequestEnds
CHECK_DEADLOCK FALSE
