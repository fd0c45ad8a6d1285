CONSTANTS
  Rows <- MCRows
  NExtra = 2
  Threads = {t1, t2}
  NoId = NoId
  Uris <- MCUris
  MaxRequests = 2
SPECIFICATION Spec
INVARIANTS
  TypeOK
  AnsweredFromFile
  ContentLengthMatchesBody
  ReportedAtMostCounted
PROPERTIES
  ExitsWhenAcceptFails
