CONSTANTS
  Rows <- MCPlainRows
  NExtra = 0
  Threads = {t1, t2}
  NoId = NoId
  Uris <- MCPlainUris
  MaxRequests = 2
SPECIFICATION Spec
INVARIANTS
  ContentLengthMatchesBody
