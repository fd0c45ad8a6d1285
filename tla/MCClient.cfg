CONSTANTS
  Trace <- MCTrace
  Workers = {w1, w2}
  MaxTries = 2
  Period = 2
SPECIFICATION FairSpec
INVARIANTS
  TypeOK
  EveryRequestSent
  StartedInTraceOrder
  HistogramsComplete
  ReportedAtMostCounted
  StopIsPrompt
PROPERTIES
  NeverSentTwice
  Terminates
