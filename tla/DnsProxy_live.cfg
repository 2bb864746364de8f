SPECIFICATION FairSpec
CONSTANTS
  Queries = 2
  Txids = 2
  SharedTxids = TRUE
  MaxAnswers = 2
INVARIANTS
  EntryHasTimer
  AnsweredOnce
  OwnAnswer
  Unpolluted
  NoStaleTimer
PROPERTIES
  QueryEnds
