CONSTANTS
  Writers = {m1, m2}
  WsEnders = {ws1}
  RestEnders = {rest1}
  Generators = {gen1}
  NoTranscript = NoTranscript
  MaxFaults = 1
SPECIFICATION Spec
SYMMETRY WriterSymmetry
INVARIANTS
  TypeOK
  PurgedOnlyAfterArchive
  OnlyLateMessagesLost
  SingleArchiver
  ArchiveAgrees
  CountMatchesSaved
PROPERTIES
  ImplementsPromise
CHECK_DEADLOCK FALSE
