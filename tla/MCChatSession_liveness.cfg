CONSTANTS
  Writers = {m1, m2}
  WsEnders = {ws1}
  RestEnders = {rest1}
  Generators = {}
  NoTranscript = NoTranscript
  MaxFaults = 0
SPECIFICATION FairSpec
PROPERTIES
  SubmissionArchives
  SuccessLeadsToMark
CHECK_DEADLOCK FALSE
