CONSTANTS
  Writers = {m1}
  WsEnders = {ws1}
  RestEnders = {}
  Generators = {}
  NoTranscript = NoTranscript
  MaxFaults = 0
SPECIFICATION Spec
INVARIANTS
  SubmittedIsOnTopic
CHECK_DEADLOCK FALSE
