CONSTANTS
  Writers = {m1, m2}
  WsEnders = {ws1}
  RestEnders = {rest1}
  Generators = {gen1}
  NoTranscript = NoTranscript
  MaxFaults = 0
SPECIFICATION Spec
INVARIANTS
  AnnouncedIsKept
CHECK_DEADLOCK FALSE
