\* A tool result that meets the to-do reminder in a small window.
SPECIFICATION CbSpec
CONSTANTS
  Window = 12
  Framing = 1
  PerCall = 1
  Marker = 1
  TodoRounds = 2
  CbRounds = 2
  CbInputs = 1
  CbTexts <- MCCbTexts
INVARIANT
  LatestObservationSent
CHECK_DEADLOCK FALSE
