CONSTANTS
  Viewers = {v}
  Window = 0
  MaxWire = 1
  MaxFlight = 2
  Polls = {p, q}
SPECIFICATION Spec
INVARIANT TypeOK
PROPERTY AnsweringStays
PROPERTY SilentIsClosed
PROPERTY LoopsEnd
PROPERTY CliCatchesUp
PROPERTY WidgetCatchesUp
CHECK_DEADLOCK FALSE
