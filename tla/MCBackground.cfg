CONSTANTS
  Agents = {a}
  Loops = {l1, l2}
  TickTurns = {m, k}
  MessageTurns = {m}
  CallTurns = {k, c}
  Requests = {r}
  MaxBg = 1
  MaxDepth = 1
  Client = Client
  None = None
  Idle = Idle
  Ended = Ended
SPECIFICATION Spec
INVARIANTS TypeOK OneTickPerLoop PermitsAccounted OrphansNeedARace
PROPERTIES TurnsEnd LoopsTick ShutdownEndsLoops
