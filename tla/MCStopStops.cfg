CONSTANTS
  Agents = {a, b}
  Loops = {l1, l2}
  TickTurns = {t1, t2}
  MessageTurns = {t1}
  CallTurns = {t2}
  Requests = {r}
  MaxBg = 1
  MaxDepth = 1
  Client = Client
  None = None
  Idle = Idle
  Ended = Ended
SPECIFICATION Spec
INVARIANT StopStops
