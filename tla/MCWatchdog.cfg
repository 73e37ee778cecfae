CONSTANTS
  Agents = {a}
  Turns = {t, s}
  StreamingTurns = {s}
  PhaseLimit <- SmallLimits
  IdleLimit = 2
  ReactiveLimit = Off
  Cooldown = 2
  MaxAttempts = 2
  MaxAge = 3
  Off = Off
  NoPhase = NoPhase
  Idle = Idle
SPECIFICATION Spec
INVARIANT WatchdogSeesTurns
