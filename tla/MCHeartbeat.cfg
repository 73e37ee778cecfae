CONSTANTS
  Agents = {a}
  Turns = {t, s}
  StreamingTurns = {s}
  PhaseLimit <- SmallLimits
  IdleLimit = 2
  ReactiveLimit = 0
  Cooldown = 3
  MaxAttempts = 2
  MaxAge = 3
  Off = Off
  NoPhase = NoPhase
  Idle = Idle
SPECIFICATION Spec
INVARIANTS TypeOK NotGivenUpEarly
PROPERTIES CrashIsHandled SilenceIsNoticed
