\* Two requests of one agent, two people deciding at the same time, a cap of
\* one pending request per agent and a history of two records.
SPECIFICATION Spec
CONSTANTS
  a1 = a1
  Requests = {r1, r2}
  Agents = {a1}
  AgentOf <- MCAgentOf
  Resolvers = {h1, h2}
  MaxPending = 1
  MaxRecent = 2
  Idle = idle
INVARIANTS TypeOK NotListedOnceDecided RecordedBeforeActed CapUnlessRaced
PROPERTIES GateSpec RequestsReturn
\* The system is at rest once every request has returned.
CHECK_DEADLOCK FALSE
