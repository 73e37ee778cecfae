CONSTANTS
  alice = alice
  bob = bob
  tr = tr
  Tasks = {1, 2}
  Agents = {alice, bob}
  Traces = {tr}
  Priorities <- TwoPriorities
  PostInputs <- SomePosts
  Calls = {c1, c2}
  Asks <- SomeAsks
  Worker = c1
  WorkerAsks <- AgentAWorks
  Unassigned = unassigned
  NoTrace = notrace
  Absent = absent
  Idle = idle
SPECIFICATION Spec
INVARIANT ClaimedByOne
