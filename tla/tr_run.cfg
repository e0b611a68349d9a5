CONSTANTS
  Servers = {s1}
  MaxTickets = 1
  MinRemaining = 1
  Lifetimes = {1}
  MaxTime = 1
  MaxIssued = 2
  Movers = {a, b, mon}
  Monitor = mon
  Interfaces <- MCInterfaces
  Settings <- MCSettings
  MaxChanges = 2
  Confs <- MCConfs
  Threads = {a, b}
  MaxCalls = 3
  MaxMessages = 2
SPECIFICATION Spec
INVARIANTS RejectedGivenUp DeliveredInOrder
CHECK_DEADLOCK FALSE
PROPERTY TransportCallsReturn
