SPECIFICATION Spec
CONSTANTS
  Clients = {c1}
  MaxEvents = 3
  MaxRotations = 1
  Capacity = 1
INVARIANTS TailSafe
