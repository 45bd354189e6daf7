CONSTANTS
  Devices = {d1, d2}
  Consumers = {c1, c2}
  Managers = {m1}
  low = low
  high = high
  Plans = {low, high}
  Free = free
  Included <- TierMessages
  IncludedDevices <- TierDevices
  PoolPerDevice = 1
  Batches = {1}
  Faults = {"post", "resolve", "floor", "killed"}
  SlotsPerDay = 3
  Cadence = 2
  PeriodSlots = 4
  Periods = 2
  MaxTime = 4
  MaxMessages = 2
  MaxChanges = 1
SYMMETRY Interchangeable
SPECIFICATION Spec
INVARIANTS MeterTypeOK NeverOverbilled DevicesBilledOnce CountedIsConnected WarnedOnce
CHECK_DEADLOCK FALSE
