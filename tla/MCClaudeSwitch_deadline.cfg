CONSTANTS
  alice = alice  bob = bob  NoAccount = NoAccount  NoSlot = NoSlot
  Accounts = {alice, bob}
  MaxSlots = 2
  MaxGen = 2  MaxPast = 1
  Outages = {}
  Sessions = {s1}
  Commands = {"list","clean"}
  Faults = {}
  Start <- MCTwo
  Outside = {"open","renew","omit","lapse","expire"}
SPECIFICATION Spec

PROPERTIES CleansOnlyUnrecoverable
CHECK_DEADLOCK FALSE
