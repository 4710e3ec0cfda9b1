CONSTANTS
  alice = alice  bob = bob  NoAccount = NoAccount  NoSlot = NoSlot
  Accounts = {alice, bob}
  MaxSlots = 2
  MaxGen = 3  MaxPast = 1
  Outages = {}
  Sessions = {s1}
  Commands = {"switch","refresh","list","clean"}
  Faults = {}
  Start <- MCTwo
  Outside = {"open","renew","lapse","expire"}
SPECIFICATION Spec
INVARIANTS SlotOwnership Traced
PROPERTIES LosesNoAccount FoldsBackNewer CleansOnlyDead
CHECK_DEADLOCK FALSE
