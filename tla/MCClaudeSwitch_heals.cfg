CONSTANTS
  alice = alice  bob = bob  NoAccount = NoAccount  NoSlot = NoSlot
  Accounts = {alice, bob}
  MaxSlots = 2
  MaxGen = 2  MaxPast = 1
  Outages = {"unreachable"}
  Sessions = {s1}
  Commands = {"switch","login","adopt","refresh"}
  Faults = {"crash"}
  Start <- MCTwo
  Outside = {"open","renew","signin"}
SPECIFICATION FairSpec
PROPERTIES MarkerHeals
CHECK_DEADLOCK FALSE
