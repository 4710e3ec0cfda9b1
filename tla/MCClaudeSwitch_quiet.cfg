CONSTANTS
  alice = alice  bob = bob  NoAccount = NoAccount  NoSlot = NoSlot
  Accounts = {alice, bob}
  MaxSlots = 2
  MaxGen = 3  MaxPast = 1
  Outages = {}
  Sessions = {}
  Commands = {"switch","login","adopt","remove","refresh"}
  Faults = {}
  Start <- MCTwo
  Outside = {"lapse","expire","guess"}
SPECIFICATION Spec
INVARIANTS TypeOK SignedInAgrees OneSlotPerAccount Steady
PROPERTIES AdoptsOwnAccount
CHECK_DEADLOCK FALSE
