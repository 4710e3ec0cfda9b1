CONSTANTS
  alice = alice  bob = bob  NoAccount = NoAccount  NoSlot = NoSlot
  Accounts = {alice, bob}
  MaxSlots = 2
  MaxGen = 2  MaxPast = 1
  Outages = {}
  Sessions = {s1}
  Commands = {"switch","list"}
  Faults = {}
  Start <- MCTwo
  Outside = {"open","renew","lapse"}
SPECIFICATION Spec
PROPERTIES ConfirmsOwner
CHECK_DEADLOCK FALSE
