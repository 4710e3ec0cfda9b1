CONSTANTS
  alice = alice  bob = bob  NoAccount = NoAccount  NoSlot = NoSlot
  Accounts = {alice, bob}
  MaxSlots = 2
  MaxGen = 3  MaxPast = 2
  Outages = {}
  Sessions = {s1}
  Commands = {"refresh","list"}
  Faults = {}
  Start <- MCTwo
  Outside = {"open","renew","omit","lapse","expire","end"}
SPECIFICATION Spec
INVARIANTS RevokedIsDead Traced
CHECK_DEADLOCK FALSE
