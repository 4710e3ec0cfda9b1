CONSTANTS
  alice = alice  bob = bob  NoAccount = NoAccount  NoSlot = NoSlot
  Accounts = {alice, bob}
  MaxSlots = 2
  MaxGen = 2  MaxPast = 1
  Outages = {"unreachable","lost","invalid"}
  Sessions = {}
  Commands = {"switch","remove","label","limit","refresh","clean"}
  Faults = {"read","store","live","config","save","delete","crash"}
  Start <- MCTwo
  Outside = {}
SPECIFICATION Spec
INVARIANTS IInv
CHECK_DEADLOCK FALSE
