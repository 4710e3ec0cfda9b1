CONSTANTS
  ann = ann  bob = bob  NoAccount = NoAccount  NoSlot = NoSlot
  Accounts = {ann, bob}
  Keys = {bob}
  MaxSlots = 3
  MaxGen = 3
  Sessions = {}
  Commands = {"switch", "list"}
  Starts <- MCStarts
  Weathers = {{"user"}}
SPECIFICATION Spec
PROPERTIES ActiveIsLive
