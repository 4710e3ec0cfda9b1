CONSTANTS
  ann = ann  bob = bob  NoAccount = NoAccount  NoSlot = NoSlot
  Accounts = {ann, bob}
  Keys = {bob}
  MaxSlots = 3
  MaxGen = 3
  Sessions = {s1}
  Commands = {"adopt","login","list","switch","remove","label","refresh","limit","clean"}
  Starts <- MCStarts
  Weathers <- MCWeathers
SPECIFICATION FairSpec
INVARIANTS TypeOK SlotsHoldTheirAccount OneSlotPerAccount IInv Lineage SkippingIsSafe
PROPERTIES SyncKeepsWorking LosesNoAccount LoginPreserves SparesTheLiving CommandsEnd
