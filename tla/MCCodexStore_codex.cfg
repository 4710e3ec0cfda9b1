CONSTANTS
  short = short  long = long  huge = huge  None = None
  Docs = {short, long, huge}
  Count <- MCCount
  MaxChunks = 3
  Weathers = {{"read","delete","crash"}, {"write","delete","crash"}}
SPECIFICATION Spec
INVARIANTS NoLeftovers StoreInv
PROPERTIES Implements
