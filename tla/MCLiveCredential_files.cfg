CONSTANTS
  Creds = {c1, c2}
  Owners = {ann, bob}
  Rest = {"projects"}
  Values = {v1, v2}
  None = None  Malformed = Malformed  Torn = Torn
SPECIFICATION Spec
INVARIANTS TypeOK NeverTorn IInv
PROPERTIES OriginalKept OnlyInstalls KeepsTheRest
