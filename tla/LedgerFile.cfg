SPECIFICATION Spec
CONSTANTS
  Saver = {accountant, handler}
  NoFile = NoFile
  Empty = Empty
  Torn = Torn
  MaxVersion = 3
INVARIANT
  LedgerFileIsWhole
