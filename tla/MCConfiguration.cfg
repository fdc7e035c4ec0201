SPECIFICATION Spec
CONSTANTS
  Clients = {c1}
  Owners = {o1}
  Values = {a, b}
  MaxRevision = 3
  MaxEdits = 1
  MaxCrashes = 1
INVARIANTS IInv UpgradeExcludesConsumers ReceiptIsTrue StatusIsTrue
PROPERTIES NothingLost UnseenNotReplaced
