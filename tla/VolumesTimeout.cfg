SPECIFICATION Spec
CONSTANTS
  MaxFS = 3
  Drives <- MCDrives
  Cards = {sd}
  Others = {ram}
  NoFS = NoFS
  MinorMod = 3
  MaxChanges = 3
  MayTimeOut = TRUE
  msc1 = msc1
INVARIANT UntoldNotEnumerated
