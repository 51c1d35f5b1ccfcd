SPECIFICATION Spec
CONSTANTS
  MaxFS = 3
  Drives <- MCDrives
  Cards = {sd}
  Others = {ram}
  NoFS = NoFS
  MinorMod = 3
  MaxChanges = 3
  MayTimeOut = FALSE
  msc1 = msc1
INVARIANTS TypeOK MapAgrees IdMeansOneDisk HostKnows
PROPERTY HostLearns
