SPECIFICATION OrphanSpec
CONSTANTS
  NSlots = 2
  PerBlock = 2
  MaxFS = 1
  CycleMod = 3
  MaxBlock = 2
  NoBlock = 9
  Rec <- MCRec
  RootRec <- MCRootRec
  NewRoot = "root"
  Zero = "zero"
  OldRec = "old"
  Size <- MCSize
  Fudge = 1
  Capacity = 3
  Appended = {"a", "L"}
  Written = {"w"}
PROPERTY StoreSpec
