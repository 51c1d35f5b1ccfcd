SPECIFICATION MCSpec
CONSTANTS
  NSlots = 2
  PerBlock = 2
  MaxFS = 1
  CycleMod = 3
  MaxBlock = 3
  NoBlock = 9
  Rec <- MCRec
  RootRec <- MCRootRec
  NewRoot = "root"
  Zero = "zero"
  OldRec = "old"
  Size <- MCSize
  Fudge = 1
  Capacity = 3
  Appended = {"a", "L"}
  Written = {"a"}
INVARIANTS TypeOK OneCopy UnusedLast CleanIsSpilled UnwrittenIsCached CountsAgree VictimExists
PROPERTY StoreSpec
VIEW MCView
