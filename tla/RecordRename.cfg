SPECIFICATION LongSpec
CONSTANTS
  MaxRecords = 3
  Capacity = 26
  Fudge = 2
  Fixed = 2
  Word = 4
  Field = {"f", "g"}
  Name <- MCName
  NameLen <- MCNameLen
INVARIANT ReadsBack
