SPECIFICATION Spec
CONSTANTS
  Unit = {a, b}
  Junk = junk
  MaxLength = 4
  Pieces = {1, 2}
INVARIANT OwnsItsMemory
PROPERTY FileSpec
