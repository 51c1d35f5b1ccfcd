SPECIFICATION Spec
CONSTANTS
  MaxLines = 4
  MaxCommands = 4
  MaxFound = 2
INVARIANTS Accounted StoppedIsSaved HostSeesLog SelectionAgrees
