SPECIFICATION MoveEmptySpec
CONSTANTS
  MaxFS = 2
  Names = {"a", "b", "c"}
  Content = {0, 1, 2}
  Sent = {1}
  MaxHandle = 7
  MaxDepth = 2
  MaxChanges = 2
  Disks <- MCDisks
PROPERTY MovedUnlessUnread
