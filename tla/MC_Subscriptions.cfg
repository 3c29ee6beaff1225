SPECIFICATION FairSpec
CONSTANTS
  dir = dir
  file = file
  URIs <- Tree
  Children <- InTree
  Kinds = {"added", "removed", "updated"}
  Capacity = 1
  MaxChanges = 2
INVARIANTS TypeOK ToldOnceInOrder
PROPERTIES SilentAfterStop QueuedIsTold StopReturns
CHECK_DEADLOCK FALSE
