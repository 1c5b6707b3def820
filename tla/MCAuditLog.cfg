\* Both calls open the log.  The run stops when MaxEvents have been written.
SPECIFICATION Spec
INVARIANT NothingDropped
PROPERTY EventuallyWritten
PROPERTY EventuallyAnswered
CHECK_DEADLOCK FALSE
CONSTANTS
  None = None
  h1 = h1
  h2 = h2
  Handlers <- TwoHandlers
  Capacity = 2
  Opened = 2
  MaxEvents = 2
