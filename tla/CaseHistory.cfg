SPECIFICATION MCSpec
CONSTANTS
  v1 = v1 e1 = e1 f1 = f1
  Event = {v1, e1, f1}
  EventKind <- MCEventKind
  Author <- MCAuthor
  Anyone = Anyone
  MaxClock = 1
  Story = {}
  Reader = Anyone
  NoStory = NoStory
INVARIANT ResolvedErrorsClosed
CHECK_DEADLOCK FALSE
