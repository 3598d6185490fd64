SPECIFICATION FairSpec
CONSTANTS
  p1 = p1
  p2 = p2
  Call = {c1, c2, c3}
  Provider = {p1, p2}
  Chain <- InOrder
  Kind <- DirectThenCompatible
  SemKey = {p1, p2}
  Sem <- OwnSemaphore
  Limit <- OneSlotThenTwo
  Name = {n1}
  NameOf <- OneName
  Threshold = 3
  Deadline = TRUE
INVARIANTS SlotsAccounted OpenNeedsFailures
PROPERTIES ImplementsSlotPool SomeWaiterServed
