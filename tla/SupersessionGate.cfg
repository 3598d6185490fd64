SPECIFICATION SupersessionSpec
CONSTANTS
  t1 = t1  t2 = t2
  Node = {t1, t2}  Born <- MCBorn  Cos <- MCCos  Holder <- MCHolder  NoHolder = NoHolder
  Anchored = {}  Linker = {1, 2}  TheCycle = TheCycle  NoNode = NoNode  MaxTasks = 2
PROPERTY GateKeepsDuplicate
CHECK_DEADLOCK FALSE
