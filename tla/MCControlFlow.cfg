SPECIFICATION Spec
CONSTANTS
  Block <- MCBlock
  Entry <- MCEntry
  Succ <- MCSucc
  Branch <- MCBranch
  Ipdom <- MCIpdom
  Special = {1, 2, 4, 5}
  Mark = {m1, m2}
  MaxDepth = 2
  Recursion = FALSE
INVARIANTS
  TypeOK
  ActiveMarksKept
  StaleOnlyIfShared
CHECK_DEADLOCK FALSE
