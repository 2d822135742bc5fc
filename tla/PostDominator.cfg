SPECIFICATION Spec
CONSTANTS
  Node <- MCNode
  Layouts <- FreshHeap
  Routines <- EarlyOut
  Base <- MCBase
INVARIANTS
  PostDominatorPostDominates
CHECK_DEADLOCK FALSE
