SPECIFICATION Spec
CONSTANTS
  Node <- MCNode
  Layouts <- MCLayouts
  Routines <- MCRoutines
  Base <- MCBase
INVARIANTS
  TypeOK
  EdgesExact
  WalksEnd
  PostDominatorsKept
PROPERTIES
  SearchProgresses
