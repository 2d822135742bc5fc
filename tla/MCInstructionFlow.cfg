SPECIFICATION MCSpec
CONSTANTS
  Thread = {main}
  REG <- MCREG
  ADDRINT <- MCADDRINT
  CODE <- MCCODE
  low32 <- MClow32
  Instructions <- Conforming
  NUMBER_OF_TAINT_MARKS = 17
  INT_MAX = 100
  SourceRange = {}
  SourceMark = {}
  KernelRange = {}
INVARIANTS
  StoresOwnLoads
PROPERTY
  ImplementsTaintFlow
CHECK_DEADLOCK FALSE
