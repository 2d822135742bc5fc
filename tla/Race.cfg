SPECIFICATION MCSpec
CONSTANTS
  Thread = {t1, t2}
  REG <- MCREG
  ADDRINT <- MCADDRINT
  CODE <- MCCODE
  low32 <- MClow32
  Instructions <- CopyInstructions
  NUMBER_OF_TAINT_MARKS = 3
  INT_MAX = 2
  SourceRange = {{10}}
  SourceMark <- MCSourceMark
  KernelRange = {}
  MaxEvents = 3
INVARIANT
  StoresOwnLoads
CHECK_DEADLOCK FALSE
