SPECIFICATION MCSpec
CONSTANTS
  Thread = {t1, t2}
  REG <- MCREG
  ADDRINT <- MCADDRINT
  CODE <- MCCODE
  low32 <- MClow32
  Instructions <- MCInstructions
  NUMBER_OF_TAINT_MARKS = 3
  INT_MAX = 2
  SourceRange = {{10}}
  SourceMark <- MCSourceMark
  KernelRange = {{10, 11}}
  MaxEvents = 7
INVARIANTS
  TypeOK
  NoMarkFromNowhere
PROPERTY
  StoresAbsorbControl
CHECK_DEADLOCK FALSE
SYMMETRY Symmetry
