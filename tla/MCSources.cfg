SPECIFICATION Spec
CONSTANTS
  Modulus = 16
  sizeof <- MCsizeof
  kernelSize <- MCkernelSize
  Configurations <- MCConfigurations
  Fd = {3}
  Host <- MCHost
  Marks = 4
  Memory <- MCMemory
  Buffer <- MCBuffer
  MaxLength = 2
  Command = {0, 1}
  PageSize = 2
  Name = {n1, n2}
  Arguments <- MCArguments
  MaxMarks = 4
INVARIANTS
  TypeOK
  StaleOnlyUncleared
  MarksTellOrigins
  DisplayShowsName
  UndefinedOnlyForAll
PROPERTIES
  ErasesOnlyBuffer
SYMMETRY NameSymmetry
VIEW WithoutLast
CHECK_DEADLOCK FALSE
