SPECIFICATION Spec
CONSTANTS
  t1 = t1 t2 = t2 A = A B = B C = C
  Thread = {t1, t2}
  Fd = {3, 4}
  Path = {A, B, C}
  Calls <- MCCalls
  Buffer <- MCBuffer
  MaxRead = 2
  Sources <- MCSources
  Ranges <- MCRanges
  Marks = 2
  MaxCount = 2
VIEW LiveState
INVARIANTS
  TypeOK
  EntryFollowsKernel
  LostOnlyByReuse
PROPERTY BufferMarked
CHECK_DEADLOCK FALSE
