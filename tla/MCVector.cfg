SPECIFICATION Spec
\* a failed assertion ends the program
CHECK_DEADLOCK FALSE
CONSTANTS
  Vectors = {v1, v2, v3}
  Blocks = {b1, b2, b3}
  Values = {0, 1}
  NULL = NULL
  Free = Free
  MaxSize = 3
  USIZE_MAX = 4
SYMMETRY Symmetry
INVARIANTS
  TypeOK
  OneOwner
  SizeIsMemory
  OrderIsLexicographic
