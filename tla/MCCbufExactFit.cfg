SPECIFICATION Spec
CONSTANTS
  Bytes = {1, 2}
  MaxSize = 3
  WORD = 16
  ExactFit = TRUE
INVARIANT NoDataLost
