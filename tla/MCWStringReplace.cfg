SPECIFICATION StringSpec
CONSTANTS
  Strings = {s, t}
  NULL = NULL
  Literals <- MCLiterals
  Space = "_"
  MaxLen = 4
  GrowAny = TRUE
INVARIANT SizeSuffices
