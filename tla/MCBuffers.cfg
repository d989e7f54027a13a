SPECIFICATION BuffersSpec
CONSTANTS
  Bytes = {1, 2}
  MaxSize = 4
  WORD = 16
  ExactFit = FALSE
  Chars = {"a", "b"}
  NoChar = "none"
  Terminators = {"a", "none"}
  Lengths = {0, 2}
  Unlimited = 9
  MaxArrivals = 7
  Targets <- MCTargets
  Others = {"-", ".", " ", "x"}
  Pause = "pause"
  Ignores = {"x", "-", ".", "1", "none"}
  NoIgnore = "none"
  MaxInput = 4
  Modes = {"SKIP_ALL", "SKIP_NONE", "SKIP_WHITESPACE"}
  Objects = {o1, o2, o3}
  SOFTWARE_SERIAL_MAX = 2
  NoObject = NoObject
  SendOnly = FALSE
  m_bitTime = 18
  BITS = 3
  MinLatency = 5
  MaxLatency = 9
  MaxOver = 1
  MaxSlow = 1
  MaxFrames = 2
  m_buffSize = 3
  MaxBytes = 6
  Strings = {s, t}
  NULL = NULL
  Literals <- MCLiterals
  Space = "_"
  MaxLen = 4
  GrowAny = FALSE
INVARIANTS TypesOK ParsedExactly SlotsRight Received StringRight
PROPERTIES CbufExact TextExact RingRight
CHECK_DEADLOCK FALSE
SYMMETRY MCSymmetry
