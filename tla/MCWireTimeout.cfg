SPECIFICATION Spec
CONSTANTS
  Addrs = {a1}
  Bytes = {1}
  Cap = 2
  WORD = 4
  UINT8 = 256
  Timeouts = {1, 3}
  DefaultTimeout = 3
INVARIANT NoFalseTimeout
CHECK_DEADLOCK FALSE
