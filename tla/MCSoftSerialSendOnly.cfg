SPECIFICATION SlotsSpec
CONSTANTS
  Objects = {o1, o2, o3}
  SOFTWARE_SERIAL_MAX = 2
  NoObject = NoObject
  SendOnly = TRUE
INVARIANT SendersHarmless
