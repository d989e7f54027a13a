SPECIFICATION ParseSpec
CONSTANTS
  Others = {"-", ".", " "}
  Pause = "pause"
  Ignores = {"none"}
  NoIgnore = "none"
  MaxInput = 3
  Modes = {"SKIP_ALL"}
INVARIANT FirstValidInteger
CHECK_DEADLOCK FALSE
