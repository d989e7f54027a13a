SPECIFICATION PeripheralsSpec
CONSTANTS
  Addrs = {a1}
  Bytes = {1, 2}
  Cap = 3
  WORD = 4
  UINT8 = 3
  Timeouts = {0, 1, 2}
  DefaultTimeout = 3
  Hz = {1, 3, 5, 8, 20}
  BeginHz = 5
  SPICLK = 20
  BRGS = 16
  Words = {1, 384, 11277}
  MaxEvents = 3
  K = 2
  U = 2
  T = 4
  WORD32 = 11
  MaxLatency = 5
  MaxWait = 2
  MaxTicks = 52
  Word = 32
  Starts = {0, 9, 23, 27}
  PulseTimeouts = {0, 7, 14}
  MaxGap = 2
  MinPulse = 5
  MaxNow = 28
  Channels = {1, 2, 3}
  OCACLK = TRUE
  Alternate = {3}
  PBCLK = 2000
  Frequencies = {0, 2, 30, 100, 150}
  DefaultHz = 100
  Duties = {40, 120}
  Values = {7, 300}
  Period = 16
INVARIANTS TypesOK DelaysHold PulseRight OutputRight
PROPERTIES TransfersExact BusDiscipline PortAsAsked AddressRight TimeKept
CHECK_DEADLOCK FALSE
