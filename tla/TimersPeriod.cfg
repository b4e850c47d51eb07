CONSTANTS
  Clocks <- MCClocks
  HsiClock <- MCHsiClock
  Loads = {0, 1, 3}
  Mask = 3
  Period0 = 2
  Arrs = {0, 1, 2}
  Pscs = {0, 2}
  Cnts = {0, 2}
  MaxChunk = 7
  Firmwares <- MCFirmwares
SPECIFICATION Spec
PROPERTIES SysTickPeriod
