CONSTANTS
  Parts = {"timers", "exti", "usart", "pacer", "cache", "clock", "files"}
  Clocks <- MCClocks
  HsiClock <- MCHsiClock
  Loads = {0, 1, 3}
  Mask = 3
  Period0 = 2
  Arrs = {0, 1, 2}
  Pscs = {0, 2}
  Cnts = {0, 2}
  MaxChunk = 7
  Firmwares <- MCFirmwares
  Lines = {0, 5, 9}
  Pins = {5}
  PortA = TRUE
  Bytes = {{0, 5}, {9}}
  Chars = {1, 2}
  MaxBytes = 3
  Files = {"hal", "port"}
  Configs = {"A", "B"}
  Second = 12
  Resolution = 3
  ChunkTime = 6
  MaxLag = 10
  Least = 1
  Most = 6
  Unpaced = 4
  Hclks = {4, 5}
  Speeds <- MCSpeeds
  Delays = {1, 2, 14}
  MaxReal = 40
  Settings <- MCSettings
  Texts = {"a", "b", ""}
  Empty = ""
  Absent = "none"
  SaveDelay = 4
  Window = 2
  Latency = 1
  MaxSaves = 2
SPECIFICATION PartsSpec
INVARIANTS PartsTypeOK TickSplits EventsExact EventsPend
INVARIANTS Reception KeepsPace NoStaleObject ClocksRight
PROPERTIES EdgesExact AckExact EditsKept
