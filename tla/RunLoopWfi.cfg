CONSTANTS
  Size = 2
  Reload = 3
  Short = 1
  ThreadKinds = {"wfi", "cpsid", "cpsie"}
  HandlerKinds = {"nop", "wfi"}
  Quantum = 2
  Chunk = 2
  BpSites = {1}
  Ranges = {}
SPECIFICATION Spec
PROPERTIES AwakeInHandler
