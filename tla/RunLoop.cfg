CONSTANTS
  Size = 2
  Reload = 3
  Short = 1
  ThreadKinds = {"wfi", "cpsid", "cpsie", "arm", "pend"}
  HandlerKinds = {"nop", "wfi"}
  Quantum = 4
  Chunk = 3
  BpSites = {1}
  Ranges <- MCRanges
SPECIFICATION FairSpec
INVARIANTS TypeOK NeverSpins
PROPERTIES Implements IrqTaken HandlerReturns
