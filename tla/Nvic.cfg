CONSTANTS
  Irqs <- MCIrqs
  SysPend <- MCSysPend
  Faults <- MCFaults
  Tuned <- MCTuned
  Levels <- MCLevels
  Groupings <- MCGroupings
  Basepris <- MCBasepris
  NoVector = {}
SPECIFICATION Spec
INVARIANTS TypeOK PendingFlagExact IpsrAgrees NestingStrict NoPriorityInversion
PROPERTIES MasksRespected
