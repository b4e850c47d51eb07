CONSTANTS
  Tasks = {1, 2}
  Depth = 2
  StackSize = 100
  Fpdscrs <- MCFpdscrs
SPECIFICATION Spec
INVARIANTS TypeOK OnOwnStack
PROPERTIES Implements PrivilegeKept FpscrDefault
