SPECIFICATION Spec
CONSTANTS
  None = None
  PageCount = 2
  RenderWorkers = 1
  MaxFaults = 2
INVARIANTS TypeOK LeavesNothing FallbackHasCause ModelUp NoLockCycle
PROPERTIES FailsForCause BatchEnds
