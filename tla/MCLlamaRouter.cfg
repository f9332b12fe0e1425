CONSTANTS
  crop = crop
  spotting = spotting
  gemma = gemma
  app = app
  batch = batch
  prewarm = prewarm
  manual = manual
  gui = gui
  r1 = r1
  r2 = r2
  None = None
  Gemma = gemma
  App = app
  Pair <- MCPairs
  Batch <- MCBatchWorker
  Manual <- MCManual
  Closing <- MCEmpty
  Request <- MCTwoRequests
  MayTimeOut = TRUE
SPECIFICATION Spec
SYMMETRY MCRequestSymmetry
INVARIANTS
  TypeOK
  AcceptImpliesResident
  OneModel
  NoOrphanModel
  Recoverable
  ResidentAccounted
PROPERTIES
  DrainProtects
