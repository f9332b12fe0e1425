CONSTANTS
  crop = crop
  spotting = spotting
  gemma = gemma
  app = app
  batch = batch
  prewarm = prewarm
  manual = manual
  gui = gui
  r1 = r1
  r2 = r2
  None = None
  Gemma = gemma
  App = app
  Pair <- MCPairs
  Batch <- MCBatch
  Manual <- MCManual
  Closing <- MCEmpty
  Request <- MCEmpty
  MayTimeOut = FALSE
SPECIFICATION Spec
SYMMETRY MCSymmetry
INVARIANTS
  OneLease
