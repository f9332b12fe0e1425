CONSTANTS
  crop = crop
  spotting = spotting
  gemma = gemma
  app = app
  batch = batch
  prewarm = prewarm
  manual = manual
  gui = gui
  r1 = r1
  r2 = r2
  None = None
  Gemma = gemma
  App = app
  Pair <- MCOnePair
  Batch <- MCBatch
  Manual <- MCEmpty
  Closing <- MCClosing
  Request <- MCOneRequest
  MayTimeOut = TRUE
SPECIFICATION Spec
INVARIANTS
  ClosedReleases
  OneModel
  NoOrphanModel
  ResidentAccounted
