CONSTANTS
  batch = batch
  prewarm = prewarm
  ocr = ocr
  gemma = gemma
  inpainter = inpainter
  None = None
  Thread <- MCThread
  Service <- MCService
  External <- MCExternal
  Nestings <- MCNestings
  MaxGeneration = 3
SPECIFICATION Spec
SYMMETRY MCSymmetry
INVARIANTS
  TypeOK
  LeaseExclusive
  NothingHalfDone
PROPERTIES
  VacatedOnlyWhenStopped
  ImplementsLease
