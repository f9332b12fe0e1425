CONSTANTS
  batch = batch
  prewarm = prewarm
  ocr = ocr
  gemma = gemma
  inpainter = inpainter
  None = None
  Thread <- MCThread
  Service <- MCService
  External <- MCExternal
  Nestings <- NestingKinds
  MaxGeneration = 3
SPECIFICATION Spec
INVARIANTS
  OneModelPublished
