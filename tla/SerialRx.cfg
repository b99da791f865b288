SPECIFICATION RxSpec
CONSTANTS
  RxCap = 5
  MinLen = 2
  MaxLen = 5
  RxLens <- LensAll
  Ring = 2
INVARIANTS NotStranded
PROPERTIES Whole HandedOver
