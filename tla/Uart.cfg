SPECIFICATION Spec
INVARIANTS
  TypeOK
  WireOrder
  CompleteMeansCopied
  ErrorsKept
PROPERTIES
  Transmits
  Receives
  CallsReturn
CONSTANTS
  FifoSize = 2
  BufSize <- MCSends
  RxMax = 3
  Programs <- MCPrograms
  Masks <- MCRxMask
  Patient = TRUE
  Dispatch = TRUE
