SPECIFICATION Spec
INVARIANTS
  CompleteMeansSent
CONSTANTS
  FifoSize = 2
  BufSize <- MCOneSend
  RxMax = 0
  Programs <- MCStarting
  Masks <- MCNoMask
  Patient = TRUE
  Dispatch = TRUE
