SPECIFICATION Spec
PROPERTIES
  Ends
  Boots
INVARIANTS
  CopyInv
  JumpOnlyLoaded
  StreamClosed
  BlockChecked
CONSTANTS
  Cmd0Tries = 4
  ImageBlocks = 40
  TableLba = 2
  BootLba = 40
  StrayLbas = {0, 7}
  BlockLen = 3
  Data <- MCData
  Errors <- MCErrors
