SPECIFICATION WindowFairSpec
CONSTANTS
  MSS = 2
  InitWindow = 4
  WindowSizes = {1, 4}
  MaxWindow = 4
  DoneMod = 5
  WriteSizes = {1, 4}
  ReadSizes = {2}
  MaxBytes = 5
INVARIANT
  BytesConserved
  ReceiverHoldsAtMostAWindow
PROPERTY
  SentIsRead
CHECK_DEADLOCK FALSE
