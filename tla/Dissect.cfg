SPECIFICATION FairSpec
CONSTANT Frames <- MCFrames
INVARIANTS
  WindowInFrame
  PlainRight
  HeaderBound
  AddressesRight
  CloseKept
  MirrorKeys
PROPERTY WalkEnds
