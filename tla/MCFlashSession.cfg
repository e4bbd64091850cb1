SPECIFICATION Spec
CONSTANTS
  Size = 4
  PageSize = 2
  FF = FF  Zero = Zero  code = code
  gfxrom = gfxrom  normal = normal
  Values = {FF, Zero, code}
  Commands <- CommandLines
  FlashImages <- ChipBefore
  FileImages <- FileBytes
  Spans = {"all", "kept", "half"}
INVARIANTS
  VerifiedIsAsked
  ChangedOnlyAsAsked
  SkippedPagesExcluded
  CleanedUpOnce

  
CHECK_DEADLOCK FALSE
