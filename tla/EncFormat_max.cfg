SPECIFICATION Spec
CONSTANTS
  DmaAlign = 128
  Soc = "rk3399"
  Buf = {b1}
  None = None
  Fourccs <- FewFourccs
  Widths <- MaxWidths
  Heights <- MaxHeights
  Sizes <- NoSizes
  TryWidths = {}
  TryHeights = {}
  Careful = TRUE
INVARIANT WholeFrame
