SPECIFICATION Spec
CONSTANTS
  DmaAlign = 64
  Soc = "rk3288"
  Buf = {b1}
  None = None
  Fourccs <- FewFourccs
  Widths <- FewWidths
  Heights <- FewHeights
  Sizes <- MCSizes
  TryWidths = {}
  TryHeights = {}
  Careful = FALSE
INVARIANT QueuedFit
