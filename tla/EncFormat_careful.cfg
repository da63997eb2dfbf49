SPECIFICATION Spec
CONSTANTS
  DmaAlign = 128
  Soc = "rk3399"
  Buf = {b1, b2}
  None = None
  Fourccs <- FewFourccs
  Widths <- FewWidths
  Heights <- FewHeights
  Sizes <- MCSizes
  TryWidths <- AllWidths
  TryHeights <- AllHeights
  Careful = TRUE
SYMMETRY BufSymmetry
INVARIANTS
  TypeOK
  FetchInside
  QueuedFit
  CodecValid
  WholeFrame
  LegalFormats
  LeastFrame
PROPERTY SlotSafety
