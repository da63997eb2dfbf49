SPECIFICATION JobSpec
CONSTANTS
  DmaAlign = 64
  Soc = "rk3288"
  Buf = {b1}
  None = None
  Fourccs <- JobFourccs
  Widths <- JobWidths
  Heights <- JobHeights
  Sizes <- JobSizes
  TryWidths = {}
  TryHeights = {}
  Careful = FALSE
  NumCoef = 2
  TableBound = 1
  SeqWidth = 2
INVARIANTS
  CodecFresh
  OwnTables
  SameNumber
PROPERTY StableJob
