--------------------------- MODULE CarefulProofs ----------------------------
(***************************************************************************)
(* What holds of EncFormat for a careful user: LegalFormats, LeastFrame,   *)
(* CodecValid, QueuedFit, FetchInside and, below a size, WholeFrame.       *)
(* CarefulInv says that the raw format is legal and the coded one JPEG,    *)
(* FitInv that every buffer that was accepted fits the format in force,    *)
(* RegInv that a job has programmed what the formats say.                  *)
(***************************************************************************)
EXTENDS EncFormatProofs

\* On CAPTURE a careful user gets the JPEG format.
LEMMA JpegChosen ==
  ASSUME NEW fourcc, fourcc \in EnumFmt(TRUE) \/ ~Known(fourcc)
  PROVE  FindOrDefault(fourcc, TRUE) = JpegFmt
<1>1. DOMAIN EncFmts = 1 .. 5
  BY DEF EncFmts
<1>2. CASE fourcc \in EnumFmt(TRUE)
  <2>1. fourcc = EncFmts[5].fourcc /\ 5 \in DOMAIN EncFmts
    BY <1>1, <1>2, CodedTable DEF EnumFmt
  <2> QED BY <2>1, FindOf, Zenon DEF FindOrDefault, Known, JpegFmt
<1>3. CASE ~Known(fourcc)
  BY <1>3, Defaults, Zenon DEF FindOrDefault, JpegFmt
<1> QED BY <1>2, <1>3

\* The entry of the JPEG format.
LEMMA FindJpeg == FindFormat(JpegFmt.fourcc) = JpegFmt
<1>1. 5 \in DOMAIN EncFmts
  BY DEF EncFmts
<1> QED BY <1>1, FindOf, Zenon DEF JpegFmt

\* The entries of the raw formats.
LEMMA FindRaw == \A i \in 1 .. 4 : FindFormat(EncFmts[i].fourcc) = EncFmts[i]
<1>1. \A i \in 1 .. 4 : i \in DOMAIN EncFmts
  BY DEF EncFmts
<1> QED BY <1>1, FindOf, Zenon

\* The raw format f with its table entry fmt is legal for JPEG.
LegalRaw(f, fmt) ==
  /\ \E i \in 1 .. 4 : f.fourcc = EncFmts[i].fourcc /\ fmt = EncFmts[i]
  /\ f.width \in WidthRange /\ MultipleOf(f.width, 16)
  /\ f.height \in HeightRange /\ MultipleOf(f.height, 16)
  /\ f.sizeimage = PlaneSizes(fmt, f.width, f.height)
  /\ Aligned(f.sizeimage)

\* The formats with a careful user.
CarefulInv ==
  /\ LegalRaw(srcFmt, vpuSrc)
  /\ vpuDst = JpegFmt
  /\ dstFmt.fourcc = JpegFmt.fourcc

\* The raw format the driver resets to is legal, though no TRY_FMT has seen
\* it: 96 by 32 satisfies both alignments.
LEMMA ResetLegal ==
  LegalRaw(ResetSrc(JpegFmt), DefaultFmt(FALSE))
<1> DEFINE fmt == DefaultFmt(FALSE)
           w   == ClampW(0, JpegFmt)
           h   == ClampH(0, JpegFmt)
<1>1. w = 96 /\ h = 32
  BY JpegLimits DEF ClampW, ClampH, Clamp
<1>2. /\ w \in WidthRange /\ MultipleOf(w, 16) /\ w \in Nat
      /\ h \in HeightRange /\ MultipleOf(h, 16) /\ h \in Nat
  BY <1>1, SMT DEF WidthRange, HeightRange, MultipleOf
<1>3. MultipleOf(h, DmaAlign \div 4)
  <2>1. CASE DmaAlign = 64
    BY <1>1, <2>1, SMT DEF MultipleOf
  <2>2. CASE DmaAlign = 128
    BY <1>1, <2>2, SMT DEF MultipleOf
  <2> QED BY <2>1, <2>2, DmaAlignAssumption, Zenon
<1>4. fmt = EncFmts[1] /\ 1 \in 1 .. 4
  <2>1. 1 \in 1 .. 4
    OBVIOUS
  <2> QED BY <2>1, Defaults, Zenon
<1>5. fmt \in RawFmts
  BY <1>4, Zenon DEF RawFmts
<1> HIDE DEF fmt, w, h
<1>6. Aligned(PlaneSizes(fmt, w, h))
  BY <1>2, <1>3, <1>5, PlanesAligned, Zenon
<1> DEFINE f == PixFmt(fmt, w, h, PlaneSizes(fmt, w, h))
<1>7. /\ f.fourcc = fmt.fourcc /\ f.width = w /\ f.height = h
      /\ f.sizeimage = PlaneSizes(fmt, w, h)
  BY DEF PixFmt
<1> HIDE DEF f
<1>8. LegalRaw(f, fmt)
  BY <1>2, <1>4, <1>6, <1>7, Zenon DEF LegalRaw
<1> QED BY <1>8, Zenon DEF f, fmt, w, h, ResetSrc

\* What TRY_FMT returns is legal (TryFmtLegal), its planes those of the entry
\* the context will point to.
LEMMA TryLegal ==
  ASSUME NEW fourcc, fourcc \in EnumFmt(FALSE) \/ ~Known(fourcc),
         NEW w \in Nat, NEW h \in Nat
  PROVE  LET f == TryFmtOut(fourcc, w, h, JpegFmt)
         IN LegalRaw(f, FindFormat(f.fourcc))
<1> DEFINE f == TryFmtOut(fourcc, w, h, JpegFmt)
<1>1. PICK i \in 1 .. 4 : f.fourcc = EncFmts[i].fourcc
  BY TryFmtLegal, Zenon
<1>2. FindFormat(f.fourcc) = EncFmts[i]
  BY <1>1, FindRaw, Zenon
<1>3. /\ f.width \in WidthRange /\ MultipleOf(f.width, 16)
      /\ f.height \in HeightRange /\ MultipleOf(f.height, 16)
      /\ Aligned(f.sizeimage)
  BY TryFmtLegal, Zenon DEF MultipleOf, MbDim
<1>4. f.sizeimage = PlaneSizes(FindFormat(f.fourcc), f.width, f.height)
  <2>1. PICK j \in 1 .. 4 : FindOrDefault(fourcc, FALSE) = EncFmts[j]
    BY RawChosen, Zenon
  <2>2. \E x, y, z : f = PixFmt(EncFmts[j], x, y, PlaneSizes(EncFmts[j], x, y))
    <3>1. \A x, y : \E z :
            AlignHeight(EncFmts[j], x, y) =
              PixFmt(EncFmts[j], x, z, PlaneSizes(EncFmts[j], x, z))
      BY Zenon DEF AlignHeight
    <3> QED BY <2>1, <3>1, Zenon DEF TryFmtOut
  <2>3. PICK x, y : f = PixFmt(EncFmts[j], x, y, PlaneSizes(EncFmts[j], x, y))
    BY <2>2, Zenon
  <2> HIDE DEF f
  <2>4. /\ f.width = x /\ f.height = y /\ f.fourcc = EncFmts[j].fourcc
        /\ f.sizeimage = PlaneSizes(EncFmts[j], x, y)
    BY <2>3 DEF PixFmt
  <2>5. FindFormat(f.fourcc) = EncFmts[j]
    BY <2>4, FindRaw, Zenon
  <2> QED BY <2>4, <2>5, Zenon
<1> HIDE DEF f
<1> QED BY <1>1, <1>2, <1>3, <1>4, Zenon DEF LegalRaw, f

\* CarefulInv holds in a file just opened.
LEMMA CarefulInit == Init => CarefulInv
<1> SUFFICES ASSUME Init PROVE CarefulInv
  OBVIOUS
<1>1. /\ srcFmt = ResetSrc(JpegFmt) /\ vpuSrc = DefaultFmt(FALSE)
      /\ vpuDst = JpegFmt /\ dstFmt = ResetDst
  BY Defaults, Zenon DEF Init, JpegFmt
<1>2. dstFmt.fourcc = JpegFmt.fourcc
  BY <1>1, Defaults, Zenon DEF ResetDst, PixFmt, JpegFmt
<1> QED BY <1>1, <1>2, ResetLegal, Zenon DEF CarefulInv

\* Every step keeps CarefulInv: only S_FMT changes a format.
LEMMA CarefulNext == Careful /\ CarefulInv /\ [Next]_vars => CarefulInv'
<1> SUFFICES ASSUME Careful, CarefulInv, [Next]_vars PROVE CarefulInv'
  OBVIOUS
<1>1. ASSUME NEW f \in Fourccs, NEW w \in Widths, NEW h \in Heights,
             SFmtOut(f, w, h)
      PROVE  CarefulInv'
  <2>1. f \in EnumFmt(FALSE) \/ ~Known(f)
    BY <1>1 DEF SFmtOut, UserAsks
  <2>2. w \in Nat /\ h \in Nat
    BY SizeAssumption
  <2>3. /\ srcFmt' = TryFmtOut(f, w, h, JpegFmt)
        /\ vpuSrc' = FindFormat(srcFmt'.fourcc)
        /\ UNCHANGED <<dstFmt, vpuDst>>
    BY <1>1, Zenon DEF SFmtOut, CarefulInv
  <2>4. LegalRaw(srcFmt, vpuSrc)'
    BY <2>1, <2>2, <2>3, TryLegal, Zenon
  <2> QED BY <2>3, <2>4, Zenon DEF CarefulInv
<1>2. ASSUME NEW f \in Fourccs, NEW w \in Widths, NEW h \in Heights,
             SFmtCap(f, w, h)
      PROVE  CarefulInv'
  <2>1. f \in EnumFmt(TRUE) \/ ~Known(f)
    BY <1>2 DEF SFmtCap, UserAsks
  <2>2. FindOrDefault(f, TRUE) = JpegFmt
    BY <2>1, JpegChosen, Zenon
  <2>3. TryFmtCap(f, w, h).fourcc = JpegFmt.fourcc
    BY <2>2 DEF TryFmtCap, PixFmt
  <2>4. /\ dstFmt' = TryFmtCap(f, w, h)
        /\ vpuDst' = FindFormat(dstFmt'.fourcc)
        /\ srcFmt' = ResetSrc(vpuDst')
        /\ vpuSrc' = DefaultFmt(FALSE)
    BY <1>2, Zenon DEF SFmtCap
  <2>5. vpuDst' = JpegFmt
    BY <2>3, <2>4, FindJpeg, Zenon
  <2> QED BY <2>3, <2>4, <2>5, ResetLegal, Zenon DEF CarefulInv
<1>3. CASE UNCHANGED fmtVars
  BY <1>3, Zenon DEF fmtVars, CarefulInv
<1>4. ASSUME NEW d \in Dirs,
             \/ \E B \in SUBSET Buf : ReqBufs(d, B)
             \/ \E b \in Buf : PrepareBuf(d, b) \/ QBuf(d, b)
             \/ \E b \in Buf, s \in Sizes : CreateBuf(d, b, s)
             \/ StreamOn(d)
             \/ StreamOff(d)
      PROVE  CarefulInv'
  BY <1>3, <1>4, Zenon DEF ReqBufs, PrepareBuf, QBuf, CreateBuf, StreamOn,
                           StreamOff
<1>5. CASE RunStart \/ RunKick \/ JobEnd
  BY <1>3, <1>5, Zenon DEF RunStart, RunKick, JobEnd
<1>6. CASE UNCHANGED vars
  BY <1>3, <1>6, Zenon DEF vars
<1> QED BY <1>1, <1>2, <1>4, <1>5, <1>6, Zenon DEF Next

\* With a careful user the formats are always those of a JPEG job.
THEOREM CarefulCorrect == ASSUME Careful PROVE Spec => []CarefulInv
BY CarefulInit, CarefulNext, PTL DEF Spec

\* With a careful user the formats in force are legal: within the limits, in
\* whole macroblocks, every plane a multiple of the DMA alignment.
THEOREM LegalCorrect == ASSUME Careful PROVE Spec => []LegalFormats
<1>1. CarefulInv => LegalFormats
  <2> SUFFICES ASSUME CarefulInv PROVE LegalFormats
    OBVIOUS
  <2>1. /\ vpuSrc = FindFormat(srcFmt.fourcc)
        /\ vpuDst = FindFormat(dstFmt.fourcc)
    BY FindRaw, FindJpeg, Zenon DEF CarefulInv, LegalRaw
  <2>2. /\ srcFmt.width % MbDim = 0 /\ srcFmt.height % MbDim = 0
        /\ Aligned(srcFmt.sizeimage)
    BY Zenon DEF CarefulInv, LegalRaw, MultipleOf, MbDim
  <2>3. vpuDst = JpegFmt /\ srcFmt.width \in WidthRange
        /\ srcFmt.height \in HeightRange
    BY Zenon DEF CarefulInv, LegalRaw
  <2>4. /\ srcFmt.width \in vpuDst.frmsize.minW .. vpuDst.frmsize.maxW
        /\ srcFmt.height \in vpuDst.frmsize.minH .. vpuDst.frmsize.maxH
    <3>1. JpegFmt.frmsize.minW = 96 /\ JpegFmt.frmsize.maxW = 8192
          /\ JpegFmt.frmsize.minH = 32 /\ JpegFmt.frmsize.maxH = 8192
      BY JpegLimits
    <3>2. /\ JpegFmt.frmsize.minW .. JpegFmt.frmsize.maxW = WidthRange
          /\ JpegFmt.frmsize.minH .. JpegFmt.frmsize.maxH = HeightRange
      BY <3>1 DEF WidthRange, HeightRange
    <3> QED BY <2>3, <3>2, Zenon
  <2> QED BY <2>1, <2>2, <2>4, Zenon DEF LegalFormats
<1> QED BY <1>1, CarefulCorrect, PTL

\* Whatever formats a careful user has set before, TRY_FMT on OUTPUT finds the
\* narrowest, and of that width the lowest, legal frame for every raw format
\* and every size at all (an unknown format counts as the default one), with
\* buffers or without.
THEOREM LeastCorrect ==
  ASSUME Careful
  PROVE  Spec => [](/\ LeastFrame
                    /\ \A fourcc : fourcc \in EnumFmt(FALSE) \/ ~Known(fourcc)
                         => \A w, h \in Nat : Least(fourcc, w, h, vpuDst))
<1> DEFINE All == \A fourcc : fourcc \in EnumFmt(FALSE) \/ ~Known(fourcc)
                    => \A w, h \in Nat : Least(fourcc, w, h, vpuDst)
<1>1. CarefulInv => All
  <2> SUFFICES ASSUME vpuDst = JpegFmt, NEW fourcc,
                      fourcc \in EnumFmt(FALSE) \/ ~Known(fourcc),
                      NEW w \in Nat, NEW h \in Nat
               PROVE  Least(fourcc, w, h, JpegFmt)
    BY Zenon DEF CarefulInv
  <2> QED BY TryFmtLeast, Zenon
<1>2. All => LeastFrame
  BY SizeAssumption DEF LeastFrame
<1> QED BY <1>1, <1>2, CarefulCorrect, PTL

\* With a careful user every job runs with the operation table of the JPEG
\* encoder, never with index -1.
THEOREM CodecCorrect == ASSUME Careful PROVE Spec => []CodecValid
<1>1. CarefulInv /\ FreshInv => CodecValid
  <2> SUFFICES ASSUME CarefulInv, FreshInv, run.pc # "idle"
               PROVE  codec = "JPEG_ENC"
    BY DEF CodecValid
  <2>1. codec = FindFormat(dstFmt.fourcc).mode
    BY Zenon DEF FreshInv, JobStreams, CodecFresh
  <2>2. FindFormat(dstFmt.fourcc) = JpegFmt
    BY FindJpeg, Zenon DEF CarefulInv
  <2>3. JpegFmt.mode = "JPEG_ENC"
    BY JpegLimits
  <2> QED BY <2>1, <2>2, <2>3
<1> QED BY <1>1, CarefulCorrect, QueueCorrect, PTL

-----------------------------------------------------------------------------
\* The depths of a raw format are numbered from 1.
LEMMA RawLen ==
  ASSUME NEW i \in 1 .. 4
  PROVE  DOMAIN EncFmts[i].depth = 1 .. Len(EncFmts[i].depth)
BY DEF EncFmts, Raw

\* The JPEG format has one plane.
LEMMA JpegLen ==
  /\ DOMAIN JpegFmt.depth = {1}
  /\ Len(JpegFmt.depth) = 1
  /\ JpegFmt.maxDepth = 2
BY DEF JpegFmt, EncFmts

\* Every plane of a legal raw format has bytes.
LEMMA PlanePositive ==
  ASSUME NEW w \in WidthRange, NEW h \in HeightRange, NEW d \in {2, 4, 8, 16},
         MultipleOf(w, 16)
  PROVE  h * ((w * d) \div 8) \in Nat \ {0}
<1>1. PICK a \in Nat : w = 16 * a
  <2>1. w = 16 * (w \div 16) /\ w \div 16 \in Nat
    BY SMT DEF WidthRange, MultipleOf
  <2> QED BY <2>1
<1>2. a > 0
  BY <1>1 DEF WidthRange
<1>3. (w * d) \div 8 \in Nat \ {0}
  <2>1. CASE d = 2
    BY <1>1, <1>2, <2>1, SMT
  <2>2. CASE d = 4
    BY <1>1, <1>2, <2>2, SMT
  <2>3. CASE d = 8
    BY <1>1, <1>2, <2>3, SMT
  <2>4. CASE d = 16
    BY <1>1, <1>2, <2>4, SMT
  <2> QED BY <2>1, <2>2, <2>3, <2>4
<1>4. h \in Nat \ {0}
  BY DEF HeightRange
<1> HIDE DEF WidthRange
<1>5. \A x, y \in Nat \ {0} : x * y \in Nat \ {0}
  BY SMT
<1> QED BY <1>3, <1>4, <1>5, Zenon

\* The planes of a buffer of size sz are large enough for format f.
Fit(f, sz) ==
  \A p \in DOMAIN f.sizeimage : p <= Len(sz) /\ sz[p] >= f.sizeimage[p]

\* Format f has n planes, all with bytes.
Sized(f, n) == f.sizeimage \in [1 .. n -> Nat \ {0}]

\* A buffer that buf_prepare accepts has every plane of the format, since
\* the size of a plane it lacks is 0.
LEMMA PrepareFits ==
  ASSUME NEW d \in Dirs, NEW sz, BufPrepare(d, sz),
         Sized(Fmt(d), Len(Vpu(d).depth))
  PROVE  Fit(Fmt(d), sz)
<1> SUFFICES ASSUME NEW p \in 1 .. Len(Vpu(d).depth)
             PROVE  p <= Len(sz) /\ sz[p] >= Fmt(d).sizeimage[p]
  BY Zenon DEF Fit, Sized
<1>1. /\ PlaneSize(sz, p) >= Fmt(d).sizeimage[p]
      /\ Fmt(d).sizeimage[p] \in Nat \ {0}
  BY Zenon DEF BufPrepare, Sized
<1>2. p <= Len(sz)
  <2> SUFFICES ASSUME ~(p <= Len(sz)) PROVE FALSE
    OBVIOUS
  <2>1. PlaneSize(sz, p) = 0
    BY Zenon DEF PlaneSize
  <2>2. \A n \in Nat \ {0} : ~(0 >= n)
    BY SMT
  <2> QED BY <1>1, <2>1, <2>2, Zenon
<1> QED BY <1>1, <1>2, Zenon DEF PlaneSize

\* A legal raw format has a size for each plane of its entry.
LEMMA SrcSized ==
  ASSUME LegalRaw(srcFmt, vpuSrc)
  PROVE  Sized(srcFmt, Len(vpuSrc.depth))
<1>1. PICK i \in 1 .. 4 : vpuSrc = EncFmts[i]
  BY Zenon DEF LegalRaw
<1>2. vpuSrc \in RawFmts
  BY <1>1, Zenon DEF RawFmts
<1>3. DOMAIN vpuSrc.depth = 1 .. Len(vpuSrc.depth)
  BY <1>1, RawLen, Zenon
<1>4. \A p \in DOMAIN vpuSrc.depth :
        /\ srcFmt.sizeimage[p] =
             srcFmt.height * ((srcFmt.width * vpuSrc.depth[p]) \div 8)
        /\ vpuSrc.depth[p] \in {2, 4, 8, 16}
  BY <1>2, RawDepths, Zenon DEF LegalRaw, PlaneSizes
<1>5. srcFmt.sizeimage =
        [p \in DOMAIN vpuSrc.depth |->
           srcFmt.height * ((srcFmt.width * vpuSrc.depth[p]) \div 8)]
  BY Zenon DEF LegalRaw, PlaneSizes
<1>6. \A p \in DOMAIN vpuSrc.depth : srcFmt.sizeimage[p] \in Nat \ {0}
  <2> TAKE p \in DOMAIN vpuSrc.depth
  <2>1. /\ srcFmt.width \in WidthRange /\ MultipleOf(srcFmt.width, 16)
        /\ srcFmt.height \in HeightRange
    BY Zenon DEF LegalRaw
  <2>2. srcFmt.height * ((srcFmt.width * vpuSrc.depth[p]) \div 8)
          \in Nat \ {0}
    BY <1>4, <2>1, PlanePositive, Zenon
  <2> QED BY <1>4, <2>2, Zenon
<1> QED BY <1>3, <1>4, <1>5, <1>6, Zenon DEF Sized

\* The only plane of a coded format has bytes.
LEMMA CodedPositive ==
  ASSUME NEW w \in WidthRange, NEW h \in HeightRange
  PROVE  w * h * 2 \in Nat \ {0}
<1>1. w \in Nat \ {0} /\ h \in Nat \ {0}
  BY DEF WidthRange, HeightRange
<1> HIDE DEF WidthRange, HeightRange
<1>2. \A x, y \in Nat \ {0} : x * y * 2 \in Nat \ {0}
  BY SMT
<1> QED BY <1>1, <1>2, Zenon

\* What the buffers rest on.
FitInv ==
  /\ Sized(dstFmt, 1)
  /\ \A d \in Dirs : \A b \in Accepted(d) : Fit(Fmt(d), bufs[d][b].size)

\* ... so TRY_FMT on CAPTURE returns a format with a size.
LEMMA CapSized ==
  ASSUME NEW fourcc, fourcc \in EnumFmt(TRUE) \/ ~Known(fourcc),
         NEW w \in Nat, NEW h \in Nat
  PROVE  Sized(TryFmtCap(fourcc, w, h), 1)
<1> DEFINE cw == ClampW(w, JpegFmt)
           ch == ClampH(h, JpegFmt)
<1>1. cw * ch * 2 \in Nat \ {0}
  BY ClampFacts, CodedPositive, Zenon
<1>2. FindOrDefault(fourcc, TRUE) = JpegFmt
  BY JpegChosen, Zenon
<1> HIDE DEF cw, ch
<1>3. TryFmtCap(fourcc, w, h).sizeimage = [i \in {1} |-> cw * ch * 2]
  <2>1. TryFmtCap(fourcc, w, h) =
          PixFmt(JpegFmt, cw, ch,
                 [i \in DOMAIN JpegFmt.depth |->
                    IF i = 1 THEN cw * ch * JpegFmt.maxDepth ELSE 0])
    BY <1>2, Zenon DEF TryFmtCap, cw, ch
  <2>2. TryFmtCap(fourcc, w, h).sizeimage =
          [i \in DOMAIN JpegFmt.depth |->
                    IF i = 1 THEN cw * ch * JpegFmt.maxDepth ELSE 0]
    BY <2>1, SMT DEF PixFmt
  <2>3. @ = [i \in {1} |-> IF i = 1 THEN cw * ch * 2 ELSE 0]
    BY JpegLen, Zenon
  <2>4. @ = [i \in {1} |-> cw * ch * 2]
    OBVIOUS
  <2> QED BY <2>2, <2>3, <2>4
<1>4. 1 .. 1 = {1}
  OBVIOUS
<1> QED BY <1>1, <1>3, <1>4 DEF Sized

\* FitInv holds in a file just opened.
LEMMA FitInit == Init => FitInv
<1> SUFFICES ASSUME Init PROVE FitInv
  OBVIOUS
<1>1. Sized(ResetDst, 1)
  <2> DEFINE w == ClampW(0, JpegFmt)
             h == ClampH(0, JpegFmt)
  <2>1. 0 \in Nat
    OBVIOUS
  <2>2. w * h * 2 \in Nat \ {0}
    BY <2>1, ClampFacts, CodedPositive, Zenon
  <2> HIDE DEF w, h
  <2>3. ResetDst = PixFmt(JpegFmt, w, h, <<w * h * 2>>)
    BY Defaults, JpegLen, Zenon DEF ResetDst, JpegFmt, w, h
  <2>4. ResetDst.sizeimage = <<w * h * 2>>
    BY <2>3, SMT DEF PixFmt
  <2> QED BY <2>2, <2>4 DEF Sized
<1>2. \A d \in Dirs : Accepted(d) = {}
  <2>1. \A d \in Dirs, b \in Buf : bufs[d][b] = NoBuffer
    BY DEF Init
  <2>2. NoBuffer.st = "none"
    BY BufferFields DEF NoBuffer
  <2> QED BY <2>1, <2>2 DEF Accepted
<1> QED BY <1>1, <1>2, Zenon DEF Init, FitInv

\* A step that keeps the formats, and accepts no buffer that does not fit.
LEMMA FitStep ==
  ASSUME FitInv, UNCHANGED fmtVars,
         \A d \in Dirs : \A b \in Accepted(d)' :
           \/ b \in Accepted(d) /\ bufs'[d][b].size = bufs[d][b].size
           \/ Fit(Fmt(d), bufs'[d][b].size)
  PROVE  FitInv'
<1>1. \A d \in Dirs : Fmt(d)' = Fmt(d)
  BY Zenon DEF Fmt, fmtVars
<1>2. dstFmt' = dstFmt
  BY Zenon DEF fmtVars
<1>3. \A d \in Dirs : \A b \in Accepted(d)' :
        Fit(Fmt(d), bufs'[d][b].size)
  BY Zenon DEF FitInv
<1> QED BY <1>1, <1>2, <1>3, Zenon DEF FitInv

\* Every step keeps FitInv. QBUF of a prepared buffer is the one that takes a
\* buffer unseen: it was checked when it was prepared, and a careful user has
\* not changed the format since.
LEMMA FitNext ==
  Careful /\ CarefulInv /\ QueueInv /\ FitInv /\ [Next]_vars => FitInv'
<1> SUFFICES ASSUME Careful, CarefulInv, QueueInv, FitInv, [Next]_vars
             PROVE  FitInv'
  OBVIOUS
<1>0. /\ DOMAIN bufs = Dirs
      /\ \A d \in Dirs : DOMAIN bufs[d] = Buf
  BY DEF QueueInv, SlotsOK
<1>1. ASSUME NEW f \in Fourccs, NEW w \in Widths, NEW h \in Heights,
             SFmtOut(f, w, h)
      PROVE  FitInv'
  <2>1. Accepted("OUT") = {} /\ UNCHANGED <<dstFmt, bufs>>
    BY <1>1, Zenon DEF SFmtOut, UserAsks, bufVars
  <2>2. \A d \in Dirs : Accepted(d)' = Accepted(d)
    BY <2>1, Zenon DEF Accepted
  <2>3. ASSUME NEW d \in Dirs, NEW b \in Accepted(d)'
        PROVE  Fit(Fmt(d)', bufs'[d][b].size)
    <3>1. b \in Accepted(d) /\ d = "CAP"
      BY <2>1, <2>2, <2>3, Zenon DEF Dirs
    <3>2. Fmt(d)' = Fmt(d)
      BY <2>1, <3>1 DEF Fmt
    <3> QED BY <2>1, <3>1, <3>2, Zenon DEF FitInv
  <2> QED BY <2>1, <2>3, Zenon DEF FitInv
<1>2. ASSUME NEW f \in Fourccs, NEW w \in Widths, NEW h \in Heights,
             SFmtCap(f, w, h)
      PROVE  FitInv'
  <2>1. /\ Accepted("OUT") = {} /\ Accepted("CAP") = {}
        /\ f \in EnumFmt(TRUE) \/ ~Known(f)
        /\ bufs' = bufs
        /\ dstFmt' = TryFmtCap(f, w, h)
    <3>1. UserAsks("CAP", f) /\ bufs' = bufs /\ dstFmt' = TryFmtCap(f, w, h)
      BY <1>2, Zenon DEF SFmtCap, bufVars
    <3>2. ("CAP" = "CAP") = TRUE
      OBVIOUS
    <3>3. UserAsks("CAP", f) => /\ f \in EnumFmt(TRUE) \/ ~Known(f)
                                /\ Accepted("OUT") = {}
                                /\ Accepted("CAP") = {}
      BY <3>2, Zenon DEF UserAsks
    <3> QED BY <3>1, <3>3, Zenon
  <2>2. \A d \in Dirs : Accepted(d)' = {}
    BY <2>1, Zenon DEF Accepted, Dirs
  <2>3. w \in Nat /\ h \in Nat
    BY SizeAssumption
  <2> QED BY <2>1, <2>2, <2>3, CapSized, Zenon DEF FitInv
<1>3. CASE UNCHANGED <<fmtVars, bufs>>
  <2>1. \A d \in Dirs : Accepted(d)' = Accepted(d)
    BY <1>3, Zenon DEF Accepted
  <2> QED BY <1>3, <2>1, FitStep, Zenon
\* A step on buffer b of queue d alone.
<1>4. ASSUME NEW d \in Dirs, NEW b \in Buf, NEW s, NEW t,
             UNCHANGED fmtVars,
             bufs' = [bufs EXCEPT ![d][b] = Buffer(s, t)],
             t \in {"prepared", "queued"} => Fit(Fmt(d), s)
      PROVE  FitInv'
  <2>1. \A e \in Dirs, c \in Buf :
          bufs'[e][c] = IF e = d /\ c = b THEN Buffer(s, t) ELSE bufs[e][c]
    BY <1>0, <1>4
  <2>2. ASSUME NEW e \in Dirs, NEW c \in Accepted(e)'
        PROVE  \/ c \in Accepted(e) /\ bufs'[e][c].size = bufs[e][c].size
               \/ Fit(Fmt(e), bufs'[e][c].size)
    <3>1. c \in Buf /\ bufs'[e][c].st \in {"prepared", "queued"}
      BY <2>2, Zenon DEF Accepted
    <3>2. CASE e = d /\ c = b
      <4>1. bufs'[e][c] = Buffer(s, t)
        BY <2>1, <3>1, <3>2, Zenon
      <4>2. bufs'[e][c].size = s /\ bufs'[e][c].st = t
        BY <4>1, BufferFields
      <4> QED BY <1>4, <3>1, <3>2, <4>2, Zenon
    <3>3. CASE ~(e = d /\ c = b)
      <4>1. bufs'[e][c] = bufs[e][c]
        BY <2>1, <3>1, <3>3, Zenon
      <4> QED BY <3>1, <4>1, Zenon DEF Accepted
    <3> QED BY <3>2, <3>3, Zenon
  <2> QED BY <1>4, <2>2, FitStep, Zenon
\* The buffers of the queues in D change, and are not accepted any more.
<1>5. ASSUME UNCHANGED fmtVars,
             \A e \in Dirs, c \in Buf :
               \/ bufs'[e][c] = bufs[e][c]
               \/ bufs'[e][c].st \in {"none", "dequeued"}
      PROVE  FitInv'
  <2>1. \A e \in Dirs : \A c \in Accepted(e)' :
          c \in Accepted(e) /\ bufs'[e][c].size = bufs[e][c].size
    <3> TAKE e \in Dirs
    <3> TAKE c \in Accepted(e)'
    <3>1. c \in Buf /\ bufs'[e][c].st \in {"prepared", "queued"}
      BY Zenon DEF Accepted
    <3>2. bufs'[e][c] = bufs[e][c]
      <4>1. bufs'[e][c].st \notin {"none", "dequeued"}
        BY <3>1
      <4> QED BY <1>5, <3>1, <4>1, Zenon
    <3> QED BY <3>1, <3>2, Zenon DEF Accepted
  <2> QED BY <1>5, <2>1, FitStep, Zenon
<1>6. ASSUME NEW d \in Dirs, NEW B \in SUBSET Buf, ReqBufs(d, B)
      PROVE  FitInv'
  <2>1. \A e \in Dirs, c \in Buf :
          bufs'[e][c] = IF e # d THEN bufs[e][c]
                        ELSE IF c \in B
                        THEN Buffer(Fmt(d).sizeimage, "dequeued")
                        ELSE NoBuffer
    BY <1>0, <1>6 DEF ReqBufs
  <2>2. Buffer(Fmt(d).sizeimage, "dequeued").st = "dequeued"
        /\ NoBuffer.st = "none"
    BY BufferFields DEF NoBuffer
  <2>3. \A e \in Dirs, c \in Buf : \/ bufs'[e][c] = bufs[e][c]
                                   \/ bufs'[e][c].st \in {"none", "dequeued"}
    BY <2>1, <2>2, Zenon
  <2> QED BY <1>5, <1>6, <2>3, Zenon DEF ReqBufs
<1>7. ASSUME NEW d \in Dirs, StreamOff(d)
      PROVE  FitInv'
  <2>1. \A e \in Dirs, c \in Buf :
          bufs'[e][c] = IF e # d THEN bufs[e][c]
                        ELSE IF bufs[d][c].st = "none" THEN NoBuffer
                        ELSE Buffer(bufs[d][c].size, "dequeued")
    BY <1>0, <1>7 DEF StreamOff
  <2>2. /\ \A c \in Buf : Buffer(bufs[d][c].size, "dequeued").st = "dequeued"
        /\ NoBuffer.st = "none"
    BY BufferFields DEF NoBuffer
  <2>3. \A e \in Dirs, c \in Buf : \/ bufs'[e][c] = bufs[e][c]
                                   \/ bufs'[e][c].st \in {"none", "dequeued"}
    BY <2>1, <2>2, Zenon
  <2> QED BY <1>5, <1>7, <2>3, Zenon DEF StreamOff
<1>8. CASE JobEnd
  <2>1. \A e \in Dirs, c \in Buf :
          bufs'[e][c] = IF c = run[e]
                        THEN Buffer(bufs[e][run[e]].size, "dequeued")
                        ELSE bufs[e][c]
    BY <1>0, <1>8 DEF JobEnd
  <2>2. \A e \in Dirs :
          Buffer(bufs[e][run[e]].size, "dequeued").st = "dequeued"
    BY BufferFields
  <2>3. \A e \in Dirs, c \in Buf : \/ bufs'[e][c] = bufs[e][c]
                                   \/ bufs'[e][c].st \in {"none", "dequeued"}
    BY <2>1, <2>2, Zenon
  <2> QED BY <1>5, <1>8, <2>3, Zenon DEF JobEnd
<1>9. ASSUME NEW d \in Dirs, NEW sz, BufPrepare(d, sz)
      PROVE  Fit(Fmt(d), sz)
  <2>1. Sized(Fmt(d), Len(Vpu(d).depth))
    <3>1. Sized(srcFmt, Len(vpuSrc.depth))
      BY SrcSized, Zenon DEF CarefulInv
    <3>2. Sized(dstFmt, Len(vpuDst.depth))
      BY JpegLen, Zenon DEF CarefulInv, FitInv
    <3> QED BY <3>1, <3>2, Zenon DEF Fmt, Vpu
  <2> QED BY <1>9, <2>1, PrepareFits, Zenon
<1>10. ASSUME NEW d \in Dirs, NEW b \in Buf, PrepareBuf(d, b)
       PROVE  FitInv'
  <2>1. /\ BufPrepare(d, bufs[d][b].size)
        /\ UNCHANGED fmtVars
        /\ bufs' = [bufs EXCEPT ![d][b] = Buffer(bufs[d][b].size, "prepared")]
    BY <1>10 DEF PrepareBuf
  <2> QED BY <1>4, <1>9, <2>1, Zenon
<1>11. ASSUME NEW d \in Dirs, NEW b \in Buf, QBuf(d, b)
       PROVE  FitInv'
  <2>1. /\ UNCHANGED fmtVars
        /\ bufs' = [bufs EXCEPT ![d][b] = Buffer(bufs[d][b].size, "queued")]
    BY <1>11 DEF QBuf
  <2>2. CASE bufs[d][b].st = "prepared"
    <3>1. b \in Accepted(d)
      BY <2>2 DEF Accepted
    <3>2. Fit(Fmt(d), bufs[d][b].size)
      BY <3>1, Zenon DEF FitInv
    <3> QED BY <1>4, <2>1, <3>2, Zenon
  <2>3. CASE BufPrepare(d, bufs[d][b].size)
    BY <1>4, <1>9, <2>1, <2>3, Zenon
  <2> QED BY <1>11, <2>2, <2>3, Zenon DEF QBuf
<1>12. ASSUME NEW d \in Dirs, NEW b \in Buf, NEW s \in Sizes,
              CreateBuf(d, b, s)
       PROVE  FitInv'
  <2>1. /\ UNCHANGED fmtVars
        /\ bufs' = [bufs EXCEPT ![d][b] = Buffer(s, "dequeued")]
    BY <1>12, Zenon DEF CreateBuf
  <2>2. "dequeued" \notin {"prepared", "queued"}
    OBVIOUS
  <2> QED BY <1>4, <2>1, <2>2, Zenon
<1>13. ASSUME NEW d \in Dirs, StreamOn(d)
       PROVE  FitInv'
  BY <1>3, <1>13, Zenon DEF StreamOn, bufVars
<1>14. CASE RunStart \/ RunKick
  BY <1>3, <1>14, Zenon DEF RunStart, RunKick, bufVars
<1>15. CASE UNCHANGED vars
  BY <1>3, <1>15, Zenon DEF vars, bufVars
<1> QED BY <1>1, <1>2, <1>6, <1>7, <1>8, <1>10, <1>11, <1>12, <1>13, <1>14,
           <1>15, Zenon DEF Next

\* The inductive invariants of a careful user hold in every reachable state.
THEOREM FitCorrect ==
  ASSUME Careful
  PROVE  Spec => [](CarefulInv /\ FreshInv /\ QueueInv /\ FitInv)
BY CarefulCorrect, QueueCorrect, FitInit, FitNext, PTL DEF Spec

\* With a careful user every buffer that waits for a job has the planes of
\* its queue's format, each large enough.
THEOREM QueuedFitCorrect == ASSUME Careful PROVE Spec => []QueuedFit
<1>1. QueueInv /\ FitInv => QueuedFit
  <2> SUFFICES ASSUME QueueInv, FitInv, NEW d \in Dirs,
                      NEW i \in DOMAIN queue[d]
               PROVE  Fit(Fmt(d), bufs[d][queue[d][i]].size)
    BY Zenon DEF QueuedFit, Fit
  <2>1. queue[d] \in Seq(Buf) /\ Wait(queue[d], queue[d][i])
    BY Zenon DEF QueueInv, SlotsOK, Wait
  <2>2. queue[d][i] \in Buf
    BY <2>1, ElementOfSeq, LenProperties
  <2>3. queue[d][i] \in Accepted(d)
    BY <2>1, <2>2 DEF QueueInv, SlotsOK, Accepted
  <2> QED BY <2>3, Zenon DEF FitInv
<1> QED BY <1>1, FitCorrect, PTL

-----------------------------------------------------------------------------
(* What the encoder is programmed with.                                    *)

\* The sizes of the buffers are sequences of numbers.
SizeInv == \A d \in Dirs, b \in Buf : bufs[d][b].size \in Seq(Nat)

\* What a job has programmed so far is what the formats in force say.
RegInv ==
  /\ regs = [rowLen |-> regs.rowLen, enc |-> regs.enc,
             planes |-> regs.planes, mb |-> regs.mb]
  /\ run.pc \in {"started", "busy"} =>
       /\ regs.rowLen = srcFmt.width
       /\ regs.enc = vpuSrc.encFmt
       /\ regs.planes = PlaneRegs(Len(srcFmt.sizeimage))
  /\ run.pc = "busy" =>
       regs.mb = MbFields(MbCount(srcFmt.width), MbCount(srcFmt.height))

\* RegInv holds in a file just opened.
LEMMA RegInit == Init => RegInv
BY DEF Init, NoJob, NoRegs, RegInv

\* Every step keeps RegInv, as no format changes under a job (StableStep).
LEMMA RegNext == FreshInv /\ QueueInv /\ RegInv /\ [Next]_vars => RegInv'
<1> SUFFICES ASSUME FreshInv, QueueInv, RegInv, [Next]_vars PROVE RegInv'
  OBVIOUS
<1>1. CASE UNCHANGED runVars
  <2>1. CASE run.pc = "idle"
    BY <1>1, <2>1 DEF runVars, RegInv
  <2>2. CASE run.pc # "idle"
    <3>1. UNCHANGED fmtVars
      BY <2>2, StableStep, Zenon
    <3> QED BY <1>1, <3>1, Zenon DEF runVars, fmtVars, RegInv
  <2> QED BY <2>1, <2>2
<1>2. CASE RunStart
  <2>1. /\ regs' = [regs EXCEPT !.rowLen = srcFmt.width,
                                !.enc = vpuSrc.encFmt,
                                !.planes = PlaneRegs(Len(srcFmt.sizeimage))]
        /\ run'.pc # "busy"
        /\ UNCHANGED fmtVars
    BY <1>2 DEF RunStart
  <2>2. /\ regs' = [rowLen |-> regs'.rowLen, enc |-> regs'.enc,
                    planes |-> regs'.planes, mb |-> regs'.mb]
        /\ regs'.rowLen = srcFmt.width
        /\ regs'.enc = vpuSrc.encFmt
        /\ regs'.planes = PlaneRegs(Len(srcFmt.sizeimage))
    BY <2>1 DEF RegInv
  <2> QED BY <2>1, <2>2, Zenon DEF RegInv, fmtVars
<1>3. CASE RunKick
  <2>1. /\ regs' = [regs EXCEPT !.mb = MbFields(MbCount(srcFmt.width),
                                                MbCount(srcFmt.height))]
        /\ run.pc = "started"
        /\ UNCHANGED fmtVars
    BY <1>3, Zenon DEF RunKick
  <2>2. /\ regs' = [rowLen |-> regs'.rowLen, enc |-> regs'.enc,
                    planes |-> regs'.planes, mb |-> regs'.mb]
        /\ regs'.rowLen = regs.rowLen
        /\ regs'.enc = regs.enc
        /\ regs'.planes = regs.planes
        /\ regs'.mb = MbFields(MbCount(srcFmt.width), MbCount(srcFmt.height))
    BY <2>1 DEF RegInv
  <2>3. /\ regs.rowLen = srcFmt.width
        /\ regs.enc = vpuSrc.encFmt
        /\ regs.planes = PlaneRegs(Len(srcFmt.sizeimage))
    BY <2>1 DEF RegInv
  <2> QED BY <2>1, <2>2, <2>3, Zenon DEF RegInv, fmtVars
<1>4. CASE JobEnd
  BY <1>4 DEF JobEnd, NoJob, NoRegs, RegInv
<1>5. ASSUME NEW f \in Fourccs, NEW w \in Widths, NEW h \in Heights,
             SFmtOut(f, w, h) \/ SFmtCap(f, w, h)
      PROVE  RegInv'
  BY <1>1, <1>5, Zenon DEF SFmtOut, SFmtCap
<1>6. ASSUME NEW d \in Dirs,
             \/ \E B \in SUBSET Buf : ReqBufs(d, B)
             \/ \E b \in Buf : PrepareBuf(d, b) \/ QBuf(d, b)
             \/ \E b \in Buf, s \in Sizes : CreateBuf(d, b, s)
             \/ StreamOn(d)
             \/ StreamOff(d)
      PROVE  RegInv'
  BY <1>1, <1>6, Zenon DEF ReqBufs, PrepareBuf, QBuf, CreateBuf, StreamOn,
                           StreamOff
<1>7. CASE UNCHANGED vars
  BY <1>1, <1>7, Zenon DEF vars
<1> QED BY <1>2, <1>3, <1>4, <1>5, <1>6, <1>7, Zenon DEF Next

\* A raw format has one, two or three planes.
LEMMA RawPlanes ==
  ASSUME NEW i \in 1 .. 4
  PROVE  Len(EncFmts[i].depth) \in 1 .. 3
BY DEF EncFmts, Raw

\* The plane sizes of the formats in force are sequences of numbers.
LEMMA FmtSizes ==
  ASSUME CarefulInv, FitInv, NEW d \in Dirs
  PROVE  Fmt(d).sizeimage \in Seq(Nat)
<1>1. ASSUME NEW n \in Nat, NEW s \in [1 .. n -> Nat \ {0}]
      PROVE  s \in Seq(Nat)
  <2>1. s \in [1 .. n -> Nat]
    BY <1>1
  <2> QED BY <2>1, SeqDef, Zenon
<1>2. srcFmt.sizeimage \in Seq(Nat)
  <2>1. PICK i \in 1 .. 4 : vpuSrc = EncFmts[i]
    BY Zenon DEF CarefulInv, LegalRaw
  <2>2. Len(vpuSrc.depth) \in Nat
    BY <2>1, RawPlanes
  <2> QED BY <1>1, <2>2, SrcSized, Zenon DEF CarefulInv, Sized
<1>3. dstFmt.sizeimage \in Seq(Nat)
  <2>1. 1 \in Nat
    OBVIOUS
  <2> QED BY <1>1, <2>1, Zenon DEF FitInv, Sized
<1> QED BY <1>2, <1>3, Zenon DEF Fmt

\* SizeInv holds in a file just opened.
LEMMA SizeInit == Init => SizeInv
<1> SUFFICES ASSUME Init PROVE SizeInv
  OBVIOUS
<1>1. \A d \in Dirs, b \in Buf : bufs[d][b] = NoBuffer
  BY DEF Init
<1>2. NoBuffer.size \in Seq(Nat)
  <2>1. NoBuffer.size = <<>>
    BY BufferFields, Zenon DEF NoBuffer
  <2>2. <<>> \in Seq(Nat)
    OBVIOUS
  <2> QED BY <2>1, <2>2, Zenon
<1> QED BY <1>1, <1>2, Zenon DEF SizeInv

\* Every step keeps SizeInv.
LEMMA SizeNext ==
  CarefulInv /\ FitInv /\ QueueInv /\ SizeInv /\ [Next]_vars => SizeInv'
<1> SUFFICES ASSUME CarefulInv, FitInv, QueueInv, SizeInv, [Next]_vars,
                    NEW d \in Dirs, NEW b \in Buf
             PROVE  bufs'[d][b].size \in Seq(Nat)
  BY Zenon DEF SizeInv
<1>0. /\ DOMAIN bufs = Dirs
      /\ \A e \in Dirs : DOMAIN bufs[e] = Buf
      /\ bufs[d][b].size \in Seq(Nat)
  BY DEF QueueInv, SlotsOK, SizeInv
<1>a. /\ \A x, t : Buffer(x, t).size = x
      /\ NoBuffer.size = <<>> /\ <<>> \in Seq(Nat)
  BY BufferFields DEF NoBuffer
<1>1. ASSUME NEW e \in Dirs, NEW B \in SUBSET Buf, ReqBufs(e, B)
      PROVE  bufs'[d][b].size \in Seq(Nat)
  <2>1. bufs'[d][b] = IF d # e THEN bufs[d][b]
                      ELSE IF b \in B
                      THEN Buffer(Fmt(d).sizeimage, "dequeued")
                      ELSE NoBuffer
    BY <1>0, <1>1 DEF ReqBufs
  <2>2. Fmt(d).sizeimage \in Seq(Nat)
    BY FmtSizes, Zenon
  <2>3. CASE d = e /\ b \in B
    <3>1. bufs'[d][b] = Buffer(Fmt(d).sizeimage, "dequeued")
      BY <2>1, <2>3, Zenon
    <3> QED BY <1>a, <2>2, <3>1, Zenon
  <2>4. CASE ~(d = e /\ b \in B)
    <3>1. bufs'[d][b] = bufs[d][b] \/ bufs'[d][b] = NoBuffer
      BY <2>1, <2>4, Zenon
    <3> QED BY <1>0, <1>a, <3>1, Zenon
  <2> QED BY <2>3, <2>4, Zenon
<1>2. ASSUME NEW e \in Dirs, StreamOff(e)
      PROVE  bufs'[d][b].size \in Seq(Nat)
  <2>1. bufs'[d][b] = IF d # e THEN bufs[d][b]
                      ELSE IF bufs[d][b].st = "none" THEN NoBuffer
                      ELSE Buffer(bufs[d][b].size, "dequeued")
    BY <1>0, <1>2 DEF StreamOff
  <2> QED BY <1>0, <1>a, <2>1, Zenon
<1>3. CASE JobEnd
  <2>1. bufs'[d][b] = IF b = run[d]
                      THEN Buffer(bufs[d][b].size, "dequeued")
                      ELSE bufs[d][b]
    BY <1>0, <1>3 DEF JobEnd
  <2> QED BY <1>0, <1>a, <2>1, Zenon
<1>4. ASSUME NEW e \in Dirs, NEW c \in Buf, PrepareBuf(e, c) \/ QBuf(e, c)
      PROVE  bufs'[d][b].size \in Seq(Nat)
  <2>1. PICK t : bufs' = [bufs EXCEPT ![e][c] = Buffer(bufs[e][c].size, t)]
    BY <1>4 DEF PrepareBuf, QBuf
  <2>2. bufs'[d][b] = IF e = d /\ c = b THEN Buffer(bufs[d][b].size, t)
                      ELSE bufs[d][b]
    BY <1>0, <2>1
  <2> QED BY <1>0, <1>a, <2>2, Zenon
<1>5. ASSUME NEW e \in Dirs, NEW c \in Buf, NEW s \in Sizes,
             CreateBuf(e, c, s)
      PROVE  bufs'[d][b].size \in Seq(Nat)
  <2>1. bufs'[d][b] = IF e = d /\ c = b THEN Buffer(s, "dequeued")
                      ELSE bufs[d][b]
    BY <1>0, <1>5 DEF CreateBuf
  <2>2. s \in Seq(Nat)
    BY SizeAssumption
  <2>3. CASE e = d /\ c = b
    <3>1. bufs'[d][b].size = s
      BY <1>a, <2>1, <2>3, Zenon
    <3> QED BY <2>2, <3>1, Zenon
  <2>4. CASE ~(e = d /\ c = b)
    BY <1>0, <2>1, <2>4, Zenon
  <2> QED BY <2>3, <2>4, Zenon
<1>6. CASE UNCHANGED bufs
  BY <1>0, <1>6
<1>7. ASSUME NEW f \in Fourccs, NEW w \in Widths, NEW h \in Heights,
             SFmtOut(f, w, h) \/ SFmtCap(f, w, h)
      PROVE  UNCHANGED bufs
  BY <1>7, Zenon DEF SFmtOut, SFmtCap, bufVars
<1>8. ASSUME NEW e \in Dirs, StreamOn(e) \/ RunStart \/ RunKick
                             \/ UNCHANGED vars
      PROVE  UNCHANGED bufs
  BY <1>8, Zenon DEF StreamOn, RunStart, RunKick, vars, bufVars
<1> QED BY <1>1, <1>2, <1>3, <1>4, <1>5, <1>6, <1>7, <1>8, Zenon DEF Next

\* The encoder fetches no more than the planes of the format hold: a frame of
\* a by b macroblocks, m rows of which are fetched, with the component c taken
\* from the plane the driver programs for it.
LEMMA FetchedBytes ==
  ASSUME NEW i \in 1 .. 4, NEW a \in Nat, NEW b \in Nat, NEW m \in Nat,
         m <= b, NEW c \in 1 .. 3
  PROVE  LET fmt == EncFmts[i]
             p   == PlaneRegs(Len(fmt.depth))[c]
             n   == (16 * b) * (((16 * a) * fmt.depth[p]) \div 8)
         IN /\ p \in DOMAIN fmt.depth
            /\ n \in Nat
            /\ Fetched(fmt.encFmt, (16 * a) * m * MbDim)[c] \in Nat
            /\ Fetched(fmt.encFmt, (16 * a) * m * MbDim)[c] <= n
<1>1. PICK k \in Nat : b = m + k
  <2>1. b = m + (b - m) /\ b - m \in Nat
    OBVIOUS
  <2> QED BY <2>1
<1>2. PICK A \in Nat : A = a * m
  <2>1. a * m \in Nat
    OBVIOUS
  <2> QED BY <2>1
<1>3. PICK C \in Nat : C = a * b /\ A <= C
  <2>1. a * k \in Nat /\ a * b = A + a * k
    BY <1>1, <1>2
  <2> QED BY <2>1
<1>4. (16 * a) * m * MbDim = 256 * A
  BY <1>2 DEF MbDim
<1>5. \A d \in {2, 4, 8, 16} :
        (16 * b) * (((16 * a) * d) \div 8) = (32 * d) * C
  <2>1. \A d \in {2, 4, 8, 16} : ((16 * a) * d) \div 8 = (2 * d) * a
    BY SMT
  <2>2. \A d \in {2, 4, 8, 16} : (16 * b) * ((2 * d) * a) = (32 * d) * (a * b)
    BY SMT
  <2> QED BY <1>3, <2>1, <2>2
<1>6. /\ (256 * A) \div 4 = 64 * A
      /\ (256 * A) \div 2 = 128 * A
  BY SMT
<1>7. CASE i = 1
  <2>1. /\ EncFmts[i].depth = <<8, 2, 2>>
        /\ EncFmts[i].encFmt = "YUV420P"
    BY <1>7 DEF EncFmts, Raw
  <2>2. PlaneRegs(Len(EncFmts[i].depth)) = <<1, 2, 3>>
    BY <2>1 DEF PlaneRegs
  <2>3. Fetched("YUV420P", 256 * A) = <<256 * A, 64 * A, 64 * A>>
    BY <1>6 DEF Fetched
  <2> QED BY <1>3, <1>4, <1>5, <2>1, <2>2, <2>3
<1>8. CASE i = 2
  <2>1. /\ EncFmts[i].depth = <<8, 4>>
        /\ EncFmts[i].encFmt = "YUV420SP"
    BY <1>8 DEF EncFmts, Raw
  <2>2. PlaneRegs(Len(EncFmts[i].depth)) = <<1, 2, 2>>
    BY <2>1 DEF PlaneRegs
  <2>3. Fetched("YUV420SP", 256 * A) = <<256 * A, 128 * A, 128 * A>>
    BY <1>6 DEF Fetched
  <2> QED BY <1>3, <1>4, <1>5, <2>1, <2>2, <2>3
<1>9. CASE i \in {3, 4}
  <2>1. /\ EncFmts[i].depth = <<16>>
        /\ EncFmts[i].encFmt \in {"YUYV422", "UYVY422"}
    BY <1>9 DEF EncFmts, Raw
  <2>2. PlaneRegs(Len(EncFmts[i].depth)) = <<1, 1, 1>>
    BY <2>1 DEF PlaneRegs
  <2>3. Fetched(EncFmts[i].encFmt, 256 * A) = <<512 * A, 512 * A, 512 * A>>
    BY <2>1 DEF Fetched
  <2> QED BY <1>3, <1>4, <1>5, <2>1, <2>2, <2>3
<1> QED BY <1>7, <1>8, <1>9

\* The rows of macroblocks the encoder finds are no more than the frame's,
\* however the field is truncated.
LEMMA RowsBound ==
  ASSUME NEW w, NEW b \in Nat
  PROVE  MbFields(w, MbCount(16 * b)).h \in 0 .. b
<1>1. MbCount(16 * b) = b
  <2>1. (16 * b + 16 - 1) \div 16 = b
    BY SMT
  <2> QED BY <2>1 DEF MbCount, MbDim
<1>2. MbFields(w, b).h = b % 512
  BY DEF MbFields
<1>3. b % 512 \in 0 .. b
  BY SMT
<1> QED BY <1>1, <1>2, <1>3

\* The frame has the planes of its table entry.
LEMMA RawLength ==
  ASSUME CarefulInv
  PROVE  Len(srcFmt.sizeimage) = Len(vpuSrc.depth)
<1>1. Len(vpuSrc.depth) \in Nat
  <2>1. PICK i \in 1 .. 4 : vpuSrc = EncFmts[i]
    BY Zenon DEF CarefulInv, LegalRaw
  <2> QED BY <2>1, RawPlanes
<1>2. srcFmt.sizeimage \in [1 .. Len(vpuSrc.depth) -> Nat \ {0}]
  BY SrcSized, Zenon DEF CarefulInv, Sized
<1> QED BY <1>1, <1>2

\* The frame is a whole number of macroblocks.
LEMMA InMacroblocks ==
  ASSUME CarefulInv
  PROVE  \E a, b \in Nat : srcFmt.width = 16 * a /\ srcFmt.height = 16 * b
<1>1. ASSUME NEW x \in Nat, MultipleOf(x, 16)
      PROVE  x \div 16 \in Nat /\ x = 16 * (x \div 16)
  BY <1>1, SMT DEF MultipleOf
<1>2. srcFmt.width \in Nat /\ srcFmt.height \in Nat
  BY Ranges, Zenon DEF CarefulInv, LegalRaw
<1> QED BY <1>1, <1>2, Zenon DEF CarefulInv, LegalRaw

\* A buffer that fits and registers that agree with the format: the encoder
\* stays inside the planes.
LEMMA FetchInv ==
  ASSUME CarefulInv, QueueInv, FitInv, SizeInv, RegInv
  PROVE  FetchInside
<1> DEFINE size == bufs["OUT"][run["OUT"]].size
           x    == regs.rowLen * regs.mb.h * MbDim
<1> SUFFICES ASSUME run.pc = "busy", NEW c \in 1 .. 3
             PROVE  Fetched(regs.enc, x)[c] <= PlaneSize(size, regs.planes[c])
  BY Zenon DEF FetchInside
<1>1. PICK i \in 1 .. 4 : vpuSrc = EncFmts[i]
  BY Zenon DEF CarefulInv, LegalRaw
<1>2. PICK a, b \in Nat : srcFmt.width = 16 * a /\ srcFmt.height = 16 * b
  BY InMacroblocks, Zenon
<1>3. /\ regs.rowLen = srcFmt.width
      /\ regs.enc = vpuSrc.encFmt
      /\ regs.planes = PlaneRegs(Len(srcFmt.sizeimage))
      /\ regs.mb = MbFields(MbCount(srcFmt.width), MbCount(srcFmt.height))
  BY DEF RegInv
<1>4. PICK m \in Nat : m = regs.mb.h /\ m <= b
  <2>1. regs.mb.h \in 0 .. b
    BY <1>2, <1>3, RowsBound, Zenon
  <2> QED BY <2>1
<1> DEFINE p == PlaneRegs(Len(EncFmts[i].depth))[c]
           n == (16 * b) * (((16 * a) * EncFmts[i].depth[p]) \div 8)
           y == Fetched(EncFmts[i].encFmt, (16 * a) * m * MbDim)[c]
<1>5. /\ p \in DOMAIN EncFmts[i].depth
      /\ n \in Nat /\ y \in Nat /\ y <= n
  BY <1>4, FetchedBytes, Zenon
<1>6. Fetched(regs.enc, x)[c] = y
  BY <1>1, <1>2, <1>3, <1>4, Zenon
<1>7. regs.planes[c] = p
  BY <1>1, <1>3, RawLength, Zenon
<1>8. srcFmt.sizeimage[p] = n
  BY <1>1, <1>2, <1>5, Zenon DEF CarefulInv, LegalRaw, PlaneSizes
<1> HIDE DEF p, n, y, x, size
<1>9. run["OUT"] \in Accepted("OUT")
  <2>1. /\ queue["OUT"] # <<>> /\ run["OUT"] = Head(queue["OUT"])
        /\ SlotsOK(bufs["OUT"], queue["OUT"])
    BY DEF QueueInv, Dirs
  <2>2. run["OUT"] \in Buf /\ Wait(queue["OUT"], run["OUT"])
    BY <2>1, TailDistinct, Zenon DEF SlotsOK
  <2> QED BY <2>1, <2>2 DEF SlotsOK, Accepted
<1>10. Fit(srcFmt, size) /\ size \in Seq(Nat)
  <2>1. "OUT" \in Dirs /\ Fmt("OUT") = srcFmt
    BY DEF Dirs, Fmt
  <2>2. run["OUT"] \in Buf
    BY <1>9, Zenon DEF Accepted
  <2> QED BY <1>9, <2>1, <2>2, Zenon DEF FitInv, SizeInv, size
<1>11. p \in DOMAIN srcFmt.sizeimage
  BY <1>1, <1>5, Zenon DEF CarefulInv, LegalRaw, PlaneSizes
<1>12. p <= Len(size) /\ size[p] >= n
  BY <1>8, <1>10, <1>11, Zenon DEF Fit
<1>13. p \in 1 .. 3
  <2>1. EncFmts[i].depth \in {<<8, 2, 2>>, <<8, 4>>, <<16>>}
    BY DEF EncFmts, Raw
  <2> QED BY <1>5, <2>1
<1>14. size[p] \in Nat
  BY <1>10, <1>12, <1>13, ElementOfSeq
<1>15. PlaneSize(size, p) = size[p]
  BY <1>12, Zenon DEF PlaneSize
<1>16. y <= size[p]
  BY <1>5, <1>12, <1>14
<1> QED BY <1>6, <1>7, <1>15, <1>16, Zenon

\* With a careful user the encoder never fetches outside the planes of the
\* frame it works on, on either SoC, for frames of every size.
THEOREM FetchInsideCorrect == ASSUME Careful PROVE Spec => []FetchInside
<1>1. Careful
  OBVIOUS
<1> QED BY <1>1, FitCorrect, SizeInit, SizeNext, RegInit, RegNext, FetchInv,
           PTL DEF Spec

-----------------------------------------------------------------------------
\* User space asks for frames of fewer than 512 macroblocks each way.
SmallAsked ==
  /\ \A w \in Widths : w <= 8176
  /\ \A h \in Heights : h <= 8160

SmallWidths  == 96 .. 8176
SmallHeights == 32 .. 8160

\* A format of fewer than 512 macroblocks each way.
Small(f) == f.width \in SmallWidths /\ f.height \in SmallHeights

\* The raw format in force is small.
SmallInv == Small(srcFmt)

\* clamp keeps a small size small.
LEMMA SmallClamp ==
  ASSUME NEW w \in Nat, NEW h \in Nat, w <= 8176, h <= 8160
  PROVE  /\ ClampW(w, JpegFmt) \in SmallWidths
         /\ ClampH(h, JpegFmt) \in SmallHeights
<1>1. ClampW(w, JpegFmt) \in SmallWidths
  <2>1. ClampW(w, JpegFmt) = Clamp(w, 96, 8192)
    BY JpegLimits, SMT DEF ClampW
  <2>2. Clamp(w, 96, 8192) \in SmallWidths
    BY SMT DEF Clamp, SmallWidths
  <2> QED BY <2>1, <2>2
<1>2. ClampH(h, JpegFmt) \in SmallHeights
  <2>1. ClampH(h, JpegFmt) = Clamp(h, 32, 8192)
    BY JpegLimits, SMT DEF ClampH
  <2>2. Clamp(h, 32, 8192) \in SmallHeights
    BY SMT DEF Clamp, SmallHeights
  <2> QED BY <2>1, <2>2
<1> QED BY <1>1, <1>2

\* ... and so does rounding it up to macroblocks, or to two rows of them.
LEMMA SmallRound ==
  /\ \A x \in SmallWidths : RoundUp(x, 16) \in SmallWidths
  /\ \A x \in SmallHeights : RoundUp(x, 16) \in SmallHeights
  /\ \A x \in SmallHeights : RoundUp(x, 32) \in SmallHeights
<1>1. ASSUME NEW x \in SmallWidths PROVE RoundUp(x, 16) \in SmallWidths
  BY SMT DEF RoundUp, SmallWidths
<1>2. ASSUME NEW x \in SmallHeights PROVE RoundUp(x, 16) \in SmallHeights
  <2> DEFINE q == (x + 15) \div 16
  <2>1. q \in 2 .. 510
    <3>1. (x + 15) \div 16 >= 2
      BY SMT DEF SmallHeights
    <3>2. (x + 15) \div 16 <= 510
      BY SMT DEF SmallHeights
    <3> QED BY <3>1, <3>2, SMT DEF SmallHeights
  <2>2. RoundUp(x, 16) = q * 16
    BY SMT DEF RoundUp, SmallHeights
  <2> HIDE DEF q
  <2> QED BY <2>1, <2>2, SMT DEF SmallHeights
<1>3. ASSUME NEW x \in SmallHeights PROVE RoundUp(x, 32) \in SmallHeights
  <2> DEFINE q == (x + 31) \div 32
  <2>1. q \in 1 .. 255
    <3>1. (x + 31) \div 32 >= 1
      BY SMT DEF SmallHeights
    <3>2. (x + 31) \div 32 <= 255
      BY SMT DEF SmallHeights
    <3> QED BY <3>1, <3>2, SMT DEF SmallHeights
  <2>2. RoundUp(x, 32) = q * 32
    BY SMT DEF RoundUp, SmallHeights
  <2> HIDE DEF q
  <2> QED BY <2>1, <2>2, SMT DEF SmallHeights
<1> QED BY <1>1, <1>2, <1>3, Zenon

\* The raw format the driver resets to is small.
LEMMA SmallReset == Small(ResetSrc(JpegFmt))
<1>1. /\ ResetSrc(JpegFmt).width = ClampW(0, JpegFmt)
      /\ ResetSrc(JpegFmt).height = ClampH(0, JpegFmt)
  BY DEF ResetSrc, PixFmt
<1>2. ClampW(0, JpegFmt) \in SmallWidths /\ ClampH(0, JpegFmt) \in SmallHeights
  BY SmallClamp
<1> QED BY <1>1, <1>2, Zenon DEF Small

\* TRY_FMT returns a small frame for a small one.
LEMMA SmallTry ==
  ASSUME NEW fourcc, NEW w, NEW h,
         ClampW(w, JpegFmt) \in SmallWidths,
         ClampH(h, JpegFmt) \in SmallHeights
  PROVE  Small(TryFmtOut(fourcc, w, h, JpegFmt))
<1> DEFINE fmt == FindOrDefault(fourcc, FALSE)
           cw  == ClampW(w, JpegFmt)
           ch  == ClampH(h, JpegFmt)
           rw  == RoundUp(cw, MbDim)
           rh  == RoundUp(ch, MbDim)
           ah  == RoundUp(rh, (DmaAlign * 4) \div MbDim)
<1>1. cw \in SmallWidths /\ ch \in SmallHeights
  OBVIOUS
<1> HIDE DEF cw, ch
<1>2. rw \in SmallWidths /\ rh \in SmallHeights
  BY <1>1, SmallRound, Zenon DEF MbDim
<1>3. ah \in SmallHeights
  <2> HIDE DEF rh
  <2>1. (DmaAlign * 4) \div MbDim \in {16, 32}
    <3>1. CASE DmaAlign = 64
      BY <3>1, SMT DEF MbDim
    <3>2. CASE DmaAlign = 128
      BY <3>2, SMT DEF MbDim
    <3> QED BY <3>1, <3>2, DmaAlignAssumption
  <2> QED BY <1>2, <2>1, SmallRound, Zenon
<1>4. \E z \in {rh, ah} :
        TryFmtOut(fourcc, w, h, JpegFmt) =
          PixFmt(fmt, rw, z, PlaneSizes(fmt, rw, z))
  <2>1. TryFmtOut(fourcc, w, h, JpegFmt) = AlignHeight(fmt, rw, rh)
    BY Zenon DEF TryFmtOut, cw, ch
  <2> HIDE DEF fmt, rw, rh
  <2>2. \/ AlignHeight(fmt, rw, rh) =
             PixFmt(fmt, rw, rh, PlaneSizes(fmt, rw, rh))
        \/ AlignHeight(fmt, rw, rh) =
             PixFmt(fmt, rw, ah, PlaneSizes(fmt, rw, ah))
    BY Zenon DEF AlignHeight
  <2> HIDE DEF ah
  <2> QED BY <2>1, <2>2, Zenon
<1> HIDE DEF fmt, rw, rh, ah
<1>5. PICK z \in {rh, ah} :
        TryFmtOut(fourcc, w, h, JpegFmt) =
          PixFmt(fmt, rw, z, PlaneSizes(fmt, rw, z))
  BY <1>4, Zenon
<1>6. /\ TryFmtOut(fourcc, w, h, JpegFmt).width = rw
      /\ TryFmtOut(fourcc, w, h, JpegFmt).height = z
  BY <1>5, SMT DEF PixFmt
<1> QED BY <1>2, <1>3, <1>5, <1>6, Zenon DEF Small

\* SmallInv holds in a file just opened.
LEMMA SmallInit == Init => SmallInv
<1> SUFFICES ASSUME Init PROVE SmallInv
  OBVIOUS
<1>1. srcFmt = ResetSrc(JpegFmt)
  BY Defaults, Zenon DEF Init, JpegFmt
<1> QED BY <1>1, SmallReset, Zenon DEF SmallInv

\* Every step keeps SmallInv.
LEMMA SmallNext ==
  Careful /\ SmallAsked /\ CarefulInv /\ SmallInv /\ [Next]_vars => SmallInv'
<1> SUFFICES ASSUME Careful, SmallAsked, CarefulInv, SmallInv, [Next]_vars
             PROVE  SmallInv'
  OBVIOUS
<1>1. ASSUME NEW f \in Fourccs, NEW w \in Widths, NEW h \in Heights,
             SFmtOut(f, w, h)
      PROVE  SmallInv'
  <2>1. srcFmt' = TryFmtOut(f, w, h, JpegFmt)
    BY <1>1, Zenon DEF SFmtOut, CarefulInv
  <2>2. w \in Nat /\ h \in Nat
    BY SizeAssumption
  <2>3. w <= 8176 /\ h <= 8160
    BY DEF SmallAsked
  <2>4. /\ ClampW(w, JpegFmt) \in SmallWidths
        /\ ClampH(h, JpegFmt) \in SmallHeights
    BY <2>2, <2>3, SmallClamp
  <2>5. Small(TryFmtOut(f, w, h, JpegFmt))
    BY <2>4, SmallTry, Zenon
  <2> QED BY <2>1, <2>5, Zenon DEF SmallInv
<1>2. ASSUME NEW f \in Fourccs, NEW w \in Widths, NEW h \in Heights,
             SFmtCap(f, w, h)
      PROVE  SmallInv'
  <2>1. vpuDst' = JpegFmt
    BY <1>2, CarefulNext, Zenon DEF CarefulInv
  <2>2. srcFmt' = ResetSrc(vpuDst')
    BY <1>2, Zenon DEF SFmtCap
  <2> QED BY <2>1, <2>2, SmallReset, Zenon DEF SmallInv
<1>3. CASE UNCHANGED fmtVars
  BY <1>3, Zenon DEF fmtVars, SmallInv
<1>4. ASSUME NEW d \in Dirs,
             \/ \E B \in SUBSET Buf : ReqBufs(d, B)
             \/ \E b \in Buf : PrepareBuf(d, b) \/ QBuf(d, b)
             \/ \E b \in Buf, s \in Sizes : CreateBuf(d, b, s)
             \/ StreamOn(d)
             \/ StreamOff(d)
      PROVE  SmallInv'
  BY <1>3, <1>4, Zenon DEF ReqBufs, PrepareBuf, QBuf, CreateBuf, StreamOn,
                           StreamOff
<1>5. CASE RunStart \/ RunKick \/ JobEnd
  BY <1>3, <1>5, Zenon DEF RunStart, RunKick, JobEnd
<1>6. CASE UNCHANGED vars
  BY <1>3, <1>6, Zenon DEF vars
<1> QED BY <1>1, <1>2, <1>4, <1>5, <1>6, Zenon DEF Next

\* A small frame's macroblock counts fit the fields of the register.
LEMMA FieldsExact ==
  ASSUME NEW a \in Nat, NEW b \in Nat,
         16 * a \in SmallWidths, 16 * b \in SmallHeights
  PROVE  /\ MbFields(MbCount(16 * a), MbCount(16 * b)).w = a
         /\ MbFields(MbCount(16 * a), MbCount(16 * b)).h = b
<1>1. MbCount(16 * a) = a /\ MbCount(16 * b) = b
  <2>1. \A x \in Nat : (16 * x + 16 - 1) \div 16 = x
    BY SMT
  <2> QED BY <2>1 DEF MbCount, MbDim
<1>2. a \in 0 .. 511 /\ b \in 0 .. 511
  BY SMT DEF SmallWidths, SmallHeights
<1>3. a % 512 = a /\ b % 512 = b
  BY <1>2, SMT
<1>4. ~(b >= 512)
  BY <1>2
<1>5. MbFields(a, b).w = a /\ MbFields(a, b).h = b
  BY <1>3, <1>4 DEF MbFields
<1> QED BY <1>1, <1>5, SMT

\* With a careful user who asks for at most 8176 by 8160, every frame is
\* encoded whole. (WholeFrame fails at 8192, which the driver advertises: run
\* EncFormat_max.)
THEOREM WholeFrameCorrect ==
  ASSUME Careful, SmallAsked
  PROVE  Spec => []WholeFrame
<1>1. CarefulInv /\ SmallInv /\ RegInv => WholeFrame
  <2> SUFFICES ASSUME CarefulInv, SmallInv, RegInv, run.pc = "busy"
               PROVE  /\ regs.rowLen = regs.mb.w * MbDim
                      /\ srcFmt.width = regs.mb.w * MbDim
                      /\ srcFmt.height = regs.mb.h * MbDim
    BY Zenon DEF WholeFrame
  <2>1. PICK a, b \in Nat : srcFmt.width = 16 * a /\ srcFmt.height = 16 * b
    BY InMacroblocks, Zenon
  <2>2. /\ regs.rowLen = srcFmt.width
        /\ regs.mb = MbFields(MbCount(srcFmt.width), MbCount(srcFmt.height))
    BY DEF RegInv
  <2>3. regs.mb.w = a /\ regs.mb.h = b
    <3>1. 16 * a \in SmallWidths /\ 16 * b \in SmallHeights
      BY <2>1 DEF SmallInv, Small
    <3>2. regs.mb = MbFields(MbCount(16 * a), MbCount(16 * b))
      BY <2>1, <2>2
    <3> QED BY <3>1, <3>2, FieldsExact
  <2> QED BY <2>1, <2>2, <2>3 DEF MbDim
<1>2. Careful /\ SmallAsked
  OBVIOUS
<1> QED BY <1>1, <1>2, FitCorrect, SmallInit, SmallNext, RegInit, RegNext,
           PTL DEF Spec
=============================================================================
