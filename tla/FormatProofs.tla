---------------------------- MODULE FormatProofs ----------------------------
(***************************************************************************)
(* Proofs about the arithmetic of TRY_FMT (FormatCalc): the format it      *)
(* returns for the raw queue is legal, and the narrowest, then lowest, of  *)
(* the legal ones, for every size asked for and on both SoCs.              *)
(***************************************************************************)
EXTENDS EncFormat, TLAPS

\* Of the table, entry 5 alone is a coded format.
LEMMA CodedTable == \A i \in DOMAIN EncFmts : Coded(EncFmts[i]) <=> i = 5
BY SMT DEF EncFmts, Raw, Coded

\* So the default raw format is entry 1 and the default coded one entry 5.
LEMMA Defaults ==
  DefaultFmt(FALSE) = EncFmts[1] /\ DefaultFmt(TRUE) = EncFmts[5]
<1>1. DOMAIN EncFmts = 1 .. 5
  BY DEF EncFmts
<1>2. \A i \in DOMAIN EncFmts :
        /\ (Coded(EncFmts[i]) <=> FALSE)
        /\ \A j \in 1 .. i - 1 : ~(Coded(EncFmts[j]) <=> FALSE)
        <=> i = 1
  BY <1>1, CodedTable
<1>3. \A i \in DOMAIN EncFmts :
        /\ (Coded(EncFmts[i]) <=> TRUE)
        /\ \A j \in 1 .. i - 1 : ~(Coded(EncFmts[j]) <=> TRUE)
        <=> i = 5
  BY <1>1, CodedTable
<1>4. 1 \in DOMAIN EncFmts /\ 5 \in DOMAIN EncFmts
  BY <1>1
<1>5. DefaultFmt(FALSE) = EncFmts[1]
  BY <1>2, <1>4, Zenon DEF DefaultFmt
<1>6. DefaultFmt(TRUE) = EncFmts[5]
  BY <1>3, <1>4, Zenon DEF DefaultFmt
<1> QED BY <1>5, <1>6

\* rockchip_vpu_find_format returns the entry with the fourcc: no two entries
\* share one.
LEMMA FindOf ==
  \A i \in DOMAIN EncFmts : FindFormat(EncFmts[i].fourcc) = EncFmts[i]
<1>1. \A i, j \in DOMAIN EncFmts :
        EncFmts[i].fourcc = EncFmts[j].fourcc => i = j
  BY SMT DEF EncFmts, Raw
<1> QED BY <1>1 DEF FindFormat

\* The limits of the JPEG format, and divisibility.
WidthRange  == 96 .. 8192
HeightRange == 32 .. 8192
MultipleOf(x, k) == x % k = 0

\* The limits are numbers.
LEMMA Ranges == WidthRange \subseteq Nat /\ HeightRange \subseteq Nat
BY DEF WidthRange, HeightRange

\* round_up of a clamped width to whole macroblocks stays within the limits.
LEMMA RoundWidth ==
  ASSUME NEW x \in WidthRange
  PROVE  /\ RoundUp(x, 16) \in WidthRange
         /\ RoundUp(x, 16) >= x
         /\ MultipleOf(RoundUp(x, 16), 16)
<1>1. RoundUp(x, 16) \in WidthRange
  BY SMT DEF RoundUp, WidthRange
<1>2. RoundUp(x, 16) >= x
  BY SMT DEF RoundUp, WidthRange
<1>3. MultipleOf(RoundUp(x, 16), 16)
  BY SMT DEF RoundUp, WidthRange, MultipleOf
<1> QED BY <1>1, <1>2, <1>3, Zenon

\* ... and of a clamped height.
LEMMA RoundHeight ==
  ASSUME NEW x \in HeightRange
  PROVE  /\ RoundUp(x, 16) \in HeightRange
         /\ RoundUp(x, 16) >= x
         /\ MultipleOf(RoundUp(x, 16), 16)
<1>1. RoundUp(x, 16) \in HeightRange
  <2> DEFINE q == (x + 15) \div 16
  <2>1. q \in 2 .. 512
    <3>1. (x + 15) \div 16 >= 2
      BY SMT DEF HeightRange
    <3>2. (x + 15) \div 16 <= 512
      BY SMT DEF HeightRange
    <3> QED BY <3>1, <3>2, SMT DEF HeightRange
  <2>2. RoundUp(x, 16) = q * 16
    BY SMT DEF RoundUp, HeightRange
  <2> HIDE DEF q
  <2> QED BY <2>1, <2>2, SMT DEF HeightRange
<1>2. RoundUp(x, 16) >= x
  BY SMT DEF RoundUp, HeightRange
<1>3. MultipleOf(RoundUp(x, 16), 16)
  BY SMT DEF RoundUp, HeightRange, MultipleOf
<1> QED BY <1>1, <1>2, <1>3, Zenon

\* ... and of a height to two rows of macroblocks, as the RK3399 needs.
LEMMA RoundHeight32 ==
  ASSUME NEW x \in HeightRange
  PROVE  /\ RoundUp(x, 32) \in HeightRange
         /\ RoundUp(x, 32) >= x
         /\ MultipleOf(RoundUp(x, 32), 32)
         /\ MultipleOf(RoundUp(x, 32), 16)
<1>1. RoundUp(x, 32) \in HeightRange
  BY SMT DEF RoundUp, HeightRange
<1>2. RoundUp(x, 32) >= x
  BY SMT DEF RoundUp, HeightRange
<1>3. MultipleOf(RoundUp(x, 32), 32)
  BY SMT DEF RoundUp, HeightRange, MultipleOf
<1>4. MultipleOf(RoundUp(x, 32), 16)
  BY SMT DEF RoundUp, HeightRange, MultipleOf
<1> QED BY <1>1, <1>2, <1>3, <1>4, Zenon

\* The arithmetic under the rounding: with whole macroblocks across and a
\* height that is a multiple of DmaAlign / 4, a plane is a multiple of
\* DmaAlign for every depth of the table.
LEMMA PlaneAligned ==
  ASSUME NEW w \in Nat, NEW h \in Nat, NEW d \in {2, 4, 8, 16},
         MultipleOf(w, 16), MultipleOf(h, DmaAlign \div 4)
  PROVE  (h * ((w * d) \div 8)) % DmaAlign = 0
<1> USE DEF MultipleOf
<1>a. PICK a \in Nat : w = 16 * a
  <2>1. w = 16 * (w \div 16) /\ w \div 16 \in Nat
    BY SMT
  <2> QED BY <2>1
<1>1. PICK k \in {1, 2, 4, 8} : (w * d) \div 8 = 4 * (k * a)
  <2>1. CASE d = 2
    BY <1>a, <2>1, SMT
  <2>2. CASE d = 4
    BY <1>a, <2>2, SMT
  <2>3. CASE d = 8
    BY <1>a, <2>3, SMT
  <2>4. CASE d = 16
    BY <1>a, <2>4, SMT
  <2> QED BY <2>1, <2>2, <2>3, <2>4
<1>2. PICK b \in Nat : h = (DmaAlign \div 4) * b
  <2>1. CASE DmaAlign = 64
    <3>1. h = 16 * (h \div 16) /\ h \div 16 \in Nat
      BY <2>1, SMT
    <3> QED BY <3>1, <2>1
  <2>2. CASE DmaAlign = 128
    <3>1. h = 32 * (h \div 32) /\ h \div 32 \in Nat
      BY <2>2, SMT
    <3> QED BY <3>1, <2>2
  <2> QED BY <2>1, <2>2, DmaAlignAssumption
<1>3. PICK m \in Nat : m = b * (k * a)
  <2>1. b * (k * a) \in Nat
    OBVIOUS
  <2> QED BY <2>1
<1>4. h * ((w * d) \div 8) = DmaAlign * m
  <2>1. CASE DmaAlign = 64
    BY <2>1, <1>1, <1>2, <1>3, SMT
  <2>2. CASE DmaAlign = 128
    BY <2>2, <1>1, <1>2, <1>3, SMT
  <2> QED BY <2>1, <2>2, DmaAlignAssumption
<1>5. CASE DmaAlign = 64
  BY <1>5, <1>4, SMT
<1>6. CASE DmaAlign = 128
  BY <1>6, <1>4, SMT
<1> QED BY <1>5, <1>6, DmaAlignAssumption

\* The raw formats and the JPEG format of the table.
RawFmts == {EncFmts[i] : i \in 1 .. 4}
JpegFmt == EncFmts[5]

\* The depths the table gives.
LEMMA RawDepths ==
  ASSUME NEW fmt \in RawFmts
  PROVE  /\ DOMAIN fmt.depth \subseteq Nat
         /\ \A i \in DOMAIN fmt.depth : fmt.depth[i] \in {2, 4, 8, 16}
BY SMT DEF RawFmts, EncFmts, Raw

\* ... hence every plane of a raw format is.
LEMMA PlanesAligned ==
  ASSUME NEW fmt \in RawFmts, NEW w \in Nat, NEW h \in Nat,
         MultipleOf(w, 16), MultipleOf(h, DmaAlign \div 4)
  PROVE  Aligned(PlaneSizes(fmt, w, h))
<1> SUFFICES ASSUME NEW i \in DOMAIN fmt.depth
             PROVE  (h * ((w * fmt.depth[i]) \div 8)) % DmaAlign = 0
  BY Zenon DEF Aligned, PlaneSizes
<1>1. fmt.depth[i] \in {2, 4, 8, 16}
  BY RawDepths
<1> QED BY <1>1, PlaneAligned, Zenon

\* The last rounding of TRY_FMT on OUTPUT ends in a legal frame, whether or
\* not the planes were multiples of DmaAlign before it.
LEMMA AlignHeightLegal ==
  ASSUME NEW fmt \in RawFmts, NEW w \in Nat, NEW h \in HeightRange,
         MultipleOf(w, 16), MultipleOf(h, 16)
  PROVE  LET f == AlignHeight(fmt, w, h)
         IN /\ f.fourcc = fmt.fourcc
            /\ f.width = w
            /\ f.height \in HeightRange
            /\ f.height >= h
            /\ MultipleOf(f.height, 16)
            /\ Aligned(f.sizeimage)
<1> DEFINE rh == RoundUp(h, (DmaAlign * 4) \div MbDim)
<1>1. /\ rh \in HeightRange
      /\ rh >= h
      /\ MultipleOf(rh, DmaAlign \div 4)
      /\ MultipleOf(rh, 16)
  <2>1. CASE DmaAlign = 64
    <3>1. (DmaAlign * 4) \div MbDim = 16 /\ DmaAlign \div 4 = 16
      BY <2>1, SMT DEF MbDim
    <3> QED BY <3>1, RoundHeight, Zenon
  <2>2. CASE DmaAlign = 128
    <3>1. (DmaAlign * 4) \div MbDim = 32 /\ DmaAlign \div 4 = 32
      BY <2>2, SMT DEF MbDim
    <3> QED BY <3>1, RoundHeight32, Zenon
  <2> QED BY <2>1, <2>2, DmaAlignAssumption, Zenon
<1> HIDE DEF rh
<1>2. Aligned(PlaneSizes(fmt, w, rh))
  BY <1>1, Ranges, PlanesAligned, Zenon
<1>3. h >= h
  BY Ranges
<1>4. CASE Aligned(PlaneSizes(fmt, w, h))
  <2>1. AlignHeight(fmt, w, h) = PixFmt(fmt, w, h, PlaneSizes(fmt, w, h))
    BY <1>4, Zenon DEF AlignHeight
  <2> QED BY <1>3, <1>4, <2>1, SMT DEF PixFmt
<1>5. CASE ~Aligned(PlaneSizes(fmt, w, h))
  <2>1. AlignHeight(fmt, w, h) = PixFmt(fmt, w, rh, PlaneSizes(fmt, w, rh))
    BY <1>5, Zenon DEF AlignHeight, rh
  <2> QED BY <1>1, <1>2, <2>1, SMT DEF PixFmt
<1> QED BY <1>4, <1>5, Zenon

\* The limits of the JPEG format.
LEMMA JpegLimits ==
  /\ JpegFmt.frmsize.minW = 96
  /\ JpegFmt.frmsize.maxW = 8192
  /\ JpegFmt.frmsize.minH = 32
  /\ JpegFmt.frmsize.maxH = 8192
  /\ JpegFmt.mode = "JPEG_ENC"
  /\ JpegFmt.fourcc = "JPEG"
BY DEF JpegFmt, EncFmts, JpegSize

\* A height within the limits is not refused.
LEMMA HeightOK ==
  ASSUME NEW f, NEW y \in HeightRange, f.height = y
  PROVE  TryFmtOutOK(f, JpegFmt)
<1>1. y <= JpegSize.maxH
  BY DEF JpegSize, HeightRange
<1>2. JpegFmt.frmsize = JpegSize
  BY DEF JpegFmt, EncFmts
<1> QED BY <1>1, <1>2, Zenon DEF TryFmtOutOK

\* clamp brings any size within the limits.
LEMMA ClampFacts ==
  ASSUME NEW w \in Nat, NEW h \in Nat
  PROVE  /\ ClampW(w, JpegFmt) \in WidthRange
         /\ ClampH(h, JpegFmt) \in HeightRange
<1>1. ClampW(w, JpegFmt) \in WidthRange
  <2>1. ClampW(w, JpegFmt) = Clamp(w, 96, 8192)
    BY JpegLimits, SMT DEF ClampW
  <2>2. Clamp(w, 96, 8192) \in WidthRange
    BY SMT DEF Clamp, WidthRange
  <2> QED BY <2>1, <2>2
<1>2. ClampH(h, JpegFmt) \in HeightRange
  <2>1. ClampH(h, JpegFmt) = Clamp(h, 32, 8192)
    BY JpegLimits, SMT DEF ClampH
  <2>2. Clamp(h, 32, 8192) \in HeightRange
    BY SMT DEF Clamp, HeightRange
  <2> QED BY <2>1, <2>2
<1> QED BY <1>1, <1>2

\* A fourcc that ENUM_FMT offers on OUTPUT, or that the driver does not know,
\* selects a raw format.
LEMMA RawChosen ==
  ASSUME NEW fourcc, fourcc \in EnumFmt(FALSE) \/ ~Known(fourcc)
  PROVE  \E i \in 1 .. 4 : FindOrDefault(fourcc, FALSE) = EncFmts[i]
<1>1. DOMAIN EncFmts = 1 .. 5
  BY DEF EncFmts
<1>2. CASE fourcc \in EnumFmt(FALSE)
  <2>1. PICK i \in 1 .. 4 : fourcc = EncFmts[i].fourcc
    BY <1>1, <1>2, CodedTable DEF EnumFmt
  <2>2. i \in DOMAIN EncFmts
    BY <1>1
  <2>3. FindOrDefault(fourcc, FALSE) = EncFmts[i]
    BY <2>1, <2>2, FindOf, Zenon DEF FindOrDefault, Known
  <2> QED BY <2>3
<1>3. CASE ~Known(fourcc)
  <2>1. FindOrDefault(fourcc, FALSE) = EncFmts[1]
    BY <1>3, Defaults, Zenon DEF FindOrDefault
  <2>2. 1 \in 1 .. 4
    OBVIOUS
  <2> QED BY <2>1, <2>2, Zenon
<1> QED BY <1>2, <1>3

\* TRY_FMT on OUTPUT, for every size and every fourcc that ENUM_FMT offers or
\* the driver does not know: it is never refused, and what it returns is a
\* raw format no smaller than the size asked for (clamped), within the limits,
\* in whole macroblocks, every plane a multiple of the DMA alignment.
THEOREM TryFmtLegal ==
  ASSUME NEW fourcc, fourcc \in EnumFmt(FALSE) \/ ~Known(fourcc),
         NEW w \in Nat, NEW h \in Nat
  PROVE  LET f == TryFmtOut(fourcc, w, h, JpegFmt)
         IN /\ TryFmtOutOK(f, JpegFmt)
            /\ \E i \in 1 .. 4 : f.fourcc = EncFmts[i].fourcc
            /\ f.width \in WidthRange /\ f.width >= ClampW(w, JpegFmt)
            /\ f.height \in HeightRange /\ f.height >= ClampH(h, JpegFmt)
            /\ f.width % MbDim = 0
            /\ f.height % MbDim = 0
            /\ Aligned(f.sizeimage)
<1> DEFINE fmt == FindOrDefault(fourcc, FALSE)
           cw  == ClampW(w, JpegFmt)
           ch  == ClampH(h, JpegFmt)
           rw  == RoundUp(cw, MbDim)
           rh  == RoundUp(ch, MbDim)
           f   == AlignHeight(fmt, rw, rh)
<1>1. PICK i \in 1 .. 4 : fmt = EncFmts[i]
  BY RawChosen, Zenon
<1>2. fmt \in RawFmts
  BY <1>1, Zenon DEF RawFmts
<1>3. cw \in WidthRange /\ ch \in HeightRange
  BY ClampFacts, Zenon
<1> HIDE DEF fmt, cw, ch
<1>4. /\ rw \in WidthRange /\ rw >= cw /\ MultipleOf(rw, 16)
      /\ rh \in HeightRange /\ rh >= ch /\ MultipleOf(rh, 16)
  BY <1>3, RoundWidth, RoundHeight, Zenon DEF MbDim
<1> HIDE DEF rw, rh
<1>5. /\ f.fourcc = fmt.fourcc
      /\ f.width = rw
      /\ f.height \in HeightRange
      /\ f.height >= rh
      /\ MultipleOf(f.height, 16)
      /\ Aligned(f.sizeimage)
  BY <1>2, <1>4, Ranges, AlignHeightLegal, Zenon
<1>6. TryFmtOut(fourcc, w, h, JpegFmt) = f
  BY Zenon DEF TryFmtOut, fmt, rw, rh, cw, ch
<1> HIDE DEF f
<1>7. f.height >= ch
  <2>1. f.height \in Nat /\ rh \in Nat /\ ch \in Nat
    BY <1>3, <1>4, <1>5, Ranges, Zenon
  <2>2. f.height >= rh /\ rh >= ch
    BY <1>4, <1>5, Zenon
  <2> QED BY <2>1, <2>2, SMT
<1>8. TryFmtOutOK(f, JpegFmt)
  BY <1>5, HeightOK, Zenon
<1>9. f.width % MbDim = 0 /\ f.height % MbDim = 0
  BY <1>4, <1>5, Zenon DEF MultipleOf, MbDim
<1> QED BY <1>1, <1>4, <1>5, <1>6, <1>7, <1>8, <1>9, Zenon DEF cw, ch

\* round_up to whole macroblocks adds less than one, and nothing more when
\* done again.
LEMMA RoundLeast ==
  ASSUME NEW x \in Nat
  PROVE  /\ RoundUp(x, 16) - 16 < x
         /\ MultipleOf(x, 16) => RoundUp(x, 16) = x
         /\ MultipleOf(x, 16) => RoundUp(x, 32) \in {x, x + 16}
<1>1. RoundUp(x, 16) - 16 < x
  BY SMT DEF RoundUp
<1>2. ASSUME MultipleOf(x, 16)
      PROVE  RoundUp(x, 16) = x /\ RoundUp(x, 32) \in {x, x + 16}
  <2>1. PICK q \in Nat : x = 16 * q
    <3>1. x = 16 * (x \div 16) /\ x \div 16 \in Nat
      BY <1>2, SMT DEF MultipleOf
    <3> QED BY <3>1
  <2>2. (16 * q + 15) \div 16 = q
    BY SMT
  <2>3. RoundUp(x, 16) = x
    BY <2>1, <2>2, SMT DEF RoundUp
  <2>4. RoundUp(x, 32) \in {x, x + 16}
    BY <2>1, SMT DEF RoundUp
  <2> QED BY <2>3, <2>4
<1> QED BY <1>1, <1>2

\* clamp leaves a size within the limits alone.
LEMMA ClampIdle ==
  /\ \A x \in WidthRange : ClampW(x, JpegFmt) = x
  /\ \A x \in HeightRange : ClampH(x, JpegFmt) = x
<1>1. ASSUME NEW x PROVE ClampW(x, JpegFmt) = Clamp(x, 96, 8192)
  BY JpegLimits, SMT DEF ClampW
<1>2. ASSUME NEW x PROVE ClampH(x, JpegFmt) = Clamp(x, 32, 8192)
  BY JpegLimits, SMT DEF ClampH
<1>3. ASSUME NEW x \in WidthRange PROVE ClampW(x, JpegFmt) = x
  <2>1. ClampW(x, JpegFmt) = Clamp(x, 96, 8192)
    BY <1>1
  <2>2. Clamp(x, 96, 8192) = x
    BY SMT DEF Clamp, WidthRange
  <2> QED BY <2>1, <2>2
<1>4. ASSUME NEW x \in HeightRange PROVE ClampH(x, JpegFmt) = x
  <2>1. ClampH(x, JpegFmt) = Clamp(x, 32, 8192)
    BY <1>2
  <2>2. Clamp(x, 32, 8192) = x
    BY SMT DEF Clamp, HeightRange
  <2> QED BY <2>1, <2>2
<1> QED BY <1>3, <1>4

\* A size within the limits is at most the largest.
LEMMA WithinLimits ==
  /\ \A x, y \in WidthRange : y >= x => y \in x .. JpegFmt.frmsize.maxW
  /\ \A x, y \in HeightRange : y >= x => y \in x .. JpegFmt.frmsize.maxH
<1>1. JpegFmt.frmsize.maxW = 8192 /\ JpegFmt.frmsize.maxH = 8192
  BY JpegLimits
<1>2. ASSUME NEW x \in WidthRange, NEW y \in WidthRange, y >= x
      PROVE  y \in x .. JpegFmt.frmsize.maxW
  <2>1. x \in Nat /\ y \in Nat /\ y <= 8192
    BY SMT DEF WidthRange
  <2>2. JpegFmt.frmsize.maxW \in Nat /\ y <= JpegFmt.frmsize.maxW
    BY <1>1, <2>1, SMT
  <2> QED BY <1>2, <2>1, <2>2, SMT
<1>3. ASSUME NEW x \in HeightRange, NEW y \in HeightRange, y >= x
      PROVE  y \in x .. JpegFmt.frmsize.maxH
  BY <1>1, <1>3, SMT DEF HeightRange
<1> QED BY <1>2, <1>3

\* The height is only rounded if a plane is not aligned, and by less than two
\* macroblocks; a frame so rounded is not rounded again.
LEMMA AlignHeightLeast ==
  ASSUME NEW fmt \in RawFmts, NEW w \in Nat, NEW h \in HeightRange,
         MultipleOf(w, 16), MultipleOf(h, 16)
  PROVE  LET f == AlignHeight(fmt, w, h)
         IN /\ f = PixFmt(fmt, w, f.height, PlaneSizes(fmt, w, f.height))
            /\ \/ f.height = h
               \/ f.height = h + 16 /\ ~Aligned(PlaneSizes(fmt, w, h))
            /\ AlignHeight(fmt, w, f.height) = f
<1> DEFINE rh == RoundUp(h, (DmaAlign * 4) \div MbDim)
           f  == AlignHeight(fmt, w, h)
<1>1. rh \in {h, h + 16}
  <2>1. CASE DmaAlign = 64
    <3>1. (DmaAlign * 4) \div MbDim = 16
      BY <2>1, SMT DEF MbDim
    <3> QED BY <3>1, Ranges, RoundLeast
  <2>2. CASE DmaAlign = 128
    <3>1. (DmaAlign * 4) \div MbDim = 32
      BY <2>2, SMT DEF MbDim
    <3> QED BY <3>1, Ranges, RoundLeast
  <2> QED BY <2>1, <2>2, DmaAlignAssumption, Zenon
<1> HIDE DEF rh
<1>2. \E y \in {h, rh} :
        /\ f = PixFmt(fmt, w, y, PlaneSizes(fmt, w, y))
        /\ y = h \/ ~Aligned(PlaneSizes(fmt, w, h))
  BY Zenon DEF AlignHeight, rh
<1>3. PICK y \in {h, rh} :
        /\ f = PixFmt(fmt, w, y, PlaneSizes(fmt, w, y))
        /\ y = h \/ ~Aligned(PlaneSizes(fmt, w, h))
  BY <1>2
<1>4. /\ \A s : PixFmt(fmt, w, y, s).height = y
      /\ \A s : PixFmt(fmt, w, y, s).sizeimage = s
  BY DEF PixFmt
<1>5. f.height = y /\ f.sizeimage = PlaneSizes(fmt, w, y)
  BY <1>3, <1>4, Zenon
<1>6. Aligned(PlaneSizes(fmt, w, y))
  BY <1>5, AlignHeightLegal, Zenon
<1>7. AlignHeight(fmt, w, y) = PixFmt(fmt, w, y, PlaneSizes(fmt, w, y))
  BY <1>6, Zenon DEF AlignHeight
<1> HIDE DEF f
<1>8. y = h \/ y = h + 16
  BY <1>1
<1> QED BY <1>3, <1>5, <1>7, <1>8, Zenon DEF f

\* Two multiples of 16 are at least 16 apart.
LEMMA NextMultiple ==
  ASSUME NEW a \in Nat, NEW b \in Nat, a % 16 = 0, b % 16 = 0, a - 16 < b
  PROVE  b >= a /\ (b < a + 16 => b = a)
<1>1. PICK p \in Nat : a = 16 * p
  <2>1. a = 16 * (a \div 16) /\ a \div 16 \in Nat
    BY SMT
  <2> QED BY <2>1
<1>2. PICK q \in Nat : b = 16 * q
  <2>1. b = 16 * (b \div 16) /\ b \div 16 \in Nat
    BY SMT
  <2> QED BY <2>1
<1> QED BY <1>1, <1>2, SMT

\* TRY_FMT on OUTPUT returns, of all legal frames that hold the one asked for,
\* the narrowest, and of those of that width the lowest. Least says it over
\* ranges TLC can enumerate; the second fact is its meaning, over all frames.
THEOREM TryFmtLeast ==
  ASSUME NEW fourcc, fourcc \in EnumFmt(FALSE) \/ ~Known(fourcc),
         NEW w \in Nat, NEW h \in Nat
  PROVE  LET fmt == TryFmtOut(fourcc, w, h, JpegFmt)
         IN /\ Least(fourcc, w, h, JpegFmt)
            /\ \A x, y \in Nat :
                 /\ x >= ClampW(w, JpegFmt) /\ x % MbDim = 0
                 /\ y >= ClampH(h, JpegFmt) /\ y % MbDim = 0
                 /\ Aligned(PlaneSizes(FindFormat(fmt.fourcc), x, y))
                 => \/ x > fmt.width
                    \/ x = fmt.width /\ y >= fmt.height
<1> DEFINE fmt == FindOrDefault(fourcc, FALSE)
           cw  == ClampW(w, JpegFmt)
           ch  == ClampH(h, JpegFmt)
           rw  == RoundUp(cw, MbDim)
           rh  == RoundUp(ch, MbDim)
           f   == TryFmtOut(fourcc, w, h, JpegFmt)
<1>1. f = AlignHeight(fmt, rw, rh)
  BY Zenon DEF TryFmtOut
<1>2. PICK i \in 1 .. 4 : fmt = EncFmts[i]
  BY RawChosen, Zenon
<1>3. fmt \in RawFmts
  BY <1>2, Zenon DEF RawFmts
<1>4. cw \in WidthRange /\ ch \in HeightRange
  BY ClampFacts, Zenon
<1>5. /\ TryFmtOutOK(f, JpegFmt)
      /\ f.width \in WidthRange /\ f.width >= cw
      /\ f.height \in HeightRange /\ f.height >= ch
      /\ f.width % MbDim = 0 /\ f.height % MbDim = 0
      /\ Aligned(f.sizeimage)
  BY TryFmtLegal, Zenon
<1> HIDE DEF fmt, cw, ch, f
<1>6. /\ rw \in WidthRange /\ MultipleOf(rw, 16) /\ rw - 16 < cw
      /\ rh \in HeightRange /\ MultipleOf(rh, 16) /\ rh - 16 < ch
  BY <1>4, Ranges, RoundWidth, RoundHeight, RoundLeast DEF MbDim
<1> HIDE DEF rw, rh
<1>7. /\ f = PixFmt(fmt, rw, f.height, PlaneSizes(fmt, rw, f.height))
      /\ f.height = rh \/ /\ f.height = rh + 16
                          /\ ~Aligned(PlaneSizes(fmt, rw, rh))
      /\ AlignHeight(fmt, rw, f.height) = f
  BY <1>1, <1>3, <1>6, Ranges, AlignHeightLeast
<1>8. f.fourcc = fmt.fourcc /\ f.width = rw
  <2>1. \A y, s : /\ PixFmt(fmt, rw, y, s).fourcc = fmt.fourcc
                  /\ PixFmt(fmt, rw, y, s).width = rw
    BY DEF PixFmt
  <2> QED BY <1>7, <2>1, Zenon
<1>9. FindFormat(f.fourcc) = fmt /\ FindOrDefault(f.fourcc, FALSE) = fmt
  <2>1. i \in DOMAIN EncFmts
    BY DEF EncFmts
  <2> QED BY <1>2, <1>8, <2>1, FindOf, Zenon DEF FindOrDefault, Known
\* Nothing narrower is legal, nor anything lower of the same width,
<1>10. /\ cw \in Nat /\ ch \in Nat /\ rw \in Nat /\ rh \in Nat
       /\ f.height \in Nat /\ rw % 16 = 0 /\ rh % 16 = 0
  BY <1>4, <1>5, <1>6, Ranges DEF MultipleOf
<1>14. ASSUME NEW x \in Nat, x >= cw, x % MbDim = 0
       PROVE  x >= f.width
  BY <1>6, <1>8, <1>10, <1>14, NextMultiple DEF MbDim
<1>15. ASSUME NEW y \in Nat, y >= ch, y % MbDim = 0,
              Aligned(PlaneSizes(fmt, f.width, y))
       PROVE  y >= f.height
  <2>1. y >= rh /\ (y < rh + 16 => y = rh)
    BY <1>6, <1>10, <1>15, NextMultiple DEF MbDim
  <2>2. CASE f.height = rh
    BY <2>1, <2>2
  <2>3. CASE f.height = rh + 16 /\ ~Aligned(PlaneSizes(fmt, rw, rh))
    <3>1. y # rh
      BY <1>8, <1>15, <2>3, Zenon
    <3> QED BY <1>10, <2>1, <2>3, <3>1
  <2> QED BY <1>7, <2>2, <2>3
\* and the frame is its own TRY_FMT.
<1>11. TryFmtOut(f.fourcc, f.width, f.height, JpegFmt) = f
  <2>1. ClampW(f.width, JpegFmt) = rw /\ ClampH(f.height, JpegFmt) = f.height
    BY <1>5, <1>8, ClampIdle, Zenon
  <2>2. RoundUp(rw, MbDim) = rw /\ RoundUp(f.height, MbDim) = f.height
    <3>1. rw \in Nat /\ f.height \in Nat /\ MultipleOf(f.height, 16)
      BY <1>5, <1>6, Ranges DEF MbDim, MultipleOf
    <3> QED BY <1>6, <3>1, RoundLeast DEF MbDim
  <2> QED BY <1>7, <1>9, <2>1, <2>2, Zenon DEF TryFmtOut
<1>12. /\ f.width \in cw .. JpegFmt.frmsize.maxW
       /\ f.height \in ch .. JpegFmt.frmsize.maxH
  BY <1>4, <1>5, WithinLimits, Zenon
<1>13. Aligned(PlaneSizes(fmt, f.width, f.height))
  <2>1. \A s : PixFmt(fmt, rw, f.height, s).sizeimage = s
    BY DEF PixFmt
  <2> QED BY <1>5, <1>7, <1>8, <2>1, Zenon
<1>16. ASSUME NEW x \in Nat, NEW y \in Nat, x >= cw, x % MbDim = 0,
              y >= ch, y % MbDim = 0, Aligned(PlaneSizes(fmt, x, y))
       PROVE  x > f.width \/ (x = f.width /\ y >= f.height)
  <2>1. x >= f.width
    BY <1>14, <1>16
  <2>2. x = f.width => y >= f.height
    BY <1>15, <1>16, Zenon
  <2> QED BY <1>8, <1>10, <2>1, <2>2
<1>17. \A x \in cw .. f.width - 1 : x % MbDim # 0
  <2>1. ASSUME NEW x \in cw .. f.width - 1, x % MbDim = 0 PROVE FALSE
    <3>1. x \in Nat /\ x >= cw /\ x < f.width
      BY <1>8, <1>10
    <3> QED BY <1>8, <1>10, <1>14, <2>1, <3>1
  <2> QED BY <2>1
<1>18. ASSUME NEW y \in ch .. f.height - 1, y % MbDim = 0,
              Aligned(PlaneSizes(fmt, f.width, y))
       PROVE  FALSE
  <2>1. y \in Nat /\ y >= ch /\ y < f.height
    BY <1>10
  <2> QED BY <1>10, <1>15, <1>18, <2>1
<1>19. Least(fourcc, w, h, JpegFmt)
  BY <1>5, <1>9, <1>11, <1>12, <1>13, <1>17, <1>18, Zenon
  DEF Least, f, cw, ch
<1> QED BY <1>9, <1>16, <1>19, Zenon DEF f, cw, ch
=============================================================================
