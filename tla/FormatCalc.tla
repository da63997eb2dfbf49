----------------------------- MODULE FormatCalc -----------------------------
(***************************************************************************)
(* The arithmetic of the encoder node's formats: the format tables of the  *)
(* two SoCs (rk3288_vpu_hw.c, rk3399_vpu_hw.c, the same), TRY_FMT of both  *)
(* queues (rockchip_vpu_enc.c) and the size fields of the control register *)
(* the encoder is started with (rk3288_vpu_regs.h, rk3399_vpu_regs.h).     *)
(***************************************************************************)
EXTENDS Integers, Sequences

CONSTANTS
  DmaAlign,   \* dma_get_cache_alignment(): 64 on the RK3288 (ARMv7 cache
              \* lines), 128 on the RK3399 (ARCH_DMA_MINALIGN of arm64)
  Soc         \* "rk3288" or "rk3399"

ASSUME DmaAlignAssumption == DmaAlign \in {64, 128}
ASSUME SocAssumption      == Soc \in {"rk3288", "rk3399"}

MbDim == 16

\* Frame sizes are given for the coded formats only; the others have zeros.
JpegSize == [minW |-> 96, maxW |-> 8192, minH |-> 32, maxH |-> 8192]
NoSize   == [minW |-> 0, maxW |-> 0, minH |-> 0, maxH |-> 0]

Raw(fourcc, depth, encFmt) ==
  [fourcc |-> fourcc, mode |-> "NONE", depth |-> depth, maxDepth |-> 0,
   encFmt |-> encFmt, frmsize |-> NoSize]

EncFmts ==
  << Raw("YUV420M", <<8, 2, 2>>, "YUV420P"),
     Raw("NV12M", <<8, 4>>, "YUV420SP"),
     Raw("YUYV", <<16>>, "YUYV422"),
     Raw("UYVY", <<16>>, "UYVY422"),
     [fourcc |-> "JPEG", mode |-> "JPEG_ENC", depth |-> <<0>>, maxDepth |-> 2,
      encFmt |-> "YUV420P", frmsize |-> JpegSize] >>

Coded(fmt) == fmt.mode # "NONE"

Known(fourcc) == \E i \in DOMAIN EncFmts : EncFmts[i].fourcc = fourcc

FindFormat(fourcc) ==
  EncFmts[CHOOSE i \in DOMAIN EncFmts : EncFmts[i].fourcc = fourcc]

\* The first raw, or the first coded, format of the table.
DefaultFmt(bitstream) ==
  EncFmts[CHOOSE i \in DOMAIN EncFmts :
            /\ Coded(EncFmts[i]) <=> bitstream
            /\ \A j \in 1 .. i - 1 : ~(Coded(EncFmts[j]) <=> bitstream)]

FindOrDefault(fourcc, bitstream) ==
  IF Known(fourcc) THEN FindFormat(fourcc) ELSE DefaultFmt(bitstream)

\* Mutant: the formats of the other kind are not skipped.
EnumFmtBug(bitstream) == {EncFmts[i].fourcc : i \in DOMAIN EncFmts}

\* What ENUM_FMT offers on the raw and on the coded queue.
EnumFmt(bitstream) ==
  {EncFmts[i].fourcc :
     i \in {j \in DOMAIN EncFmts : Coded(EncFmts[j]) <=> bitstream}}

Clamp(x, low, high) == IF x < low THEN low ELSE IF x > high THEN high ELSE x

\* round_up, for a power of two.
RoundUp(x, y) == ((x + y - 1) \div y) * y

ClampW(w, fmt) == Clamp(w, fmt.frmsize.minW, fmt.frmsize.maxW)
ClampH(h, fmt) == Clamp(h, fmt.frmsize.minH, fmt.frmsize.maxH)

\* sizeimage of each plane.
PlaneSizes(fmt, w, h) ==
  [i \in DOMAIN fmt.depth |-> h * ((w * fmt.depth[i]) \div 8)]

Aligned(sizes) == \A i \in DOMAIN sizes : sizes[i] % DmaAlign = 0

PixFmt(fmt, w, h, sizes) ==
  [fourcc |-> fmt.fourcc, width |-> w, height |-> h, sizeimage |-> sizes]

\* TRY_FMT on CAPTURE, for a user who leaves sizeimage 0: only that of the
\* first plane is set.
TryFmtCap(fourcc, w, h) ==
  LET fmt == FindOrDefault(fourcc, TRUE)
      cw  == ClampW(w, fmt)
      ch  == ClampH(h, fmt)
  IN PixFmt(fmt, cw, ch, [i \in DOMAIN fmt.depth |->
                            IF i = 1 THEN cw * ch * fmt.maxDepth ELSE 0])

\* Mutant: the plane sizes are not calculated again.
AlignHeightBug(fmt, w, h) ==
  LET rh == RoundUp(h, (DmaAlign * 4) \div MbDim)
  IN IF Aligned(PlaneSizes(fmt, w, h))
     THEN PixFmt(fmt, w, h, PlaneSizes(fmt, w, h))
     ELSE PixFmt(fmt, w, rh, PlaneSizes(fmt, w, h))

\* Mutant: the alignment of the height is not divided by MbDim.
AlignHeightBug2(fmt, w, h) ==
  LET rh == RoundUp(h, DmaAlign * 4)
  IN IF Aligned(PlaneSizes(fmt, w, h))
     THEN PixFmt(fmt, w, h, PlaneSizes(fmt, w, h))
     ELSE PixFmt(fmt, w, rh, PlaneSizes(fmt, w, rh))

\* If some plane is not a multiple of DmaAlign, the height is rounded up.
AlignHeight(fmt, w, h) ==
  LET rh == RoundUp(h, (DmaAlign * 4) \div MbDim)
  IN IF Aligned(PlaneSizes(fmt, w, h))
     THEN PixFmt(fmt, w, h, PlaneSizes(fmt, w, h))
     ELSE PixFmt(fmt, w, rh, PlaneSizes(fmt, w, rh))

\* TRY_FMT on OUTPUT: the limits are those of the chosen coded format.
TryFmtOut(fourcc, w, h, coded) ==
  AlignHeight(FindOrDefault(fourcc, FALSE),
              RoundUp(ClampW(w, coded), MbDim),
              RoundUp(ClampH(h, coded), MbDim))

\* ... refused with EINVAL if the rounded height exceeds the limit. (A height
\* that is not rounded for DmaAlign never does: the limit is a multiple of
\* MbDim.)
TryFmtOutOK(fmt, coded) == fmt.height <= coded.frmsize.maxH

\* The formats of a file just opened; S_FMT on CAPTURE also resets the raw
\* format. The sizes of a zeroed structure are clamped.
ResetDst ==
  LET fmt == DefaultFmt(TRUE)
      w   == ClampW(0, fmt)
      h   == ClampH(0, fmt)
  IN PixFmt(fmt, w, h, <<w * h * fmt.maxDepth>>)

ResetSrc(coded) ==
  LET fmt == DefaultFmt(FALSE)
      w   == ClampW(0, coded)
      h   == ClampH(0, coded)
  IN PixFmt(fmt, w, h, PlaneSizes(fmt, w, h))

MbCount(x) == (x + MbDim - 1) \div MbDim

\* The macroblock counts the encoder finds in the control word. On the
\* RK3399 each field is masked to nine bits; on the RK3288 the height is
\* shifted to bit 10 and or-ed with a width that starts at bit 19.
MbFields(w, h) ==
  IF Soc = "rk3399"
  THEN [w |-> w % 512, h |-> h % 512]
  ELSE [w |-> IF h >= 512 /\ w % 2 = 0 THEN w + 1 ELSE w, h |-> h % 512]
=============================================================================
