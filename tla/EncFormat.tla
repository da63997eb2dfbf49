----------------------------- MODULE EncFormat ------------------------------
(***************************************************************************)
(* The formats of one open file of the encoder node (rockchip_vpu_enc.c):  *)
(* S_FMT on both queues, the buffers allocated and checked against the     *)
(* formats, STREAMON and STREAMOFF, and the job that programs the formats  *)
(* and the buffers into the encoder (rk3288_vpu_hw_jpeg_enc.c and          *)
(* rk3399_vpu_hw_jpeg_enc.c). The ioctls of a file are serialized by       *)
(* vpu_mutex, so each is one action; device_run takes no lock, so a job is *)
(* two steps with ioctls in between. VpuJob models the end of a job; here  *)
(* it only hands the two buffers back.                                     *)
(***************************************************************************)
EXTENDS FormatCalc

CONSTANTS
  Buf,       \* the buffers a queue can have
  None,
  Fourccs,   \* the formats, widths and heights user space asks for
  Widths,
  Heights,
  Sizes,     \* the plane sizes CREATE_BUFS is called with
  TryWidths, \* the sizes TRY_FMT is asked for
  TryHeights,
  Careful    \* user space sets a format only while no buffer is waiting that
             \* the call could make too small, and one ENUM_FMT lists for the
             \* queue or one the driver does not know

ASSUME CarefulAssumption == Careful \in BOOLEAN
ASSUME NoneAssumption    == None \notin Buf
ASSUME SizeAssumption    == /\ Widths \subseteq Nat /\ Heights \subseteq Nat
                            /\ Sizes \subseteq Seq(Nat)
                            /\ TryWidths \subseteq Nat
                            /\ TryHeights \subseteq Nat

VARIABLES
  srcFmt,    \* ctx->src_fmt, the raw format
  dstFmt,    \* ctx->dst_fmt, the coded format
  vpuSrc,    \* ctx->vpu_src_fmt
  vpuDst,    \* ctx->vpu_dst_fmt
  bufs,      \* bufs[d][b]: the plane sizes and videobuf2 state of a buffer
  queue,     \* the buffers queued, in order
  streaming,
  codec,     \* ctx->codec_ops, as the mode it was looked up with
  run,       \* the job on the device: where it is and its two buffers
  regs       \* what it has programmed

fmtVars == <<srcFmt, dstFmt, vpuSrc, vpuDst>>
bufVars == <<bufs, queue>>
runVars == <<run, regs>>
vars    == <<fmtVars, bufVars, streaming, codec, runVars>>

Dirs    == {"OUT", "CAP"}
Fmt(d)  == IF d = "OUT" THEN srcFmt ELSE dstFmt
Vpu(d)  == IF d = "OUT" THEN vpuSrc ELSE vpuDst

Buffer(sizes, state) == [size |-> sizes, st |-> state]
NoBuffer == Buffer(<<>>, "none")
BufStates == {"none", "dequeued", "prepared", "queued"}
Busy(d) == \E b \in Buf : bufs[d][b].st # "none"
\* The buffers buf_prepare has accepted.
Accepted(d) == {b \in Buf : bufs[d][b].st \in {"prepared", "queued"}}

NoJob  == [pc |-> "idle", OUT |-> None, CAP |-> None]
NoRegs == [rowLen |-> 0, enc |-> "YUV420P", planes |-> <<1, 1, 1>>,
           mb |-> [w |-> 0, h |-> 0]]

Init ==
  /\ dstFmt = ResetDst
  /\ vpuDst = DefaultFmt(TRUE)
  /\ srcFmt = ResetSrc(DefaultFmt(TRUE))
  /\ vpuSrc = DefaultFmt(FALSE)
  /\ bufs = [d \in Dirs |-> [b \in Buf |-> NoBuffer]]
  /\ queue = [d \in Dirs |-> <<>>]
  /\ streaming = [d \in Dirs |-> FALSE]
  /\ codec = "unset"
  /\ run = NoJob
  /\ regs = NoRegs

-----------------------------------------------------------------------------
(* Formats.                                                                *)

\* What a careful user holds to. S_FMT on CAPTURE resets the raw format, so
\* it concerns the frames queued as well.
UserAsks(d, fourcc) ==
  Careful => /\ fourcc \in EnumFmt(d = "CAP") \/ ~Known(fourcc)
             /\ Accepted("OUT") = {}
             /\ d = "CAP" => Accepted("CAP") = {}

\* Mutant: a queue that streams may change its format.
SFmtOutBug(fourcc, w, h) ==
  /\ UserAsks("OUT", fourcc)
  /\ LET fmt == TryFmtOut(fourcc, w, h, vpuDst)
     IN /\ TryFmtOutOK(fmt, vpuDst)
        /\ srcFmt' = fmt
        /\ vpuSrc' = FindFormat(fmt.fourcc)
  /\ UNCHANGED <<dstFmt, vpuDst, bufVars, streaming, codec, runVars>>

\* VIDIOC_S_FMT on OUTPUT.
SFmtOut(fourcc, w, h) ==
  /\ UserAsks("OUT", fourcc)
  /\ ~streaming["OUT"]
  /\ Busy("CAP") => fourcc = srcFmt.fourcc
  /\ LET fmt == TryFmtOut(fourcc, w, h, vpuDst)
     IN /\ TryFmtOutOK(fmt, vpuDst)
        /\ srcFmt' = fmt
        /\ vpuSrc' = FindFormat(fmt.fourcc)
  /\ UNCHANGED <<dstFmt, vpuDst, bufVars, streaming, codec, runVars>>

\* VIDIOC_S_FMT on CAPTURE.
SFmtCap(fourcc, w, h) ==
  /\ UserAsks("CAP", fourcc)
  /\ ~streaming["CAP"]
  /\ Busy("OUT") => fourcc = dstFmt.fourcc
  /\ LET fmt == TryFmtCap(fourcc, w, h)
     IN /\ dstFmt' = fmt
        /\ vpuDst' = FindFormat(fmt.fourcc)
        /\ srcFmt' = ResetSrc(FindFormat(fmt.fourcc))
        /\ vpuSrc' = DefaultFmt(FALSE)
  /\ UNCHANGED <<bufVars, streaming, codec, runVars>>

-----------------------------------------------------------------------------
(* Buffers: videobuf2 with the driver's queue_setup and buf_prepare.       *)

\* VIDIOC_REQBUFS: the queue's buffers are freed and those of B allocated.
\* A plane of no size cannot be.
ReqBufs(d, B) ==
  /\ ~streaming[d]
  /\ B # {} => \A i \in DOMAIN Fmt(d).sizeimage : Fmt(d).sizeimage[i] > 0
  /\ bufs' = [bufs EXCEPT ![d] =
                [b \in Buf |-> IF b \in B
                               THEN Buffer(Fmt(d).sizeimage, "dequeued")
                               ELSE NoBuffer]]
  /\ queue' = [queue EXCEPT ![d] = <<>>]
  /\ UNCHANGED <<fmtVars, streaming, codec, runVars>>

\* VIDIOC_CREATE_BUFS, with sizes of the user's choice.
CreateBuf(d, b, sizes) ==
  /\ bufs[d][b].st = "none"
  /\ Len(sizes) = Len(Vpu(d).depth)
  /\ \A i \in DOMAIN sizes : sizes[i] >= Fmt(d).sizeimage[i] /\ sizes[i] > 0
  /\ bufs' = [bufs EXCEPT ![d][b] = Buffer(sizes, "dequeued")]
  /\ UNCHANGED <<fmtVars, queue, streaming, codec, runVars>>

PlaneSize(sizes, i) == IF i <= Len(sizes) THEN sizes[i] ELSE 0

\* Mutant: the planes of the buffer are checked, not those of the format.
BufPrepareBug(d, sizes) ==
  \A i \in DOMAIN sizes : sizes[i] >= PlaneSize(Fmt(d).sizeimage, i)

\* Mutant: the first plane is not checked.
BufPrepareBug2(d, sizes) ==
  \A i \in 2 .. Len(Vpu(d).depth) :
    PlaneSize(sizes, i) >= Fmt(d).sizeimage[i]

BufPrepare(d, sizes) ==
  \A i \in 1 .. Len(Vpu(d).depth) :
    PlaneSize(sizes, i) >= Fmt(d).sizeimage[i]

\* VIDIOC_PREPARE_BUF.
PrepareBuf(d, b) ==
  /\ bufs[d][b].st = "dequeued"
  /\ BufPrepare(d, bufs[d][b].size)
  /\ bufs' = [bufs EXCEPT ![d][b] = Buffer(@.size, "prepared")]
  /\ UNCHANGED <<fmtVars, queue, streaming, codec, runVars>>

\* VIDIOC_QBUF: a buffer that is prepared is not checked again.
QBuf(d, b) ==
  /\ \/ bufs[d][b].st = "prepared"
     \/ bufs[d][b].st = "dequeued" /\ BufPrepare(d, bufs[d][b].size)
  /\ bufs' = [bufs EXCEPT ![d][b] = Buffer(@.size, "queued")]
  /\ queue' = [queue EXCEPT ![d] = Append(@, b)]
  /\ UNCHANGED <<fmtVars, streaming, codec, runVars>>

-----------------------------------------------------------------------------
(* Streaming.                                                              *)

\* Mutant: the codec is looked up the first time only.
StreamOnBug(d) ==
  /\ ~streaming[d]
  /\ Busy(d)
  /\ streaming' = [streaming EXCEPT ![d] = TRUE]
  /\ codec' = IF codec = "unset" THEN vpuDst.mode ELSE codec
  /\ UNCHANGED <<fmtVars, bufVars, runVars>>

\* VIDIOC_STREAMON, with start_streaming.
StreamOn(d) ==
  /\ ~streaming[d]
  /\ Busy(d)
  /\ streaming' = [streaming EXCEPT ![d] = TRUE]
  /\ codec' = vpuDst.mode
  /\ UNCHANGED <<fmtVars, bufVars, runVars>>

\* Mutant: the mem2mem queue is not emptied.
StreamOffBug(d) ==
  /\ run.pc = "idle"
  /\ streaming' = [streaming EXCEPT ![d] = FALSE]
  /\ bufs' = [bufs EXCEPT ![d] =
                [b \in Buf |-> IF bufs[d][b].st = "none" THEN NoBuffer
                               ELSE Buffer(bufs[d][b].size, "dequeued")]]
  /\ UNCHANGED <<fmtVars, queue, codec, runVars>>

\* VIDIOC_STREAMOFF: waits for the job, then every buffer of the queue goes
\* back to user space, prepared ones included.
StreamOff(d) ==
  /\ run.pc = "idle"
  /\ streaming' = [streaming EXCEPT ![d] = FALSE]
  /\ bufs' = [bufs EXCEPT ![d] =
                [b \in Buf |-> IF bufs[d][b].st = "none" THEN NoBuffer
                               ELSE Buffer(bufs[d][b].size, "dequeued")]]
  /\ queue' = [queue EXCEPT ![d] = <<>>]
  /\ UNCHANGED <<fmtVars, codec, runVars>>

-----------------------------------------------------------------------------
(* The job.                                                                *)

\* The planes whose addresses are programmed for Y, Cb and Cr.
PlaneRegs(numPlanes) ==
  CASE numPlanes = 1 -> <<1, 1, 1>>
    [] numPlanes = 2 -> <<1, 2, 2>>
    [] OTHER         -> <<1, 2, 3>>

\* jpeg_enc_run up to the quantization tables. With an operation table that
\* is not the encoder's, what runs is not of this driver.
RunStart ==
  /\ run.pc = "idle"
  /\ \A d \in Dirs : streaming[d] /\ queue[d] # <<>>
  /\ run' = [pc  |-> IF codec = "JPEG_ENC" THEN "started" ELSE "wild",
             OUT |-> Head(queue["OUT"]), CAP |-> Head(queue["CAP"])]
  /\ regs' = [regs EXCEPT !.rowLen = srcFmt.width, !.enc = vpuSrc.encFmt,
                          !.planes = PlaneRegs(Len(srcFmt.sizeimage))]
  /\ UNCHANGED <<fmtVars, bufVars, streaming, codec>>

\* Mutant: the macroblock counts of the coded format.
RunKickBug ==
  /\ run.pc = "started"
  /\ run' = [run EXCEPT !.pc = "busy"]
  /\ regs' = [regs EXCEPT !.mb = MbFields(MbCount(dstFmt.width),
                                          MbCount(dstFmt.height))]
  /\ UNCHANGED <<fmtVars, bufVars, streaming, codec>>

\* The rest of it: the macroblock counts, and the encoder starts.
RunKick ==
  /\ run.pc = "started"
  /\ run' = [run EXCEPT !.pc = "busy"]
  /\ regs' = [regs EXCEPT !.mb = MbFields(MbCount(srcFmt.width),
                                          MbCount(srcFmt.height))]
  /\ UNCHANGED <<fmtVars, bufVars, streaming, codec>>

\* The job ends, by the interrupt or the watchdog (job_finish in VpuJob).
\* The registers keep their values; nothing depends on them any more.
JobEnd ==
  /\ run.pc \in {"busy", "wild"}
  /\ run' = NoJob
  /\ bufs' = [d \in Dirs |-> [bufs[d] EXCEPT ![run[d]] =
                                        Buffer(@.size, "dequeued")]]
  /\ queue' = [d \in Dirs |-> Tail(queue[d])]
  /\ regs' = NoRegs
  /\ UNCHANGED <<fmtVars, streaming, codec>>

Next ==
  \/ \E f \in Fourccs, w \in Widths, h \in Heights :
       SFmtOut(f, w, h) \/ SFmtCap(f, w, h)
  \/ \E d \in Dirs :
       \/ \E B \in SUBSET Buf : ReqBufs(d, B)
       \/ \E b \in Buf : PrepareBuf(d, b) \/ QBuf(d, b)
       \/ \E b \in Buf, s \in Sizes : CreateBuf(d, b, s)
       \/ StreamOn(d)
       \/ StreamOff(d)
  \/ RunStart
  \/ RunKick
  \/ JobEnd

Spec == Init /\ [][Next]_vars

-----------------------------------------------------------------------------
(* Properties.                                                             *)

\* A buffer is queued exactly if videobuf2 has it so, it is queued once, and
\* a job works for the heads of the two queues until it ends.
TypeOK ==
  /\ streaming \in [Dirs -> BOOLEAN]
  /\ queue \in [Dirs -> Seq(Buf)]
  /\ run.pc \in {"idle", "started", "busy", "wild"}
  /\ \A d \in Dirs :
       /\ \A b \in Buf :
            /\ bufs[d][b].st \in BufStates
            /\ bufs[d][b].st = "queued"
                 <=> \E i \in DOMAIN queue[d] : queue[d][i] = b
       /\ \A i, j \in DOMAIN queue[d] : queue[d][i] = queue[d][j] => i = j
       /\ run[d] = IF run.pc = "idle" THEN None ELSE Head(queue[d])

\* The bytes the encoder fetches for Y, Cb and Cr, by its input format.
Fetched(enc, pixels) ==
  CASE enc = "YUV420P"  -> <<pixels, pixels \div 4, pixels \div 4>>
    [] enc = "YUV420SP" -> <<pixels, pixels \div 2, pixels \div 2>>
    [] OTHER            -> <<2 * pixels, 2 * pixels, 2 * pixels>>

\* What the registers make the encoder fetch lies inside the planes of the
\* frame: the line length, the input format, the plane addresses and the
\* macroblock counts are read from the context at different moments of
\* jpeg_enc_run, and the buffer was checked at QBUF, by plane sizes alone.
FetchInside ==
  run.pc = "busy" =>
    LET size  == bufs["OUT"][run["OUT"]].size
        bytes == Fetched(regs.enc, regs.rowLen * regs.mb.h * MbDim)
    IN \A c \in 1 .. 3 : bytes[c] <= PlaneSize(size, regs.planes[c])

\* Every buffer that waits for a job has the planes of its queue's format,
\* each large enough: "plane %d is too small for output", which buf_prepare
\* reports, is true of no buffer that is queued.
QueuedFit ==
  \A d \in Dirs : \A i \in DOMAIN queue[d] :
    LET size == bufs[d][queue[d][i]].size
    IN \A p \in DOMAIN Fmt(d).sizeimage :
         p <= Len(size) /\ size[p] >= Fmt(d).sizeimage[p]

\* The operation table of the context is the one of a codec whenever a job
\* runs: the mode of a raw format is -1, which is no index of the table.
CodecValid == run.pc # "idle" => codec = "JPEG_ENC"

\* The macroblock counts the encoder finds in its register are those of the
\* frame, so a frame of every size ENUM_FRAMESIZES advertises is encoded
\* whole.
WholeFrame ==
  run.pc = "busy" => /\ regs.rowLen = regs.mb.w * MbDim
                     /\ srcFmt.width = regs.mb.w * MbDim
                     /\ srcFmt.height = regs.mb.h * MbDim

\* Whatever user space does, and in whatever order it starts the queues, the
\* operation table is that of the coded format in force once both stream.
CodecFresh ==
  (\A d \in Dirs : streaming[d]) => codec = FindFormat(dstFmt.fourcc).mode

\* Whatever user space does, no step changes a format, the operation table
\* or the buffers of a job while it is on the device, although device_run
\* and jpeg_enc_run read the context without a lock.
StableJob ==
  [][run.pc # "idle" =>
       /\ UNCHANGED <<fmtVars, codec>>
       /\ run'.pc # "idle" =>
            \A d \in Dirs : bufs'[d][run[d]] = bufs[d][run[d]]]_vars

\* "Change not allowed if queue is streaming": the raw format stays as it is
\* while the OUTPUT queue streams.
RawFormatKept == [][streaming["OUT"] => UNCHANGED srcFmt]_vars

\* The formats in force are legal: the raw one within the limits of the
\* coded one, in whole macroblocks, every plane a multiple of DmaAlign; the
\* table entries the context points to are those of the formats.
LegalFormats ==
  /\ vpuSrc = FindFormat(srcFmt.fourcc)
  /\ vpuDst = FindFormat(dstFmt.fourcc)
  /\ srcFmt.width \in vpuDst.frmsize.minW .. vpuDst.frmsize.maxW
  /\ srcFmt.height \in vpuDst.frmsize.minH .. vpuDst.frmsize.maxH
  /\ srcFmt.width % MbDim = 0
  /\ srcFmt.height % MbDim = 0
  /\ Aligned(srcFmt.sizeimage)

\* Of the legal frames that hold the one asked for (clamped to the limits),
\* what TRY_FMT makes of a raw format and a size is the narrowest, and of that
\* width the lowest; it is not refused, and leaves nothing for another TRY_FMT
\* to change. (It need not have the least area: only the height is rounded for
\* DmaAlign, where one macroblock more in width may take fewer bytes.)
Least(fourcc, w, h, coded) ==
  LET fmt   == TryFmtOut(fourcc, w, h, coded)
      raw   == FindFormat(fmt.fourcc)
      Legal(x, y) == /\ x % MbDim = 0 /\ y % MbDim = 0
                     /\ Aligned(PlaneSizes(raw, x, y))
  IN /\ TryFmtOutOK(fmt, coded)
     /\ fmt.width \in ClampW(w, coded) .. coded.frmsize.maxW
     /\ fmt.height \in ClampH(h, coded) .. coded.frmsize.maxH
     /\ Legal(fmt.width, fmt.height)
     /\ \A x \in ClampW(w, coded) .. fmt.width - 1 : x % MbDim # 0
     /\ \A y \in ClampH(h, coded) .. fmt.height - 1 : ~Legal(fmt.width, y)
     /\ TryFmtOut(fmt.fourcc, fmt.width, fmt.height, coded) = fmt

\* TRY_FMT on OUTPUT finds the narrowest, then lowest, legal frame, for every
\* raw format, whatever formats have been set before. Of the state it reads
\* only the coded format, so it is tried where there are no buffers.
LeastFrame ==
  ~Busy("OUT") /\ ~Busy("CAP") =>
    \A fourcc \in EnumFmt(FALSE), w \in TryWidths, h \in TryHeights :
      Least(fourcc, w, h, vpuDst)
=============================================================================
