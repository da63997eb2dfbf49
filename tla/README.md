# Rockchip VPU V4L2 driver: specification, model checking and proofs

The repository is an out-of-tree Linux driver for the Rockchip video processing
unit of the RK3288 and RK3399: a mem2mem (m2m) video node that encodes raw
frames to JPEG, and the beginnings of a decoder node. This directory holds a
TLA+ development of it: modules translated from the source, TLC runs on small
instances, and TLAPS proofs for all instances.

## 1. Inventory

| Part | Source | State | Operations |
| --- | --- | --- | --- |
| Job control | `rockchip_vpu_drv.c` 43-120, `*_vpu_hw.c` interrupt and reset, `*_jpeg_enc.c` run, `rockchip_vpu_enc.c` 548-594 | the m2m job list and current context, the buffer queues, the timer of `watchdog_work`, the encoder's registers, the runtime-PM count | `device_run`, codec `run` and `reset`, `vepu_irq`, `irq_done`, `watchdog`, `job_finish`, `buf_queue`, `start_streaming`, `stop_streaming` |
| Format negotiation | `rockchip_vpu_enc.c` 33-431, 461-546, format tables of `*_vpu_hw.c` | per context: source and destination format, colour description, the buffers and queues | TRY/S/G_FMT, ENUM_FMT, ENUM_FRAMESIZES, `queue_setup`, `buf_prepare` |
| JPEG registers | `*_jpeg_enc.c`, `*_vpu_regs.h`, `rockchip_vpu_drv.c` 58-59 | the encoder's register file, the control's tables, two sequence numbers per context | `set_src_img_ctrl`, `set_buffers`, `set_qtable`, the control words, the numbering in `job_finish` |
| Open and controls | `rockchip_vpu_drv.c` 158-291 | per file: the context, its m2m context, controls | `open`, `release`, `ctrls_setup`, `find_control_data` |
| Probe and remove | `rockchip_vpu_drv.c` 317-598 | runtime PM, clocks, V4L2 device, m2m devices, video nodes, media device | `probe`, `remove` and their error paths |
| Power management | `rockchip_vpu_drv.c` 600-620 | clocks | runtime suspend and resume, system sleep |
| Decoder | `rockchip_vpu_dec.c`, `*_h264_dec.c` | none reachable | ioctls; open of the node always fails |

How they meet: ioctls run under one `vpu_mutex`, the lock of both nodes and of
all queues; `device_run` runs in whatever context the m2m framework schedules it
(QBUF, STREAMON, or `job_finish` of the previous job); the interrupt handler and
the watchdog worker run beside all of these and share
`rockchip_vpu_job_finish`; `irqlock`, which `rockchip_vpu.h:129` says protects
what is shared with interrupt handlers, is initialised and never taken. What is
hard is therefore the hand-over of one job between these actors, the wait of
STREAMOFF for a job that only a handler can end, and the reuse, in the handlers,
of "the current context" and "the head of the queue" instead of the values
`device_run` had. The hazards, each at its line, are in `PROJECT.json`.

Correctness, part by part:

* *Job control*: the pair returned is the pair encoded, with the true result, in
  order; nobody touches a buffer user space has back; a stopped context is at
  rest; the device is set up and clocked when it works; every job ends; every
  context gets its turn.
* *Format negotiation*: a format is always one of the table, aligned, within the
  limits; TRY predicts S_FMT and is idempotent; the active format never
  contradicts the buffers queued for it.
* *Registers*: fields hold what is put into them; planes are where the format
  says; a job finds its own file's tables in them, not those of the job before;
  a frame and its JPEG carry one number.
* *Open, probe, remove*: a failed step leaves nothing behind, nothing is released
  twice or before what needs it; whoever can open a node finds a complete device.

## 2. Plan

Done:

1. `VpuJob`, `FrameService` and the refinement: the most important behaviour and
   the one with the most concurrency.
2. Proofs about `VpuJob`: type correctness, the job list, the one-actor
   invariant, the buffers.
3. `FormatCalc` (the arithmetic of TRY_FMT) and `EncFormat` (S_FMT, buffers,
   streaming, the registers that follow from the formats), with proofs for every
   size.
4. `EncJob`: what jobs take and leave besides formats, the quantization tables
   and the sequence numbers, as an extension of `EncFormat` that is proved to
   implement it.
5. `VpuNode`: probe with its error path, remove, open and release, and the order
   in which nodes become reachable; with proofs for any number of files.
6. TRY_FMT as the narrowest, then lowest, legal frame, proved for every size
   (`FormatProofs`, and as the run states it in `CarefulProofs`).
7. The refinement of `FrameService` as a theorem (`ServiceCorrect`).
8. The safety under the liveness of `VpuJob`: no lost wake-up, one job per stop,
   a job always in somebody's hands and nearer its end with each of its steps;
   proved.
9. `JobSlot`: the contract between `VpuJob`, where a job ends, and `EncFormat`,
   where it reads formats and writes registers; both proved to implement it.

What is left is under section 7, with the reason.

## 3. Modules

| Module | What it is |
| --- | --- |
| `VpuJob` | the life of a job; state, one action per statement group of each handler, properties |
| `FrameService` | what the node promises to one client: pairs, in order, until a stop |
| `JobSlot` | what a job is to the files it works for: the one pair of buffers it holds, until both are back |
| `VpuJobRefinement` | `VpuJob` maps to `FrameService` and to `JobSlot` |
| `MCVpuJob` | constants, symmetry and the bound of the racing run |
| `VpuJobInv` | the inductive invariants |
| `VpuJobProofs` | types and job list, however the watchdog races; one actor per job |
| `VpuBufProofs` | the buffers of a job, and its way from start to end |
| `VpuServiceProofs` | `VpuJob` implements `FrameService` and `JobSlot` |
| `FormatCalc` | the format tables, TRY_FMT, plane sizes, the size fields of the control register, as operators |
| `EncFormat` | the formats, buffers and streaming of one open file, one action per ioctl; a job in three steps; properties |
| `EncFormatRefinement` | `EncFormat`, as one file, maps to `JobSlot` |
| `MCEncFormat` | sizes, formats and buffer layouts for TLC |
| `FormatProofs` | TRY_FMT returns a legal frame, the narrowest and then lowest, for every size |
| `EncFormatProofs` | what holds of `EncFormat` whatever user space does |
| `CarefulProofs` | what holds for a user who keeps to `Careful` |
| `EncJob` | `EncFormat` with the quantization tables and the sequence numbers |
| `MCEncJob` | its constants for TLC |
| `EncJobProofs` | `EncJob` implements `EncFormat`; its own properties; `EncFormat` implements `JobSlot` |
| `VpuNode` | probe, its error path, remove; open and release of files beside them |
| `VpuNodeProofs` | the theorems about `VpuNode` |

### VpuJob and the code

Actors, each with a program counter: per context a thread that stops (`stop`);
the thread inside `device_run` (`run`); the interrupt handler and the worker
(`fin["irq"]`, `fin["wd"]`), which go through the statements of
`rockchip_vpu_job_finish` one by one (`FinSrc` 50, `FinDst` 51, `FinWarn` 53-56,
`FinSrcDone` 70, `FinDstDone` 71, `FinJob` 73, `FinPut` 75-76 of
`rockchip_vpu_drv.c`); the encoder (`hw`) and the timer (`timer`). A step of a
handler is as large as the code allows other actors to observe: reading the
current context and cancelling the timer are separate (83-84, 89), and so are
programming, arming the timer and the write that starts the encoder.

The m2m, videobuf2 and runtime-PM frameworks are not in the repository. Their
operations are modelled, each as one step, from how the driver calls them, and
are marked external in `PROJECT.json`: a list of contexts that wait, one current
context, TRANS_ABORT while a stop is in progress, a wait without a time limit
for the current job, a scheduler that runs the head of the list.

Abstracted: payload, timestamps and `bytesused`; sequence numbers (in `EncJob`); the two SoC
variants, which differ in registers but not in this control; formats (in
`EncFormat`). `pm_runtime_get_sync` is taken to succeed. `device_run` is modelled as
one thread, since the framework allows one current context. A buffer queued
before STREAMON waits in vb2 and is passed on, in order, at STREAMON: one queue
stands for both lists, and jobs need both queues streaming.

`overdue` is a history variable (the 2000 ms of this job have passed), used by
`ResetOnlyOnTimeout` only. The timer does not expire between
`schedule_delayed_work` and the register write after it: a thread held up there
for two seconds is left out.

### JobSlot: what the two models of a job have in common

`VpuJob` has the actors of a job and no formats; `EncFormat` has formats and one
abstract job, `RunStart`, `RunKick`, `JobEnd`, whose end is one action. `JobSlot`
is what the second takes from the first. A client's buffers wait in order
(`pend`); `Load` makes the heads of its two queues the job of the device, which
has none; `Return` gives buffers of the job back, together or one by one; `Stop`
empties queues, never while the client has a job. In `VpuJob` the job is loaded
by `RunProgram` and its buffers return at `FinSrcDone` and `FinDstDone`, one by
one; in `EncFormat` it is loaded by `RunStart` and returned whole by `JobEnd`.
That both implement `JobSlot` says that the formats a job reads cannot change for
a reason `EncFormat` leaves out (a queue stopped or emptied under the job, a
second job for the file), and that no order of the actors in `VpuJob` shows a
file more than `JobEnd` does.

### The constant Timely

An encode that ends takes milliseconds, the watchdog's limit is 2000 ms. With
`Timely = TRUE` a timer expires only for an encoder that hangs; every property
holds. With `Timely = FALSE` it may expire at any time after the kick, as when
an encode, or the interrupt that reports it, is late by seconds; then the worker
and the interrupt handler work on one job, and properties that hold otherwise are
violated (section 5). `TypeOK` and `JobListSound` hold either way.

### EncFormat and the code

One open file of the encoder node. `vpu_mutex` serialises its ioctls, so each is
one action with the whole handler in it: `SFmtOut` and `SFmtCap` are
`vidioc_s_fmt_out` and `vidioc_s_fmt_cap` of `rockchip_vpu_enc.c`, with the
refusals in their order, TRY_FMT, and for CAPTURE the reset of the raw format;
`ReqBufs` and `CreateBuf` are the two cases of `rockchip_vpu_queue_setup`;
`PrepareBuf` and `QBuf` call `rockchip_vpu_buf_prepare` unless the buffer is
prepared already; `StreamOn` chooses the operation table. A refused ioctl
changes nothing that is modelled, so it is no step. `device_run` takes no lock:
`RunStart` is `jpeg_enc_run` up to the plane addresses, `RunKick` the macroblock
counts and the start, and ioctls may come in between. `JobEnd` is what
`job_finish` does to the two buffers; the actors that end a job are in `VpuJob`.

`FormatCalc` has the arithmetic with its widths where they matter: a count is
masked to nine bits on the RK3399, and spills into the neighbouring field on the
RK3288. Table, limits and alignments are the source's numbers.

Abstracted: the colour description (stored and returned, read by nothing) and
the field; `bytesperline`; a `sizeimage` set by the user for planes the driver
leaves alone (taken as 0); whether a finished buffer has been dequeued. The sizes of planes stay far below 2^32 and are not
wrapped. With an operation table at index -1 what runs is undefined; the model
stops at "wild", a job that ends.

`TryWidths` and `TryHeights` are the sizes `LeastFrame` asks TRY_FMT for;
`Widths` and `Heights` those of S_FMT.

`Careful = TRUE` restricts user space, not the driver: it sets a format only
while no frame is prepared or queued (for CAPTURE: no JPEG buffer either), and
only one that ENUM_FMT lists for the queue or one the driver does not know and
replaces. The driver does not enforce either; section 5 shows what happens
otherwise.

### EncJob and the code

`EncJob` EXTENDS `EncFormat` and adds to its actions. `JobStart`, `SetCoef`,
`JobKick` are one `jpeg_enc_run`: `RunStart` of `EncFormat`, the loop of
`set_qtable` one coefficient at a time (`rk3288_vpu_hw_jpeg_enc.c` and the
RK3399's), `RunKick`. A step per coefficient is as fine as the race is:
`find_control_data` gives the address of the control's value, `set_qtable` reads
it without a lock, and the control framework copies a new value over it
(`StoreCoef`). A table is represented by which S_CTRL each of its coefficients
is from, the registers by the same, or `Foreign` after another file's job.
`StoreCoef` takes the coefficients in order; other ioctls of the file wait for
it under `vpu_mutex`. `JobStreamOn` resets the number of its own queue
(562-564), `JobDone` gives the frame and the JPEG each queue's next number
(`rockchip_vpu_drv.c` 58-59), modulo 2^`SeqWidth`. `since` and `apart` are
history variables.

### VpuNode and the code

`Probe` lists what `rockchip_vpu_probe` and the two `register` functions acquire,
in their order. `ProbeStep` is a step that succeeds, `ProbeFail` one that fails
and jumps: `Goto` has the label of each, `Undo` what the labels release as they
fall through, those inside the two register functions included. `Remove` is the
list of `rockchip_vpu_remove`, in its own order. `held` is the set of what the
driver has, `twice` what was released without being held. What devres manages
(`devm`: the structure, handles of clocks, mapping, interrupts) goes as one thing,
after the driver's own code. Steps whose result the code does not look at, or
that return nothing, cannot fail.

A node is open to user space as long as its `reg_` is held, and `open` asks for
no lock. `OpenStart` reads the driver data and which node it is. `OpenM2m` calls
`v4l2_m2m_ctx_init` and then puts the file's handle on the node's list
(`v4l2_fh_init`, `v4l2_fh_add`, 251-253), which is part of the node's
`video_device` (`List`). `OpenDone` and `OpenCtrlsFail` are the end of
`ctrls_setup`: the failure takes the handle off the list and frees the context
(`err_fh_free`, 268-272). What a file had set up and its end did not free stays
in `lost`; in this code that is the m2m context of `OpenCtrlsFail`, a leak no
property speaks of. A handle in `lost` would be on the node's list and in freed
memory, and the next thread that adds or deletes a handle would follow it
(`Die`). `OpenDone` may leave a file without controls, since `ctrls_setup`
returns an error code that `v4l2_ctrl_handler_free` has cleared (205-206). A
thread that follows a pointer to something that is not there is `dead`; the model
says no more of it.
`video_unregister_device` frees the `video_device` by its `.release`, unless a
file still refers to it: then its last close does.

## 4. Runs

| Run | Instance | Shows |
| --- | --- | --- |
| `VpuJob_client` | 1 context, 2 buffers per queue, `FairSpec` | `RightPair`, `TruthfulResult`, `ReadyToRun`, `NoDmaAfterReturn`; `ServiceSafety`: `VpuJob` implements the safety part of `FrameService`, `SlotSafety`: it implements `JobSlot`, and `ServiceLiveness`: the fairness of `FrameService`; `JobFinishes`, `StopReturns`. Two buffers are what it takes to mix up heads and tails while QBUF goes on |
| `VpuJob_device` | 2 contexts, 1 buffer, `FairSpec` | `SafeToReturn`, `Configured`, `Powered`, `PmBalance`, `ResetOnlyOnTimeout`: two contexts are what it takes for the next job to start while a handler still has the last, and for a turn to be lost: `Listed` (a context that has all a job needs is on the job list or on the device), `WaitsOnce` (a stopping context gets no further job); `InHand` and `JobShrinks`: a job is always some actor's to bring on, and each of that actor's steps brings it nearer its end; `NoStarvation`: a pair that can come back does, for each of two clients that compete for the device |
| `VpuJob_race` | 1 context, 1 buffer, `Timely = FALSE` | `TypeOK`, `JobListSound` under the race; every action fires, `FinWarn` included |
| `EncFormat_careful` | 2 buffers per queue, RK3399, 3 fourccs, two heights, CREATE_BUFS with a small 3-plane and a large 1-plane size; `Careful` | `TypeOK`, `FetchInside`, `QueuedFit`, `CodecValid`, `WholeFrame`, `LegalFormats`: two frame sizes and two layouts are what it takes for a buffer that fits one format and not the next. `LeastFrame`, for the four raw formats and 6 widths by 6 heights: below the limits, between macroblocks, at an odd count (where the RK3399 rounds the height), at and above the limits. `SlotSafety`: it implements `JobSlot` |
| `EncFormat_anyuser` | `MCEncJob`: 1 buffer, RK3288, not `Careful`, 2 coefficients, one S_CTRL | `CodecFresh`, `StableJob`, `OwnTables`, `SameNumber` whatever user space does |
| `VpuNode_life` | 2 files | `TypeOK`, `ProbeUndone`, `NodeBacked`, `ReleasedOnce`, `BoundFilesLive`: probe fails at every step, remove runs at any time, files come and go beside both; two files are what it takes for a close to leave, or not to leave, the node to another, and for one to follow the handle that another has left |

The runs that expect a violation (`VpuJob_race_wedge`, `EncFormat_reset`,
`EncFormat_mode`, `EncFormat_stale`, `EncFormat_max`, `VpuNode_open`) are in
section 5.

Bounds. The states of `EncFormat` are finite without any: formats come from the
sizes asked for. In `EncJob`, `NumCoef = 2` is the smallest table that can be
mixed of two, `TableBound = 1` is one S_CTRL before, during or after the copy,
and `SeqWidth = 2` lets the numbers wrap; the proofs hold for all three. The
states of `VpuNode` are finite: there is no second probe. `UsageBound` caps the usage count at 3 either way; in the timely runs it
stays within 0..3 (`PmBalance`), so the cap is never reached there. `RaceBound`
(run `VpuJob_race` only) stops at states that the race has already spoilt: an
encoder, `device_run` or a handler that works for no current job, or a usage
count outside 0..2; the states behind them are unbounded in number of
consequences but not in kind. `CHECK_DEADLOCK FALSE` is set with `Timely = FALSE`, where the device may wedge
for good, and for `VpuNode`, where nothing is left to do once the driver is gone.
Contexts and buffers are symmetric in `VpuJob_race` and `EncFormat_careful`; runs
with liveness or refinement use no symmetry.

Fairness (`FairSpec`): a runnable thread, worker or interrupt handler runs
(`Stop(c)`, `DeviceRun`, `Irq`, `Watchdog`), as the kernel's scheduler
guarantees, and the encoder ends or hangs (`HwStep`). User space is not fair: it
need not call anything.

## 5. Disagreements between the code and what it says

One is about jobs. `cancel_delayed_work` (`rockchip_vpu_drv.c:89`) does not wait
for a worker that has started, as the comment above it says, and no lock makes
the two handlers exclude each other.

* `VpuJob_race_wedge`: each handler gets one half of the pair, both return early
  at the `WARN_ON`s of `rockchip_vpu_job_finish`, nobody calls
  `v4l2_m2m_job_finish` and no timer is left: the device stays occupied and
  STREAMOFF waits for ever with `vpu_mutex` held.

The same race has milder outcomes: with `Timely = FALSE` TLC also finds `NoWarn`
violated, `SafeToReturn` (a handler is still finishing a job of the context when
`stop_streaming` runs, against the comment at `rockchip_vpu_enc.c:579`), and
`ResetOnlyOnTimeout` (a worker that started for the last job resets the encoder
under the next, against `rockchip_vpu_hw.h:36`).

Four are about formats:

* `EncFormat_reset`: S_FMT on CAPTURE resets the raw format while OUTPUT
  streams, where S_FMT on OUTPUT itself would be refused
  (`rockchip_vpu_enc.c:345`, 425, 429).
* `EncFormat_mode`: TRY_FMT on CAPTURE accepts the raw formats, whose mode is
  -1, and STREAMON indexes the operation table with it (566-570).
* `EncFormat_stale`: S_FMT does not ask whether its own queue has buffers; those
  accepted before it can be too small for the new format (365, 539).
* `EncFormat_max`: the advertised maximum of 8192 is 512 macroblocks, one more
  than the RK3399's fields hold (`rk3399_vpu_regs.h:257`). On the RK3288 a
  height of 512 macroblocks sets the lowest bit of the width.

One is about nodes.

* `VpuNode_open`: open takes no lock, because it reads fields "which do not
  change through device's lifetime (which is guaranteed by reference on module
  from open())" (`rockchip_vpu_drv.c:226-233`). But the node is registered at
  354 and its driver data is set at 369-370: an open in between finds none. The
  reference on the module does not keep the device either when it is unbound
  (`remove` releases the m2m device before the node, and never unregisters the
  decoder's), nor while probe undoes a later failure.

## 6. Proofs

For all sets of contexts and buffers (`CtxAssumption`, `BufAssumption`,
`UsageAssumption`):

* `TypeCorrect`, `JobListCorrect` (`VpuJobProofs`) hold whatever the watchdog
  does. `JobListSound` is not inductive: that a stopping context stays off the
  list needs TRANS_ABORT to be set while a thread stops it (`ListInv`).
* With `Timely` (same module): `PhaseInv` says which actor has the job in
  hand, and that the others rest: `device_run`, then the encoder with the timer
  armed, then the interrupt handler, or the worker after a hang, then
  `job_finish` with the timer off. Each action of `Next` moves the job from one
  phase to the next. `SafeToReturn`, `TruthfulResult`, `Configured` and
  `ResetOnlyOnTimeout` follow, and, with the exact usage count in `PmInv`,
  `PmBalance` (`PmCorrect`) and `Powered` (`PoweredCorrect`). Without
  `PhaseInv` none of these is inductive: each must exclude a second actor at work on the same job.
* With `Timely` (`VpuBufProofs`): `BufInv` says that the job's buffers are the
  heads of their queues until `job_finish` takes them, that queues have no
  duplicates and hold only buffers the driver owns, and that a context on the
  job list has a buffer in each queue. `ReadyToRun`, `RightPair` with `NoWarn`,
  and `NoDmaAfterReturn` follow.
* With `Timely` (`ServiceCorrect`, `VpuServiceProofs`): `VpuJob` implements
  `FrameService`. A buffer a handler has taken off its queue is still pending, so
  `FinSrc` and `FinDst` are stutters, `FinSrcDone` and `FinDstDone` are the two
  halves of a return, `StopStreaming` is the end of a stop, and the rest of
  `device_run`, the encoder and the handlers is invisible. Besides the invariants
  above it takes that a stop stops some queue (`StopInv`) and that the context on
  the device has both queues streaming (`StreamInv`); `SafeToReturn` is what
  keeps a stop from coming between the halves.
* With `Timely` (`SlotCorrect`, same module): `VpuJob` implements `JobSlot`.
  `ServiceMoves` is the step lemma of both refinements: it says how each action
  changes what is pending. `JobStays` adds which actions leave the job alone, and
  `BufInv` that what returns is the head of what is pending. That a stop empties
  nothing of a job is again `SafeToReturn`.

Under each liveness property of `VpuJob` there is safety that does the work, and
that is proved; what TLC adds is fairness.

* `ListedCorrect` (`VpuJobProofs`, whatever the watchdog does): no wake-up is
  lost. `v4l2_m2m_try_schedule` does nothing when the context has a job already,
  is being stopped or lacks a buffer, and relies on whoever changes that to call
  it again: QBUF, STREAMON, `job_finish`. The stop path does not call it and need
  not: it ends with a queue that does not stream, by `StopInv`.
* `WaitsCorrect` (same module, whatever the watchdog does): a context that is
  being stopped gets no further job. With `JobFinishes` it gives `StopReturns`.
  That the job list is first in, first out, which `NoStarvation` needs as well,
  is the framework's and is not stated.
* `InHandCorrect` and `ShrinkCorrect` (`VpuBufProofs`, with `Timely`): a job on
  the device is always some actor's to bring on, so the device cannot wedge, and
  `StepsLeft`, a natural number no larger than 14, falls with each step of that
  actor, while no other step touches the job. `PhaseInv` is what they need; the
  argument goes through a table of `StepsLeft` by phase (`TableCorrect`), since
  `StepsLeft` itself chooses a handler. Without `Timely` `InHand` is false:
  the wedge that `VpuJob_race_wedge` finds is a state where nobody has the job.

For every set of buffers, of fourccs, of natural widths and heights and of
CREATE_BUFS sizes, for both values of `DmaAlign` and `Soc` (`DmaAlignAssumption`,
`SocAssumption`, `SizeAssumption`, `CarefulAssumption`, `NoneAssumption`):

* `TryFmtLegal` (`FormatProofs`): what TRY_FMT returns is legal and never
  refused. The heart is `PlaneAligned`: with whole macroblocks across and a
  height that is a multiple of `DmaAlign / 4`, each plane is a multiple of
  `DmaAlign`, for every depth of the table; that is why `dma_align * 4 / MB_DIM`
  is the right rounding.
* `TryFmtLeast` (`FormatProofs`): of the legal frames that hold the one asked
  for, it is the narrowest, and of that width the lowest, and a second TRY_FMT
  leaves it alone. No multiple of 16 lies between a width and the width rounded
  (`RoundLeast`, `NextMultiple`); a height rounded to `DmaAlign / 4` has at most
  one multiple of 16 below it that is still large enough, and that one was not
  aligned (`AlignHeightLeast`). It is not always the frame of least area: with
  three planes on the RK3399, 112x48 becomes 112x64, though 128x48 is legal and
  smaller, because only the height is rounded for `DmaAlign`. `LeastCorrect`
  (`CarefulProofs`) is the run's `LeastFrame` for every set of sizes.
* Whatever user space does (`EncFormatProofs`): `CodecFresh` follows from
  `FreshInv`, which adds that `vpu_dst_fmt` is the entry of the format and that
  jobs run only while both queues stream. `QueueInv` adds the buffers and the
  queues, and gives `TypeOK`. `StableJob` follows from both: every ioctl that
  could take something from a job requires a queue that does not stream, or
  waits for the job.
* `EncSlotCorrect` and, for `EncJob`, `JobSlotCorrect` (`EncJobProofs`): whatever
  user space does, queues and jobs move as `JobSlot` says; `QueueInv` and
  `FreshInv` are all it takes.
* With `Careful` (`CarefulProofs`): `CarefulInv` (the raw format legal, the
  coded one JPEG) gives `LegalFormats` and, with `FreshInv`, `CodecValid`.
  `FitInv` (accepted buffers fit the format in force) gives `QueuedFit`; it must
  speak of prepared buffers too, since QBUF does not check those again.
* With `Careful` (same module): `RegInv` (the registers are those of the
  formats in force) needs `StableJob`'s step lemma, and with `FitInv` and the
  arithmetic of `FetchedBytes` gives `FetchInside`. `WholeFrame` needs the
  further assumption `SmallAsked`, at most 8176 by 8160, and is false without.

For any number of coefficients, any bound on S_CTRL and any width of the
sequence numbers (`CoefAssumption`, `SeqAssumption`), whatever user space does
(`EncJobProofs`):

* `JobImplementsFormat`: `JobSpec` implements `Spec` of `EncFormat`. Every
  theorem about `EncFormat` holds of `EncJob` too.
* `OwnTablesCorrect` from `TableInv`: the coefficients before `next` are between
  the tables in force when the job started and the newest; the control's value is
  the new table up to some coefficient and the old one from there.
* `SameNumberCorrect` from `SeqInv`: while `apart` is false a queue that streams
  alone has number 0, and two that stream have the same; jobs run only while both
  do.

For any number of files (`VpuNodeProofs`): `IInv` says where in the list the
thread is by what is held (`ProbeInv` on the way up, `LetGoInv` on the way down),
when the `video_device` of a node is there (`VfdInv`, which needs the files that
refer to it), and what a file owns at each stage of open (`FileInv`).
`ProbeUndone`, `NodeBacked`, `ReleasedOnce` and `BoundFilesLive` follow; the last
also needs that nothing but an m2m context is ever left behind. None is inductive alone: each has to know what the list has done so far.

The invariants of `VpuJob` and their strengthenings were checked by TLC first.
Only model-checked: the four liveness properties (`JobFinishes`, `StopReturns`,
`ServiceLiveness`, `NoStarvation`), whose last step, from the theorems above to
"eventually", needs fairness and ENABLED, and an induction over `StepsLeft` and
the place on the job list. Every invariant and every action property that a
passing run checks is a theorem.

## 7. Not modelled

* The decoder: `rockchip_vpu_open` refuses its node with -ENODEV
  (`rockchip_vpu_drv.c:243`), both nodes carry the encoder's ioctls (312), and
  the H.264 file is a table and commented-out code.
* The register fields that are constants of the code (byte swapping, burst
  lengths, filter settings) and the packing of fields into words, apart from the
  macroblock counts: nothing in the repository says what the words should be.
* A coefficient cut to 8 bits when it is packed: the range of the control is the
  kernel's to check.
* System sleep (`rockchip_vpu_drv.c` 600-620): `pm_runtime_force_suspend` gates
  the clocks under a job, a handler or the worker. What a register access without
  clocks does, and when the worker's timer runs during sleep, is outside the
  repository, and nothing in it says what should happen to a job then.
* A failing `pm_runtime_get_sync`, whose result `device_run` does not look at,
  for the same reason.
* A second probe after `remove`, and a job on the device while `remove` runs
  (which does not cancel the watchdog): `VpuNode` has no jobs and `VpuJob` no
  removal. The enable count of the clocks at `remove` belongs to the clock
  framework.
* The second release of a `video_device` that `video_unregister_device` has
  freed: `ReleasedOnce` shows it is the only thing released twice, and exempts
  it.
* The colour description and the field, which the driver stores and returns.
* Logging, register access macros, the build.
