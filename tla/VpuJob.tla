------------------------------- MODULE VpuJob -------------------------------
(***************************************************************************)
(* The life of one encoding job: rockchip_vpu_drv.c, the interrupt         *)
(* handlers and reset of rk3288_vpu_hw.c and rk3399_vpu_hw.c, the run      *)
(* handlers of the two JPEG encoder files and the buffer callbacks of      *)
(* rockchip_vpu_enc.c.                                                     *)
(*                                                                         *)
(* Actors that really run side by side, each with a program counter:       *)
(*   - threads in an ioctl or in close(2), one per context (stop);         *)
(*   - the mem2mem scheduler that calls device_run (run);                  *)
(*   - the encoder interrupt handler and the watchdog worker, which share  *)
(*     rockchip_vpu_job_finish (fin["irq"], fin["wd"]);                    *)
(*   - the encoder hardware (hw) and the watchdog's timer (timer).         *)
(* The mem2mem and videobuf2 frameworks are not in the repository; their   *)
(* operations are modelled from the calls the driver makes to them.        *)
(***************************************************************************)
EXTENDS Integers, SequencesExt

CONSTANTS
  Ctx,         \* open files of the encoder node (struct rockchip_vpu_ctx)
  Buf,         \* buffer indices of a vb2 queue
  None,        \* the NULL pointer
  Timely,      \* TRUE: an encode that does end, ends well within the 2000 ms
               \* of the watchdog, so only a hung encoder lets it expire.
               \* FALSE: the watchdog may expire at any time after the kick
  UsageBound   \* bound on the runtime-PM usage count (see PmGet, PmPut)

ASSUME CtxAssumption    == None \notin Ctx
ASSUME BufAssumption    == None \notin Buf
ASSUME TimelyAssumption == Timely \in BOOLEAN
ASSUME UsageAssumption  == UsageBound \in Nat /\ UsageBound >= 3

VARIABLES
  open,       \* per context: "closed", "open" or "closing" (in release)
  stop,       \* per context: the thread inside STREAMOFF or release
  streaming,  \* per context: the queues that are streaming
  queue,      \* per context and queue: the buffers queued, oldest first
  active,     \* per context and queue: the buffers user space has given away
  curr,       \* the context whose job occupies the device (m2m_dev->curr_ctx)
  jobq,       \* contexts whose next job waits for the device
  abort,      \* per context: TRANS_ABORT
  run,        \* the thread inside device_run
  regs,       \* context and buffers the address registers were written with
  axi,        \* the AXI control register holds the encoder's configuration
  hw,         \* state of the encoder and what became of the last start
  timer,      \* watchdog_work's timer: "off", "armed" for the job on the
              \* device, or "stale", armed for an earlier one
  overdue,    \* history: the 2000 ms of the job on the device have passed
  fin,        \* the interrupt handler and the watchdog worker
  usage,      \* runtime-PM usage count
  clocks      \* the clocks are enabled

userVars == <<open, stop>>
vb2Vars  == <<streaming, queue, active>>
m2mVars  == <<curr, jobq, abort>>
hwVars   == <<regs, axi, hw>>
wdVars   == <<timer, overdue>>
pmVars   == <<usage, clocks>>
vars == <<userVars, vb2Vars, m2mVars, run, hwVars, wdVars, fin, pmVars>>

Dirs     == {"out", "cap"}    \* V4L2 OUTPUT (raw frames) and CAPTURE (JPEG)
Handlers == {"irq", "wd"}

(***************************************************************************)
(* What the frameworks do.                                                 *)
(***************************************************************************)
\* One vpu_mutex is the lock of both video devices and of all their queues:
\* an ioctl runs only while no other ioctl does. Only STREAMOFF can wait
\* while it holds the mutex; release does not take it.
MutexFree == \A c \in Ctx : open[c] = "open" => stop[c].pc = "idle"

HeadOrNone(s) == IF s = <<>> THEN None ELSE Head(s)
TailOrEmpty(s) == IF s = <<>> THEN <<>> ELSE Tail(s)

\* list_del of the context's entry, if it is on the list.
Without(s, c) ==
  IF c \in ToSet(s) THEN RemoveAt(s, CHOOSE i \in DOMAIN s : s[i] = c) ELSE s

\* Mutant: the check of TRANS_ABORT forgotten.
TryQueueBug(c, strm, q, cur) ==
  IF /\ strm = Dirs
     /\ \A d \in Dirs : q[d] # <<>>
     /\ cur # c /\ c \notin ToSet(jobq)
  THEN Append(jobq, c) ELSE jobq

\* A job needs both queues streaming and a buffer ready in each; a context
\* being stopped, waiting already or on the device is not queued again.
TryQueue(c, strm, q, cur) ==
  IF /\ strm = Dirs
     /\ \A d \in Dirs : q[d] # <<>>
     /\ ~abort[c]
     /\ cur # c
     /\ c \notin ToSet(jobq)
  THEN Append(jobq, c)
  ELSE jobq

PmGet == /\ usage'  = IF usage < UsageBound THEN usage + 1 ELSE usage
         /\ clocks' = TRUE
PmPut == /\ usage'  = IF usage > -UsageBound THEN usage - 1 ELSE usage
         /\ UNCHANGED clocks

(***************************************************************************)
(* Initial state: the driver is probed, the node is closed, the device is  *)
(* runtime suspended.                                                      *)
(***************************************************************************)
IdleStop    == [pc |-> "idle", dirs |-> {}]
IdleRun     == [pc |-> "idle", ctx |-> None]
IdleHandler == [pc |-> "idle", ctx |-> None, src |-> None, dst |-> None,
                res |-> "ERROR"]

Init ==
  /\ open      = [c \in Ctx |-> "closed"]
  /\ stop      = [c \in Ctx |-> IdleStop]
  /\ streaming = [c \in Ctx |-> {}]
  /\ queue     = [c \in Ctx |-> [d \in Dirs |-> <<>>]]
  /\ active    = [c \in Ctx |-> [d \in Dirs |-> {}]]
  /\ curr      = None
  /\ jobq      = <<>>
  /\ abort     = [c \in Ctx |-> FALSE]
  /\ run       = IdleRun
  /\ regs      = [ctx |-> None, src |-> None, dst |-> None]
  /\ axi       = FALSE
  /\ hw        = [st |-> "idle", outcome |-> "none"]
  /\ timer     = "off"
  /\ overdue   = FALSE
  /\ fin       = [h \in Handlers |-> IdleHandler]
  /\ usage     = 0
  /\ clocks    = FALSE

(***************************************************************************)
(* System calls.                                                           *)
(***************************************************************************)
\* open(2) of the encoder node.
Open(c) ==
  /\ open[c] = "closed"
  /\ open' = [open EXCEPT ![c] = "open"]
  /\ UNCHANGED <<stop, vb2Vars, m2mVars, run, hwVars, wdVars, fin, pmVars>>

\* QBUF: the buffer joins the tail of its queue (buf_queue), and a job is
\* queued if that made one possible. A buffer queued before STREAMON waits
\* in vb2's list and is handed on, in the same order, by STREAMON.
QBuf(c, d, b) ==
  /\ open[c] = "open" /\ MutexFree
  /\ b \notin active[c][d]
  /\ queue'  = [queue EXCEPT ![c][d] = Append(@, b)]
  /\ active' = [active EXCEPT ![c][d] = @ \cup {b}]
  /\ jobq'   = TryQueue(c, streaming[c], queue'[c], curr)
  /\ UNCHANGED <<userVars, streaming, curr, abort, run, hwVars, wdVars, fin,
                 pmVars>>

\* STREAMON: start_streaming always succeeds.
StreamOn(c, d) ==
  /\ open[c] = "open" /\ MutexFree
  /\ d \notin streaming[c]
  /\ streaming' = [streaming EXCEPT ![c] = @ \cup {d}]
  /\ jobq' = TryQueue(c, streaming'[c], queue[c], curr)
  /\ UNCHANGED <<userVars, queue, active, curr, abort, run, hwVars, wdVars,
                 fin, pmVars>>

\* STREAMOFF and release first cancel the context's job: no new one may be
\* queued, a waiting one is withdrawn.
CancelJob(c, D) ==
  /\ stop[c].pc = "idle"
  /\ stop'  = [stop EXCEPT ![c] = [pc |-> "wait", dirs |-> D]]
  /\ abort' = [abort EXCEPT ![c] = TRUE]
  /\ jobq'  = Without(jobq, c)
  /\ UNCHANGED <<vb2Vars, curr, run, hwVars, wdVars, fin, pmVars>>

StreamOff(c, d) ==
  /\ open[c] = "open" /\ MutexFree
  /\ CancelJob(c, {d})
  /\ UNCHANGED open

Release(c) ==
  /\ open[c] = "open"
  /\ open' = [open EXCEPT ![c] = "closing"]
  /\ CancelJob(c, Dirs)

\* Mutant: stop_streaming without waiting for the job.
CancelWaitBug(c) ==
  /\ stop[c].pc = "wait"
  /\ stop' = [stop EXCEPT ![c].pc = "stop"]
  /\ UNCHANGED <<open, vb2Vars, m2mVars, run, hwVars, wdVars, fin, pmVars>>

\* ... then wait, without a time limit, until the job on the device is over.
CancelWait(c) ==
  /\ stop[c].pc = "wait"
  /\ curr # c
  /\ stop' = [stop EXCEPT ![c].pc = "stop"]
  /\ UNCHANGED <<open, vb2Vars, m2mVars, run, hwVars, wdVars, fin, pmVars>>

\* ... then stop_streaming returns every buffer still queued, vb2 takes back
\* whatever the driver kept, and the context is idle, or freed after release.
StopStreaming(c) ==
  LET D == stop[c].dirs IN
  /\ stop[c].pc = "stop"
  /\ queue'  = [queue  EXCEPT ![c] =
                  [d \in Dirs |-> IF d \in D THEN <<>> ELSE queue[c][d]]]
  /\ active' = [active EXCEPT ![c] =
                  [d \in Dirs |-> IF d \in D THEN {} ELSE active[c][d]]]
  /\ streaming' = [streaming EXCEPT ![c] = @ \ D]
  /\ abort' = [abort EXCEPT ![c] = FALSE]
  /\ jobq'  = Without(jobq, c)
  /\ stop'  = [stop EXCEPT ![c] = IdleStop]
  /\ open'  = [open EXCEPT ![c] = IF @ = "closing" THEN "closed" ELSE @]
  /\ UNCHANGED <<curr, run, hwVars, wdVars, fin, pmVars>>

(***************************************************************************)
(* device_run, called by the scheduler for the context it has picked.      *)
(***************************************************************************)
TryRun ==
  /\ run.pc = "idle"
  /\ curr = None
  /\ jobq # <<>>
  /\ curr' = Head(jobq)
  /\ jobq' = Tail(jobq)
  /\ run'  = [pc |-> "get", ctx |-> Head(jobq)]
  /\ overdue' = FALSE
  /\ timer'   = IF timer = "armed" THEN "stale" ELSE timer
  /\ UNCHANGED <<userVars, vb2Vars, abort, hwVars, fin, pmVars>>

\* Mutant: pm_runtime_get, which does not wait for the clocks.
RunGetBug ==
  /\ run.pc = "get"
  /\ usage' = usage + 1 /\ UNCHANGED clocks
  /\ run' = [run EXCEPT !.pc = "program"]
  /\ UNCHANGED <<userVars, vb2Vars, m2mVars, hwVars, wdVars, fin>>

\* pm_runtime_get_sync: taken to succeed.
RunGet ==
  /\ run.pc = "get"
  /\ PmGet
  /\ run' = [run EXCEPT !.pc = "program"]
  /\ UNCHANGED <<userVars, vb2Vars, m2mVars, hwVars, wdVars, fin>>

\* Mutant: the frame queued last is programmed.
RunProgramBug ==
  /\ run.pc = "program"
  /\ regs' = [ctx |-> run.ctx, src |-> Last(queue[run.ctx]["out"]),
              dst |-> HeadOrNone(queue[run.ctx]["cap"])]
  /\ axi' = TRUE
  /\ run' = [run EXCEPT !.pc = "arm"]
  /\ UNCHANGED <<userVars, vb2Vars, m2mVars, hw, wdVars, fin, pmVars>>

\* The codec's run handler programs the oldest buffer of each queue, which
\* stay queued, then the control registers.
RunProgram ==
  /\ run.pc = "program"
  /\ regs' = [ctx |-> run.ctx,
              src |-> HeadOrNone(queue[run.ctx]["out"]),
              dst |-> HeadOrNone(queue[run.ctx]["cap"])]
  /\ axi' = TRUE
  /\ run' = [run EXCEPT !.pc = "arm"]
  /\ UNCHANGED <<userVars, vb2Vars, m2mVars, hw, wdVars, fin, pmVars>>

\* Mutant: the watchdog is not kicked.
RunArmBug ==
  /\ run.pc = "arm"
  /\ run' = [run EXCEPT !.pc = "kick"]
  /\ UNCHANGED <<userVars, vb2Vars, m2mVars, hwVars, wdVars, fin, pmVars>>

\* schedule_delayed_work does nothing if the work is pending already.
RunArm ==
  /\ run.pc = "arm"
  /\ timer' = IF timer = "off" THEN "armed" ELSE timer
  /\ run' = [run EXCEPT !.pc = "kick"]
  /\ UNCHANGED <<userVars, vb2Vars, m2mVars, hwVars, overdue, fin, pmVars>>

\* The last register write sets the enable bit.
RunKick ==
  /\ run.pc = "kick"
  /\ hw'  = [st |-> "busy", outcome |-> "none"]
  /\ run' = IdleRun
  /\ UNCHANGED <<userVars, vb2Vars, m2mVars, regs, axi, wdVars, fin, pmVars>>

(***************************************************************************)
(* The encoder and the watchdog's timer.                                   *)
(***************************************************************************)
\* The encode ends, with FRAME_RDY or with an error, and the interrupt line
\* goes up until the status register is cleared.
HwFinish(outcome) ==
  /\ hw.st = "busy" /\ clocks
  /\ hw' = [st |-> "irq", outcome |-> outcome]
  /\ UNCHANGED <<userVars, vb2Vars, m2mVars, run, regs, axi, wdVars, fin,
                 pmVars>>

\* Or it never will.
HwHang ==
  /\ hw.st = "busy"
  /\ hw' = [st |-> "hung", outcome |-> "hung"]
  /\ UNCHANGED <<userVars, vb2Vars, m2mVars, run, regs, axi, wdVars, fin,
                 pmVars>>

HwStep == HwHang \/ \E outcome \in {"ok", "err"} : HwFinish(outcome)

\* The timer expires and a worker starts on watchdog_work, which is not
\* pending any more and can no longer be cancelled.
WatchdogFire ==
  /\ timer # "off"
  /\ fin["wd"].pc = "idle"
  /\ timer = "armed" => /\ run.pc # "kick"
                        /\ Timely => hw.st = "hung"
  /\ timer'   = "off"
  /\ overdue' = (timer = "armed")
  /\ fin' = [fin EXCEPT !["wd"] = [IdleHandler EXCEPT !.pc = "get"]]
  /\ UNCHANGED <<userVars, vb2Vars, m2mVars, run, hwVars, pmVars>>

(***************************************************************************)
(* rkXXXX_vepu_irq and rockchip_vpu_irq_done.                              *)
(***************************************************************************)
\* Mutant: FRAME_RDY is not looked at.
IrqReadBug ==
  /\ hw.st = "irq"
  /\ fin["irq"].pc = "idle"
  /\ fin' = [fin EXCEPT !["irq"] =
               [IdleHandler EXCEPT !.pc = "ack", !.res = "DONE"]]
  /\ UNCHANGED <<userVars, vb2Vars, m2mVars, run, hwVars, wdVars, pmVars>>

IrqRead ==
  /\ hw.st = "irq"
  /\ fin["irq"].pc = "idle"
  /\ fin' = [fin EXCEPT !["irq"] =
               [IdleHandler EXCEPT !.pc = "ack",
                  !.res = IF hw.outcome = "ok" THEN "DONE" ELSE "ERROR"]]
  /\ UNCHANGED <<userVars, vb2Vars, m2mVars, run, hwVars, wdVars, pmVars>>

\* Clears the interrupt and the AXI configuration.
IrqAck ==
  /\ fin["irq"].pc = "ack"
  /\ hw'  = [hw EXCEPT !.st = IF @ = "irq" THEN "idle" ELSE @]
  /\ axi' = FALSE
  /\ fin' = [fin EXCEPT !["irq"].pc = "get"]
  /\ UNCHANGED <<userVars, vb2Vars, m2mVars, run, regs, wdVars, pmVars>>

IrqGetCurr ==
  /\ fin["irq"].pc = "get"
  /\ fin' = [fin EXCEPT !["irq"].pc = "cancel", !["irq"].ctx = curr]
  /\ UNCHANGED <<userVars, vb2Vars, m2mVars, run, hwVars, wdVars, pmVars>>

\* Mutants: the timer is not cancelled; the NULL check is forgotten.
IrqCancelBug ==
  /\ fin["irq"].pc = "cancel"
  /\ fin' = [fin EXCEPT !["irq"] =
               IF @.ctx = None THEN IdleHandler ELSE [@ EXCEPT !.pc = "src"]]
  /\ UNCHANGED <<userVars, vb2Vars, m2mVars, run, hwVars, wdVars, pmVars>>
IrqCancelBug2 ==
  /\ fin["irq"].pc = "cancel"
  /\ timer' = "off"
  /\ fin' = [fin EXCEPT !["irq"].pc = "src"]
  /\ UNCHANGED <<userVars, vb2Vars, m2mVars, run, hwVars, overdue, pmVars>>

\* cancel_delayed_work: a worker that has started is not waited for.
IrqCancel ==
  /\ fin["irq"].pc = "cancel"
  /\ timer' = "off"
  /\ fin' = [fin EXCEPT !["irq"] =
               IF @.ctx = None THEN IdleHandler ELSE [@ EXCEPT !.pc = "src"]]
  /\ UNCHANGED <<userVars, vb2Vars, m2mVars, run, hwVars, overdue, pmVars>>

(***************************************************************************)
(* rockchip_vpu_watchdog.                                                  *)
(***************************************************************************)
WdGetCurr ==
  /\ fin["wd"].pc = "get"
  /\ fin' = [fin EXCEPT !["wd"] =
               IF curr = None THEN IdleHandler
               ELSE [@ EXCEPT !.pc = "reset", !.ctx = curr]]
  /\ UNCHANGED <<userVars, vb2Vars, m2mVars, run, hwVars, wdVars, pmVars>>

\* Mutants: the reset leaves the encoder running; the job is not finished.
WdResetBug ==
  /\ fin["wd"].pc = "reset"
  /\ axi' = FALSE
  /\ fin' = [fin EXCEPT !["wd"].pc = "src"]
  /\ UNCHANGED <<userVars, vb2Vars, m2mVars, run, regs, hw, wdVars, pmVars>>
WdResetBug2 ==
  /\ fin["wd"].pc = "reset"
  /\ hw'  = [hw EXCEPT !.st = "idle"]
  /\ axi' = FALSE
  /\ fin' = [fin EXCEPT !["wd"] = IdleHandler]
  /\ UNCHANGED <<userVars, vb2Vars, m2mVars, run, regs, wdVars, pmVars>>

\* codec_ops->reset stops the encoder, masks and clears its interrupt.
WdReset ==
  /\ fin["wd"].pc = "reset"
  /\ hw'  = [hw EXCEPT !.st = "idle"]
  /\ axi' = FALSE
  /\ fin' = [fin EXCEPT !["wd"].pc = "src"]
  /\ UNCHANGED <<userVars, vb2Vars, m2mVars, run, regs, wdVars, pmVars>>

(***************************************************************************)
(* rockchip_vpu_job_finish, entered by either handler h.                   *)
(***************************************************************************)
FinSrc(h) ==
  LET c == fin[h].ctx IN
  /\ fin[h].pc = "src"
  /\ queue' = [queue EXCEPT ![c]["out"] = TailOrEmpty(@)]
  /\ fin'   = [fin EXCEPT ![h].pc = "dst",
                          ![h].src = HeadOrNone(queue[c]["out"])]
  /\ UNCHANGED <<userVars, streaming, active, m2mVars, run, hwVars, wdVars,
                 pmVars>>

\* Mutant: the capture buffer queued last is taken.
FinDstBug(h) ==
  LET c == fin[h].ctx IN
  /\ fin[h].pc = "dst"
  /\ queue' = [queue EXCEPT ![c]["cap"] = Front(@)]
  /\ fin'   = [fin EXCEPT ![h].pc = "srcdone",
                          ![h].dst = Last(queue[c]["cap"])]
  /\ UNCHANGED <<userVars, streaming, active, m2mVars, run, hwVars, wdVars,
                 pmVars>>

FinDst(h) ==
  LET c == fin[h].ctx IN
  /\ fin[h].pc = "dst"
  /\ queue' = [queue EXCEPT ![c]["cap"] = TailOrEmpty(@)]
  /\ fin'   = [fin EXCEPT ![h].pc = "srcdone",
                          ![h].dst = HeadOrNone(queue[c]["cap"])]
  /\ UNCHANGED <<userVars, streaming, active, m2mVars, run, hwVars, wdVars,
                 pmVars>>

\* The two WARN_ONs: without a pair to return, nothing else is done.
FinWarn(h) ==
  /\ fin[h].pc = "srcdone"
  /\ fin[h].src = None \/ fin[h].dst = None
  /\ fin' = [fin EXCEPT ![h] = IdleHandler]
  /\ UNCHANGED <<userVars, vb2Vars, m2mVars, run, hwVars, wdVars, pmVars>>

\* v4l2_m2m_buf_done of the raw frame, then of the JPEG, with one result.
FinSrcDone(h) ==
  LET f == fin[h] IN
  /\ f.pc = "srcdone"
  /\ f.src # None /\ f.dst # None
  /\ active' = [active EXCEPT ![f.ctx]["out"] = @ \ {f.src}]
  /\ fin' = [fin EXCEPT ![h].pc = "dstdone"]
  /\ UNCHANGED <<userVars, streaming, queue, m2mVars, run, hwVars, wdVars,
                 pmVars>>

FinDstDone(h) ==
  LET f == fin[h] IN
  /\ f.pc = "dstdone"
  /\ active' = [active EXCEPT ![f.ctx]["cap"] = @ \ {f.dst}]
  /\ fin' = [fin EXCEPT ![h].pc = "finish"]
  /\ UNCHANGED <<userVars, streaming, queue, m2mVars, run, hwVars, wdVars,
                 pmVars>>

\* Mutant: the context's next job jumps the queue.
FinJobBug(h) ==
  LET c == fin[h].ctx IN
  /\ fin[h].pc = "finish"
  /\ fin' = [fin EXCEPT ![h] = [IdleHandler EXCEPT !.pc = "put"]]
  /\ curr' = None
  /\ jobq' = IF TryQueue(c, streaming[c], queue[c], None) = jobq
             THEN jobq ELSE <<c>> \o jobq
  /\ UNCHANGED <<userVars, vb2Vars, abort, run, hwVars, wdVars, pmVars>>

\* Mutant: the context's next job is not queued.
FinJobBug2(h) ==
  LET c == fin[h].ctx IN
  /\ fin[h].pc = "finish"
  /\ fin' = [fin EXCEPT ![h] = [IdleHandler EXCEPT !.pc = "put"]]
  /\ curr' = IF curr = c THEN None ELSE curr
  /\ UNCHANGED <<userVars, vb2Vars, jobq, abort, run, hwVars, wdVars, pmVars>>

\* v4l2_m2m_job_finish: frees the device and queues the context's next job;
\* does nothing for a context that is not the one on the device.
FinJob(h) ==
  LET c == fin[h].ctx IN
  /\ fin[h].pc = "finish"
  /\ fin' = [fin EXCEPT ![h] = [IdleHandler EXCEPT !.pc = "put"]]
  /\ IF curr = c
     THEN /\ curr' = None
          /\ jobq' = TryQueue(c, streaming[c], queue[c], None)
     ELSE UNCHANGED <<curr, jobq>>
  /\ UNCHANGED <<userVars, vb2Vars, abort, run, hwVars, wdVars, pmVars>>

\* Mutants: the reference is kept; AXI_CTRL is cleared last of all.
FinPutBug(h) ==
  /\ fin[h].pc = "put"
  /\ fin' = [fin EXCEPT ![h] = IdleHandler]
  /\ UNCHANGED <<userVars, vb2Vars, m2mVars, run, hwVars, wdVars, pmVars>>
FinPutBug2(h) ==
  /\ fin[h].pc = "put"
  /\ PmPut
  /\ axi' = FALSE
  /\ fin' = [fin EXCEPT ![h] = IdleHandler]
  /\ UNCHANGED <<userVars, vb2Vars, m2mVars, run, regs, hw, wdVars>>

FinPut(h) ==
  /\ fin[h].pc = "put"
  /\ PmPut
  /\ fin' = [fin EXCEPT ![h] = IdleHandler]
  /\ UNCHANGED <<userVars, vb2Vars, m2mVars, run, hwVars, wdVars>>

JobFinish(h) == \/ FinSrc(h) \/ FinDst(h) \/ FinWarn(h)
                \/ FinSrcDone(h) \/ FinDstDone(h) \/ FinJob(h) \/ FinPut(h)

\* The autosuspend delay passes while nobody uses the device.
RuntimeSuspend ==
  /\ usage <= 0 /\ clocks
  /\ clocks' = FALSE
  /\ UNCHANGED <<userVars, vb2Vars, m2mVars, run, hwVars, wdVars, fin, usage>>

(***************************************************************************)
(* The specification.                                                      *)
(***************************************************************************)
User(c)   == \/ Open(c) \/ Release(c)
             \/ \E d \in Dirs : StreamOn(c, d) \/ StreamOff(c, d)
             \/ \E d \in Dirs, b \in Buf : QBuf(c, d, b)
Stop(c)   == CancelWait(c) \/ StopStreaming(c)
DeviceRun == TryRun \/ RunGet \/ RunProgram \/ RunArm \/ RunKick
Irq       == IrqRead \/ IrqAck \/ IrqGetCurr \/ IrqCancel \/ JobFinish("irq")
Watchdog  == WatchdogFire \/ WdGetCurr \/ WdReset \/ JobFinish("wd")

Next == \/ \E c \in Ctx : User(c) \/ Stop(c)
        \/ DeviceRun
        \/ Irq
        \/ Watchdog
        \/ HwStep
        \/ RuntimeSuspend

\* Threads, workers and interrupt handlers that can run do run; the encoder
\* ends or hangs. User space need not call anything.
Fairness == /\ \A c \in Ctx : WF_vars(Stop(c))
            /\ WF_vars(DeviceRun)
            /\ WF_vars(Irq)
            /\ WF_vars(Watchdog)
            /\ WF_vars(HwStep)

Spec     == Init /\ [][Next]_vars
FairSpec == Spec /\ Fairness

(***************************************************************************)
(* Properties.                                                             *)
(***************************************************************************)
\* The statements of rockchip_vpu_job_finish that work on a job.
Finishing == {"src", "dst", "srcdone", "dstdone", "finish"}

StopType == [pc : {"idle", "wait", "stop"}, dirs : SUBSET Dirs]
RunType  == [pc : {"idle", "get", "program", "arm", "kick"},
             ctx : Ctx \cup {None}]
RegsType == [ctx : Ctx \cup {None}, src : Buf \cup {None},
             dst : Buf \cup {None}]
HwType   == [st : {"idle", "busy", "hung", "irq"},
             outcome : {"none", "ok", "err", "hung"}]
HandlerType ==
  [pc  : {"idle", "ack", "get", "cancel", "reset", "put"} \cup Finishing,
   ctx : Ctx \cup {None}, src : Buf \cup {None}, dst : Buf \cup {None},
   res : {"DONE", "ERROR"}]

\* Every variable has its type; device_run has a context, and so has a
\* handler that is past the NULL check of v4l2_m2m_get_curr_priv's result.
TypeOK ==
  /\ open      \in [Ctx -> {"closed", "open", "closing"}]
  /\ stop      \in [Ctx -> StopType]
  /\ streaming \in [Ctx -> SUBSET Dirs]
  /\ queue     \in [Ctx -> [Dirs -> Seq(Buf)]]
  /\ active    \in [Ctx -> [Dirs -> SUBSET Buf]]
  /\ curr      \in Ctx \cup {None}
  /\ jobq      \in Seq(Ctx)
  /\ abort     \in [Ctx -> BOOLEAN]
  /\ run       \in RunType
  /\ regs      \in RegsType
  /\ axi       \in BOOLEAN
  /\ hw        \in HwType
  /\ timer     \in {"off", "armed", "stale"}
  /\ overdue   \in BOOLEAN
  /\ fin       \in [Handlers -> HandlerType]
  /\ usage     \in -UsageBound .. UsageBound
  /\ clocks    \in BOOLEAN
  /\ run.pc # "idle" => run.ctx \in Ctx
  /\ \A h \in Handlers :
       fin[h].pc \in Finishing \cup {"reset"} => fin[h].ctx \in Ctx

\* The mem2mem job list: no context twice, none that occupies the device, is
\* being stopped or lacks a streaming queue; and once cancel_job has returned
\* the context stays off the device. It holds however the watchdog races.
JobListSound ==
  /\ IsInjective(jobq)
  /\ \A c \in ToSet(jobq) : c # curr /\ ~abort[c] /\ streaming[c] = Dirs
  /\ \A c \in Ctx : stop[c].pc = "stop" => curr # c

\* Neither WARN_ON of rockchip_vpu_job_finish (rockchip_vpu_drv.c:53-56)
\* ever fires: a handler that finishes a job finds a buffer in each queue.
NoWarn ==
  \A h \in Handlers :
    fin[h].pc = "srcdone" => fin[h].src # None /\ fin[h].dst # None

\* What a handler is about to return is the context, the frame and the JPEG
\* buffer the hardware was programmed with, although it asks the framework
\* for "the current context" and for the queues' heads a second time.
RightPair ==
  \A h \in Handlers :
    fin[h].pc = "srcdone" =>
      /\ fin[h].src # None /\ fin[h].dst # None
      /\ [ctx |-> fin[h].ctx, src |-> fin[h].src, dst |-> fin[h].dst] = regs

\* The buffers come back as DONE exactly if this job's encode succeeded.
TruthfulResult ==
  \A h \in Handlers :
    fin[h].pc \in {"srcdone", "dstdone"} =>
      (fin[h].res = "DONE" <=> hw.outcome = "ok")

\* device_run finds a buffer in each queue, whatever was dequeued, stopped
\* or finished since the job was put on the list.
ReadyToRun ==
  run.pc \in {"get", "program"} =>
    \A d \in Dirs : queue[run.ctx][d] # <<>>

\* The comment of rockchip_vpu_stop_streaming: "there isn't any job running
\* and it is safe to return all the buffers". When it runs, for STREAMOFF or
\* for release, neither device_run nor a handler nor the encoder is at work
\* for that context.
SafeToReturn ==
  \A c \in Ctx : stop[c].pc = "stop" =>
    /\ curr # c /\ run.ctx # c
    /\ \A h \in Handlers : fin[h].ctx # c
    /\ hw.st # "idle" => regs.ctx # c

\* The encoder never reads or writes a buffer that user space has back.
NoDmaAfterReturn ==
  hw.st \in {"busy", "hung"} =>
    /\ regs.src \in active[regs.ctx]["out"]
    /\ regs.dst \in active[regs.ctx]["cap"]

\* Neither handler's cleaning up of one job (VEPU_REG_AXI_CTRL set to 0)
\* destroys the configuration device_run has written for the next.
Configured == (run.pc \in {"arm", "kick"} \/ hw.st = "busy") => axi

\* The registers are only touched, and the encoder only works, while the
\* clocks run.
Powered ==
  (\/ run.pc \in {"program", "arm", "kick"}
   \/ hw.st # "idle"
   \/ \E h \in Handlers : fin[h].pc \in {"ack", "reset"}) => clocks

\* pm_runtime_get_sync of device_run and pm_runtime_put_autosuspend of
\* rockchip_vpu_job_finish pair up: the usage count is the number of jobs
\* between the two, of which there can be one on the device and one more per
\* handler that has released the device but not yet its reference.
One(P) == IF P THEN 1 ELSE 0
PmBalance ==
  usage = One(curr # None /\ run.pc # "get")
        + One(fin["irq"].pc = "put") + One(fin["wd"].pc = "put")

\* codec_ops.reset is "in case of a timeout" (rockchip_vpu_hw.h:36): the
\* watchdog never resets the encoder under a job whose own 2000 ms have not
\* passed, such as one started since the timer expired.
ResetOnlyOnTimeout == [][WdReset => overdue]_vars

\* No wake-up is lost: a context that has all a job needs is on the job list
\* or on the device, whichever of QBUF, STREAMON and job_finish came last,
\* and however the watchdog races.
Listed ==
  \A c \in Ctx :
    /\ streaming[c] = Dirs /\ ~abort[c]
    /\ \A d \in Dirs : queue[c][d] # <<>>
    => c \in ToSet(jobq) \/ curr = c

\* STREAMOFF and close(2) wait for one job at most: none starts for a context
\* once it is being stopped, whatever its user has queued.
WaitsOnce ==
  [][\A c \in Ctx : stop[c].pc # "idle" /\ curr' = c => curr = c]_vars

\* The handler has nothing to do with the device any more.
Resting(h) == fin[h].pc \in {"idle", "put"}

\* A job on the device is always in somebody's hands: a thread's, a handler's,
\* the working encoder's, or those of a timer that will fire.
InHand ==
  curr # None => \/ run.pc # "idle"
                 \/ \E h \in Handlers : ~Resting(h)
                 \/ hw.st \in {"busy", "irq"}
                 \/ hw.st = "hung" /\ timer = "armed"

\* How many statements and events a job is from its end, at most.
RunLeft == [get |-> 14, program |-> 13, arm |-> 12, kick |-> 11]
HwLeft  == [busy |-> 10, irq |-> 9, hung |-> 8, idle |-> 0]
FinLeft == [ack |-> 8, get |-> 7, cancel |-> 6, reset |-> 6, src |-> 5,
            dst |-> 4, srcdone |-> 3, dstdone |-> 2, finish |-> 1]
StepsLeft ==
  CASE curr = None -> 0
    [] curr # None /\ run.pc # "idle" -> RunLeft[run.pc]
    [] curr # None /\ run.pc = "idle" ->
         IF \E h \in Handlers : ~Resting(h)
         THEN FinLeft[fin[CHOOSE h \in Handlers : ~Resting(h)].pc]
         ELSE HwLeft[hw.st]

\* Every job gets nearer its end with each step of whoever has it, and no step
\* of anybody else (ioctls, stops, a handler's last reference) touches it.
JobShrinks ==
  [][curr # None =>
       \/ StepsLeft' < StepsLeft
       \/ /\ UNCHANGED <<curr, run, hw, wdVars, StepsLeft>>
          /\ \A h \in Handlers : Resting(h) \/ fin'[h] = fin[h]]_vars

\* Every job leaves the device: it completes, fails or times out.
JobFinishes == \A c \in Ctx : curr = c ~> curr # c

\* STREAMOFF and close(2) return, although they wait for the job without a
\* time limit, the former with vpu_mutex held.
StopReturns == \A c \in Ctx : stop[c].pc # "idle" ~> stop[c].pc = "idle"
=============================================================================
