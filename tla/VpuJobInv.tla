----------------------------- MODULE VpuJobInv -----------------------------
(***************************************************************************)
(* The inductive invariants of VpuJob.                                     *)
(***************************************************************************)
EXTENDS VpuJob

\* While a thread stops a context, TRANS_ABORT is set: with JobListSound it
\* is inductive, whatever the watchdog does.
ListInv == /\ JobListSound
           /\ \A c \in Ctx : stop[c].pc # "idle" => abort[c]

\* One job, one actor: the job on the device is in the hands of device_run,
\* or of the encoder with the timer armed, or of the interrupt handler, or
\* of the watchdog's worker once the encoder hangs.
NoJob == curr = None => /\ run.pc = "idle" /\ hw.st = "idle" /\ timer = "off"
                        /\ \A h \in Handlers : Resting(h)
RunPhase ==
  IF run.pc = "idle" THEN run.ctx = None
  ELSE /\ run.ctx = curr /\ hw.st = "idle"
       /\ \A h \in Handlers : Resting(h)
       /\ timer = IF run.pc = "kick" THEN "armed" ELSE "off"
HwPhase ==
  /\ timer # "stale"
  /\ hw.st = "busy" => /\ timer = "armed"
                       /\ \A h \in Handlers : Resting(h)
  /\ hw.st = "irq"  => /\ timer = "armed" /\ Resting("wd")
                       /\ Resting("irq") \/ fin["irq"].pc = "ack"
  /\ hw.st = "hung" => /\ hw.outcome = "hung" /\ Resting("irq")
                       /\ \/ timer = "armed" /\ Resting("wd")
                          \/ /\ timer = "off" /\ overdue
                             /\ fin["wd"].pc \in {"get", "reset"}
IrqPhase ==
  /\ fin["irq"].pc # "reset"
  /\ fin["irq"].pc = "ack" => hw.st = "irq"
  /\ fin["irq"].pc \in {"get", "cancel"} =>
       hw.st = "idle" /\ timer = "armed" /\ Resting("wd")
WdPhase ==
  /\ fin["wd"].pc \notin {"ack", "cancel"}
  /\ fin["wd"].pc \in {"get", "reset"} => hw.st = "hung"
FinPhase ==
  \A h \in Handlers : fin[h].pc \in Finishing =>
    /\ hw.st = "idle" /\ timer = "off"
    /\ \A k \in Handlers \ {h} : Resting(k)
\* ... always for the context the registers name.
CtxPhase ==
  /\ \A h \in Handlers :
       fin[h].ctx = IF fin[h].pc \in Finishing \cup {"cancel", "reset"}
                    THEN curr ELSE None
  /\ \/ run.pc \in {"arm", "kick"} \/ hw.st # "idle"
     \/ \E h \in Handlers : ~Resting(h)
     => regs.ctx = curr
\* ... and with the result the encoder gave.
ResultPhase ==
  /\ ~Resting("irq") => (fin["irq"].res = "DONE" <=> hw.outcome = "ok")
  /\ ~Resting("wd")  => fin["wd"].res = "ERROR" /\ hw.outcome = "hung"

PhaseInv == /\ NoJob /\ RunPhase /\ HwPhase /\ IrqPhase /\ WdPhase
            /\ FinPhase /\ CtxPhase /\ ResultPhase /\ Configured
PmInv == PmBalance /\ (usage > 0 => clocks)

\* The job's buffers are the heads of their queues until job_finish takes
\* them; what it has taken is the user's no more than before, and not queued.
Queued ==
  \A c \in Ctx, d \in Dirs : /\ IsInjective(queue[c][d])
                             /\ ToSet(queue[c][d]) \subseteq active[c][d]
ListReady == \A c \in ToSet(jobq) : \A d \in Dirs : queue[c][d] # <<>>

Working == \/ run.pc \in {"arm", "kick"} \/ hw.st # "idle"
           \/ fin["irq"].pc \in {"get", "cancel"}
           \/ \E h \in Handlers : fin[h].pc = "src"
OutHead == Working =>
  queue[curr]["out"] # <<>> /\ Head(queue[curr]["out"]) = regs.src
CapHead == Working \/ (\E h \in Handlers : fin[h].pc = "dst") =>
  queue[curr]["cap"] # <<>> /\ Head(queue[curr]["cap"]) = regs.dst
SrcHeld ==
  \A h \in Handlers : fin[h].pc \in {"dst", "srcdone"} =>
    /\ fin[h].src = regs.src /\ fin[h].src \in active[curr]["out"]
    /\ fin[h].src \notin ToSet(queue[curr]["out"])
DstHeld ==
  \A h \in Handlers : fin[h].pc \in {"srcdone", "dstdone"} =>
    /\ fin[h].dst = regs.dst /\ fin[h].dst \in active[curr]["cap"]
    /\ fin[h].dst \notin ToSet(queue[curr]["cap"])
BufInv == /\ ReadyToRun /\ ListReady /\ Queued
          /\ OutHead /\ CapHead /\ SrcHeld /\ DstHeld

\* A thread that stops a context stops some queue of it, and the context on
\* the device has both queues streaming until its job is over.
StopInv   == \A c \in Ctx : stop[c].pc = "idle" <=> stop[c].dirs = {}
StreamInv == curr # None => streaming[curr] = Dirs
=============================================================================
