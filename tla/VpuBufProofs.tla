---------------------------- MODULE VpuBufProofs ----------------------------
(***************************************************************************)
(* The buffers of a job: device_run programs the heads of the two queues,  *)
(* leaves them queued, and rockchip_vpu_job_finish takes the heads again.  *)
(* In between user space queues more buffers and stops other contexts; the *)
(* theorems say that the same pair comes out, that the job is always in    *)
(* somebody's hands and that each step brings it nearer its end. They      *)
(* assume Timely.                                                          *)
(***************************************************************************)
EXTENDS VpuJobProofs

\* QBUF does not change the head of a queue that has one.
LEMMA HeadAppend ==
  ASSUME NEW s \in Seq(Buf), NEW b \in Buf
  PROVE  /\ Append(s, b) # <<>>
         /\ s # <<>> => Head(Append(s, b)) = Head(s)
BY HeadTailAppend, AppendProperties

\* The job's buffers stay the heads of their queues until they are taken,
\* and stay the driver's until they are returned.
LEMMA BufStep ==
  ASSUME Timely, TypeOK, ListInv, PhaseInv, BufInv, [Next]_vars
  PROVE  BufInv'
<1> USE DEF userVars, vb2Vars, m2mVars, hwVars, wdVars, pmVars, Dirs, Handlers
<1>0. ASSUME UNCHANGED <<queue, active, jobq, curr, regs>>,
             run'.pc \in {"get", "program"} =>
               run.pc \in {"get", "program"} /\ run'.ctx = run.ctx,
             Working' => Working,
             \A h \in Handlers :
               fin'[h].pc \in {"dst", "srcdone", "dstdone"} => fin'[h] = fin[h]
      PROVE  BufInv'
  <2>1. ReadyToRun' /\ ListReady' /\ Queued'
    BY <1>0 DEF BufInv, ReadyToRun, ListReady, Queued
  <2>2. OutHead' /\ CapHead'
    BY <1>0 DEF BufInv, OutHead, CapHead
  <2>3. SrcHeld' /\ DstHeld'
    BY <1>0 DEF BufInv, SrcHeld, DstHeld
  <2> QED BY <2>1, <2>2, <2>3 DEF BufInv
<1>1. ASSUME NEW c \in Ctx, Open(c) \/ CancelWait(c) PROVE BufInv'
  BY <1>0, <1>1 DEF Open, CancelWait, Working
<1>2. CASE RunGet \/ RunArm \/ RunKick
  <2>1. /\ UNCHANGED <<queue, active, jobq, curr, regs, fin>>
        /\ run'.pc \in {"get", "program"} =>
               run.pc \in {"get", "program"} /\ run'.ctx = run.ctx
    BY <1>2 DEF RunGet, RunArm, RunKick, TypeOK, RunType, IdleRun
  <2>2. Working' => Working
    BY <1>2 DEF RunGet, RunArm, RunKick, TypeOK, RunType, IdleRun, Working
  <2> QED BY <1>0, <2>1, <2>2
<1>3. CASE HwStep \/ RuntimeSuspend \/ UNCHANGED vars
  <2>1. UNCHANGED <<queue, active, jobq, curr, regs, fin, run>>
    BY <1>3 DEF HwStep, HwHang, HwFinish, RuntimeSuspend, vars
  <2>2. hw.st = "idle" => hw' = hw
    BY <1>3 DEF HwStep, HwHang, HwFinish, RuntimeSuspend, vars
  <2> QED BY <1>0, <2>1, <2>2 DEF Working
<1>4. CASE WatchdogFire \/ WdGetCurr \/ WdReset
  <2>1. UNCHANGED <<queue, active, jobq, curr, regs, run>>
    BY <1>4 DEF WatchdogFire, WdGetCurr, WdReset
  <2>2. Working
    <3>1. CASE WatchdogFire
      BY <3>1 DEF WatchdogFire, Working, PhaseInv, HwPhase, TypeOK
    <3>2. CASE WdGetCurr \/ WdReset
      BY <3>2 DEF WdGetCurr, WdReset, Working, PhaseInv, WdPhase
    <3> QED BY <1>4, <3>1, <3>2
  <2>3. \A h \in Handlers :
          fin'[h].pc \in {"dst", "srcdone", "dstdone"} => fin'[h] = fin[h]
    <3>1. CASE WatchdogFire
      BY <3>1 DEF WatchdogFire, TypeOK, HandlerType, IdleHandler
    <3>2. CASE WdGetCurr
      BY <3>2 DEF WdGetCurr, TypeOK, HandlerType, IdleHandler
    <3>3. CASE WdReset
      BY <3>3 DEF WdReset, TypeOK, HandlerType
    <3> QED BY <1>4, <3>1, <3>2, <3>3
  <2> QED BY <1>0, <2>1, <2>2, <2>3
<1>5. CASE IrqRead \/ IrqAck \/ IrqGetCurr \/ IrqCancel
  <2>1. UNCHANGED <<queue, active, jobq, curr, regs, run>>
    BY <1>5 DEF IrqRead, IrqAck, IrqGetCurr, IrqCancel
  <2>2. Working
    BY <1>5
    DEF IrqRead, IrqAck, IrqGetCurr, IrqCancel, Working, PhaseInv, IrqPhase
  <2>3. \A h \in Handlers :
          fin'[h].pc \in {"dst", "srcdone", "dstdone"} => fin'[h] = fin[h]
    <3>1. CASE IrqRead
      BY <3>1 DEF IrqRead, TypeOK, HandlerType, IdleHandler
    <3>2. CASE IrqAck
      BY <3>2 DEF IrqAck, TypeOK, HandlerType
    <3>3. CASE IrqGetCurr
      BY <3>3 DEF IrqGetCurr, TypeOK, HandlerType
    <3>4. CASE IrqCancel
      BY <3>4 DEF IrqCancel, TypeOK, HandlerType, IdleHandler
    <3> QED BY <1>5, <3>1, <3>2, <3>3, <3>4
  <2> QED BY <1>0, <2>1, <2>2, <2>3
<1>6. ASSUME NEW h \in Handlers, FinWarn(h) \/ FinPut(h) PROVE BufInv'
  <2>1. UNCHANGED <<queue, active, jobq, curr, regs, run, hw>>
    BY <1>6 DEF FinWarn, FinPut
  <2>2. /\ \A k \in Handlers \ {h} : fin'[k] = fin[k]
        /\ fin'[h].pc = "idle"
    BY <1>6 DEF FinWarn, FinPut, TypeOK, IdleHandler
  <2>3. Working' => Working
    BY <2>1, <2>2 DEF Working
  <2>4. \A k \in Handlers :
          fin'[k].pc \in {"dst", "srcdone", "dstdone"} => fin'[k] = fin[k]
    BY <2>2
  <2>5. run'.pc \in {"get", "program"} =>
          run.pc \in {"get", "program"} /\ run'.ctx = run.ctx
    BY <2>1
  <2> QED BY <1>0, <2>1, <2>3, <2>4, <2>5
<1>7. ASSUME NEW c \in Ctx, NEW d \in Dirs, NEW b \in Buf, QBuf(c, d, b)
      PROVE  BufInv'
  <2>1. /\ UNCHANGED <<curr, run, regs, hw, fin>>
        /\ b \notin active[c][d]
        /\ \A x \in Ctx, y \in Dirs :
             /\ queue'[x][y] = IF x = c /\ y = d THEN Append(queue[x][y], b)
                                                 ELSE queue[x][y]
             /\ active'[x][y] = IF x = c /\ y = d THEN active[x][y] \cup {b}
                                                  ELSE active[x][y]
    BY <1>7 DEF QBuf, TypeOK
  <2>2. \A x \in Ctx, y \in Dirs :
          queue[x][y] # <<>> =>
            queue'[x][y] # <<>> /\ Head(queue'[x][y]) = Head(queue[x][y])
    <3> SUFFICES ASSUME NEW x \in Ctx, NEW y \in Dirs, queue[x][y] # <<>>
                 PROVE  /\ queue'[x][y] # <<>>
                        /\ Head(queue'[x][y]) = Head(queue[x][y])
      OBVIOUS
    <3>1. queue[x][y] \in Seq(Buf)
      BY DEF TypeOK
    <3>2. CASE x = c /\ y = d
      <4>1. queue'[x][y] = Append(queue[x][y], b)
        BY <2>1, <3>2
      <4> QED BY <3>1, <4>1, HeadAppend
    <3> QED BY <2>1, <3>2
  <2>3. ReadyToRun'
    BY <2>1, <2>2 DEF BufInv, ReadyToRun, TypeOK
  <2>4. ListReady'
    <3>1. \A x \in ToSet(jobq') :
            \/ x \in ToSet(jobq)
            \/ x = c /\ (\A y \in Dirs : queue'[c][y] # <<>>)
      <4>1. /\ jobq \in Seq(Ctx)
            /\ jobq' = TryQueue(c, streaming[c], queue'[c], curr)
        BY <1>7 DEF QBuf, TypeOK
      <4>2. \/ jobq' = jobq
            \/ /\ jobq' = Append(jobq, c)
               /\ \A y \in Dirs : queue'[c][y] # <<>>
        BY <4>1 DEF TryQueue
      <4>3. ToSet(Append(jobq, c)) = ToSet(jobq) \cup {c}
        BY <4>1, AppendFresh
      <4> QED BY <4>2, <4>3
    <3>2. \A x \in ToSet(jobq) : x \in Ctx
      BY DEF TypeOK, ToSet
    <3> QED BY <2>2, <3>1, <3>2 DEF BufInv, ListReady
  <2>5. Queued'
    <3>1. ASSUME NEW x \in Ctx, NEW y \in Dirs
          PROVE  /\ IsInjective(queue'[x][y])
                 /\ ToSet(queue'[x][y]) \subseteq active'[x][y]
      <4>1. queue[x][y] \in Seq(Buf)
        BY DEF TypeOK
      <4>2. /\ IsInjective(queue[x][y])
            /\ ToSet(queue[x][y]) \subseteq active[x][y]
        BY DEF BufInv, Queued
      <4>3. CASE x = c /\ y = d
        <5>1. /\ queue'[x][y] = Append(queue[x][y], b)
              /\ active'[x][y] = active[x][y] \cup {b}
              /\ b \notin ToSet(queue[x][y])
          BY <2>1, <4>2, <4>3
        <5> QED BY <4>1, <4>2, <5>1, AppendFresh
      <4>4. CASE ~(x = c /\ y = d)
        BY <2>1, <4>2, <4>4
      <4> QED BY <4>3, <4>4
    <3> QED BY <3>1 DEF Queued
  <2>6. Working' => Working
    BY <2>1 DEF Working
  <2>7. Working \/ (\E h \in Handlers : fin[h].pc \in Finishing)
          => curr \in Ctx
    BY DEF Working, PhaseInv, NoJob, TypeOK, Finishing, Resting
  <2>8. OutHead' /\ CapHead'
    BY <2>1, <2>2, <2>6, <2>7 DEF BufInv, OutHead, CapHead, Finishing
  <2>9. SrcHeld' /\ DstHeld'
    <3>1. \A x \in Ctx, y \in Dirs : \A k \in active[x][y] :
            /\ k \in active'[x][y]
            /\ k \notin ToSet(queue[x][y]) => k \notin ToSet(queue'[x][y])
      <4> SUFFICES ASSUME NEW x \in Ctx, NEW y \in Dirs,
                          NEW k \in active[x][y]
                   PROVE  /\ k \in active'[x][y]
                          /\ k \notin ToSet(queue[x][y])
                             => k \notin ToSet(queue'[x][y])
        OBVIOUS
      <4>1. CASE x = c /\ y = d
        <5>1. /\ queue'[x][y] = Append(queue[x][y], b)
              /\ active'[x][y] = active[x][y] \cup {b}
          BY <2>1, <4>1
        <5>4. queue[x][y] \in Seq(Buf)
          BY DEF TypeOK
        <5>3. k # b
          BY <2>1, <4>1
        <5>2. ToSet(Append(queue[x][y], b)) = ToSet(queue[x][y]) \cup {b}
          BY <5>4, AppendFresh
        <5> QED BY <5>1, <5>2, <5>3
      <4> QED BY <2>1, <4>1
    <3> QED BY <2>1, <2>7, <3>1 DEF BufInv, SrcHeld, DstHeld, Finishing
  <2> QED BY <2>3, <2>4, <2>5, <2>8, <2>9 DEF BufInv
<1>8. ASSUME UNCHANGED <<queue, active, curr, regs, run, hw, fin>>,
             ListReady'
      PROVE  BufInv'
  <2>1. ReadyToRun' /\ Queued' /\ SrcHeld' /\ DstHeld'
    BY <1>8 DEF BufInv, ReadyToRun, Queued, SrcHeld, DstHeld
  <2>2. OutHead' /\ CapHead'
    BY <1>8 DEF BufInv, OutHead, CapHead, Working
  <2> QED BY <1>8, <2>1, <2>2 DEF BufInv
<1>9. ASSUME NEW c \in Ctx, NEW d \in Dirs, StreamOn(c, d) PROVE BufInv'
  <2>1. ListReady'
    BY <1>9, TryQueueFresh DEF StreamOn, TypeOK, BufInv, ListReady
  <2> QED BY <1>8, <1>9, <2>1 DEF StreamOn
<1>10. ASSUME NEW c \in Ctx, NEW D \in SUBSET Dirs, CancelJob(c, D)
       PROVE  BufInv'
  <2>1. ListReady'
    BY <1>10, WithoutFresh DEF CancelJob, TypeOK, BufInv, ListReady
  <2> QED BY <1>8, <1>10, <2>1 DEF CancelJob
<1>11. ASSUME NEW c \in Ctx, User(c) PROVE BufInv'
  <2>1. ASSUME NEW d \in Dirs, StreamOff(c, d) PROVE BufInv'
    <3>1. {d} \in SUBSET Dirs /\ CancelJob(c, {d})
      BY <2>1 DEF StreamOff
    <3> QED BY <1>10, <3>1
  <2>2. CASE Release(c)
    BY <1>10, <2>2 DEF Release
  <2>3. CASE Open(c)
    BY <1>1, <2>3
  <2> QED BY <1>7, <1>9, <1>11, <2>1, <2>2, <2>3 DEF User
<1>12. ASSUME NEW c \in Ctx, StopStreaming(c) PROVE BufInv'
  <2>1. /\ UNCHANGED <<curr, run, regs, hw, fin>> /\ curr # c
        /\ jobq' = Without(jobq, c)
        /\ \A x \in Ctx, y \in Dirs :
             \/ queue'[x][y] = queue[x][y] /\ active'[x][y] = active[x][y]
             \/ x = c /\ queue'[x][y] = <<>> /\ active'[x][y] = {}
    BY <1>12 DEF StopStreaming, TypeOK, ListInv, JobListSound
  <2>2. \A x \in Ctx, y \in Dirs : x # c =>
          queue'[x][y] = queue[x][y] /\ active'[x][y] = active[x][y]
    BY <2>1
  <2>3. ReadyToRun'
    <3>1. run.pc # "idle" => run.ctx \in Ctx /\ run.ctx # c
      BY <2>1 DEF TypeOK, PhaseInv, RunPhase
    <3> QED BY <2>1, <2>2, <3>1 DEF BufInv, ReadyToRun
  <2>4. ListReady'
    <3>1. \A x \in ToSet(jobq') : x \in ToSet(jobq) /\ x # c /\ x \in Ctx
      <4>1. jobq \in Seq(Ctx) /\ IsInjective(jobq)
        BY DEF TypeOK, ListInv, JobListSound
      <4>2. \A x \in ToSet(jobq) : x \in Ctx
        BY <4>1 DEF ToSet
      <4> QED BY <2>1, <4>1, <4>2, WithoutFresh
    <3> QED BY <2>2, <3>1 DEF BufInv, ListReady
  <2>5. Queued'
    <3>1. IsInjective(<<>>) /\ ToSet(<<>>) = {}
      BY DEF IsInjective, ToSet
    <3> QED BY <2>1, <3>1 DEF BufInv, Queued
  <2>6. Working' => Working
    BY <2>1 DEF Working
  <2>7. Working \/ (\E h \in Handlers : fin[h].pc \in Finishing)
          => curr \in Ctx
    BY DEF Working, PhaseInv, NoJob, TypeOK, Finishing, Resting
  <2>8. OutHead' /\ CapHead'
    BY <2>1, <2>2, <2>6, <2>7 DEF BufInv, OutHead, CapHead, Finishing
  <2>9. SrcHeld' /\ DstHeld'
    BY <2>1, <2>2, <2>7 DEF BufInv, SrcHeld, DstHeld, Finishing
  <2> QED BY <2>3, <2>4, <2>5, <2>8, <2>9 DEF BufInv
<1>13. CASE TryRun
  <2>1. /\ jobq # <<>> /\ curr' = Head(jobq) /\ jobq' = Tail(jobq)
        /\ run' = [pc |-> "get", ctx |-> Head(jobq)]
        /\ UNCHANGED <<queue, active, regs, hw, fin>>
        /\ \A h \in Handlers : Resting(h)
        /\ hw.st = "idle"
    BY <1>13 DEF TryRun, PhaseInv, NoJob
  <2>2. /\ Head(jobq) \in ToSet(jobq)
        /\ ToSet(Tail(jobq)) \subseteq ToSet(jobq)
    BY <2>1, TailFresh DEF TypeOK
  <2>3. ReadyToRun' /\ ListReady' /\ Queued'
    BY <2>1, <2>2 DEF BufInv, ReadyToRun, ListReady, Queued
  <2>4. OutHead' /\ CapHead' /\ SrcHeld' /\ DstHeld'
    BY <2>1 DEF OutHead, CapHead, SrcHeld, DstHeld, Working, Resting
  <2> QED BY <2>3, <2>4 DEF BufInv
<1>14. CASE RunProgram
  <2>1. /\ run.pc = "program" /\ run.ctx = curr
        /\ regs'.src = HeadOrNone(queue[curr]["out"])
        /\ regs'.dst = HeadOrNone(queue[curr]["cap"])
        /\ run'.pc = "arm"
        /\ UNCHANGED <<queue, active, jobq, curr, hw, fin>>
        /\ \A h \in Handlers : Resting(h)
    BY <1>14 DEF RunProgram, PhaseInv, RunPhase, TypeOK, RunType
  <2>2. queue[curr]["out"] # <<>> /\ queue[curr]["cap"] # <<>>
    BY <2>1 DEF BufInv, ReadyToRun
  <2>3. ReadyToRun' /\ ListReady' /\ Queued'
    BY <2>1 DEF BufInv, ReadyToRun, ListReady, Queued
  <2>4. OutHead' /\ CapHead'
    BY <2>1, <2>2 DEF OutHead, CapHead, HeadOrNone
  <2>5. SrcHeld' /\ DstHeld'
    BY <2>1 DEF SrcHeld, DstHeld, Resting
  <2> QED BY <2>3, <2>4, <2>5 DEF BufInv
\* A handler that finishes a job is alone with it.
<1>15. ASSUME NEW h \in Handlers, fin[h].pc \in Finishing
       PROVE  /\ curr \in Ctx /\ fin[h].ctx = curr
              /\ run.pc = "idle" /\ hw.st = "idle"
              /\ \A k \in Handlers \ {h} : Resting(k)
  BY <1>15 DEF PhaseInv, FinPhase, CtxPhase, RunPhase, NoJob, TypeOK, Resting,
               Finishing
<1>16. ASSUME NEW h \in Handlers, FinSrc(h) PROVE BufInv'
  <2>1. /\ fin[h].pc = "src" /\ fin[h].ctx = curr /\ curr \in Ctx
        /\ run.pc = "idle" /\ hw.st = "idle"
        /\ \A k \in Handlers \ {h} : Resting(k)
    BY <1>15, <1>16 DEF FinSrc, Finishing
  <2>2. /\ UNCHANGED <<active, jobq, curr, regs, run, hw>>
        /\ fin'[h].pc = "dst"
        /\ fin'[h].src = HeadOrNone(queue[curr]["out"])
        /\ \A k \in Handlers \ {h} : fin'[k] = fin[k]
    BY <1>16, <2>1 DEF FinSrc, TypeOK, HandlerType
  <2>3. /\ queue'[curr]["out"] = TailOrEmpty(queue[curr]["out"])
        /\ \A x \in Ctx, y \in Dirs :
             ~(x = curr /\ y = "out") => queue'[x][y] = queue[x][y]
    BY <1>16, <2>1 DEF FinSrc, TypeOK
  <2>4. /\ queue[curr]["out"] \in Seq(Buf) /\ queue[curr]["out"] # <<>>
        /\ Head(queue[curr]["out"]) = regs.src
        /\ queue[curr]["cap"] # <<>> /\ Head(queue[curr]["cap"]) = regs.dst
        /\ IsInjective(queue[curr]["out"])
        /\ ToSet(queue[curr]["out"]) \subseteq active[curr]["out"]
    BY <2>1 DEF BufInv, OutHead, CapHead, Working, Queued, TypeOK
  <2>5. /\ queue'[curr]["out"] = Tail(queue[curr]["out"])
        /\ fin'[h].src = regs.src
        /\ regs.src \in active[curr]["out"]
        /\ IsInjective(queue'[curr]["out"])
        /\ ToSet(queue'[curr]["out"]) \subseteq active[curr]["out"]
        /\ regs.src \notin ToSet(queue'[curr]["out"])
    BY <2>2, <2>3, <2>4, TailFresh DEF HeadOrNone, TailOrEmpty
  <2>6. ReadyToRun' /\ Queued'
    BY <2>1, <2>2, <2>3, <2>5 DEF BufInv, ReadyToRun, Queued
  <2>7. ListReady'
    <3>1. \A x \in ToSet(jobq) : x \in Ctx /\ x # curr
      BY DEF ListInv, JobListSound, TypeOK, ToSet
    <3> QED BY <2>2, <2>3, <3>1 DEF BufInv, ListReady
  <2>8. ~Working'
    BY <2>1, <2>2 DEF Working, Resting
  <2>9. OutHead' /\ CapHead'
    BY <2>1, <2>2, <2>3, <2>4, <2>8 DEF OutHead, CapHead
  <2>10. SrcHeld' /\ DstHeld'
    BY <2>1, <2>2, <2>5 DEF SrcHeld, DstHeld, Resting
  <2> QED BY <2>6, <2>7, <2>9, <2>10 DEF BufInv
<1>17. ASSUME NEW h \in Handlers, FinDst(h) PROVE BufInv'
  <2>1. /\ fin[h].pc = "dst" /\ fin[h].ctx = curr /\ curr \in Ctx
        /\ run.pc = "idle" /\ hw.st = "idle"
        /\ \A k \in Handlers \ {h} : Resting(k)
    BY <1>15, <1>17 DEF FinDst, Finishing
  <2>2. /\ UNCHANGED <<active, jobq, curr, regs, run, hw>>
        /\ fin'[h].pc = "srcdone" /\ fin'[h].src = fin[h].src
        /\ fin'[h].dst = HeadOrNone(queue[curr]["cap"])
        /\ \A k \in Handlers \ {h} : fin'[k] = fin[k]
    BY <1>17, <2>1 DEF FinDst, TypeOK, HandlerType
  <2>3. /\ queue'[curr]["cap"] = TailOrEmpty(queue[curr]["cap"])
        /\ \A x \in Ctx, y \in Dirs :
             ~(x = curr /\ y = "cap") => queue'[x][y] = queue[x][y]
    BY <1>17, <2>1 DEF FinDst, TypeOK
  <2>4. /\ queue[curr]["cap"] \in Seq(Buf) /\ queue[curr]["cap"] # <<>>
        /\ Head(queue[curr]["cap"]) = regs.dst
        /\ IsInjective(queue[curr]["cap"])
        /\ ToSet(queue[curr]["cap"]) \subseteq active[curr]["cap"]
    BY <2>1 DEF BufInv, CapHead, Queued, TypeOK
  <2>5. /\ queue'[curr]["cap"] = Tail(queue[curr]["cap"])
        /\ fin'[h].dst = regs.dst
        /\ regs.dst \in active[curr]["cap"]
        /\ IsInjective(queue'[curr]["cap"])
        /\ ToSet(queue'[curr]["cap"]) \subseteq active[curr]["cap"]
        /\ regs.dst \notin ToSet(queue'[curr]["cap"])
    BY <2>2, <2>3, <2>4, TailFresh DEF HeadOrNone, TailOrEmpty
  <2>6. ReadyToRun' /\ Queued'
    BY <2>1, <2>2, <2>3, <2>5 DEF BufInv, ReadyToRun, Queued
  <2>7. ListReady'
    <3>1. \A x \in ToSet(jobq) : x \in Ctx /\ x # curr
      BY DEF ListInv, JobListSound, TypeOK, ToSet
    <3> QED BY <2>2, <2>3, <3>1 DEF BufInv, ListReady
  <2>8. OutHead' /\ CapHead'
    BY <2>1, <2>2 DEF OutHead, CapHead, Working, Resting
  <2>9. SrcHeld' /\ DstHeld'
    BY <2>1, <2>2, <2>3, <2>5 DEF BufInv, SrcHeld, DstHeld, Resting
  <2> QED BY <2>6, <2>7, <2>8, <2>9 DEF BufInv
<1>18. ASSUME NEW h \in Handlers, FinSrcDone(h) PROVE BufInv'
  <2>1. /\ fin[h].pc = "srcdone" /\ fin[h].ctx = curr /\ curr \in Ctx
        /\ run.pc = "idle" /\ hw.st = "idle"
        /\ \A k \in Handlers \ {h} : Resting(k)
    BY <1>15, <1>18 DEF FinSrcDone, Finishing
  <2>2. /\ UNCHANGED <<queue, jobq, curr, regs, run, hw>>
        /\ fin'[h].pc = "dstdone" /\ fin'[h].dst = fin[h].dst
        /\ \A k \in Handlers \ {h} : fin'[k] = fin[k]
    BY <1>18, <2>1 DEF FinSrcDone, TypeOK, HandlerType
  <2>3. /\ active'[curr]["out"] = active[curr]["out"] \ {fin[h].src}
        /\ \A x \in Ctx, y \in Dirs :
             ~(x = curr /\ y = "out") => active'[x][y] = active[x][y]
    BY <1>18, <2>1 DEF FinSrcDone, TypeOK
  <2>4. fin[h].src \notin ToSet(queue[curr]["out"])
    BY <2>1 DEF BufInv, SrcHeld
  <2>5. ReadyToRun' /\ ListReady'
    BY <2>2 DEF BufInv, ReadyToRun, ListReady
  <2>6. Queued'
    BY <2>2, <2>3, <2>4 DEF BufInv, Queued
  <2>7. OutHead' /\ CapHead'
    BY <2>1, <2>2 DEF OutHead, CapHead, Working, Resting
  <2>8. SrcHeld' /\ DstHeld'
    BY <2>1, <2>2, <2>3 DEF BufInv, SrcHeld, DstHeld, Resting
  <2> QED BY <2>5, <2>6, <2>7, <2>8 DEF BufInv
<1>19. ASSUME NEW h \in Handlers, FinDstDone(h) PROVE BufInv'
  <2>1. /\ fin[h].pc = "dstdone" /\ fin[h].ctx = curr /\ curr \in Ctx
        /\ run.pc = "idle" /\ hw.st = "idle"
        /\ \A k \in Handlers \ {h} : Resting(k)
    BY <1>15, <1>19 DEF FinDstDone, Finishing
  <2>2. /\ UNCHANGED <<queue, jobq, curr, regs, run, hw>>
        /\ fin'[h].pc = "finish" /\ fin'[h].dst = fin[h].dst
        /\ \A k \in Handlers \ {h} : fin'[k] = fin[k]
    BY <1>19, <2>1 DEF FinDstDone, TypeOK, HandlerType
  <2>3. /\ active'[curr]["cap"] = active[curr]["cap"] \ {fin[h].dst}
        /\ \A x \in Ctx, y \in Dirs :
             ~(x = curr /\ y = "cap") => active'[x][y] = active[x][y]
    BY <1>19, <2>1 DEF FinDstDone, TypeOK
  <2>4. fin[h].dst \notin ToSet(queue[curr]["cap"])
    BY <2>1 DEF BufInv, DstHeld
  <2>5. ReadyToRun' /\ ListReady'
    BY <2>2 DEF BufInv, ReadyToRun, ListReady
  <2>6. Queued'
    BY <2>2, <2>3, <2>4 DEF BufInv, Queued
  <2>7. OutHead' /\ CapHead'
    BY <2>1, <2>2 DEF OutHead, CapHead, Working, Resting
  <2>8. SrcHeld' /\ DstHeld'
    BY <2>1, <2>2, <2>3 DEF BufInv, SrcHeld, DstHeld, Resting
  <2> QED BY <2>5, <2>6, <2>7, <2>8 DEF BufInv
<1>20. ASSUME NEW h \in Handlers, FinJob(h) PROVE BufInv'
  <2>1. /\ fin[h].pc = "finish" /\ fin[h].ctx = curr /\ curr \in Ctx
        /\ run.pc = "idle" /\ hw.st = "idle"
        /\ \A k \in Handlers \ {h} : Resting(k)
    BY <1>15, <1>20 DEF FinJob, Finishing
  <2>2. /\ UNCHANGED <<queue, active, regs, run, hw>>
        /\ jobq' = TryQueue(curr, streaming[curr], queue[curr], None)
        /\ fin'[h].pc = "put"
        /\ \A k \in Handlers \ {h} : fin'[k] = fin[k]
    BY <1>20, <2>1 DEF FinJob, TypeOK, IdleHandler
  <2>3. ReadyToRun' /\ Queued'
    BY <2>1, <2>2 DEF BufInv, ReadyToRun, Queued
  <2>4. ListReady'
    <3>1. \/ jobq' = jobq
          \/ /\ jobq' = Append(jobq, curr)
             /\ \A y \in Dirs : queue[curr][y] # <<>>
      BY <2>2 DEF TryQueue
    <3>2. ToSet(Append(jobq, curr)) = ToSet(jobq) \cup {curr}
      BY <2>1, AppendFresh DEF TypeOK
    <3> QED BY <2>2, <3>1, <3>2 DEF BufInv, ListReady
  <2>5. OutHead' /\ CapHead' /\ SrcHeld' /\ DstHeld'
    BY <2>1, <2>2 DEF OutHead, CapHead, SrcHeld, DstHeld, Working, Resting
  <2> QED BY <2>3, <2>4, <2>5 DEF BufInv
<1>21. ASSUME NEW h \in Handlers, JobFinish(h) PROVE BufInv'
  BY <1>6, <1>16, <1>17, <1>18, <1>19, <1>20, <1>21 DEF JobFinish
<1>22. ASSUME NEW c \in Ctx, Stop(c) PROVE BufInv'
  BY <1>1, <1>12, <1>22 DEF Stop
<1> QED
  BY <1>2, <1>3, <1>4, <1>5, <1>11, <1>13, <1>14, <1>21, <1>22
  DEF Next, DeviceRun, Irq, Watchdog

\* The inductive invariant of the buffers.
THEOREM BufCorrect == ASSUME Timely PROVE Spec => []BufInv
<1>1. Init => BufInv
  BY DEF Init, BufInv, ReadyToRun, ListReady, Queued, OutHead, CapHead,
     SrcHeld, DstHeld, Working, IdleRun, IdleHandler, Handlers, Dirs,
     IsInjective, ToSet
<1>2. TypeOK /\ ListInv /\ PhaseInv /\ BufInv /\ [Next]_vars => BufInv'
  BY BufStep
<1> QED
  BY <1>1, <1>2, TypeCorrect, ListCorrect, PhaseCorrect, PTL DEF Spec

\* device_run never meets an empty queue.
THEOREM ReadyCorrect == ASSUME Timely PROVE Spec => []ReadyToRun
<1>1. BufInv => ReadyToRun
  BY DEF BufInv
<1> QED BY <1>1, BufCorrect, PTL

\* The pair returned is the pair the hardware was programmed with, so that
\* neither WARN_ON of rockchip_vpu_job_finish can fire.
THEOREM PairCorrect == ASSUME Timely PROVE Spec => [](RightPair /\ NoWarn)
<1>1. TypeOK /\ PhaseInv /\ BufInv => RightPair /\ NoWarn
  <2> SUFFICES ASSUME TypeOK, PhaseInv, BufInv,
                      NEW h \in Handlers, fin[h].pc = "srcdone"
               PROVE  /\ fin[h].src # None /\ fin[h].dst # None
                      /\ fin[h].ctx = regs.ctx
                      /\ fin[h].src = regs.src /\ fin[h].dst = regs.dst
                      /\ [ctx |-> fin[h].ctx, src |-> fin[h].src,
                          dst |-> fin[h].dst] = regs
    BY DEF RightPair, NoWarn
  <2>1. curr \in Ctx /\ fin[h].ctx = curr /\ regs.ctx = curr
    BY DEF PhaseInv, CtxPhase, NoJob, Resting, TypeOK, Finishing
  <2>2. /\ fin[h].src = regs.src /\ fin[h].src \in active[curr]["out"]
        /\ fin[h].dst = regs.dst /\ fin[h].dst \in active[curr]["cap"]
    BY DEF BufInv, SrcHeld, DstHeld
  <2>3. fin[h].src \in Buf /\ fin[h].dst \in Buf
    BY <2>1, <2>2 DEF TypeOK, Dirs
  <2> QED
    BY <2>1, <2>2, <2>3, BufAssumption DEF TypeOK, RegsType
<1> QED BY <1>1, TypeCorrect, PhaseCorrect, BufCorrect, PTL

\* The encoder works on buffers the driver owns.
THEOREM DmaCorrect == ASSUME Timely PROVE Spec => []NoDmaAfterReturn
<1>1. TypeOK /\ PhaseInv /\ BufInv => NoDmaAfterReturn
  <2> SUFFICES ASSUME TypeOK, PhaseInv, BufInv, hw.st \in {"busy", "hung"}
               PROVE  /\ regs.src \in active[regs.ctx]["out"]
                      /\ regs.dst \in active[regs.ctx]["cap"]
    BY DEF NoDmaAfterReturn
  <2>1. curr \in Ctx /\ regs.ctx = curr
    BY DEF PhaseInv, CtxPhase, NoJob, TypeOK
  <2>2. /\ queue[curr]["out"] # <<>> /\ Head(queue[curr]["out"]) = regs.src
        /\ queue[curr]["cap"] # <<>> /\ Head(queue[curr]["cap"]) = regs.dst
    BY DEF BufInv, OutHead, CapHead, Working
  <2>3. \A y \in Dirs : /\ queue[curr][y] \in Seq(Buf)
                        /\ ToSet(queue[curr][y]) \subseteq active[curr][y]
    BY <2>1 DEF TypeOK, BufInv, Queued
  <2>4. /\ Head(queue[curr]["out"]) \in ToSet(queue[curr]["out"])
        /\ Head(queue[curr]["cap"]) \in ToSet(queue[curr]["cap"])
    BY <2>2, <2>3, TailFresh DEF Dirs
  <2> QED BY <2>1, <2>2, <2>3, <2>4 DEF Dirs
<1> QED BY <1>1, TypeCorrect, PhaseCorrect, BufCorrect, PTL

-----------------------------------------------------------------------------
(* The way of a job.                                                       *)

\* The job gets nearer its end, or nothing that belongs to it changes.
StepOn == StepsLeft' < StepsLeft
Apart  == /\ UNCHANGED <<curr, run, hw, wdVars, StepsLeft>>
          /\ \A h \in Handlers : Resting(h) \/ fin'[h] = fin[h]

\* What StepsLeft is, without the CHOOSE.
StepsTable ==
  /\ curr = None => StepsLeft = 0
  /\ run.pc # "idle" => curr # None /\ StepsLeft = RunLeft[run.pc]
  /\ \A h \in Handlers :
       ~Resting(h) => /\ curr # None /\ run.pc = "idle"
                      /\ StepsLeft = FinLeft[fin[h].pc]
                      /\ \A k \in Handlers \ {h} : Resting(k)
  /\ curr # None /\ run.pc = "idle" /\ (\A h \in Handlers : Resting(h))
       => StepsLeft = HwLeft[hw.st]

LEMMA StepsIs == ASSUME TypeOK, PhaseInv PROVE StepsTable
<1>1. ASSUME NEW h \in Handlers, ~Resting(h)
      PROVE  /\ curr # None /\ run.pc = "idle"
             /\ \A k \in Handlers \ {h} : Resting(k)
  <2>1. curr # None /\ run.pc = "idle"
    BY <1>1 DEF PhaseInv, NoJob, RunPhase
  <2>2. CASE fin[h].pc \in Finishing
    BY <2>1, <2>2 DEF PhaseInv, FinPhase
  <2>3. CASE h = "irq" /\ fin[h].pc \notin Finishing
    <3>1. fin["irq"].pc \in {"ack", "get", "cancel"}
      BY <1>1, <2>3
      DEF TypeOK, HandlerType, Resting, PhaseInv, IrqPhase, Handlers
    <3> QED BY <2>1, <2>3, <3>1 DEF Resting, PhaseInv, IrqPhase, HwPhase, Handlers
  <2>4. CASE h = "wd" /\ fin[h].pc \notin Finishing
    <3>1. fin["wd"].pc \in {"get", "reset"}
      BY <1>1, <2>4
      DEF TypeOK, HandlerType, Resting, PhaseInv, WdPhase, Handlers
    <3> QED BY <2>1, <2>4, <3>1 DEF Resting, PhaseInv, WdPhase, HwPhase, Handlers
  <2> QED BY <2>1, <2>2, <2>3, <2>4 DEF Handlers
<1>2. curr = None => StepsLeft = 0
  BY DEF StepsLeft
<1>3. run.pc # "idle" => curr # None /\ StepsLeft = RunLeft[run.pc]
  BY DEF StepsLeft, PhaseInv, NoJob
<1>4. ASSUME NEW h \in Handlers, ~Resting(h)
      PROVE  StepsLeft = FinLeft[fin[h].pc]
  <2> DEFINE g == CHOOSE k \in Handlers : ~Resting(k)
  <2>1. g \in Handlers /\ ~Resting(g)
    BY <1>4
  <2>2. g = h
    BY <1>1, <1>4, <2>1
  <2>3. StepsLeft = FinLeft[fin[g].pc]
    BY <1>1, <1>4 DEF StepsLeft
  <2> QED BY <2>2, <2>3
<1>5. curr # None /\ run.pc = "idle" /\ (\A h \in Handlers : Resting(h))
      => StepsLeft = HwLeft[hw.st]
  BY DEF StepsLeft
<1> QED BY <1>1, <1>2, <1>3, <1>4, <1>5 DEF StepsTable

LEMMA TableCorrect == ASSUME Timely PROVE Spec => []StepsTable
<1>1. TypeOK /\ PhaseInv => StepsTable
  BY StepsIs
<1> QED BY <1>1, TypeCorrect, PhaseCorrect, PTL

\* Every step of whoever has the job brings it nearer its end, and every
\* other leaves it alone: device_run, the encoder, the interrupt handler and
\* the watchdog each hand it on.
LEMMA ShrinkStep ==
  ASSUME Timely, TypeOK, PhaseInv, NoWarn, StepsTable, StepsTable', InHand,
         [Next]_vars, curr # None
  PROVE  (StepOn \/ Apart) /\ InHand'
<1> USE DEF userVars, vb2Vars, m2mVars, hwVars, wdVars, pmVars
<1>1. ASSUME UNCHANGED <<curr, run, hw, wdVars, fin>>
      PROVE  Apart /\ InHand'
  BY <1>1 DEF Apart, InHand, StepsLeft, Resting
<1>2. ASSUME NEW c \in Ctx, User(c) \/ Stop(c) PROVE Apart /\ InHand'
  BY <1>1, <1>2
  DEF User, Stop, Open, Release, StreamOn, StreamOff, QBuf, CancelJob,
      CancelWait, StopStreaming
<1>3. CASE RuntimeSuspend \/ UNCHANGED vars
  BY <1>1, <1>3 DEF RuntimeSuspend, vars
<1>4. CASE DeviceRun
  <2>1. ~TryRun /\ UNCHANGED <<curr, fin>>
    BY <1>4 DEF DeviceRun, TryRun, RunGet, RunProgram, RunArm, RunKick
  <2>2. \A h \in Handlers : Resting(h) /\ Resting(h)'
    BY <1>4, <2>1
    DEF DeviceRun, RunGet, RunProgram, RunArm, RunKick, PhaseInv, RunPhase,
        Resting
  <2>3. CASE RunGet
    BY <2>1, <2>3 DEF RunGet, StepOn, StepsTable, RunLeft, InHand, TypeOK, RunType
  <2>4. CASE RunProgram
    BY <2>1, <2>4 DEF RunProgram, StepOn, StepsTable, RunLeft, InHand, TypeOK, RunType
  <2>5. CASE RunArm
    BY <2>1, <2>5 DEF RunArm, StepOn, StepsTable, RunLeft, InHand, TypeOK, RunType
  <2>6. CASE RunKick
    BY <2>1, <2>2, <2>6
    DEF RunKick, IdleRun, StepOn, StepsTable, RunLeft, HwLeft, InHand
  <2> QED BY <1>4, <2>1, <2>3, <2>4, <2>5, <2>6 DEF DeviceRun
<1>5. CASE HwStep
  <2>1. UNCHANGED <<curr, run, fin, timer>> /\ hw.st = "busy"
    BY <1>5 DEF HwStep, HwHang, HwFinish
  <2>2. /\ run.pc = "idle" /\ timer = "armed"
        /\ \A h \in Handlers : Resting(h) /\ Resting(h)'
    BY <2>1 DEF PhaseInv, RunPhase, HwPhase, Resting
  <2>3. hw'.st \in {"irq", "hung"}
    BY <1>5 DEF HwStep, HwHang, HwFinish
  <2> QED BY <2>1, <2>2, <2>3 DEF StepOn, StepsTable, HwLeft, InHand
<1>6. ASSUME UNCHANGED <<curr, run>>, run.pc = "idle",
             NEW h \in Handlers, ~Resting(h)',
             \/ ~Resting(h) /\ FinLeft[fin'[h].pc] < FinLeft[fin[h].pc]
             \/ /\ \A k \in Handlers : Resting(k)
                /\ FinLeft[fin'[h].pc] < HwLeft[hw.st]
      PROVE  StepOn /\ InHand'
  <2>1. StepsLeft' = FinLeft[fin'[h].pc] /\ InHand'
    BY <1>6 DEF StepsTable, InHand
  <2>2. StepsLeft' < StepsLeft
    BY <1>6, <2>1 DEF StepsTable
  <2> QED BY <2>1, <2>2 DEF StepOn
<1>7. CASE WatchdogFire
  <2>1. /\ UNCHANGED <<curr, run>> /\ hw.st = "hung" /\ fin'["wd"].pc = "get"
        /\ timer = "armed"
    BY <1>7 DEF WatchdogFire, TypeOK, PhaseInv, HwPhase, IdleHandler, Handlers
  <2>2. run.pc = "idle" /\ \A h \in Handlers : Resting(h)
    BY <1>7, <2>1 DEF WatchdogFire, PhaseInv, RunPhase, HwPhase, Resting, Handlers
  <2> QED BY <1>6, <2>1, <2>2 DEF Resting, Handlers, HwLeft, FinLeft
<1>8. CASE IrqRead
  <2>1. UNCHANGED <<curr, run>> /\ hw.st = "irq" /\ fin'["irq"].pc = "ack"
    BY <1>8 DEF IrqRead, TypeOK, IdleHandler, Handlers
  <2>2. run.pc = "idle" /\ \A h \in Handlers : Resting(h)
    BY <1>8, <2>1 DEF IrqRead, PhaseInv, RunPhase, HwPhase, Resting, Handlers
  <2> QED BY <1>6, <2>1, <2>2 DEF Resting, Handlers, HwLeft, FinLeft
<1>9. ASSUME NEW h \in Handlers, ~Resting(h)
      PROVE  run.pc = "idle" /\ fin[h] \in HandlerType
  BY <1>9 DEF StepsTable, TypeOK
<1>10. CASE IrqAck \/ IrqGetCurr \/ IrqCancel
  <2>1. ~Resting("irq") /\ UNCHANGED <<curr, run>>
    BY <1>10 DEF IrqAck, IrqGetCurr, IrqCancel, Resting
  <2>2. ~Resting("irq")' /\ FinLeft[fin'["irq"].pc] < FinLeft[fin["irq"].pc]
    <3>1. CASE IrqAck
      BY <3>1 DEF IrqAck, Resting, FinLeft, TypeOK, Handlers, HandlerType
    <3>2. CASE IrqGetCurr
      BY <3>2 DEF IrqGetCurr, Resting, FinLeft, TypeOK, Handlers, HandlerType
    <3>3. CASE IrqCancel
      <4>1. fin["irq"].ctx # None
        BY <3>3 DEF IrqCancel, PhaseInv, CtxPhase, Handlers
      <4> QED
        BY <3>3, <4>1
        DEF IrqCancel, Resting, FinLeft, TypeOK, Handlers, HandlerType
    <3> QED BY <1>10, <3>1, <3>2, <3>3
  <2> QED BY <1>6, <1>9, <2>1, <2>2 DEF Handlers
<1>11. CASE WdGetCurr \/ WdReset
  <2>1. ~Resting("wd") /\ UNCHANGED <<curr, run>>
    BY <1>11 DEF WdGetCurr, WdReset, Resting
  <2>2. ~Resting("wd")' /\ FinLeft[fin'["wd"].pc] < FinLeft[fin["wd"].pc]
    <3>1. CASE WdGetCurr
      BY <3>1 DEF WdGetCurr, Resting, FinLeft, TypeOK, Handlers, HandlerType
    <3>2. CASE WdReset
      BY <3>2 DEF WdReset, Resting, FinLeft, TypeOK, Handlers, HandlerType
    <3> QED BY <1>11, <3>1, <3>2
  <2> QED BY <1>6, <1>9, <2>1, <2>2 DEF Handlers
<1>12. ASSUME NEW h \in Handlers,
              FinSrc(h) \/ FinDst(h) \/ FinSrcDone(h) \/ FinDstDone(h)
       PROVE  StepOn /\ InHand'
  <2>1. ~Resting(h) /\ UNCHANGED <<curr, run>>
    BY <1>12 DEF FinSrc, FinDst, FinSrcDone, FinDstDone, Resting
  <2>2. ~Resting(h)' /\ FinLeft[fin'[h].pc] < FinLeft[fin[h].pc]
    BY <1>12
    DEF FinSrc, FinDst, FinSrcDone, FinDstDone, Resting, FinLeft, TypeOK,
        HandlerType
  <2> QED BY <1>6, <1>9, <2>1, <2>2
<1>13. ASSUME NEW h \in Handlers, FinWarn(h) PROVE FALSE
  BY <1>13 DEF FinWarn, NoWarn
<1>14. ASSUME NEW h \in Handlers, FinJob(h) PROVE StepOn /\ InHand'
  <2>1. ~Resting(h) /\ fin[h].pc = "finish" /\ fin[h].ctx = curr
    BY <1>14 DEF FinJob, Resting, PhaseInv, CtxPhase, Finishing
  <2>2. curr' = None
    BY <1>14, <2>1 DEF FinJob
  <2> QED BY <2>1, <2>2 DEF StepOn, StepsTable, FinLeft, InHand
<1>15. ASSUME NEW h \in Handlers, FinPut(h) PROVE Apart /\ InHand'
  <2>1. /\ UNCHANGED <<curr, run, hw, timer, overdue>>
        /\ Resting(h) /\ Resting(h)'
        /\ \A k \in Handlers \ {h} : fin'[k] = fin[k]
    BY <1>15 DEF FinPut, Resting, IdleHandler, TypeOK
  <2>2. \A k \in Handlers : /\ Resting(k)' <=> Resting(k)
                            /\ Resting(k) \/ fin'[k] = fin[k]
    BY <2>1 DEF Resting
  <2>3. StepsLeft' = StepsLeft
    BY <2>1, <2>2 DEF StepsTable
  <2> QED BY <2>1, <2>2, <2>3 DEF Apart, InHand
<1> QED
  BY <1>2, <1>3, <1>4, <1>5, <1>7, <1>8, <1>10, <1>11, <1>12, <1>13, <1>14,
     <1>15
  DEF Next, Irq, Watchdog, JobFinish, Handlers

\* Somebody always has the job in hand.
THEOREM InHandCorrect == ASSUME Timely PROVE Spec => []InHand
<1>1. Init => InHand
  BY DEF Init, InHand
<1>2. ASSUME TypeOK, curr = None, [Next]_vars PROVE InHand'
  <2>1. CASE TryRun
    BY <2>1 DEF TryRun, InHand
  <2>2. CASE ~TryRun
    <3>1. curr' = None
      BY <1>2, <2>2
      DEF Next, User, Stop, Open, Release, StreamOn, StreamOff, QBuf,
          CancelJob, CancelWait, StopStreaming, DeviceRun, RunGet,
          RunProgram, RunArm, RunKick, Irq, IrqRead, IrqAck, IrqGetCurr,
          IrqCancel, Watchdog, WatchdogFire, WdGetCurr, WdReset, JobFinish,
          FinSrc, FinDst, FinWarn, FinSrcDone, FinDstDone, FinJob, FinPut,
          HwStep, HwHang, HwFinish, RuntimeSuspend, vars, userVars, vb2Vars,
          m2mVars, hwVars, wdVars, pmVars
    <3> QED BY <3>1 DEF InHand
  <2> QED BY <2>1, <2>2
<1>3. TypeOK /\ PhaseInv /\ NoWarn /\ StepsTable /\ StepsTable' /\ InHand
      /\ [Next]_vars => InHand'
  BY <1>2, ShrinkStep
<1> QED
  BY <1>1, <1>3, TypeCorrect, PhaseCorrect, PairCorrect, TableCorrect, PTL
  DEF Spec

\* The job's way is bounded and only leads on.
THEOREM ShrinkCorrect == ASSUME Timely PROVE Spec => JobShrinks
<1>1. TypeOK /\ PhaseInv /\ NoWarn /\ StepsTable /\ StepsTable' /\ InHand
      /\ [Next]_vars => [curr # None => StepOn \/ Apart]_vars
  BY ShrinkStep
<1> QED
  BY <1>1, TypeCorrect, PhaseCorrect, PairCorrect, TableCorrect,
     InHandCorrect, PTL
  DEF Spec, JobShrinks, StepOn, Apart
=============================================================================
