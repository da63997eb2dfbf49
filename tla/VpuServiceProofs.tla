-------------------------- MODULE VpuServiceProofs --------------------------
(***************************************************************************)
(* VpuJob implements FrameService, which is what a client sees of it, and  *)
(* JobSlot, which is what EncFormat assumes of it. The proofs assume       *)
(* Timely.                                                                 *)
(***************************************************************************)
EXTENDS VpuBufProofs, VpuJobRefinement

\* Appending at the end of a concatenation; taking the head off and back.
LEMMA PendingSeq ==
  ASSUME NEW s \in Seq(Buf), NEW t \in Seq(Buf), NEW b \in Buf
  PROVE  /\ s \o Append(t, b) = Append(s \o t, b)
         /\ <<b>> \o t # <<>> /\ Tail(<<b>> \o t) = t
         /\ t # <<>> => <<Head(t)>> \o Tail(t) = t
<1>1. s \o Append(t, b) = Append(s \o t, b)
  OBVIOUS
<1>2. <<b>> \o t # <<>> /\ Tail(<<b>> \o t) = t
  OBVIOUS
<1>3. ASSUME t # <<>> PROVE <<Head(t)>> \o Tail(t) = t
  BY <1>3
<1> QED BY <1>1, <1>2, <1>3

\* What a handler holds.
LEMMA HeldFacts ==
  ASSUME NEW f, NEW c, NEW d \in Dirs
  PROVE  /\ f.ctx # c \/ f.pc \notin {"dst", "srcdone", "dstdone"} =>
              Held(f, c, d) = <<>>
         /\ f.ctx = c =>
              Held(f, c, d) =
                IF d = "out"
                THEN IF f.pc \in {"dst", "srcdone"} THEN <<f.src>> ELSE <<>>
                ELSE IF f.pc \in {"srcdone", "dstdone"} THEN <<f.dst>> ELSE <<>>
BY DEF Held, Dirs

\* The members of a concatenation.
LEMMA ConcatFresh ==
  ASSUME NEW s \in Seq(Buf), NEW t \in Seq(Buf), NEW b,
         b \notin ToSet(s), b \notin ToSet(t)
  PROVE  b \notin ToSet(s \o t)
BY ConcatProperties DEF ToSet

\* ... and of the shortest sequences.
LEMMA ToSetSmall == /\ ToSet(<<>>) = {}
                    /\ \A b \in Buf : <<b>> \in Seq(Buf) /\ ToSet(<<b>>) = {b}
BY DEF ToSet

\* Pending is a function of contexts and directions.
LEMMA PendingIs ==
  /\ Pending  = [c \in Ctx |-> [d \in Dirs |-> Pending[c][d]]]
  /\ Pending' = [c \in Ctx |-> [d \in Dirs |-> Pending'[c][d]]]
BY DEF Pending

\* A step that changes what is pending in one place.
LEMMA PendingAt ==
  ASSUME NEW c \in Ctx, NEW d \in Dirs, NEW v,
         \A x \in Ctx, y \in Dirs :
           Pending'[x][y] = IF x = c /\ y = d THEN v ELSE Pending[x][y]
  PROVE  Pending' = [Pending EXCEPT ![c][d] = v]
<1> DEFINE P == Pending
           Q == Pending'
           R == [P EXCEPT ![c][d] = v]
<1>0. /\ P = [x \in Ctx |-> [y \in Dirs |-> P[x][y]]]
      /\ Q = [x \in Ctx |-> [y \in Dirs |-> Q[x][y]]]
  BY PendingIs
<1>1. \A x \in Ctx, y \in Dirs :
        Q[x][y] = IF x = c /\ y = d THEN v ELSE P[x][y]
  OBVIOUS
<1> HIDE DEF P, Q
<1>2. R = [x \in Ctx |-> IF x = c THEN [P[c] EXCEPT ![d] = v] ELSE P[x]]
  BY <1>0
<1>3. [P[c] EXCEPT ![d] = v] = [y \in Dirs |-> IF y = d THEN v ELSE P[c][y]]
  BY <1>0
<1>4. ASSUME NEW x \in Ctx
      PROVE  Q[x] = IF x = c THEN [P[c] EXCEPT ![d] = v] ELSE P[x]
  <2>1. Q[x] = [y \in Dirs |-> Q[x][y]] /\ P[x] = [y \in Dirs |-> P[x][y]]
    BY <1>0
  <2> QED BY <1>1, <1>3, <2>1
<1> HIDE DEF R
<1>5. Q = R
  BY <1>0, <1>2, <1>4
<1> QED BY <1>5 DEF P, Q, R

\* The statements of job_finish at which it holds a buffer.
HeldPcs == {"dst", "srcdone", "dstdone"}

\* The actions that change nothing FrameService sees.
Silent == \/ DeviceRun \/ HwStep \/ RuntimeSuspend
          \/ \E c \in Ctx : Open(c) \/ CancelWait(c)
          \/ IrqRead \/ IrqAck \/ IrqGetCurr \/ IrqCancel
          \/ WatchdogFire \/ WdGetCurr \/ WdReset
          \/ \E h \in Handlers : FinSrc(h) \/ FinDst(h) \/ FinJob(h) \/ FinPut(h)

\* Which step of FrameService each action is.
LEMMA ServiceMoves ==
  ASSUME TypeOK, ListInv, PhaseInv, BufInv, RightPair, SafeToReturn,
         StopInv, StreamInv
  PROVE  /\ \A c \in Ctx :
              /\ \A d \in Dirs, b \in Buf :
                   QBuf(c, d, b) => Service!Give(c, d, b)
              /\ \A d \in Dirs : StreamOn(c, d) => Service!Start(c, d)
              /\ \A D \in SUBSET Dirs :
                   D # {} /\ CancelJob(c, D) => Service!BeginStop(c, D)
              /\ StopStreaming(c) => Service!EndStop(c)
         /\ \A h \in Handlers :
              /\ FinSrcDone(h) => curr \in Ctx /\ Service!ReturnFrame(curr)
              /\ FinDstDone(h) => curr \in Ctx /\ Service!ReturnJpeg(curr)
              /\ ~FinWarn(h)
         /\ Silent \/ UNCHANGED vars => UNCHANGED Service!vars
<1> USE DEF userVars, vb2Vars, m2mVars, hwVars, wdVars, pmVars, Handlers
<1>0. ASSUME UNCHANGED <<queue, streaming>>,
             \A c \in Ctx : stop'[c].dirs = stop[c].dirs,
             \A h \in Handlers : \/ fin'[h] = fin[h]
                                 \/ /\ fin[h].pc \notin HeldPcs
                                    /\ fin'[h].pc \notin HeldPcs
      PROVE  UNCHANGED Service!vars
  <2>1. \A c \in Ctx, d \in Dirs, h \in Handlers :
          Held(fin'[h], c, d) = Held(fin[h], c, d)
    BY <1>0, HeldFacts DEF HeldPcs
  <2>2. Pending' = Pending
    BY <1>0, <2>1 DEF Pending
  <2>3. HalfDone' = HalfDone
    BY <1>0 DEF HalfDone, HeldPcs
  <2>4. Stopping' = Stopping
    BY <1>0 DEF Stopping
  <2> QED BY <1>0, <2>2, <2>3, <2>4 DEF Service!vars
<1>1. ASSUME \/ DeviceRun \/ HwStep \/ RuntimeSuspend \/ UNCHANGED vars
             \/ \E c \in Ctx : Open(c)
      PROVE  UNCHANGED Service!vars
  <2>1. UNCHANGED <<queue, streaming, stop, fin>>
    BY <1>1 DEF DeviceRun, TryRun, RunGet, RunProgram, RunArm, RunKick, HwStep,
       HwHang, HwFinish, RuntimeSuspend, Open, vars
  <2> QED BY <1>0, <2>1
<1>2. ASSUME \E c \in Ctx : CancelWait(c)
      PROVE  UNCHANGED Service!vars
  <2>1. PICK c \in Ctx : CancelWait(c)
    BY <1>2
  <2>2. /\ UNCHANGED <<queue, streaming, fin>>
        /\ stop' = [stop EXCEPT ![c].pc = "stop"]
    BY <2>1 DEF CancelWait
  <2>3. \A x \in Ctx : stop'[x].dirs = stop[x].dirs
    BY <2>2 DEF TypeOK, StopType
  <2> QED BY <1>0, <2>2, <2>3
<1>3. ASSUME IrqRead \/ IrqAck \/ IrqGetCurr \/ IrqCancel
      PROVE  UNCHANGED Service!vars
  <2>1. UNCHANGED <<queue, streaming, stop>> /\ fin'["wd"] = fin["wd"]
    BY <1>3 DEF IrqRead, IrqAck, IrqGetCurr, IrqCancel, TypeOK
  <2>2. fin["irq"].pc \notin HeldPcs
    BY <1>3 DEF IrqRead, IrqAck, IrqGetCurr, IrqCancel, HeldPcs
  <2>3. fin'["irq"].pc \notin HeldPcs
    <3>1. CASE IrqRead
      BY <3>1 DEF IrqRead, TypeOK, IdleHandler, HeldPcs
    <3>2. CASE IrqAck \/ IrqGetCurr
      BY <3>2 DEF IrqAck, IrqGetCurr, TypeOK, HandlerType, HeldPcs
    <3>3. CASE IrqCancel
      BY <3>3 DEF IrqCancel, TypeOK, HandlerType, IdleHandler, HeldPcs
    <3> QED BY <1>3, <3>1, <3>2, <3>3
  <2> QED BY <1>0, <2>1, <2>2, <2>3
<1>4. ASSUME WatchdogFire \/ WdGetCurr \/ WdReset
      PROVE  UNCHANGED Service!vars
  <2>1. UNCHANGED <<queue, streaming, stop>> /\ fin'["irq"] = fin["irq"]
    BY <1>4 DEF WatchdogFire, WdGetCurr, WdReset, TypeOK
  <2>2. fin["wd"].pc \notin HeldPcs
    BY <1>4 DEF WatchdogFire, WdGetCurr, WdReset, HeldPcs
  <2>3. fin'["wd"].pc \notin HeldPcs
    <3>1. CASE WatchdogFire
      BY <3>1 DEF WatchdogFire, TypeOK, IdleHandler, HeldPcs
    <3>2. CASE WdGetCurr
      BY <3>2 DEF WdGetCurr, TypeOK, HandlerType, IdleHandler, HeldPcs
    <3>3. CASE WdReset
      BY <3>3 DEF WdReset, TypeOK, HandlerType, HeldPcs
    <3> QED BY <1>4, <3>1, <3>2, <3>3
  <2> QED BY <1>0, <2>1, <2>2, <2>3
<1>5. ASSUME NEW h \in Handlers, FinJob(h) \/ FinPut(h)
      PROVE  UNCHANGED Service!vars
  <2>1. /\ UNCHANGED <<queue, streaming, stop>>
        /\ \A k \in Handlers \ {h} : fin'[k] = fin[k]
        /\ fin[h].pc \notin HeldPcs /\ fin'[h].pc \notin HeldPcs
    BY <1>5 DEF FinJob, FinPut, TypeOK, HandlerType, IdleHandler, HeldPcs
  <2> QED BY <1>0, <2>1
<1>6. ASSUME NEW h \in Handlers, FinWarn(h)
      PROVE  FALSE
  BY <1>6 DEF FinWarn, RightPair

\* What is pending of a buffer's queue, by context and direction.
<1>7. \A c \in Ctx, d \in Dirs :
        /\ Pending[c][d] = Held(fin["irq"], c, d) \o Held(fin["wd"], c, d)
                             \o queue[c][d]
        /\ Pending'[c][d] = Held(fin'["irq"], c, d) \o Held(fin'["wd"], c, d)
                              \o queue'[c][d]
  BY DEF Pending
<1>8. \A c \in Ctx, d \in Dirs, h \in Handlers :
        /\ queue[c][d] \in Seq(Buf)
        /\ Held(fin[h], c, d) \in Seq(Buf)
        /\ ToSet(Held(fin[h], c, d)) \subseteq active[c][d]
  <2> SUFFICES ASSUME NEW c \in Ctx, NEW d \in Dirs, NEW h \in Handlers
               PROVE  /\ queue[c][d] \in Seq(Buf)
                      /\ Held(fin[h], c, d) \in Seq(Buf)
                      /\ ToSet(Held(fin[h], c, d)) \subseteq active[c][d]
    OBVIOUS
  <2>1. queue[c][d] \in Seq(Buf) /\ active[c][d] \subseteq Buf
    BY DEF TypeOK
  <2>2. CASE fin[h].ctx # c \/ fin[h].pc \notin HeldPcs
    <3>1. Held(fin[h], c, d) = <<>>
      BY <2>2, HeldFacts DEF HeldPcs
    <3> QED BY <2>1, <3>1, EmptySeq, ToSetSmall
  <2>3. CASE fin[h].ctx = c /\ fin[h].pc \in HeldPcs
    <3>1. c = curr
      BY <2>3 DEF PhaseInv, CtxPhase, HeldPcs, Finishing
    <3>2. /\ fin[h].pc \in {"dst", "srcdone"} => fin[h].src \in active[c]["out"]
          /\ fin[h].pc \in {"srcdone", "dstdone"} =>
               fin[h].dst \in active[c]["cap"]
      BY <3>1 DEF BufInv, SrcHeld, DstHeld
    <3>3. \/ Held(fin[h], c, d) = <<>>
          \/ \E b \in active[c][d] : Held(fin[h], c, d) = <<b>>
      BY <2>3, <3>2, HeldFacts DEF HeldPcs, Dirs
    <3>4. \A b \in Buf : <<b>> \in Seq(Buf) /\ ToSet(<<b>>) = {b}
      BY ToSetSmall
    <3> QED BY <2>1, <3>3, <3>4, EmptySeq, ToSetSmall
  <2> QED BY <2>2, <2>3
<1>9. ASSUME NEW c \in Ctx, NEW d \in Dirs, NEW b \in Buf, QBuf(c, d, b)
      PROVE  Service!Give(c, d, b)
  <2>1. stop[c].pc = "idle" /\ b \notin active[c][d]
    BY <1>9 DEF QBuf, MutexFree
  <2>2. /\ queue' = [queue EXCEPT ![c][d] = Append(@, b)]
        /\ UNCHANGED <<fin, streaming, stop>>
    BY <1>9 DEF QBuf
  <2>3. Stopping[c] = {} /\ Stopping' = Stopping /\ HalfDone' = HalfDone
    BY <2>1, <2>2 DEF Stopping, HalfDone, StopInv
  <2>4. b \notin ToSet(Pending[c][d])
    <3> DEFINE A == Held(fin["irq"], c, d)
               B == Held(fin["wd"], c, d)
               q == queue[c][d]
    <3>1. /\ A \in Seq(Buf) /\ B \in Seq(Buf) /\ q \in Seq(Buf)
          /\ b \notin ToSet(A) /\ b \notin ToSet(B) /\ b \notin ToSet(q)
      BY <1>8, <2>1 DEF BufInv, Queued
    <3> HIDE DEF A, B, q
    <3>2. b \notin ToSet(A \o B \o q)
      BY <3>1, ConcatFresh, ConcatProperties
    <3> QED BY <1>7, <3>2 DEF A, B, q
  <2>5. \A x \in Ctx, y \in Dirs :
          Pending'[x][y] = IF x = c /\ y = d THEN Append(Pending[c][d], b)
                           ELSE Pending[x][y]
    <3> SUFFICES ASSUME NEW x \in Ctx, NEW y \in Dirs
                 PROVE  Pending'[x][y] = IF x = c /\ y = d
                                         THEN Append(Pending[c][d], b)
                                         ELSE Pending[x][y]
      OBVIOUS
    <3>1. queue'[x][y] = IF x = c /\ y = d THEN Append(queue[c][d], b)
                         ELSE queue[x][y]
      BY <2>2 DEF TypeOK
    <3> DEFINE A == Held(fin["irq"], x, y) \o Held(fin["wd"], x, y)
    <3>2. Pending[x][y] = A \o queue[x][y] /\ Pending'[x][y] = A \o queue'[x][y]
      BY <1>7, <2>2
    <3>3. A \in Seq(Buf) /\ queue[x][y] \in Seq(Buf)
      BY <1>8, ConcatProperties
    <3> HIDE DEF A
    <3>4. A \o Append(queue[x][y], b) = Append(A \o queue[x][y], b)
      BY <3>3, PendingSeq
    <3> QED BY <3>1, <3>2, <3>4
  <2>6. Pending' = [Pending EXCEPT ![c][d] = Append(@, b)]
    BY <2>5, PendingAt
  <2> QED BY <2>2, <2>3, <2>4, <2>6 DEF Service!Give, Service!ToSet, ToSet
<1>10. ASSUME NEW c \in Ctx, NEW d \in Dirs, StreamOn(c, d)
       PROVE  Service!Start(c, d)
  <2>1. stop[c].pc = "idle" /\ d \notin streaming[c]
    BY <1>10 DEF StreamOn, MutexFree
  <2>2. /\ streaming' = [streaming EXCEPT ![c] = @ \cup {d}]
        /\ UNCHANGED <<fin, queue, stop>>
    BY <1>10 DEF StreamOn
  <2>3. Stopping[c] = {} /\ UNCHANGED <<Stopping, HalfDone, Pending>>
    BY <2>1, <2>2 DEF Stopping, HalfDone, Pending, StopInv
  <2> QED BY <2>1, <2>2, <2>3 DEF Service!Start
<1>11. ASSUME NEW c \in Ctx, NEW D \in SUBSET Dirs, D # {}, CancelJob(c, D)
       PROVE  Service!BeginStop(c, D)
  <2>1. /\ stop[c].pc = "idle"
        /\ stop' = [stop EXCEPT ![c] = [pc |-> "wait", dirs |-> D]]
        /\ UNCHANGED <<fin, queue, streaming>>
    BY <1>11 DEF CancelJob
  <2>2. Stopping[c] = {} /\ UNCHANGED <<HalfDone, Pending>>
    BY <2>1 DEF Stopping, HalfDone, Pending, StopInv
  <2>3. Stopping' = [Stopping EXCEPT ![c] = D]
    BY <2>1 DEF Stopping, TypeOK
  <2> QED BY <1>11, <2>1, <2>2, <2>3 DEF Service!BeginStop
<1>12. ASSUME NEW c \in Ctx, StopStreaming(c)
       PROVE  Service!EndStop(c)
  <2> DEFINE D == stop[c].dirs
  <2>1. /\ stop[c].pc = "stop"
        /\ queue' = [queue EXCEPT ![c] =
                       [d \in Dirs |-> IF d \in D THEN <<>> ELSE queue[c][d]]]
        /\ streaming' = [streaming EXCEPT ![c] = @ \ D]
        /\ stop' = [stop EXCEPT ![c] = IdleStop]
        /\ UNCHANGED fin
    BY <1>12 DEF StopStreaming
  <2>2. \A h \in Handlers : fin[h].ctx # c
    BY <2>1 DEF SafeToReturn
  <2>3. Stopping[c] = D /\ D # {} /\ ~HalfDone[c] /\ HalfDone' = HalfDone
    BY <2>1, <2>2 DEF Stopping, HalfDone, StopInv
  <2>4. Stopping' = [Stopping EXCEPT ![c] = {}]
    BY <2>1 DEF Stopping, TypeOK, IdleStop
  <2>5. \A d \in Dirs, h \in Handlers : Held(fin[h], c, d) = <<>>
    BY <2>2, HeldFacts
  <2>6. \A x \in Ctx, y \in Dirs :
          Pending'[x][y] = IF x = c THEN IF y \in D THEN <<>> ELSE Pending[c][y]
                           ELSE Pending[x][y]
    <3> SUFFICES ASSUME NEW x \in Ctx, NEW y \in Dirs
                 PROVE  Pending'[x][y] = IF x = c
                                         THEN IF y \in D THEN <<>>
                                              ELSE Pending[c][y]
                                         ELSE Pending[x][y]
      OBVIOUS
    <3>1. queue'[x][y] = IF x = c THEN IF y \in D THEN <<>> ELSE queue[c][y]
                         ELSE queue[x][y]
      BY <2>1 DEF TypeOK
    <3>2. <<>> \o <<>> \o <<>> = <<>>
      OBVIOUS
    <3>3. CASE x = c
      <4>1. /\ Pending[x][y] = <<>> \o <<>> \o queue[x][y]
            /\ Pending'[x][y] = <<>> \o <<>> \o queue'[x][y]
        BY <1>7, <2>1, <2>5, <3>3
      <4> QED BY <3>1, <3>2, <3>3, <4>1
    <3>4. CASE x # c
      <4>1. queue'[x][y] = queue[x][y] /\ fin' = fin
        BY <2>1, <3>1, <3>4
      <4> QED BY <1>7, <3>4, <4>1
    <3> QED BY <3>3, <3>4
  <2>7. Pending' = [Pending EXCEPT ![c] =
                      [d \in Dirs |-> IF d \in D THEN <<>> ELSE @[d]]]
    BY <2>6, PendingIs
  <2> HIDE DEF D
  <2> QED BY <2>1, <2>3, <2>4, <2>7 DEF Service!EndStop, Service!Dirs, Dirs
\* A handler at work on the buffers: the other one rests.
<1>13. ASSUME NEW h \in Handlers, fin[h].pc \in HeldPcs \cup {"src"},
              \A k \in Handlers \ {h} : fin'[k] = fin[k],
              fin'[h].ctx = fin[h].ctx,
              fin'[h].pc \in HeldPcs =>
                /\ Held(fin'[h], curr, "out") \in Seq(Buf)
                /\ Held(fin'[h], curr, "cap") \in Seq(Buf),
              queue' \in [Ctx -> [Dirs -> Seq(Buf)]]
       PROVE  /\ curr \in Ctx /\ fin[h].ctx = curr
              /\ \A k \in Handlers \ {h} : fin[k].ctx = None
              /\ \A c \in Ctx, d \in Dirs :
                   /\ c # curr => /\ Pending[c][d] = queue[c][d]
                                  /\ Pending'[c][d] = queue'[c][d]
                   /\ c = curr =>
                        /\ Pending[c][d] = Held(fin[h], c, d) \o queue[c][d]
                        /\ Pending'[c][d] = Held(fin'[h], c, d) \o queue'[c][d]
  <2>1. curr \in Ctx /\ fin[h].ctx = curr
    BY <1>13 DEF TypeOK, PhaseInv, CtxPhase, HeldPcs, Finishing
  <2>2. \A k \in Handlers \ {h} : fin[k].ctx = None /\ fin'[k].ctx = None
    BY <1>13 DEF PhaseInv, FinPhase, CtxPhase, Resting, HeldPcs, Finishing
  <2>3. ASSUME NEW c \in Ctx, NEW d \in Dirs
        PROVE  /\ c # curr => /\ Pending[c][d] = queue[c][d]
                              /\ Pending'[c][d] = queue'[c][d]
               /\ c = curr =>
                    /\ Pending[c][d] = Held(fin[h], c, d) \o queue[c][d]
                    /\ Pending'[c][d] = Held(fin'[h], c, d) \o queue'[c][d]
    <3>1. \A k \in Handlers \ {h} : /\ Held(fin[k], c, d) = <<>>
                                    /\ Held(fin'[k], c, d) = <<>>
      BY <2>2, HeldFacts, CtxAssumption
    <3>2. c # curr => Held(fin[h], c, d) = <<>> /\ Held(fin'[h], c, d) = <<>>
      BY <1>13, <2>1, HeldFacts
    <3>3. Held(fin'[h], c, d) \in Seq(Buf)
      <4>1. CASE c = curr /\ fin'[h].pc \in HeldPcs
        BY <1>13, <4>1 DEF Dirs
      <4>2. CASE ~(c = curr /\ fin'[h].pc \in HeldPcs)
        <5>1. Held(fin'[h], c, d) = <<>>
          BY <3>2, <4>2, HeldFacts DEF HeldPcs
        <5> QED BY <5>1, EmptySeq
      <4> QED BY <4>1, <4>2
    <3>4. queue'[c][d] \in Seq(Buf)
      BY <1>13
    <3>5. Pending[c][d] = Held(fin[h], c, d) \o queue[c][d]
      <4>1. /\ Held(fin[h], c, d) \in Seq(Buf) /\ queue[c][d] \in Seq(Buf)
            /\ Pending[c][d] = Held(fin["irq"], c, d) \o Held(fin["wd"], c, d)
                                 \o queue[c][d]
        BY <1>7, <1>8
      <4> QED BY <3>1, <4>1, ConcatEmptySeq
    <3>6. Pending'[c][d] = Held(fin'[h], c, d) \o queue'[c][d]
      <4>1. Pending'[c][d] = Held(fin'["irq"], c, d) \o Held(fin'["wd"], c, d)
                               \o queue'[c][d]
        BY <1>7
      <4> QED BY <3>1, <3>3, <3>4, <4>1, ConcatEmptySeq
    <3>7. queue[c][d] \in Seq(Buf)
      BY <1>8
    <3> QED BY <3>2, <3>4, <3>5, <3>6, <3>7, ConcatEmptySeq
  <2> QED BY <2>1, <2>2, <2>3
<1>14. ASSUME NEW h \in Handlers, FinSrc(h) \/ FinDst(h)
       PROVE  UNCHANGED Service!vars
  <2> DEFINE d == IF fin[h].pc = "src" THEN "out" ELSE "cap"
             e == IF fin[h].pc = "src" THEN "cap" ELSE "out"
  <2>1. /\ fin[h].pc \in {"src", "dst"}
        /\ \A k \in Handlers \ {h} : fin'[k] = fin[k]
        /\ fin'[h].ctx = fin[h].ctx
        /\ UNCHANGED <<streaming, stop>>
    BY <1>14 DEF FinSrc, FinDst, TypeOK, HandlerType
  <2>2. curr \in Ctx /\ fin[h].ctx = curr
    BY <2>1 DEF TypeOK, PhaseInv, CtxPhase, Finishing
  <2>3. queue[curr][d] \in Seq(Buf) /\ queue[curr][d] # <<>>
    BY <2>1, <2>2 DEF TypeOK, Dirs, BufInv, OutHead, CapHead, Working
  <2>4. /\ Held(fin[h], curr, d) = <<>>
        /\ Held(fin'[h], curr, d) = <<Head(queue[curr][d])>>
        /\ Held(fin'[h], curr, e) = Held(fin[h], curr, e)
    <3>1. CASE FinSrc(h)
      <4>1. /\ fin[h].pc = "src" /\ fin'[h].pc = "dst"
            /\ fin'[h].src = Head(queue[curr]["out"])
        BY <2>2, <2>3, <3>1 DEF FinSrc, TypeOK, HandlerType, HeadOrNone
      <4> QED BY <2>1, <2>2, <4>1, HeldFacts DEF Dirs
    <3>2. CASE FinDst(h)
      <4>1. /\ fin[h].pc = "dst" /\ fin'[h].pc = "srcdone"
            /\ fin'[h].dst = Head(queue[curr]["cap"])
            /\ fin'[h].src = fin[h].src
        BY <2>2, <2>3, <3>2 DEF FinDst, TypeOK, HandlerType, HeadOrNone
      <4> QED BY <2>1, <2>2, <4>1, HeldFacts DEF Dirs
    <3> QED BY <1>14, <3>1, <3>2
  <2>5. queue' = [queue EXCEPT ![curr][d] = Tail(@)]
    BY <1>14, <2>2, <2>3 DEF FinSrc, FinDst, TailOrEmpty
  <2>6. d \in Dirs /\ e \in Dirs /\ Dirs = {d, e} /\ d # e
    BY DEF Dirs
  <2> HIDE DEF d, e
  <2>7. /\ queue' \in [Ctx -> [Dirs -> Seq(Buf)]]
        /\ queue'[curr][d] = Tail(queue[curr][d])
        /\ \A c \in Ctx, y \in Dirs : c # curr \/ y = e =>
             queue'[c][y] = queue[c][y]
    <3> DEFINE t == Tail(queue[curr][d])
    <3>1. t \in Seq(Buf)
      BY <2>3, HeadTailProperties
    <3>2. queue \in [Ctx -> [Dirs -> Seq(Buf)]]
      BY DEF TypeOK
    <3>3. queue' = [queue EXCEPT ![curr][d] = t]
      BY <2>5
    <3> HIDE DEF t
    <3>4. /\ queue' \in [Ctx -> [Dirs -> Seq(Buf)]]
          /\ queue'[curr][d] = t
          /\ \A c \in Ctx, y \in Dirs : c # curr \/ y = e =>
               queue'[c][y] = queue[c][y]
      BY <2>2, <2>6, <3>1, <3>2, <3>3
    <3> QED BY <3>4 DEF t
  <2>8. \A y \in Dirs : Held(fin'[h], curr, y) \in Seq(Buf)
    <3>1. <<Head(queue[curr][d])>> \in Seq(Buf)
      BY <2>3
    <3> QED BY <1>8, <2>2, <2>4, <2>6, <3>1
  <2>9. \A c \in Ctx, y \in Dirs : Pending'[c][y] = Pending[c][y]
    <3> SUFFICES ASSUME NEW c \in Ctx, NEW y \in Dirs
                 PROVE  Pending'[c][y] = Pending[c][y]
      OBVIOUS
    <3>1. /\ c # curr => /\ Pending[c][y] = queue[c][y]
                         /\ Pending'[c][y] = queue'[c][y]
          /\ c = curr =>
               /\ Pending[c][y] = Held(fin[h], c, y) \o queue[c][y]
               /\ Pending'[c][y] = Held(fin'[h], c, y) \o queue'[c][y]
      <4>1. fin[h].pc \in HeldPcs \cup {"src"}
        BY <2>1 DEF HeldPcs
      <4>2. "out" \in Dirs /\ "cap" \in Dirs
        BY DEF Dirs
      <4> QED BY <1>13, <2>1, <2>7, <2>8, <4>1, <4>2
    <3>2. CASE c = curr /\ y = d
      <4>1. /\ <<Head(queue[curr][d])>> \o Tail(queue[curr][d]) = queue[curr][d]
            /\ <<>> \o queue[curr][d] = queue[curr][d]
        <5>1. Head(queue[curr][d]) \in Buf
          BY <2>3
        <5> QED BY <2>3, <5>1, PendingSeq, ConcatEmptySeq
      <4> QED BY <2>4, <2>7, <3>1, <3>2, <4>1
    <3>3. CASE c # curr \/ y = e
      BY <2>4, <2>7, <3>1, <3>3
    <3> QED BY <2>6, <3>2, <3>3
  <2>10. Pending' = Pending
    BY <2>9, PendingIs
  <2>11. HalfDone' = HalfDone /\ Stopping' = Stopping
    <3>1. fin'[h].pc # "dstdone" /\ fin[h].pc # "dstdone"
      BY <1>14 DEF FinSrc, FinDst, TypeOK, HandlerType
    <3> QED BY <2>1, <3>1 DEF HalfDone, Stopping
  <2> QED BY <2>1, <2>10, <2>11 DEF Service!vars
\* The two halves of the return of a pair.
<1>15. ASSUME NEW h \in Handlers, FinSrcDone(h)
       PROVE  Service!ReturnFrame(curr)
  <2>1. /\ fin[h].pc = "srcdone" /\ fin'[h].pc = "dstdone"
        /\ fin'[h].ctx = fin[h].ctx /\ fin'[h].dst = fin[h].dst
        /\ \A k \in Handlers \ {h} : fin'[k] = fin[k]
        /\ UNCHANGED <<queue, streaming, stop>>
    BY <1>15 DEF FinSrcDone, TypeOK, HandlerType
  <2>2. /\ curr \in Ctx /\ fin[h].ctx = curr
        /\ \A k \in Handlers \ {h} : fin[k].ctx = None
    BY <2>1 DEF TypeOK, PhaseInv, FinPhase, CtxPhase, Resting, Finishing
  <2>3. fin[h].src \in Buf /\ fin[h].dst \in Buf
    BY <2>1 DEF RightPair, TypeOK, HandlerType
  <2>4. /\ Held(fin[h], curr, "out") = <<fin[h].src>>
        /\ Held(fin[h], curr, "cap") = <<fin[h].dst>>
        /\ Held(fin'[h], curr, "out") = <<>>
        /\ Held(fin'[h], curr, "cap") = <<fin[h].dst>>
    BY <2>1, <2>2, HeldFacts DEF Dirs
  <2>5. \A c \in Ctx, d \in Dirs :
          /\ c # curr => Pending'[c][d] = Pending[c][d]
          /\ Pending[curr][d] = Held(fin[h], curr, d) \o queue[curr][d]
          /\ Pending'[curr][d] = Held(fin'[h], curr, d) \o queue[curr][d]
    <3>1. fin[h].pc \in HeldPcs \cup {"src"}
      BY <2>1 DEF HeldPcs
    <3>2. /\ Held(fin'[h], curr, "out") \in Seq(Buf)
          /\ Held(fin'[h], curr, "cap") \in Seq(Buf)
      BY <2>3, <2>4, EmptySeq, ToSetSmall
    <3>3. queue' \in [Ctx -> [Dirs -> Seq(Buf)]]
      BY <2>1 DEF TypeOK
    <3>4. \A c \in Ctx, d \in Dirs :
            /\ c # curr => /\ Pending[c][d] = queue[c][d]
                           /\ Pending'[c][d] = queue'[c][d]
            /\ c = curr =>
                 /\ Pending[c][d] = Held(fin[h], c, d) \o queue[c][d]
                 /\ Pending'[c][d] = Held(fin'[h], c, d) \o queue'[c][d]
      BY <1>13, <2>1, <3>1, <3>2, <3>3
    <3>5. queue' = queue
      BY <2>1
    <3>6. ASSUME NEW c \in Ctx, NEW d \in Dirs, c # curr
          PROVE  Pending'[c][d] = Pending[c][d]
      BY <3>4, <3>5, <3>6
    <3>7. ASSUME NEW d \in Dirs
          PROVE  /\ Pending[curr][d] = Held(fin[h], curr, d) \o queue[curr][d]
                 /\ Pending'[curr][d] = Held(fin'[h], curr, d) \o queue[curr][d]
      BY <2>2, <3>4, <3>5
    <3> QED BY <3>6, <3>7
  <2>6. /\ \A d \in Dirs : Pending[curr][d] # <<>>
        /\ Pending'[curr]["out"] = Tail(Pending[curr]["out"])
        /\ Pending'[curr]["cap"] = Pending[curr]["cap"]
    <3>1. queue[curr]["out"] \in Seq(Buf) /\ queue[curr]["cap"] \in Seq(Buf)
      BY <1>8, <2>2 DEF Dirs
    <3>2. <<>> \o queue[curr]["out"] = queue[curr]["out"]
      BY <3>1, ConcatEmptySeq
    <3>3. /\ <<fin[h].src>> \o queue[curr]["out"] # <<>>
          /\ <<fin[h].dst>> \o queue[curr]["cap"] # <<>>
          /\ Tail(<<fin[h].src>> \o queue[curr]["out"]) = queue[curr]["out"]
      BY <2>3, <3>1, PendingSeq
    <3>4. /\ Pending[curr]["out"] = <<fin[h].src>> \o queue[curr]["out"]
          /\ Pending[curr]["cap"] = <<fin[h].dst>> \o queue[curr]["cap"]
          /\ Pending'[curr]["out"] = <<>> \o queue[curr]["out"]
          /\ Pending'[curr]["cap"] = <<fin[h].dst>> \o queue[curr]["cap"]
      BY <2>2, <2>4, <2>5 DEF Dirs
    <3>5. /\ Pending[curr]["out"] # <<>> /\ Pending[curr]["cap"] # <<>>
          /\ Pending'[curr]["out"] = Tail(Pending[curr]["out"])
          /\ Pending'[curr]["cap"] = Pending[curr]["cap"]
      BY <3>2, <3>3, <3>4, Zenon
    <3> QED BY <3>5 DEF Dirs
  <2>7. Pending' = [Pending EXCEPT ![curr]["out"] = Tail(@)]
    <3> DEFINE v == Tail(Pending[curr]["out"])
    <3>1. \A x \in Ctx, y \in Dirs :
            Pending'[x][y] = IF x = curr /\ y = "out" THEN v ELSE Pending[x][y]
      BY <2>5, <2>6 DEF Dirs
    <3> HIDE DEF v
    <3>2. "out" \in Dirs
      BY DEF Dirs
    <3>3. Pending' = [Pending EXCEPT ![curr]["out"] = v]
      BY <2>2, <3>1, <3>2, PendingAt
    <3> QED BY <3>3 DEF v
  <2>8. ~HalfDone[curr] /\ HalfDone' = [HalfDone EXCEPT ![curr] = TRUE]
    <3>1. /\ \A k \in Handlers : ~(fin[k].ctx = curr /\ fin[k].pc = "dstdone")
          /\ fin'[h].ctx = curr /\ fin'[h].pc = "dstdone"
          /\ \A c \in Ctx \ {curr}, k \in Handlers :
               fin'[k].ctx # c /\ fin[k].ctx # c
      BY <2>1, <2>2, CtxAssumption
    <3> QED BY <2>2, <3>1 DEF HalfDone
  <2>9. streaming[curr] = Dirs /\ Stopping' = Stopping
    BY <2>1, <2>2, CtxAssumption DEF StreamInv, Stopping
  <2> QED
    BY <2>1, <2>6, <2>7, <2>8, <2>9
    DEF Service!ReturnFrame, Service!CanReturn, Service!Dirs, Dirs
<1>16. ASSUME NEW h \in Handlers, FinDstDone(h)
       PROVE  Service!ReturnJpeg(curr)
  <2>1. /\ fin[h].pc = "dstdone" /\ fin'[h].pc = "finish"
        /\ fin'[h].ctx = fin[h].ctx
        /\ \A k \in Handlers \ {h} : fin'[k] = fin[k]
        /\ UNCHANGED <<queue, streaming, stop>>
    BY <1>16 DEF FinDstDone, TypeOK, HandlerType
  <2>2. /\ curr \in Ctx /\ fin[h].ctx = curr
        /\ \A k \in Handlers \ {h} : fin[k].ctx = None
    BY <2>1 DEF TypeOK, PhaseInv, FinPhase, CtxPhase, Resting, Finishing
  <2>3. fin[h].dst \in Buf
    <3>1. fin[h].dst \in active[curr]["cap"]
      BY <2>1 DEF BufInv, DstHeld
    <3>2. active[curr]["cap"] \subseteq Buf
      BY <2>2 DEF TypeOK, Dirs
    <3> QED BY <3>1, <3>2
  <2>4. /\ Held(fin[h], curr, "out") = <<>>
        /\ Held(fin[h], curr, "cap") = <<fin[h].dst>>
        /\ Held(fin'[h], curr, "out") = <<>>
        /\ Held(fin'[h], curr, "cap") = <<>>
    BY <2>1, <2>2, HeldFacts DEF Dirs
  <2>5. \A c \in Ctx, d \in Dirs :
          /\ c # curr => Pending'[c][d] = Pending[c][d]
          /\ Pending[curr][d] = Held(fin[h], curr, d) \o queue[curr][d]
          /\ Pending'[curr][d] = Held(fin'[h], curr, d) \o queue[curr][d]
    <3>1. fin[h].pc \in HeldPcs \cup {"src"}
      BY <2>1 DEF HeldPcs
    <3>2. /\ Held(fin'[h], curr, "out") \in Seq(Buf)
          /\ Held(fin'[h], curr, "cap") \in Seq(Buf)
      BY <2>4, EmptySeq
    <3>3. queue' \in [Ctx -> [Dirs -> Seq(Buf)]]
      BY <2>1 DEF TypeOK
    <3>4. \A c \in Ctx, d \in Dirs :
            /\ c # curr => /\ Pending[c][d] = queue[c][d]
                           /\ Pending'[c][d] = queue'[c][d]
            /\ c = curr =>
                 /\ Pending[c][d] = Held(fin[h], c, d) \o queue[c][d]
                 /\ Pending'[c][d] = Held(fin'[h], c, d) \o queue'[c][d]
      BY <1>13, <2>1, <3>1, <3>2, <3>3
    <3>5. queue' = queue
      BY <2>1
    <3>6. ASSUME NEW c \in Ctx, NEW d \in Dirs, c # curr
          PROVE  Pending'[c][d] = Pending[c][d]
      BY <3>4, <3>5, <3>6
    <3>7. ASSUME NEW d \in Dirs
          PROVE  /\ Pending[curr][d] = Held(fin[h], curr, d) \o queue[curr][d]
                 /\ Pending'[curr][d] = Held(fin'[h], curr, d) \o queue[curr][d]
      BY <2>2, <3>4, <3>5
    <3> QED BY <3>6, <3>7
  <2>6. /\ Pending'[curr]["out"] = Pending[curr]["out"]
        /\ Pending'[curr]["cap"] = Tail(Pending[curr]["cap"])
    <3>1. queue[curr]["out"] \in Seq(Buf) /\ queue[curr]["cap"] \in Seq(Buf)
      BY <1>8, <2>2 DEF Dirs
    <3>2. <<>> \o queue[curr]["cap"] = queue[curr]["cap"]
      BY <3>1, ConcatEmptySeq
    <3>3. Tail(<<fin[h].dst>> \o queue[curr]["cap"]) = queue[curr]["cap"]
      BY <2>3, <3>1, PendingSeq
    <3>4. /\ Pending[curr]["out"] = <<>> \o queue[curr]["out"]
          /\ Pending[curr]["cap"] = <<fin[h].dst>> \o queue[curr]["cap"]
          /\ Pending'[curr]["out"] = <<>> \o queue[curr]["out"]
          /\ Pending'[curr]["cap"] = <<>> \o queue[curr]["cap"]
      BY <2>2, <2>4, <2>5 DEF Dirs
    <3> QED BY <3>2, <3>3, <3>4, Zenon
  <2>7. Pending' = [Pending EXCEPT ![curr]["cap"] = Tail(@)]
    <3> DEFINE v == Tail(Pending[curr]["cap"])
    <3>1. \A x \in Ctx, y \in Dirs :
            Pending'[x][y] = IF x = curr /\ y = "cap" THEN v ELSE Pending[x][y]
      BY <2>5, <2>6 DEF Dirs
    <3> HIDE DEF v
    <3>2. "cap" \in Dirs
      BY DEF Dirs
    <3>3. Pending' = [Pending EXCEPT ![curr]["cap"] = v]
      BY <2>2, <3>1, <3>2, PendingAt
    <3> QED BY <3>3 DEF v
  <2>8. HalfDone[curr] /\ HalfDone' = [HalfDone EXCEPT ![curr] = FALSE]
    <3>1. /\ \A k \in Handlers : ~(fin'[k].ctx = curr /\ fin'[k].pc = "dstdone")
          /\ fin[h].ctx = curr /\ fin[h].pc = "dstdone"
          /\ \A c \in Ctx \ {curr}, k \in Handlers :
               fin'[k].ctx # c /\ fin[k].ctx # c
      BY <2>1, <2>2, CtxAssumption
    <3> QED BY <2>2, <3>1 DEF HalfDone
  <2>9. Stopping' = Stopping
    BY <2>1 DEF Stopping
  <2> QED BY <2>1, <2>7, <2>8, <2>9 DEF Service!ReturnJpeg
<1>17. ASSUME NEW h \in Handlers, FinSrcDone(h) \/ FinDstDone(h)
       PROVE  curr \in Ctx
  BY <1>17 DEF FinSrcDone, FinDstDone, TypeOK, PhaseInv, CtxPhase, Finishing
<1>18. Silent \/ UNCHANGED vars => UNCHANGED Service!vars
  BY <1>1, <1>2, <1>3, <1>4, <1>5, <1>14 DEF Silent
<1> QED
  BY <1>6, <1>9, <1>10, <1>11, <1>12, <1>15, <1>16, <1>17, <1>18

\* Every step of VpuJob is a step of FrameService or changes nothing it sees.
LEMMA ServiceStep ==
  ASSUME TypeOK, ListInv, PhaseInv, BufInv, RightPair, SafeToReturn,
         StopInv, StreamInv, [Next]_vars
  PROVE  [Service!Next]_(Service!vars)
<1> USE DEF Handlers
<1>1. ASSUME NEW h \in Handlers, JobFinish(h)
      PROVE  [Service!Next]_(Service!vars)
  BY <1>1, ServiceMoves DEF JobFinish, Silent, Service!Next
<1>2. ASSUME NEW c \in Ctx, User(c) \/ Stop(c)
      PROVE  [Service!Next]_(Service!vars)
  <2>1. CASE Release(c)
    <3>1. CancelJob(c, Dirs) /\ Dirs # {}
      BY <2>1 DEF Release, Dirs
    <3> QED BY <3>1, ServiceMoves DEF Service!Next, Service!Dirs, Dirs
  <2>2. ASSUME NEW d \in Dirs, StreamOff(c, d)
        PROVE  Service!Next
    <3>1. CancelJob(c, {d})
      BY <2>2 DEF StreamOff
    <3> QED BY <3>1, ServiceMoves DEF Service!Next, Service!Dirs, Dirs
  <2>3. ASSUME NEW d \in Dirs, StreamOn(c, d)
        PROVE  Service!Next
    BY <2>3, ServiceMoves DEF Service!Next, Service!Dirs, Dirs
  <2>4. ASSUME NEW d \in Dirs, NEW b \in Buf, QBuf(c, d, b)
        PROVE  Service!Next
    BY <2>4, ServiceMoves DEF Service!Next, Service!Dirs, Dirs
  <2>5. CASE StopStreaming(c)
    BY <2>5, ServiceMoves DEF Service!Next
  <2> QED
    BY <1>2, <2>1, <2>2, <2>3, <2>4, <2>5, ServiceMoves DEF User, Stop, Silent
<1> QED
  BY <1>1, <1>2, ServiceMoves DEF Next, Irq, Watchdog, Silent

\* VpuJob implements FrameService: buffers come back paired, in order, and
\* only a stop, never between the two halves of a pair, drops any.
THEOREM ServiceCorrect == ASSUME Timely PROVE Spec => ServiceSafety
<1>1. Init => Service!Init
  <2> SUFFICES ASSUME Init PROVE Service!Init
    OBVIOUS
  <2>2. \A c \in Ctx, d \in Dirs, h \in Handlers :
          queue[c][d] = <<>> /\ Held(fin[h], c, d) = <<>>
    BY HeldFacts DEF Init, IdleHandler, Handlers
  <2>3. <<>> \o <<>> \o <<>> = <<>>
    OBVIOUS
  <2>4. Pending = [c \in Ctx |-> [d \in Dirs |-> <<>>]]
    BY <2>2, <2>3 DEF Pending, Handlers
  <2>5. /\ HalfDone = [c \in Ctx |-> FALSE]
        /\ Stopping = [c \in Ctx |-> {}]
        /\ streaming = [c \in Ctx |-> {}]
    BY DEF Init, HalfDone, Stopping, IdleHandler, IdleStop, Handlers
  <2> QED BY <2>4, <2>5 DEF Service!Init, Service!Dirs, Dirs
<1>2. TypeOK /\ ListInv /\ PhaseInv /\ BufInv /\ RightPair /\ SafeToReturn
      /\ StopInv /\ StreamInv /\ [Next]_vars
      => [Service!Next]_(Service!vars)
  BY ServiceStep
<1> QED
  BY <1>1, <1>2, TypeCorrect, ListCorrect, StopInvCorrect, PhaseCorrect,
     BufCorrect, PairCorrect, StopCorrect, PTL
  DEF Spec, ServiceSafety, Service!Spec

-----------------------------------------------------------------------------
(* VpuJob implements JobSlot.                                              *)

\* What the actions of JobSlot see of a context that has no job.
LEMMA JobIs ==
  /\ Job = [c \in Ctx |-> [d \in Dirs |-> Job[c][d]]]
  /\ Job' = [c \in Ctx |-> [d \in Dirs |-> Job'[c][d]]]
  /\ \A c \in Ctx, d \in Dirs :
       /\ Job[c][d] = IF curr # c \/ ~NotBack(d) THEN None
                      ELSE IF d = "out" THEN regs.src ELSE regs.dst
       /\ Job'[c][d] = IF curr' # c \/ ~NotBack(d)' THEN None
                       ELSE IF d = "out" THEN regs'.src ELSE regs'.dst
BY DEF Job

\* The job stays as it is if the device, its registers and the buffers that
\* are not back do.
LEMMA JobKept ==
  ASSUME \A d \in Dirs : \/ UNCHANGED <<curr, regs>> /\ (NotBack(d)' <=> NotBack(d))
                         \/ (curr = None \/ ~NotBack(d)) /\ (curr' = None \/ ~NotBack(d)')
  PROVE  UNCHANGED Job
<1>1. \A c \in Ctx, d \in Dirs : Job'[c][d] = Job[c][d]
  BY JobIs, CtxAssumption
<1> QED BY <1>1, JobIs

\* Only the programming of the registers and the two buf_done calls change
\* the job.
LEMMA JobStays ==
  ASSUME TypeOK, PhaseInv, [Next]_vars, ~RunProgram,
         \A h \in Handlers : ~FinWarn(h) /\ ~FinSrcDone(h) /\ ~FinDstDone(h)
  PROVE  UNCHANGED Job
<1> USE DEF userVars, vb2Vars, m2mVars, hwVars, wdVars, pmVars, Handlers
<1> DEFINE Late == {"dstdone", "finish"}
<1>1. ASSUME UNCHANGED <<curr, regs, run>>,
             \A h \in Handlers : \/ fin'[h].pc = fin[h].pc
                                 \/ fin[h].pc \notin Late /\ fin'[h].pc \notin Late
      PROVE  UNCHANGED Job
  <2>1. \A d \in Dirs : NotBack(d)' <=> NotBack(d)
    BY <1>1 DEF NotBack
  <2> QED BY <1>1, <2>1, JobKept
<1>2. ASSUME NEW c \in Ctx, User(c) \/ Stop(c) PROVE UNCHANGED Job
  BY <1>1, <1>2
  DEF User, Stop, Open, Release, StreamOn, StreamOff, QBuf, CancelJob,
      CancelWait, StopStreaming
<1>3. CASE HwStep \/ RuntimeSuspend \/ UNCHANGED vars
  BY <1>1, <1>3 DEF HwStep, HwHang, HwFinish, RuntimeSuspend, vars
<1>4. CASE TryRun
  <2>1. \A d \in Dirs : curr = None /\ ~NotBack(d)'
    BY <1>4 DEF TryRun, NotBack
  <2> QED BY <2>1, JobKept
<1>5. CASE RunGet
  <2>1. \A d \in Dirs : ~NotBack(d) /\ ~NotBack(d)'
    BY <1>5 DEF RunGet, NotBack, TypeOK, RunType
  <2> QED BY <2>1, JobKept
<1>6. CASE RunArm \/ RunKick
  <2>1. UNCHANGED <<curr, regs, fin>> /\ run.pc \in {"arm", "kick"}
    BY <1>6 DEF RunArm, RunKick
  <2>2. run'.pc \in {"kick", "idle"}
    BY <1>6 DEF RunArm, RunKick, IdleRun, TypeOK, RunType
  <2>3. \A d \in Dirs : NotBack(d)' <=> NotBack(d)
    BY <2>1, <2>2 DEF NotBack
  <2> QED BY <2>1, <2>3, JobKept
<1>7. CASE IrqRead \/ IrqAck \/ IrqGetCurr \/ IrqCancel
  <2>1. UNCHANGED <<curr, regs, run>> /\ fin'["wd"] = fin["wd"]
    BY <1>7 DEF IrqRead, IrqAck, IrqGetCurr, IrqCancel, TypeOK
  <2>2. fin["irq"].pc \notin Late
    BY <1>7 DEF IrqRead, IrqAck, IrqGetCurr, IrqCancel
  <2>3. fin'["irq"].pc \notin Late
    <3>1. CASE IrqRead
      BY <3>1 DEF IrqRead, TypeOK, IdleHandler
    <3>2. CASE IrqAck \/ IrqGetCurr
      BY <3>2 DEF IrqAck, IrqGetCurr, TypeOK, HandlerType
    <3>3. CASE IrqCancel
      BY <3>3 DEF IrqCancel, TypeOK, HandlerType, IdleHandler
    <3> QED BY <1>7, <3>1, <3>2, <3>3
  <2> QED BY <1>1, <2>1, <2>2, <2>3
<1>8. CASE WatchdogFire \/ WdGetCurr \/ WdReset
  <2>1. UNCHANGED <<curr, regs, run>> /\ fin'["irq"] = fin["irq"]
    BY <1>8 DEF WatchdogFire, WdGetCurr, WdReset, TypeOK
  <2>2. fin["wd"].pc \notin Late
    BY <1>8 DEF WatchdogFire, WdGetCurr, WdReset
  <2>3. fin'["wd"].pc \notin Late
    <3>1. CASE WatchdogFire
      BY <3>1 DEF WatchdogFire, TypeOK, IdleHandler
    <3>2. CASE WdGetCurr
      BY <3>2 DEF WdGetCurr, TypeOK, HandlerType, IdleHandler
    <3>3. CASE WdReset
      BY <3>3 DEF WdReset, TypeOK, HandlerType
    <3> QED BY <1>8, <3>1, <3>2, <3>3
  <2> QED BY <1>1, <2>1, <2>2, <2>3
<1>9. ASSUME NEW h \in Handlers, FinSrc(h) \/ FinDst(h) \/ FinPut(h)
      PROVE  UNCHANGED Job
  <2>1. /\ UNCHANGED <<curr, regs, run>>
        /\ \A k \in Handlers \ {h} : fin'[k] = fin[k]
        /\ fin[h].pc \notin Late /\ fin'[h].pc \notin Late
    BY <1>9 DEF FinSrc, FinDst, FinPut, TypeOK, HandlerType, IdleHandler
  <2> QED BY <1>1, <2>1
<1>10. ASSUME NEW h \in Handlers, FinJob(h) PROVE UNCHANGED Job
  <2>1. fin[h].pc = "finish" /\ fin[h].ctx = curr
    BY <1>10 DEF FinJob, PhaseInv, CtxPhase, Finishing
  <2>2. curr' = None /\ \A d \in Dirs : ~NotBack(d)
    BY <1>10, <2>1 DEF FinJob, NotBack
  <2> QED BY <2>2, JobKept
<1> QED
  BY <1>2, <1>3, <1>4, <1>5, <1>6, <1>7, <1>8, <1>9, <1>10
  DEF Next, DeviceRun, Irq, Watchdog, JobFinish

\* The registers are programmed with the heads of what is pending, on a
\* device that has no other job.
LEMMA SlotLoad ==
  ASSUME TypeOK, PhaseInv, BufInv, StreamInv, UNCHANGED Pending, RunProgram
  PROVE  Slot!Next
<1> USE DEF userVars, vb2Vars, m2mVars, hwVars, wdVars, pmVars
<1>1. /\ curr \in Ctx /\ run.ctx = curr /\ run.pc = "program"
      /\ UNCHANGED <<curr, streaming, fin>> /\ run'.pc = "arm"
      /\ regs'.src = HeadOrNone(queue[curr]["out"])
      /\ regs'.dst = HeadOrNone(queue[curr]["cap"])
  BY DEF RunProgram, TypeOK, RunType, PhaseInv, RunPhase
<1>2. \A h \in Handlers : Resting(h)
  BY <1>1 DEF PhaseInv, RunPhase
<1>3. \A d \in Dirs : ~NotBack(d) /\ NotBack(d)'
  BY <1>1, <1>2 DEF NotBack, Resting
<1>4. \A d \in Dirs : /\ Pending[curr][d] = queue[curr][d]
                      /\ queue[curr][d] # <<>> /\ queue[curr][d] \in Seq(Buf)
  <2> TAKE d \in Dirs
  <2>1. \A h \in Handlers : Held(fin[h], curr, d) = <<>>
    BY <1>2, HeldFacts DEF Resting
  <2>2. queue[curr][d] # <<>> /\ queue[curr][d] \in Seq(Buf)
    BY <1>1 DEF BufInv, ReadyToRun, TypeOK
  <2>3. <<>> \o <<>> \o queue[curr][d] = queue[curr][d]
    BY <2>2
  <2> QED BY <1>1, <2>1, <2>2, <2>3 DEF Pending, Handlers
<1>5. \A c \in Ctx : Job[c] = Slot!NoJob
  BY <1>3 DEF Job, Slot!NoJob
<1>6. Job' = [Job EXCEPT ![curr] = [d \in Dirs |-> Head(Pending[curr][d])]]
  <2>1. \A d \in Dirs : Job'[curr][d] = Head(Pending[curr][d])
    BY <1>1, <1>3, <1>4, JobIs DEF HeadOrNone, Dirs
  <2>2. \A c \in Ctx \ {curr}, d \in Dirs : Job'[c][d] = Job[c][d]
    BY <1>1, <1>3, JobIs
  <2> QED BY <1>1, <2>1, <2>2, JobIs
<1>7. streaming[curr] = Dirs
  BY <1>1, CtxAssumption DEF StreamInv
<1>8. Slot!Load(curr)
  BY <1>1, <1>4, <1>5, <1>6, <1>7 DEF Slot!Load
<1> QED BY <1>1, <1>8 DEF Slot!Next

\* The raw frame is handed to vb2.
LEMMA SlotFrame ==
  ASSUME TypeOK, PhaseInv, BufInv, RightPair, curr \in Ctx,
         NEW h \in Handlers, FinSrcDone(h), Service!ReturnFrame(curr)
  PROVE  Slot!Next
<1> USE DEF userVars, vb2Vars, m2mVars, hwVars, wdVars, pmVars
<1>1. /\ fin[h].pc = "srcdone" /\ fin'[h].pc = "dstdone"
      /\ \A k \in Handlers \ {h} : fin'[k] = fin[k] /\ Resting(k)
      /\ UNCHANGED <<curr, regs, run>> /\ run.pc = "idle"
  <2>1. /\ fin[h].pc = "srcdone" /\ UNCHANGED <<curr, regs, run>>
        /\ fin' = [fin EXCEPT ![h].pc = "dstdone"]
    BY DEF FinSrcDone
  <2>2. \A k \in Handlers \ {h} : Resting(k)
    BY <2>1 DEF PhaseInv, FinPhase, Finishing
  <2>3. run.pc = "idle"
    BY <2>1 DEF PhaseInv, RunPhase, Resting
  <2> QED BY <2>1, <2>2, <2>3 DEF TypeOK, HandlerType
<1>2. regs.src # None /\ regs.dst # None
  BY <1>1 DEF RightPair
<1>3. /\ NotBack("out") /\ ~NotBack("out")'
      /\ NotBack("cap") /\ NotBack("cap")'
  BY <1>1 DEF NotBack, Resting, Handlers
<1>4. Job[curr]["out"] # None
  BY <1>2, <1>3, JobIs DEF Dirs
<1>5. Job' = [Job EXCEPT ![curr] = [d \in Dirs |-> IF d \in {"out"} THEN None
                                                  ELSE Job[curr][d]]]
  <2>1. \A d \in Dirs : Job'[curr][d] = IF d \in {"out"} THEN None
                                        ELSE Job[curr][d]
    BY <1>1, <1>3, JobIs DEF Dirs
  <2>2. \A c \in Ctx \ {curr}, d \in Dirs : Job'[c][d] = Job[c][d]
    BY <1>1, JobIs
  <2> QED BY <2>1, <2>2, JobIs
<1>6. /\ Pending' = [Pending EXCEPT ![curr] =
                       [d \in Dirs |-> IF d \in {"out"}
                                       THEN Tail(Pending[curr][d])
                                       ELSE Pending[curr][d]]]
      /\ UNCHANGED streaming
  <2>1. /\ Pending' = [Pending EXCEPT ![curr]["out"] = Tail(@)]
        /\ UNCHANGED streaming
    BY DEF Service!ReturnFrame
  <2> QED BY <2>1, PendingIs DEF Dirs
<1>7. Slot!Return(curr, {"out"})
  BY <1>4, <1>5, <1>6 DEF Slot!Return
<1> QED BY <1>7 DEF Slot!Next, Dirs

\* ... then the JPEG.
LEMMA SlotJpeg ==
  ASSUME TypeOK, PhaseInv, BufInv, curr \in Ctx,
         NEW h \in Handlers, FinDstDone(h), Service!ReturnJpeg(curr)
  PROVE  Slot!Next
<1> USE DEF userVars, vb2Vars, m2mVars, hwVars, wdVars, pmVars
<1>1. /\ fin[h].pc = "dstdone" /\ fin'[h].pc = "finish"
      /\ \A k \in Handlers \ {h} : fin'[k] = fin[k] /\ Resting(k)
      /\ UNCHANGED <<curr, regs, run>> /\ run.pc = "idle"
  <2>1. /\ fin[h].pc = "dstdone" /\ UNCHANGED <<curr, regs, run>>
        /\ fin' = [fin EXCEPT ![h].pc = "finish"]
    BY DEF FinDstDone
  <2>2. \A k \in Handlers \ {h} : Resting(k)
    BY <2>1 DEF PhaseInv, FinPhase, Finishing
  <2>3. run.pc = "idle"
    BY <2>1 DEF PhaseInv, RunPhase, Resting
  <2> QED BY <2>1, <2>2, <2>3 DEF TypeOK, HandlerType
<1>2. regs.dst # None
  <2>1. regs.dst \in active[curr]["cap"]
    BY <1>1 DEF BufInv, DstHeld
  <2> QED BY <2>1, BufAssumption DEF TypeOK, Dirs
<1>3. /\ ~NotBack("out") /\ ~NotBack("out")'
      /\ NotBack("cap") /\ ~NotBack("cap")'
  BY <1>1 DEF NotBack, Resting, Handlers
<1>4. Job[curr]["cap"] # None
  BY <1>2, <1>3, JobIs DEF Dirs
<1>5. Job' = [Job EXCEPT ![curr] = [d \in Dirs |-> IF d \in {"cap"} THEN None
                                                  ELSE Job[curr][d]]]
  <2>1. \A d \in Dirs : Job'[curr][d] = IF d \in {"cap"} THEN None
                                        ELSE Job[curr][d]
    BY <1>1, <1>3, JobIs DEF Dirs
  <2>2. \A c \in Ctx \ {curr}, d \in Dirs : Job'[c][d] = Job[c][d]
    BY <1>1, JobIs
  <2> QED BY <2>1, <2>2, JobIs
<1>6. /\ Pending' = [Pending EXCEPT ![curr] =
                       [d \in Dirs |-> IF d \in {"cap"}
                                       THEN Tail(Pending[curr][d])
                                       ELSE Pending[curr][d]]]
      /\ UNCHANGED streaming
  <2>1. /\ Pending' = [Pending EXCEPT ![curr]["cap"] = Tail(@)]
        /\ UNCHANGED streaming
    BY DEF Service!ReturnJpeg
  <2> QED BY <2>1, PendingIs DEF Dirs
<1>7. Slot!Return(curr, {"cap"})
  BY <1>4, <1>5, <1>6 DEF Slot!Return
<1> QED BY <1>7 DEF Slot!Next, Dirs

\* Every step of VpuJob is a step of JobSlot or changes nothing it sees.
LEMMA SlotStep ==
  ASSUME TypeOK, ListInv, PhaseInv, BufInv, RightPair, SafeToReturn,
         StopInv, StreamInv, [Next]_vars
  PROVE  [Slot!Next]_(Slot!vars)
<1>1. ASSUME UNCHANGED Job, UNCHANGED Service!vars
      PROVE  UNCHANGED Slot!vars
  BY <1>1 DEF Service!vars, Slot!vars
<1>2. ASSUME NEW c \in Ctx, NEW d \in Dirs, NEW b \in Buf, QBuf(c, d, b)
      PROVE  Slot!Next
  <2>1. UNCHANGED Job
    BY <1>2, JobKept DEF QBuf, NotBack, hwVars
  <2>2. Service!Give(c, d, b)
    BY <1>2, ServiceMoves
  <2>3. Slot!Give(c, d, b)
    BY <2>1, <2>2 DEF Service!Give, Slot!Give, Service!ToSet, Slot!ToSet
  <2> QED BY <2>3 DEF Slot!Next
<1>3. ASSUME NEW c \in Ctx, NEW d \in Dirs, StreamOn(c, d)
      PROVE  Slot!Next
  <2>1. UNCHANGED Job
    BY <1>3, JobKept DEF StreamOn, NotBack, hwVars
  <2>2. Service!Start(c, d)
    BY <1>3, ServiceMoves
  <2>3. Slot!Start(c, d)
    BY <2>1, <2>2 DEF Service!Start, Slot!Start
  <2> QED BY <2>3 DEF Slot!Next
<1>4. ASSUME NEW c \in Ctx, NEW D \in SUBSET Dirs, D # {}, CancelJob(c, D)
      PROVE  UNCHANGED Slot!vars
  <2>1. UNCHANGED Job
    BY <1>4, JobKept DEF CancelJob, NotBack, hwVars
  <2>2. Service!BeginStop(c, D)
    BY <1>4, ServiceMoves
  <2> QED BY <2>1, <2>2 DEF Service!BeginStop, Slot!vars
<1>5. ASSUME NEW c \in Ctx, StopStreaming(c)
      PROVE  Slot!Next
  <2>1. UNCHANGED Job
    BY <1>5, JobKept DEF StopStreaming, NotBack, hwVars
  <2>2. Service!EndStop(c)
    BY <1>5, ServiceMoves
  <2>3. curr # c
    BY <1>5 DEF StopStreaming, SafeToReturn
  <2>4. Job[c] = Slot!NoJob
    BY <2>3 DEF Job, Slot!NoJob
  <2>5. Stopping[c] \in SUBSET Dirs
    BY DEF Stopping, TypeOK, StopType
  <2>6. Slot!Stop(c, Stopping[c])
    BY <2>1, <2>2, <2>4 DEF Service!EndStop, Service!Dirs, Slot!Stop, Dirs
  <2> QED BY <2>5, <2>6 DEF Slot!Next
<1>6. CASE RunProgram
  <2>1. UNCHANGED Service!vars
    BY <1>6, ServiceMoves DEF Silent, DeviceRun
  <2> QED BY <1>6, <2>1, SlotLoad DEF Service!vars
<1>7. ASSUME NEW h \in Handlers, FinSrcDone(h) \/ FinDstDone(h)
      PROVE  Slot!Next
  BY <1>7, ServiceMoves, SlotFrame, SlotJpeg
<1>8. CASE (Silent \/ UNCHANGED vars) /\ ~RunProgram
           /\ \A h \in Handlers : ~FinSrcDone(h) /\ ~FinDstDone(h)
  <2>1. UNCHANGED Service!vars
    BY <1>8, ServiceMoves
  <2>2. UNCHANGED Job
    BY <1>8, ServiceMoves, JobStays
  <2> QED BY <1>1, <2>1, <2>2
<1>9. ASSUME NEW c \in Ctx, User(c) \/ Stop(c)
      PROVE  [Slot!Next]_(Slot!vars) \/ Silent
  <2>1. CASE Release(c)
    <3>1. CancelJob(c, Dirs) /\ Dirs # {}
      BY <2>1 DEF Release, Dirs
    <3> QED BY <1>4, <3>1
  <2>2. ASSUME NEW d \in Dirs, StreamOff(c, d)
        PROVE  UNCHANGED Slot!vars
    BY <1>4, <2>2 DEF StreamOff
  <2> QED BY <1>2, <1>3, <1>5, <1>9, <2>1, <2>2 DEF User, Stop, Silent
<1> QED
  BY <1>6, <1>7, <1>8, <1>9, ServiceMoves
  DEF Next, Irq, Watchdog, JobFinish, Silent, Handlers

\* VpuJob implements JobSlot: what EncFormat assumes of the end of its jobs
\* is true of them.
THEOREM SlotCorrect == ASSUME Timely PROVE Spec => SlotSafety
<1>1. Init => Slot!Init
  <2> SUFFICES ASSUME Init PROVE Slot!Init
    OBVIOUS
  <2>1. \A c \in Ctx, d \in Dirs, h \in Handlers :
          queue[c][d] = <<>> /\ Held(fin[h], c, d) = <<>>
    BY HeldFacts DEF Init, IdleHandler, Handlers
  <2>2. <<>> \o <<>> \o <<>> = <<>>
    OBVIOUS
  <2>3. Pending = [c \in Ctx |-> [d \in Dirs |-> <<>>]]
    BY <2>1, <2>2 DEF Pending, Handlers
  <2>4. \A c \in Ctx : curr # c
    BY CtxAssumption DEF Init
  <2>5. Job = [c \in Ctx |-> Slot!NoJob]
    BY <2>4 DEF Job, Slot!NoJob
  <2> QED BY <2>3, <2>5 DEF Init, Slot!Init
<1>2. TypeOK /\ ListInv /\ PhaseInv /\ BufInv /\ RightPair /\ SafeToReturn
      /\ StopInv /\ StreamInv /\ [Next]_vars
      => [Slot!Next]_(Slot!vars)
  BY SlotStep
<1> QED
  BY <1>1, <1>2, TypeCorrect, ListCorrect, StopInvCorrect, PhaseCorrect,
     BufCorrect, PairCorrect, StopCorrect, PTL
  DEF Spec, SlotSafety, Slot!Spec
=============================================================================
