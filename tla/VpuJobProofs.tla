---------------------------- MODULE VpuJobProofs ----------------------------
(***************************************************************************)
(* Type correctness of VpuJob and the soundness of the job list, for all   *)
(* contexts and buffers and whatever the watchdog does; then, with a       *)
(* timely encoder, what follows from a job being in one actor's hands.     *)
(***************************************************************************)
EXTENDS VpuJobInv, SequenceTheorems, TLAPS

\* Appending to the job list, or to a buffer queue, adds just that element.
LEMMA AppendFresh ==
  ASSUME NEW S, NEW s \in Seq(S), NEW c \in S
  PROVE  /\ ToSet(Append(s, c)) = ToSet(s) \cup {c}
         /\ IsInjective(s) /\ c \notin ToSet(s) => IsInjective(Append(s, c))
<1>1. /\ DOMAIN Append(s, c) = 1 .. Len(s) + 1
      /\ \A i \in 1 .. Len(s) : Append(s, c)[i] = s[i]
      /\ Append(s, c)[Len(s) + 1] = c
      /\ DOMAIN s = 1 .. Len(s) /\ Len(s) \in Nat
  OBVIOUS
<1>2. ToSet(Append(s, c)) = ToSet(s) \cup {c}
  BY <1>1 DEF ToSet
<1>3. ASSUME IsInjective(s), c \notin ToSet(s) PROVE IsInjective(Append(s, c))
  <2> SUFFICES ASSUME NEW i \in 1 .. Len(s) + 1, NEW j \in 1 .. Len(s) + 1,
                      Append(s, c)[i] = Append(s, c)[j]
               PROVE  i = j
    BY <1>1 DEF IsInjective
  <2>1. CASE i \in 1 .. Len(s) /\ j \in 1 .. Len(s)
    BY <1>1, <1>3, <2>1 DEF IsInjective
  <2>2. CASE i = Len(s) + 1 \/ j = Len(s) + 1
    <3>1. \A k \in 1 .. Len(s) : Append(s, c)[k] # c
      BY <1>1, <1>3 DEF ToSet
    <3> QED BY <1>1, <2>2, <3>1
  <2> QED BY <1>1, <2>1, <2>2
<1> QED BY <1>2, <1>3

\* Taking the head of a list without duplicates removes it for good.
LEMMA TailFresh ==
  ASSUME NEW S, NEW s \in Seq(S), s # <<>>
  PROVE  /\ Head(s) \in ToSet(s)
         /\ ToSet(Tail(s)) \subseteq ToSet(s)
         /\ ToSet(s) \ {Head(s)} \subseteq ToSet(Tail(s))
         /\ IsInjective(s) => /\ IsInjective(Tail(s))
                              /\ Head(s) \notin ToSet(Tail(s))
<1>1. /\ DOMAIN s = 1 .. Len(s) /\ Len(s) \in Nat \ {0} /\ Head(s) = s[1]
      /\ DOMAIN Tail(s) = 1 .. Len(s) - 1
      /\ \A i \in 1 .. Len(s) - 1 : Tail(s)[i] = s[i + 1]
  OBVIOUS
<1>2. Head(s) \in ToSet(s) /\ ToSet(Tail(s)) \subseteq ToSet(s)
  BY <1>1 DEF ToSet
<1>3. ASSUME IsInjective(s)
      PROVE  IsInjective(Tail(s)) /\ Head(s) \notin ToSet(Tail(s))
  BY <1>1, <1>3 DEF IsInjective, ToSet
<1>4. ToSet(s) \ {Head(s)} \subseteq ToSet(Tail(s))
  <2> SUFFICES ASSUME NEW x \in ToSet(s), x # Head(s)
               PROVE  x \in ToSet(Tail(s))
    OBVIOUS
  <2>1. PICK i \in 1 .. Len(s) : s[i] = x
    BY <1>1 DEF ToSet
  <2>2. i - 1 \in 1 .. Len(s) - 1 /\ (i - 1) + 1 = i
    BY <1>1, <2>1
  <2>3. i - 1 \in DOMAIN Tail(s) /\ Tail(s)[i - 1] = x
    BY <1>1, <2>1, <2>2
  <2> QED BY <2>3 DEF ToSet
<1> QED BY <1>2, <1>3, <1>4

\* list_del of a context that is on the list closes the gap it leaves.
LEMMA WithoutShape ==
  ASSUME NEW S, NEW s \in Seq(S), NEW c \in ToSet(s)
  PROVE  \E n \in 1 .. Len(s) :
           /\ s[n] = c
           /\ Without(s, c) \in Seq(S)
           /\ Len(Without(s, c)) = Len(s) - 1
           /\ \A i \in 1 .. Len(s) - 1 :
                Without(s, c)[i] = IF i < n THEN s[i] ELSE s[i + 1]
<1>1. PICK n \in 1 .. Len(s) : s[n] = c /\ Without(s, c) = RemoveAt(s, n)
  <2> DEFINE n == CHOOSE i \in DOMAIN s : s[i] = c
  <2>1. n \in DOMAIN s /\ s[n] = c
    BY DEF ToSet
  <2>2. Without(s, c) = RemoveAt(s, n)
    BY DEF Without
  <2> HIDE DEF n
  <2> QED BY <2>1, <2>2
<1> DEFINE t == RemoveAt(s, n)
           a == SubSeq(s, 1, n - 1)
           b == SubSeq(s, n + 1, Len(s))
<1>2. /\ a \in Seq(S) /\ Len(a) = n - 1
      /\ \A i \in 1 .. n - 1 : a[i] = s[i]
  OBVIOUS
<1>3. /\ b \in Seq(S) /\ Len(b) = Len(s) - n
      /\ \A i \in 1 .. Len(s) - n : b[i] = s[n + i]
  OBVIOUS
<1>4. t = a \o b
  BY DEF RemoveAt
<1> HIDE DEF a, b, t
<1>5. /\ t \in Seq(S) /\ Len(t) = Len(a) + Len(b)
      /\ \A i \in 1 .. Len(a) + Len(b) :
           t[i] = IF i <= Len(a) THEN a[i] ELSE b[i - Len(a)]
  BY <1>2, <1>3, <1>4, ConcatProperties
<1>6. ASSUME NEW i \in 1 .. Len(s) - 1
      PROVE  t[i] = IF i < n THEN s[i] ELSE s[i + 1]
  <2>0. /\ Len(s) \in Nat /\ n \in Nat /\ n >= 1 /\ n <= Len(s)
        /\ i \in Nat /\ i >= 1 /\ i <= Len(s) - 1
    OBVIOUS
  <2>3. t[i] = IF i <= n - 1 THEN a[i] ELSE b[i - (n - 1)]
    <3>1. Len(a) = n - 1 /\ i \in 1 .. Len(a) + Len(b)
      BY <1>2, <1>3, <2>0
    <3> QED BY <1>5, <3>1
  <2>1. CASE i < n
    BY <1>2, <2>0, <2>1, <2>3
  <2>2. CASE i >= n
    <3>1. t[i] = b[i - (n - 1)]
      BY <2>0, <2>2, <2>3
    <3>2. i - (n - 1) \in 1 .. Len(s) - n /\ n + (i - (n - 1)) = i + 1
      BY <2>0, <2>2
    <3> QED BY <1>3, <2>0, <2>2, <3>1, <3>2
  <2> QED BY <2>1, <2>2
<1>7. Len(t) = Len(s) - 1
  BY <1>2, <1>3, <1>5
<1> QED BY <1>1, <1>5, <1>6, <1>7 DEF t

\* ... leaves the others, in their order, and no trace of that one.
LEMMA WithoutFresh ==
  ASSUME NEW S, NEW s \in Seq(S), NEW c
  PROVE  /\ Without(s, c) \in Seq(S)
         /\ ToSet(Without(s, c)) \subseteq ToSet(s)
         /\ ToSet(s) \ {c} \subseteq ToSet(Without(s, c))
         /\ IsInjective(s) => /\ IsInjective(Without(s, c))
                              /\ c \notin ToSet(Without(s, c))
<1>1. CASE c \in ToSet(s)
  <2> DEFINE t == Without(s, c)
  <2>1. PICK n \in 1 .. Len(s) :
          /\ s[n] = c
          /\ t \in Seq(S)
          /\ Len(t) = Len(s) - 1
          /\ \A i \in 1 .. Len(s) - 1 : t[i] = IF i < n THEN s[i] ELSE s[i + 1]
    BY <1>1, WithoutShape
  <2> HIDE DEF t
  <2>2. /\ DOMAIN t = 1 .. Len(s) - 1 /\ DOMAIN s = 1 .. Len(s)
        /\ Len(s) \in Nat
    BY <2>1
  <2>3. ToSet(t) \subseteq ToSet(s)
    <3>1. ASSUME NEW i \in 1 .. Len(s) - 1
          PROVE  \E j \in 1 .. Len(s) : t[i] = s[j]
      <4>1. i \in 1 .. Len(s) /\ i + 1 \in 1 .. Len(s)
        BY <2>2
      <4> QED BY <2>1, <4>1
    <3> QED BY <2>2, <3>1 DEF ToSet
  <2>4. ToSet(s) \ {c} \subseteq ToSet(t)
    <3> SUFFICES ASSUME NEW j \in 1 .. Len(s), s[j] # c
                 PROVE  \E i \in 1 .. Len(s) - 1 : t[i] = s[j]
      BY <2>2 DEF ToSet
    <3>1. CASE j < n
      BY <2>1, <3>1
    <3>2. CASE j > n
      <4>1. j - 1 \in 1 .. Len(s) - 1 /\ ~(j - 1 < n) /\ (j - 1) + 1 = j
        BY <3>2
      <4> QED BY <2>1, <4>1
    <3> QED BY <2>1, <2>2, <3>1, <3>2
  <2>5. ASSUME IsInjective(s) PROVE IsInjective(t) /\ c \notin ToSet(t)
    <3>1. \A i, j \in 1 .. Len(s) : s[i] = s[j] => i = j
      BY <2>2, <2>5 DEF IsInjective
    <3>2. IsInjective(t)
      BY <2>1, <2>2, <3>1 DEF IsInjective
    <3>3. \A i \in 1 .. Len(s) - 1 : t[i] # c
      BY <2>1, <3>1
    <3> QED BY <2>2, <3>2, <3>3 DEF ToSet
  <2> QED BY <2>1, <2>3, <2>4, <2>5 DEF t
<1> QED BY <1>1 DEF Without

\* The helpers' results have their types.
LEMMA TryQueueType ==
  ASSUME jobq \in Seq(Ctx), NEW c \in Ctx, NEW strm, NEW q, NEW cur
  PROVE  TryQueue(c, strm, q, cur) \in Seq(Ctx)
BY DEF TryQueue

LEMMA HeadTailType ==
  ASSUME NEW s \in Seq(Buf)
  PROVE  /\ HeadOrNone(s) \in Buf \cup {None}
         /\ TailOrEmpty(s) \in Seq(Buf)
BY DEF HeadOrNone, TailOrEmpty

LEMMA PmType ==
  ASSUME usage \in -UsageBound .. UsageBound, clocks \in BOOLEAN,
         PmGet \/ PmPut
  PROVE  /\ usage' \in -UsageBound .. UsageBound
         /\ clocks' \in BOOLEAN
<1>1. usage' \in -UsageBound .. UsageBound
  BY UsageAssumption DEF PmGet, PmPut
<1>2. clocks' \in BOOLEAN
  BY DEF PmGet, PmPut
<1> QED BY <1>1, <1>2

\* Every reachable state is well typed; no handler works for NULL
\* (rockchip_vpu_drv.c:90, 102).
THEOREM TypeCorrect == Spec => []TypeOK
<1>1. Init => TypeOK
  <2> SUFFICES ASSUME Init PROVE TypeOK
    OBVIOUS
  <2>1. stop \in [Ctx -> StopType] /\ run \in RunType
    BY DEF Init, IdleStop, IdleRun, StopType, RunType
  <2>2. regs \in RegsType /\ hw \in HwType
    BY DEF Init, RegsType, HwType
  <2>3. IdleHandler \in HandlerType
    BY DEF IdleHandler, HandlerType
  <2>4. queue \in [Ctx -> [Dirs -> Seq(Buf)]] /\ jobq \in Seq(Ctx)
    BY DEF Init
  <2>5. run.pc = "idle" /\ \A h \in Handlers : fin[h].pc = "idle"
    BY DEF Init, IdleRun, IdleHandler
  <2>6. fin \in [Handlers -> HandlerType]
    BY <2>3 DEF Init
  <2>7. /\ open \in [Ctx -> {"closed", "open", "closing"}]
        /\ streaming \in [Ctx -> SUBSET Dirs]
        /\ active \in [Ctx -> [Dirs -> SUBSET Buf]]
        /\ abort \in [Ctx -> BOOLEAN]
    BY DEF Init
  <2>8. usage \in -UsageBound .. UsageBound
    BY UsageAssumption DEF Init
  <2>9. /\ curr \in Ctx \cup {None} /\ axi \in BOOLEAN /\ clocks \in BOOLEAN
        /\ timer \in {"off", "armed", "stale"} /\ overdue \in BOOLEAN
    BY DEF Init
  <2> QED
    BY <2>1, <2>2, <2>4, <2>5, <2>6, <2>7, <2>8, <2>9 DEF TypeOK, Finishing
<1>2. TypeOK /\ [Next]_vars => TypeOK'
  <2> SUFFICES ASSUME TypeOK, [Next]_vars PROVE TypeOK'
    OBVIOUS
  <2> USE DEF userVars, vb2Vars, m2mVars, hwVars, wdVars, pmVars
  <2>1. ASSUME NEW c \in Ctx, Open(c) PROVE TypeOK'
    BY <2>1 DEF Open, TypeOK
  <2>2. ASSUME NEW c \in Ctx, NEW d \in Dirs, NEW b \in Buf, QBuf(c, d, b)
        PROVE TypeOK'
    <3>1. queue' \in [Ctx -> [Dirs -> Seq(Buf)]]
      BY <2>2 DEF QBuf, TypeOK
    <3>2. active' \in [Ctx -> [Dirs -> SUBSET Buf]]
      BY <2>2 DEF QBuf, TypeOK
    <3>3. jobq' \in Seq(Ctx)
      BY <2>2, TryQueueType DEF QBuf, TypeOK
    <3> QED BY <2>2, <3>1, <3>2, <3>3 DEF QBuf, TypeOK
  <2>3. ASSUME NEW c \in Ctx, NEW d \in Dirs, StreamOn(c, d) PROVE TypeOK'
    BY <2>3, TryQueueType DEF StreamOn, TypeOK
  <2>4. ASSUME NEW c \in Ctx, NEW D \in SUBSET Dirs, CancelJob(c, D),
               open' \in [Ctx -> {"closed", "open", "closing"}]
        PROVE TypeOK'
    BY <2>4, WithoutFresh DEF CancelJob, TypeOK, StopType
  <2>5. ASSUME NEW c \in Ctx, CancelWait(c) PROVE TypeOK'
    BY <2>5 DEF CancelWait, TypeOK, StopType
  <2>6. ASSUME NEW c \in Ctx, StopStreaming(c) PROVE TypeOK'
    <3>1. queue' \in [Ctx -> [Dirs -> Seq(Buf)]]
      BY <2>6 DEF StopStreaming, TypeOK
    <3>2. active' \in [Ctx -> [Dirs -> SUBSET Buf]]
      BY <2>6 DEF StopStreaming, TypeOK
    <3>3. jobq' \in Seq(Ctx)
      BY <2>6, WithoutFresh DEF StopStreaming, TypeOK
    <3>4. stop' \in [Ctx -> StopType]
      BY <2>6 DEF StopStreaming, TypeOK, IdleStop, StopType
    <3> QED
      BY <2>6, <3>1, <3>2, <3>3, <3>4 DEF StopStreaming, TypeOK
  <2>7. ASSUME TryRun PROVE TypeOK'
    <3>1. Head(jobq) \in Ctx /\ Tail(jobq) \in Seq(Ctx)
      BY <2>7 DEF TryRun, TypeOK
    <3> QED BY <2>7, <3>1 DEF TryRun, TypeOK, RunType
  <2>8. ASSUME RunGet PROVE TypeOK'
    BY <2>8, PmType DEF RunGet, TypeOK, RunType
  <2>9. ASSUME RunProgram PROVE TypeOK'
    <3>1. \A d \in Dirs : HeadOrNone(queue[run.ctx][d]) \in Buf \cup {None}
      BY <2>9, HeadTailType DEF RunProgram, TypeOK
    <3>2. regs' \in RegsType
      BY <2>9, <3>1 DEF RunProgram, TypeOK, Dirs, RegsType
    <3>3. run' \in RunType /\ run'.ctx \in Ctx
      BY <2>9 DEF RunProgram, TypeOK, RunType
    <3> QED BY <2>9, <3>2, <3>3 DEF RunProgram, TypeOK
  <2>10. ASSUME RunArm PROVE TypeOK'
    BY <2>10 DEF RunArm, TypeOK, RunType
  <2>11. ASSUME RunKick PROVE TypeOK'
    BY <2>11 DEF RunKick, TypeOK, IdleRun, RunType, HwType
  <2>12. ASSUME HwStep PROVE TypeOK'
    BY <2>12 DEF HwStep, HwHang, HwFinish, TypeOK, HwType
  <2>13. ASSUME WatchdogFire PROVE TypeOK'
    BY <2>13
    DEF WatchdogFire, TypeOK, IdleHandler, Handlers, HandlerType, Finishing
  <2>14. ASSUME IrqRead PROVE TypeOK'
    BY <2>14 DEF IrqRead, TypeOK, IdleHandler, Handlers, HandlerType, Finishing
  <2>15. ASSUME IrqAck PROVE TypeOK'
    BY <2>15 DEF IrqAck, TypeOK, Handlers, HandlerType, HwType, Finishing
  <2>16. ASSUME IrqGetCurr PROVE TypeOK'
    BY <2>16 DEF IrqGetCurr, TypeOK, Handlers, HandlerType, Finishing
  <2>17. ASSUME IrqCancel PROVE TypeOK'
    BY <2>17
    DEF IrqCancel, TypeOK, IdleHandler, Handlers, HandlerType, Finishing
  <2>18. ASSUME WdGetCurr PROVE TypeOK'
    BY <2>18
    DEF WdGetCurr, TypeOK, IdleHandler, Handlers, HandlerType, Finishing
  <2>19. ASSUME WdReset PROVE TypeOK'
    BY <2>19 DEF WdReset, TypeOK, Handlers, HandlerType, HwType, Finishing
  <2>20. ASSUME NEW h \in Handlers, JobFinish(h) PROVE TypeOK'
    <3>1. CASE FinSrc(h)
      <4>1. queue' \in [Ctx -> [Dirs -> Seq(Buf)]]
        BY <3>1, HeadTailType DEF FinSrc, TypeOK, Finishing, Dirs
      <4>2. /\ fin' \in [Handlers -> HandlerType]
            /\ \A k \in Handlers : fin'[k].pc \in Finishing \cup {"reset"}
                                   => fin'[k].ctx \in Ctx
        <5>1. fin[h] \in HandlerType /\ fin[h].ctx \in Ctx
          BY <3>1 DEF FinSrc, TypeOK, Finishing
        <5>2. HeadOrNone(queue[fin[h].ctx]["out"]) \in Buf \cup {None}
          BY <5>1, HeadTailType DEF TypeOK, Dirs
        <5>3. fin'[h] \in HandlerType /\ fin'[h].ctx \in Ctx
          BY <3>1, <5>1, <5>2 DEF FinSrc, TypeOK, HandlerType, Finishing
        <5>4. \A k \in Handlers \ {h} : fin'[k] = fin[k]
          BY <3>1 DEF FinSrc, TypeOK
        <5>5. fin' = [k \in Handlers |-> fin'[k]]
          BY <3>1 DEF FinSrc, TypeOK
        <5> QED BY <5>3, <5>4, <5>5 DEF TypeOK
      <4> QED BY <3>1, <4>1, <4>2 DEF FinSrc, TypeOK
    <3>2. CASE FinDst(h)
      <4>1. queue' \in [Ctx -> [Dirs -> Seq(Buf)]]
        BY <3>2, HeadTailType DEF FinDst, TypeOK, Finishing, Dirs
      <4>2. /\ fin' \in [Handlers -> HandlerType]
            /\ \A k \in Handlers : fin'[k].pc \in Finishing \cup {"reset"}
                                   => fin'[k].ctx \in Ctx
        <5>1. fin[h] \in HandlerType /\ fin[h].ctx \in Ctx
          BY <3>2 DEF FinDst, TypeOK, Finishing
        <5>2. HeadOrNone(queue[fin[h].ctx]["cap"]) \in Buf \cup {None}
          BY <5>1, HeadTailType DEF TypeOK, Dirs
        <5>3. fin'[h] \in HandlerType /\ fin'[h].ctx \in Ctx
          BY <3>2, <5>1, <5>2 DEF FinDst, TypeOK, HandlerType, Finishing
        <5>4. \A k \in Handlers \ {h} : fin'[k] = fin[k]
          BY <3>2 DEF FinDst, TypeOK
        <5>5. fin' = [k \in Handlers |-> fin'[k]]
          BY <3>2 DEF FinDst, TypeOK
        <5> QED BY <5>3, <5>4, <5>5 DEF TypeOK
      <4> QED BY <3>2, <4>1, <4>2 DEF FinDst, TypeOK
    <3>3. CASE FinWarn(h)
      BY <3>3 DEF FinWarn, TypeOK, HandlerType, Finishing, IdleHandler
    <3>4. CASE FinSrcDone(h)
      <4>1. active' \in [Ctx -> [Dirs -> SUBSET Buf]]
        BY <3>4, HeadTailType DEF FinSrcDone, TypeOK, Finishing, Dirs
      <4>2. /\ fin' \in [Handlers -> HandlerType]
            /\ \A k \in Handlers : fin'[k].pc \in Finishing \cup {"reset"}
                                   => fin'[k].ctx \in Ctx
        <5>1. fin[h] \in HandlerType /\ fin[h].ctx \in Ctx
          BY <3>4 DEF FinSrcDone, TypeOK, Finishing
        <5>2. fin' = [fin EXCEPT ![h].pc = "dstdone"]
          BY <3>4 DEF FinSrcDone
        <5>3. fin'[h] \in HandlerType /\ fin'[h].ctx \in Ctx
          BY <5>1, <5>2 DEF TypeOK, HandlerType, Finishing
        <5>4. \A k \in Handlers \ {h} : fin'[k] = fin[k]
          BY <5>2 DEF TypeOK
        <5>5. fin' = [k \in Handlers |-> fin'[k]]
          BY <5>2 DEF TypeOK
        <5> QED BY <5>3, <5>4, <5>5 DEF TypeOK
      <4> QED BY <3>4, <4>1, <4>2 DEF FinSrcDone, TypeOK
    <3>5. CASE FinDstDone(h)
      <4>1. active' \in [Ctx -> [Dirs -> SUBSET Buf]]
        BY <3>5, HeadTailType DEF FinDstDone, TypeOK, Finishing, Dirs
      <4>2. /\ fin' \in [Handlers -> HandlerType]
            /\ \A k \in Handlers : fin'[k].pc \in Finishing \cup {"reset"}
                                   => fin'[k].ctx \in Ctx
        <5>1. fin[h] \in HandlerType /\ fin[h].ctx \in Ctx
          BY <3>5 DEF FinDstDone, TypeOK, Finishing
        <5>2. HeadOrNone(queue[fin[h].ctx]["cap"]) \in Buf \cup {None}
          BY <5>1, HeadTailType DEF TypeOK, Dirs
        <5>3. fin'[h] \in HandlerType /\ fin'[h].ctx \in Ctx
          BY <3>5, <5>1, <5>2 DEF FinDstDone, TypeOK, HandlerType, Finishing
        <5>4. \A k \in Handlers \ {h} : fin'[k] = fin[k]
          BY <3>5 DEF FinDstDone, TypeOK
        <5>5. fin' = [k \in Handlers |-> fin'[k]]
          BY <3>5 DEF FinDstDone, TypeOK
        <5> QED BY <5>3, <5>4, <5>5 DEF TypeOK
      <4> QED BY <3>5, <4>1, <4>2 DEF FinDstDone, TypeOK
    <3>6. CASE FinJob(h)
      <4>1. jobq' \in Seq(Ctx) /\ curr' \in Ctx \cup {None}
        BY <3>6, TryQueueType DEF FinJob, TypeOK, Finishing
      <4>2. /\ fin' \in [Handlers -> HandlerType]
            /\ \A k \in Handlers : fin'[k].pc \in Finishing \cup {"reset"}
                                   => fin'[k].ctx \in Ctx
        BY <3>6, HeadTailType
        DEF FinJob, TypeOK, HandlerType, Finishing, Dirs, IdleHandler
      <4> QED BY <3>6, <4>1, <4>2 DEF FinJob, TypeOK
    <3>7. CASE FinPut(h)
      BY <3>7, PmType DEF FinPut, TypeOK, HandlerType, Finishing, IdleHandler
    <3> QED BY <2>20, <3>1, <3>2, <3>3, <3>4, <3>5, <3>6, <3>7 DEF JobFinish
  <2>21. CASE RuntimeSuspend
    BY <2>21 DEF RuntimeSuspend, TypeOK
  <2>22. CASE UNCHANGED vars
    BY <2>22 DEF vars, TypeOK
  <2>23. ASSUME NEW c \in Ctx, User(c) PROVE TypeOK'
    <3>1. ASSUME NEW d \in Dirs, StreamOff(c, d) PROVE TypeOK'
      BY <3>1, <2>4 DEF StreamOff, TypeOK
    <3>2. CASE Release(c)
      BY <3>2, <2>4 DEF Release, TypeOK
    <3> QED BY <2>23, <2>1, <2>2, <2>3, <3>1, <3>2 DEF User
  <2> QED
    BY <2>5, <2>6, <2>7, <2>8, <2>9, <2>10, <2>11, <2>12, <2>13, <2>14,
       <2>15, <2>16, <2>17, <2>18, <2>19, <2>20, <2>21, <2>22, <2>23
    DEF Next, Stop, DeviceRun, Irq, Watchdog, Handlers
<1> QED BY <1>1, <1>2, PTL DEF Spec

\* TryQueue adds c, once, if it may be added.
LEMMA TryQueueFresh ==
  ASSUME jobq \in Seq(Ctx), NEW c \in Ctx, NEW strm, NEW q, NEW cur
  PROVE  LET l == TryQueue(c, strm, q, cur) IN
         /\ ToSet(jobq) \subseteq ToSet(l)
         /\ ToSet(l) \subseteq ToSet(jobq) \cup {c}
         /\ \/ l = jobq
            \/ c \notin ToSet(jobq) /\ l = Append(jobq, c)
         /\ /\ strm = Dirs /\ ~abort[c] /\ cur # c
            /\ \A d \in Dirs : q[d] # <<>>
            => c \in ToSet(l)
         /\ c \in ToSet(l) =>
              \/ c \in ToSet(jobq)
              \/ /\ strm = Dirs /\ ~abort[c] /\ cur # c
                 /\ \A d \in Dirs : q[d] # <<>>
         /\ IsInjective(jobq) => IsInjective(l)
<1> DEFINE l == TryQueue(c, strm, q, cur)
<1>1. CASE /\ strm = Dirs /\ ~abort[c] /\ cur # c /\ c \notin ToSet(jobq)
           /\ \A d \in Dirs : q[d] # <<>>
  <2>1. l = Append(jobq, c)
    BY <1>1 DEF TryQueue
  <2> QED BY <1>1, <2>1, AppendFresh
<1>2. CASE ~ /\ strm = Dirs /\ ~abort[c] /\ cur # c /\ c \notin ToSet(jobq)
             /\ \A d \in Dirs : q[d] # <<>>
  <2>1. l = jobq
    BY <1>2 DEF TryQueue
  <2>2. /\ strm = Dirs /\ ~abort[c] /\ cur # c /\ \A d \in Dirs : q[d] # <<>>
        => c \in ToSet(jobq)
    BY <1>2
  <2> QED BY <2>1, <2>2
<1> QED BY <1>1, <1>2

\* The strengthening of JobListSound that is inductive: the job list,
\* TRANS_ABORT and the context on the device agree, whatever the watchdog does.
THEOREM ListCorrect == Spec => []ListInv
<1>1. Init => ListInv
  BY DEF Init, ListInv, JobListSound, IdleStop, ToSet, IsInjective
<1>2. TypeOK /\ ListInv /\ [Next]_vars => ListInv'
  <2> SUFFICES ASSUME TypeOK, ListInv, [Next]_vars PROVE ListInv'
    OBVIOUS
  <2> USE DEF userVars, vb2Vars, m2mVars, hwVars, wdVars, pmVars
  <2>1. CASE UNCHANGED <<jobq, curr, abort, streaming, stop>>
    BY <2>1 DEF ListInv, JobListSound
  <2>2. ASSUME NEW c \in Ctx, NEW d \in Dirs, NEW b \in Buf, QBuf(c, d, b)
        PROVE ListInv'
    BY <2>2, TryQueueFresh DEF QBuf, TypeOK, ListInv, JobListSound
  <2>3. ASSUME NEW c \in Ctx, NEW d \in Dirs, StreamOn(c, d) PROVE ListInv'
    BY <2>3, TryQueueFresh DEF StreamOn, TypeOK, ListInv, JobListSound
  <2>4. ASSUME NEW c \in Ctx, NEW D \in SUBSET Dirs, CancelJob(c, D)
        PROVE ListInv'
    BY <2>4, WithoutFresh DEF CancelJob, TypeOK, ListInv, JobListSound
  <2>5. ASSUME NEW c \in Ctx, CancelWait(c) PROVE ListInv'
    BY <2>5 DEF CancelWait, TypeOK, ListInv, JobListSound
  <2>6. ASSUME NEW c \in Ctx, StopStreaming(c) PROVE ListInv'
    BY <2>6, WithoutFresh
    DEF StopStreaming, TypeOK, ListInv, JobListSound, IdleStop
  <2>7. ASSUME TryRun PROVE ListInv'
    BY <2>7, TailFresh DEF TryRun, TypeOK, ListInv, JobListSound
  <2>8. ASSUME NEW h \in Handlers, FinJob(h) PROVE ListInv'
    <3> DEFINE c == fin[h].ctx
    <3>1. CASE curr # c
      BY <2>8, <2>1, <3>1 DEF FinJob
    <3>2. CASE curr = c
      <4>1. /\ c \in Ctx /\ c \notin ToSet(jobq)
            /\ curr' = None /\ UNCHANGED <<abort, streaming, stop>>
            /\ jobq' = TryQueue(c, streaming[c], queue[c], None)
        BY <2>8, <3>2 DEF FinJob, TypeOK, Finishing, ListInv, JobListSound
      <4>2. \A x \in ToSet(jobq') : x \in Ctx
        BY <4>1, TryQueueType DEF TypeOK, ToSet
      <4> HIDE DEF c
      <4>3. IsInjective(jobq')
        BY <4>1, TryQueueFresh DEF TypeOK, ListInv, JobListSound
      <4>4. \A x \in ToSet(jobq') : ~abort[x] /\ streaming[x] = Dirs
        BY <4>1, TryQueueFresh DEF TypeOK, ListInv, JobListSound
      <4>5. None \notin Ctx
        BY CtxAssumption
      <4> QED
        BY <4>1, <4>2, <4>3, <4>4, <4>5 DEF ListInv, JobListSound
    <3> QED BY <3>1, <3>2
  <2>9. ASSUME NEW c \in Ctx, User(c) PROVE ListInv'
    BY <2>9, <2>1, <2>2, <2>3, <2>4
    DEF User, Open, StreamOff, Release
  <2>10. ASSUME NEW h \in Handlers, JobFinish(h) PROVE ListInv'
    BY <2>10, <2>1, <2>8
    DEF JobFinish, FinSrc, FinDst, FinWarn, FinSrcDone, FinDstDone, FinPut
  <2>11. CASE RunGet \/ RunProgram \/ RunArm \/ RunKick
    BY <2>11, <2>1 DEF RunGet, RunProgram, RunArm, RunKick
  <2>12. CASE IrqRead \/ IrqAck \/ IrqGetCurr \/ IrqCancel
    BY <2>12, <2>1 DEF IrqRead, IrqAck, IrqGetCurr, IrqCancel
  <2>13. CASE WatchdogFire \/ WdGetCurr \/ WdReset
    BY <2>13, <2>1 DEF WatchdogFire, WdGetCurr, WdReset
  <2>14. CASE HwStep \/ RuntimeSuspend
    BY <2>14, <2>1 DEF HwStep, HwHang, HwFinish, RuntimeSuspend
  <2>15. CASE UNCHANGED vars
    BY <2>15, <2>1 DEF vars
  <2> QED
    BY <2>5, <2>6, <2>7, <2>9, <2>10, <2>11, <2>12, <2>13, <2>14, <2>15
    DEF Next, Stop, DeviceRun, Irq, Watchdog, Handlers
<1> QED BY <1>1, <1>2, TypeCorrect, PTL DEF Spec

\* In particular no context is on mem2mem's job list twice, or while it is
\* on the device or being stopped (v4l2_m2m_cancel_job).
THEOREM JobListCorrect == Spec => []JobListSound
<1>1. ListInv => JobListSound
  BY DEF ListInv
<1> QED BY <1>1, ListCorrect, PTL

\* Whatever the watchdog does: a thread that stops a context stops some queue
\* of it, and the context on the device has both queues streaming.
LEMMA StopStep ==
  ASSUME TypeOK, ListInv, StopInv, StreamInv, [Next]_vars
  PROVE  StopInv' /\ StreamInv'
<1> USE DEF userVars, vb2Vars, m2mVars, hwVars, wdVars, pmVars
<1>1. ASSUME UNCHANGED <<stop, streaming>>, curr' \in {curr, None}
      PROVE  StopInv' /\ StreamInv'
  BY <1>1 DEF StopInv, StreamInv
<1>2. CASE UNCHANGED vars
  BY <1>1, <1>2 DEF vars
<1>3. CASE DeviceRun
  <2>1. CASE TryRun
    <3>1. UNCHANGED <<stop, streaming>> /\ jobq # <<>> /\ curr' = Head(jobq)
      BY <2>1 DEF TryRun
    <3>2. Head(jobq) \in ToSet(jobq)
      BY <3>1, TailFresh DEF TypeOK
    <3> QED BY <3>1, <3>2 DEF StopInv, StreamInv, ListInv, JobListSound
  <2> QED
    BY <1>1, <1>3, <2>1 DEF DeviceRun, RunGet, RunProgram, RunArm, RunKick
<1>4. CASE HwStep \/ RuntimeSuspend
  BY <1>1, <1>4 DEF HwStep, HwHang, HwFinish, RuntimeSuspend
<1>5. ASSUME NEW h \in Handlers, JobFinish(h) PROVE StopInv' /\ StreamInv'
  <2>1. CASE FinJob(h)
    BY <1>1, <2>1 DEF FinJob
  <2> QED
    BY <1>1, <1>5, <2>1 DEF JobFinish, FinSrc, FinDst, FinWarn, FinSrcDone,
       FinDstDone, FinPut
<1>6. CASE IrqRead \/ IrqAck \/ IrqGetCurr \/ IrqCancel
  BY <1>1, <1>6 DEF IrqRead, IrqAck, IrqGetCurr, IrqCancel
<1>7. CASE WatchdogFire \/ WdGetCurr \/ WdReset
  BY <1>1, <1>7 DEF WatchdogFire, WdGetCurr, WdReset
<1>8. ASSUME NEW c \in Ctx, Open(c) \/ \E d \in Dirs, b \in Buf : QBuf(c, d, b)
      PROVE  StopInv' /\ StreamInv'
  BY <1>1, <1>8 DEF Open, QBuf
<1>9. ASSUME NEW c \in Ctx, NEW d \in Dirs, StreamOn(c, d)
      PROVE  StopInv' /\ StreamInv'
  <2>1. /\ UNCHANGED <<stop, curr>>
        /\ streaming' = [streaming EXCEPT ![c] = @ \cup {d}]
    BY <1>9 DEF StreamOn
  <2> QED BY <2>1 DEF StopInv, StreamInv, TypeOK
<1>10. ASSUME NEW c \in Ctx, NEW D \in SUBSET Dirs, D # {}, CancelJob(c, D)
       PROVE  StopInv' /\ StreamInv'
  <2>1. /\ UNCHANGED <<streaming, curr>>
        /\ stop' = [stop EXCEPT ![c] = [pc |-> "wait", dirs |-> D]]
    BY <1>10 DEF CancelJob
  <2> QED BY <1>10, <2>1 DEF StopInv, StreamInv, TypeOK
<1>11. ASSUME NEW c \in Ctx, CancelWait(c)
       PROVE  StopInv' /\ StreamInv'
  <2>1. /\ UNCHANGED <<streaming, curr>>
        /\ stop[c].pc = "wait" /\ stop' = [stop EXCEPT ![c].pc = "stop"]
    BY <1>11 DEF CancelWait
  <2>2. \A x \in Ctx : /\ stop'[x].dirs = stop[x].dirs
                       /\ stop'[x].pc = "idle" <=> stop[x].pc = "idle"
    BY <2>1 DEF TypeOK, StopType
  <2> QED BY <2>1, <2>2 DEF StopInv, StreamInv
<1>12. ASSUME NEW c \in Ctx, StopStreaming(c)
       PROVE  StopInv' /\ StreamInv'
  <2>1. /\ UNCHANGED curr
        /\ stop[c].pc = "stop" /\ stop' = [stop EXCEPT ![c] = IdleStop]
        /\ streaming' = [streaming EXCEPT ![c] = @ \ stop[c].dirs]
    BY <1>12 DEF StopStreaming
  <2>2. curr # c
    BY <2>1 DEF ListInv, JobListSound
  <2> QED BY <2>1, <2>2 DEF StopInv, StreamInv, TypeOK, IdleStop
<1>13. ASSUME NEW c \in Ctx, Release(c) \/ \E d \in Dirs : StreamOff(c, d)
       PROVE  StopInv' /\ StreamInv'
  <2>1. \E D \in SUBSET Dirs : D # {} /\ CancelJob(c, D)
    BY <1>13 DEF Release, StreamOff, Dirs
  <2> QED BY <1>10, <2>1
<1> QED
  BY <1>2, <1>3, <1>4, <1>5, <1>6, <1>7, <1>8, <1>9, <1>11, <1>12, <1>13
  DEF Next, User, Stop, Irq, Watchdog, Handlers

\* ... in every reachable state.
LEMMA StopInvCorrect == Spec => [](StopInv /\ StreamInv)
<1>1. Init => StopInv /\ StreamInv
  BY DEF Init, StopInv, StreamInv, IdleStop
<1>2. TypeOK /\ ListInv /\ StopInv /\ StreamInv /\ [Next]_vars
      => StopInv' /\ StreamInv'
  BY StopStep
<1> QED BY <1>1, <1>2, TypeCorrect, ListCorrect, PTL DEF Spec

\* A step that leaves the list, the queues and what a job needs alone, or only
\* takes buffers away, loses no wake-up.
LEMMA ListedStep ==
  ASSUME TypeOK, ListInv, StopInv, Listed, [Next]_vars
  PROVE  Listed'
<1> USE DEF userVars, vb2Vars, m2mVars, hwVars, wdVars, pmVars
<1>1. ASSUME UNCHANGED <<streaming, abort, jobq, curr>>,
             \A c \in Ctx, d \in Dirs : queue'[c][d] # <<>> => queue[c][d] # <<>>
      PROVE  Listed'
  BY <1>1 DEF Listed
<1>2. ASSUME UNCHANGED <<streaming, abort, jobq, curr, queue>>
      PROVE  Listed'
  BY <1>2 DEF Listed
\* A step that ends in TryQueue for the one context it is about.
<1>3. ASSUME NEW c \in Ctx,
             jobq' = TryQueue(c, streaming'[c], queue'[c], curr'),
             UNCHANGED abort, curr' = curr \/ curr = c,
             \A x \in Ctx \ {c} : streaming'[x] = streaming[x]
                                 /\ queue'[x] = queue[x]
      PROVE  Listed'
  <2> SUFFICES ASSUME NEW x \in Ctx, streaming'[x] = Dirs, ~abort[x],
                      \A d \in Dirs : queue'[x][d] # <<>>
               PROVE  x \in ToSet(jobq') \/ curr' = x
    BY <1>3 DEF Listed
  <2> DEFINE strm == streaming'[c]
             q    == queue'[c]
             cur  == curr'
  <2>1. jobq \in Seq(Ctx) /\ jobq' = TryQueue(c, strm, q, cur)
    BY <1>3 DEF TypeOK
  <2> HIDE DEF strm, q, cur
  <2>2. ToSet(jobq) \subseteq ToSet(jobq')
    BY <2>1, TryQueueFresh
  <2>3. CASE x # c
    BY <1>3, <2>2, <2>3 DEF Listed
  <2>4. CASE x = c /\ cur # c
    <3>1. strm = Dirs /\ ~abort[c] /\ \A d \in Dirs : q[d] # <<>>
      BY <2>4 DEF strm, q
    <3> QED BY <2>1, <2>4, <3>1, TryQueueFresh
  <2>5. CASE x = c /\ cur = c
    BY <2>5 DEF cur
  <2> QED BY <2>3, <2>4, <2>5
<1>4. ASSUME NEW c \in Ctx, NEW d \in Dirs, NEW b \in Buf, QBuf(c, d, b)
      PROVE  Listed'
  BY <1>3, <1>4 DEF QBuf, TypeOK
<1>5. ASSUME NEW c \in Ctx, NEW d \in Dirs, StreamOn(c, d)
      PROVE  Listed'
  BY <1>3, <1>5 DEF StreamOn, TypeOK
\* The context that a stop takes off the list is being stopped, or has lost
\* a queue.
<1>6. ASSUME NEW c \in Ctx, NEW D, CancelJob(c, D)
      PROVE  Listed'
  <2>1. /\ UNCHANGED <<streaming, queue, curr>>
        /\ abort' = [abort EXCEPT ![c] = TRUE] /\ jobq' = Without(jobq, c)
    BY <1>6 DEF CancelJob
  <2>2. ToSet(jobq) \ {c} \subseteq ToSet(jobq')
    BY <2>1, WithoutFresh DEF TypeOK
  <2> QED BY <2>1, <2>2 DEF Listed, TypeOK
<1>7. ASSUME NEW c \in Ctx, StopStreaming(c)
      PROVE  Listed'
  <2> DEFINE D == stop[c].dirs
  <2>1. /\ UNCHANGED curr /\ jobq' = Without(jobq, c)
        /\ streaming' = [streaming EXCEPT ![c] = @ \ D]
        /\ \A x \in Ctx \ {c} : queue'[x] = queue[x] /\ abort'[x] = abort[x]
    BY <1>7 DEF StopStreaming, TypeOK
  <2>2. D \subseteq Dirs /\ D # {}
    BY <1>7 DEF StopStreaming, StopInv, TypeOK, StopType
  <2>3. ToSet(jobq) \ {c} \subseteq ToSet(jobq')
    BY <2>1, WithoutFresh DEF TypeOK
  <2>4. streaming'[c] # Dirs
    BY <2>1, <2>2 DEF TypeOK
  <2> QED BY <2>1, <2>3, <2>4 DEF Listed, TypeOK
<1>8. CASE TryRun
  <2>1. /\ UNCHANGED <<streaming, abort, queue>>
        /\ curr = None /\ jobq # <<>>
        /\ curr' = Head(jobq) /\ jobq' = Tail(jobq)
    BY <1>8 DEF TryRun
  <2>2. ToSet(jobq) \ {curr'} \subseteq ToSet(jobq')
    BY <2>1, TailFresh DEF TypeOK
  <2> QED BY <2>1, <2>2, CtxAssumption DEF Listed
<1>9. ASSUME NEW h \in Handlers, FinJob(h)
      PROVE  Listed'
  <2> DEFINE c == fin[h].ctx
  <2>1. UNCHANGED <<streaming, abort, queue>>
    BY <1>9 DEF FinJob
  <2>2. CASE curr = c
    <3>1. /\ c \in Ctx /\ curr' = None
          /\ jobq' = TryQueue(c, streaming'[c], queue'[c], None)
      BY <1>9, <2>1, <2>2 DEF FinJob, TypeOK, Finishing
    <3> HIDE DEF c
    <3> QED BY <1>3, <2>1, <2>2, <3>1
  <2>3. CASE curr # c
    BY <1>2, <1>9, <2>1, <2>3 DEF FinJob
  <2> QED BY <2>2, <2>3
<1>10. ASSUME NEW h \in Handlers, NEW c \in Ctx, NEW d \in Dirs,
              queue' = [queue EXCEPT ![c][d] = TailOrEmpty(@)],
              UNCHANGED <<streaming, abort, jobq, curr>>
       PROVE  Listed'
  <2>1. \A x \in Ctx, y \in Dirs :
          queue'[x][y] = IF x = c /\ y = d THEN TailOrEmpty(queue[c][d])
                         ELSE queue[x][y]
    BY <1>10 DEF TypeOK
  <2> QED BY <1>1, <1>10, <2>1 DEF TailOrEmpty
<1>11. ASSUME NEW h \in Handlers, JobFinish(h)
       PROVE  Listed'
  <2>1. CASE FinSrc(h)
    BY <1>10, <2>1 DEF FinSrc, TypeOK, Finishing, Dirs
  <2>2. CASE FinDst(h)
    BY <1>10, <2>2 DEF FinDst, TypeOK, Finishing, Dirs
  <2> QED BY <1>2, <1>9, <1>11, <2>1, <2>2
          DEF JobFinish, FinWarn, FinSrcDone, FinDstDone, FinPut
<1>12. ASSUME NEW c \in Ctx, Open(c) \/ CancelWait(c)
       PROVE  Listed'
  BY <1>2, <1>12 DEF Open, CancelWait
<1>13. ASSUME NEW c \in Ctx, Release(c) \/ \E d \in Dirs : StreamOff(c, d)
       PROVE  Listed'
  BY <1>6, <1>13 DEF Release, StreamOff
<1>14. CASE RunGet \/ RunProgram \/ RunArm \/ RunKick
  BY <1>2, <1>14 DEF RunGet, RunProgram, RunArm, RunKick
<1>15. CASE IrqRead \/ IrqAck \/ IrqGetCurr \/ IrqCancel
  BY <1>2, <1>15 DEF IrqRead, IrqAck, IrqGetCurr, IrqCancel
<1>16. CASE WatchdogFire \/ WdGetCurr \/ WdReset
  BY <1>2, <1>16 DEF WatchdogFire, WdGetCurr, WdReset
<1>17. CASE HwStep \/ RuntimeSuspend \/ UNCHANGED vars
  BY <1>2, <1>17 DEF HwStep, HwHang, HwFinish, RuntimeSuspend, vars
<1> QED
  BY <1>4, <1>5, <1>7, <1>8, <1>11, <1>12, <1>13, <1>14, <1>15, <1>16, <1>17
  DEF Next, User, Stop, DeviceRun, Irq, Watchdog, Handlers

\* No wake-up is lost, whatever the watchdog does.
THEOREM ListedCorrect == Spec => []Listed
<1>1. Init => Listed
  BY DEF Init, Listed, Dirs
<1>2. TypeOK /\ ListInv /\ StopInv /\ Listed /\ [Next]_vars => Listed'
  BY ListedStep
<1> QED
  BY <1>1, <1>2, TypeCorrect, ListCorrect, StopInvCorrect, PTL DEF Spec

\* STREAMOFF and close(2) wait for one job at most: the device is only given
\* to a context on the list, and none there is being stopped.
THEOREM WaitsCorrect == Spec => WaitsOnce
<1>1. ASSUME TypeOK, ListInv, [Next]_vars, NEW c \in Ctx,
             stop[c].pc # "idle", curr' = c
      PROVE  curr = c
  <2> USE DEF userVars, vb2Vars, m2mVars, hwVars, wdVars, pmVars
  <2>1. abort[c] /\ curr' # None
    BY <1>1, CtxAssumption DEF ListInv
  <2>2. CASE TryRun
    <3>0. jobq \in Seq(Ctx) /\ jobq # <<>> /\ curr' = Head(jobq)
      BY <1>1, <2>2 DEF TryRun, TypeOK
    <3>1. curr' \in ToSet(jobq)
      BY <3>0, TailFresh
    <3> QED BY <1>1, <2>1, <3>1 DEF ListInv, JobListSound
  <2>3. CASE curr' \in {curr, None}
    BY <1>1, <2>1, <2>3
  <2>4. ASSUME NEW x \in Ctx, User(x) \/ Stop(x) PROVE curr' = curr
    BY <2>4
    DEF User, Stop, Open, QBuf, StreamOn, StreamOff, Release, CancelJob,
        CancelWait, StopStreaming
  <2>5. ASSUME NEW h \in Handlers, JobFinish(h) PROVE curr' \in {curr, None}
    BY <2>5
    DEF JobFinish, FinSrc, FinDst, FinWarn, FinSrcDone, FinDstDone, FinJob,
        FinPut
  <2>6. CASE UNCHANGED curr
    BY <1>1, <2>6
  <2> QED
    BY <1>1, <2>2, <2>3, <2>4, <2>5, <2>6
    DEF Next, DeviceRun, RunGet, RunProgram, RunArm, RunKick, Irq, IrqRead,
        IrqAck, IrqGetCurr, IrqCancel, Watchdog, WatchdogFire, WdGetCurr,
        WdReset, HwStep, HwHang, HwFinish, RuntimeSuspend, vars, Handlers
<1>2. TypeOK /\ ListInv /\ [Next]_vars
      => [\A c \in Ctx : stop[c].pc # "idle" /\ curr' = c => curr = c]_vars
  BY <1>1
<1> QED BY <1>2, TypeCorrect, ListCorrect, PTL DEF Spec, WaitsOnce

-----------------------------------------------------------------------------
(* One job, one actor: which of device_run, the encoder, the interrupt     *)
(* handler and the watchdog's worker has the job in hand, and what follows *)
(* for the stop path, the results, the registers, the reset and runtime PM *)
(* (rockchip_vpu_drv.c:43-116). Every theorem here assumes Timely: without *)
(* it both handlers can finish one job, and TLC refutes each of them.      *)

\* The job passes from one actor to the next with no gap and no overlap.
LEMMA PhaseStep ==
  ASSUME Timely, TypeOK, PhaseInv, [Next]_vars
  PROVE  PhaseInv'
<1> USE CtxAssumption DEF userVars, vb2Vars, m2mVars, hwVars, wdVars, pmVars
<1> USE DEF PhaseInv, NoJob, RunPhase, HwPhase, IrqPhase, WdPhase,
       FinPhase, CtxPhase, ResultPhase, Configured, Resting, Finishing,
       Handlers, IdleHandler, IdleRun, TypeOK, HandlerType, HwType, RunType,
       RegsType
<1>1. ASSUME TryRun PROVE PhaseInv'
  BY <1>1 DEF TryRun
<1>2. ASSUME RunGet PROVE PhaseInv'
  BY <1>2 DEF RunGet
<1>3. ASSUME RunProgram PROVE PhaseInv'
  BY <1>3 DEF RunProgram
<1>4. ASSUME RunArm PROVE PhaseInv'
  BY <1>4 DEF RunArm
<1>5. ASSUME RunKick PROVE PhaseInv'
  BY <1>5 DEF RunKick
<1>6. ASSUME HwHang PROVE PhaseInv'
  BY <1>6 DEF HwHang
<1>7. ASSUME WatchdogFire PROVE PhaseInv'
  <2>1. hw.st = "hung" /\ timer = "armed" /\ Timely
    BY <1>7 DEF WatchdogFire
  <2>2. /\ fin'["wd"].pc = "get" /\ fin'["wd"].ctx = None
        /\ fin'["wd"].res = "ERROR" /\ fin'["irq"] = fin["irq"]
        /\ timer' = "off" /\ overdue'
    BY <1>7, <2>1 DEF WatchdogFire
  <2>3. UNCHANGED <<curr, run, regs, axi, hw>>
    BY <1>7 DEF WatchdogFire
  <2> QED BY <2>1, <2>2, <2>3
<1>8. ASSUME IrqRead PROVE PhaseInv'
  BY <1>8 DEF IrqRead
<1>9. ASSUME IrqAck PROVE PhaseInv'
  BY <1>9 DEF IrqAck
<1>10. ASSUME IrqGetCurr PROVE PhaseInv'
  BY <1>10 DEF IrqGetCurr
<1>11. ASSUME IrqCancel PROVE PhaseInv'
  BY <1>11 DEF IrqCancel
<1>12. ASSUME WdGetCurr PROVE PhaseInv'
  BY <1>12 DEF WdGetCurr
<1>13. ASSUME WdReset PROVE PhaseInv'
  BY <1>13 DEF WdReset
<1>14. ASSUME NEW h \in Handlers, FinSrc(h) PROVE PhaseInv'
  <2>1. /\ fin'[h].pc = "dst" /\ fin'[h].ctx = fin[h].ctx
        /\ fin'[h].res = fin[h].res
        /\ \A k \in Handlers \ {h} : fin'[k] = fin[k]
    BY <1>14 DEF FinSrc
  <2>2. UNCHANGED <<curr, run, regs, axi, hw, timer, overdue>>
    BY <1>14 DEF FinSrc
  <2>3. fin[h].pc \in Finishing
    BY <1>14 DEF FinSrc
  <2> QED BY <2>1, <2>2, <2>3
<1>15. ASSUME NEW h \in Handlers, FinDst(h) PROVE PhaseInv'
  <2>1. /\ fin'[h].pc = "srcdone" /\ fin'[h].ctx = fin[h].ctx
        /\ fin'[h].res = fin[h].res
        /\ \A k \in Handlers \ {h} : fin'[k] = fin[k]
    BY <1>15 DEF FinDst
  <2>2. UNCHANGED <<curr, run, regs, axi, hw, timer, overdue>>
    BY <1>15 DEF FinDst
  <2>3. fin[h].pc \in Finishing
    BY <1>15 DEF FinDst
  <2> QED BY <2>1, <2>2, <2>3
<1>16. ASSUME NEW h \in Handlers, FinWarn(h) PROVE PhaseInv'
  BY <1>16 DEF FinWarn
<1>17. ASSUME NEW h \in Handlers, FinSrcDone(h) PROVE PhaseInv'
  BY <1>17 DEF FinSrcDone
<1>18. ASSUME NEW h \in Handlers, FinDstDone(h) PROVE PhaseInv'
  BY <1>18 DEF FinDstDone
<1>19. ASSUME NEW h \in Handlers, FinJob(h) PROVE PhaseInv'
  BY <1>19 DEF FinJob
<1>20. ASSUME NEW h \in Handlers, FinPut(h) PROVE PhaseInv'
  BY <1>20 DEF FinPut
<1>21. ASSUME NEW o, HwFinish(o) PROVE PhaseInv'
  BY <1>21 DEF HwFinish
<1>22. ASSUME UNCHANGED <<curr, run, regs, axi, hw, timer, overdue, fin>>
       PROVE  PhaseInv'
  BY <1>22
<1>23. ASSUME NEW c \in Ctx, User(c) \/ Stop(c) PROVE PhaseInv'
  BY <1>22, <1>23
  DEF User, Stop, Open, Release, StreamOn, StreamOff, QBuf, CancelJob,
      CancelWait, StopStreaming
<1>24. CASE RuntimeSuspend \/ UNCHANGED vars
  BY <1>22, <1>24 DEF RuntimeSuspend, vars
<1> QED
  BY <1>1, <1>2, <1>3, <1>4, <1>5, <1>6, <1>7, <1>8, <1>9, <1>10, <1>11,
     <1>12, <1>13, <1>14, <1>15, <1>16, <1>17, <1>18, <1>19, <1>20, <1>21,
     <1>23, <1>24
  DEF Next, DeviceRun, Irq, Watchdog, JobFinish, HwStep

\* Each job takes one runtime-PM reference and gives one back, in whatever
\* order the next job's get and this job's put come (drv.c:73-76, 113).
LEMMA PmStep ==
  ASSUME Timely, TypeOK, PhaseInv, PmInv, [Next]_vars
  PROVE  PmInv'
<1> USE UsageAssumption, CtxAssumption
    DEF userVars, vb2Vars, m2mVars, hwVars, wdVars, pmVars, PmInv, PmBalance,
        One, Handlers
<1>1. ASSUME UNCHANGED <<curr, run, fin, usage, clocks>> PROVE PmInv'
  BY <1>1
<1>2. CASE TryRun
  BY <1>2 DEF TryRun, TypeOK, PhaseInv, NoJob
<1>3. CASE RunGet
  BY <1>3 DEF RunGet, PmGet, TypeOK, PhaseInv, RunPhase, RunType
<1>0. ASSUME UNCHANGED <<usage, clocks>>,
             (curr' # None /\ run'.pc # "get")
               <=> (curr # None /\ run.pc # "get"),
             \A h \in Handlers : fin'[h].pc = "put" <=> fin[h].pc = "put"
      PROVE  PmInv'
  BY <1>0
<1>4. CASE RunProgram \/ RunArm \/ RunKick
  <2>1. UNCHANGED <<usage, clocks, curr, fin>>
    BY <1>4 DEF RunProgram, RunArm, RunKick
  <2>2. run.pc # "get" /\ run'.pc # "get"
    BY <1>4 DEF RunProgram, RunArm, RunKick, IdleRun, TypeOK, RunType
  <2> QED BY <1>0, <2>1, <2>2
<1>5. CASE IrqRead \/ IrqAck \/ IrqGetCurr \/ IrqCancel
  <2>1. UNCHANGED <<usage, clocks, curr, run>>
    BY <1>5 DEF IrqRead, IrqAck, IrqGetCurr, IrqCancel
  <2>2. \A h \in Handlers : fin'[h].pc = "put" <=> fin[h].pc = "put"
    <3>1. CASE IrqRead
      BY <3>1 DEF IrqRead, IdleHandler, TypeOK, HandlerType
    <3>2. CASE IrqAck
      BY <3>2 DEF IrqAck, IdleHandler, TypeOK, HandlerType
    <3>3. CASE IrqGetCurr
      BY <3>3 DEF IrqGetCurr, IdleHandler, TypeOK, HandlerType
    <3>4. CASE IrqCancel
      BY <3>4 DEF IrqCancel, IdleHandler, TypeOK, HandlerType
    <3> QED BY <1>5, <3>1, <3>2, <3>3, <3>4
  <2> QED BY <1>0, <2>1, <2>2
<1>6. CASE WatchdogFire \/ WdGetCurr \/ WdReset
  <2>1. UNCHANGED <<usage, clocks, curr, run>>
    BY <1>6 DEF WatchdogFire, WdGetCurr, WdReset
  <2>2. \A h \in Handlers : fin'[h].pc = "put" <=> fin[h].pc = "put"
    <3>1. CASE WatchdogFire
      BY <3>1 DEF WatchdogFire, IdleHandler, TypeOK, HandlerType
    <3>2. CASE WdGetCurr
      BY <3>2 DEF WdGetCurr, IdleHandler, TypeOK, HandlerType
    <3>3. CASE WdReset
      BY <3>3 DEF WdReset, IdleHandler, TypeOK, HandlerType
    <3> QED BY <1>6, <3>1, <3>2, <3>3
  <2> QED BY <1>0, <2>1, <2>2
<1>7. ASSUME NEW h \in Handlers,
             \/ FinSrc(h) \/ FinDst(h) \/ FinWarn(h)
             \/ FinSrcDone(h) \/ FinDstDone(h)
      PROVE  PmInv'
  <2>1. UNCHANGED <<usage, clocks, curr, run>>
    BY <1>7 DEF FinSrc, FinDst, FinWarn, FinSrcDone, FinDstDone
  <2>2. \A k \in Handlers : fin'[k].pc = "put" <=> fin[k].pc = "put"
    BY <1>7
    DEF FinSrc, FinDst, FinWarn, FinSrcDone, FinDstDone, IdleHandler,
        TypeOK, HandlerType
  <2> QED BY <1>0, <2>1, <2>2
<1>8. ASSUME NEW h \in Handlers, FinJob(h) PROVE PmInv'
  <2>1. /\ fin[h].ctx = curr /\ curr # None
        /\ run.pc = "idle" /\ fin[h].pc = "finish"
    BY <1>8
    DEF FinJob, PhaseInv, CtxPhase, FinPhase, RunPhase, Finishing, TypeOK,
        Resting
  <2>2. /\ curr' = None /\ run' = run /\ UNCHANGED <<usage, clocks>>
        /\ fin'[h].pc = "put"
        /\ \A k \in Handlers \ {h} : fin'[k] = fin[k]
    BY <1>8, <2>1 DEF FinJob, TypeOK, IdleHandler
  <2> QED BY <2>1, <2>2
<1>9. ASSUME NEW h \in Handlers, FinPut(h) PROVE PmInv'
  BY <1>9 DEF FinPut, PmPut, TypeOK, HandlerType, IdleHandler
<1>10. ASSUME NEW c \in Ctx, User(c) \/ Stop(c) PROVE PmInv'
  BY <1>1, <1>10
  DEF User, Stop, Open, Release, StreamOn, StreamOff, QBuf, CancelJob,
      CancelWait, StopStreaming
<1>11. CASE HwStep \/ UNCHANGED vars
  BY <1>1, <1>11 DEF HwStep, HwHang, HwFinish, vars
<1>12. CASE RuntimeSuspend
  BY <1>12 DEF RuntimeSuspend, TypeOK
<1> QED
  BY <1>2, <1>3, <1>4, <1>5, <1>6, <1>7, <1>8, <1>9, <1>10, <1>11, <1>12
  DEF Next, DeviceRun, Irq, Watchdog, JobFinish

\* The inductive invariant of the job's hand-over and of the usage count.
THEOREM PhaseCorrect == ASSUME Timely PROVE Spec => [](PhaseInv /\ PmInv)
<1>1. Init => PhaseInv
  BY DEF Init, PhaseInv, NoJob, RunPhase, HwPhase, IrqPhase, WdPhase,
     FinPhase, CtxPhase, ResultPhase, Configured, Resting, Finishing,
     Handlers, IdleHandler, IdleRun
<1>2. Init => PmInv
  BY DEF Init, PmInv, PmBalance, One, Handlers, IdleHandler, IdleRun
<1>3. TypeOK /\ PhaseInv /\ PmInv /\ [Next]_vars => PhaseInv' /\ PmInv'
  BY PhaseStep, PmStep
<1> QED BY <1>1, <1>2, <1>3, TypeCorrect, PTL DEF Spec

\* When stop_streaming returns the buffers no actor works for that context
\* (rockchip_vpu_enc.c:579-582).
THEOREM StopCorrect == ASSUME Timely PROVE Spec => []SafeToReturn
<1>1. TypeOK /\ ListInv /\ PhaseInv => SafeToReturn
  <2> SUFFICES ASSUME TypeOK, ListInv, PhaseInv, NEW c \in Ctx,
                      stop[c].pc = "stop"
               PROVE  /\ curr # c /\ run.ctx # c
                      /\ \A h \in Handlers : fin[h].ctx # c
                      /\ hw.st # "idle" => regs.ctx # c
    BY DEF SafeToReturn
  <2>1. curr # c
    BY DEF ListInv, JobListSound
  <2>2. run.ctx # c
    BY <2>1, CtxAssumption DEF PhaseInv, RunPhase
  <2>3. ASSUME NEW h \in Handlers PROVE fin[h].ctx # c
    BY <2>1, CtxAssumption DEF PhaseInv, CtxPhase
  <2>4. hw.st # "idle" => regs.ctx # c
    BY <2>1 DEF PhaseInv, CtxPhase
  <2> QED BY <2>1, <2>2, <2>3, <2>4
<1> QED BY <1>1, TypeCorrect, ListCorrect, PhaseCorrect, PTL

\* The buffers are marked DONE exactly if FRAME_RDY was set for this job.
THEOREM ResultCorrect == ASSUME Timely PROVE Spec => []TruthfulResult
<1>1. TypeOK /\ PhaseInv => TruthfulResult
  BY DEF PhaseInv, ResultPhase, Resting, TruthfulResult, Handlers
<1> QED BY <1>1, TypeCorrect, PhaseCorrect, PTL

\* The handlers' AXI_CTRL = 0 never falls into the next job's set-up.
THEOREM ConfiguredCorrect == ASSUME Timely PROVE Spec => []Configured
<1>1. PhaseInv => Configured
  BY DEF PhaseInv
<1> QED BY <1>1, PhaseCorrect, PTL

\* The usage count is exact: every job's get and put pair up.
THEOREM PmCorrect == ASSUME Timely PROVE Spec => []PmBalance
<1>1. PmInv => PmBalance
  BY DEF PmInv
<1> QED BY <1>1, PhaseCorrect, PTL

\* The clocks run whenever device_run, a handler or the encoder needs them.
THEOREM PoweredCorrect == ASSUME Timely PROVE Spec => []Powered
<1>1. TypeOK /\ PhaseInv /\ PmInv => Powered
  BY CtxAssumption
  DEF PmInv, PmBalance, One, Powered, PhaseInv, NoJob, RunPhase, HwPhase,
      IrqPhase, WdPhase, Handlers, Resting, TypeOK
<1> QED BY <1>1, TypeCorrect, PhaseCorrect, PTL

\* The watchdog resets the encoder only under the job that timed out.
THEOREM ResetCorrect == ASSUME Timely PROVE Spec => ResetOnlyOnTimeout
<1>1. PhaseInv /\ [Next]_vars => [WdReset => overdue]_vars
  BY DEF PhaseInv, WdReset, HwPhase, WdPhase, Resting
<1> QED BY <1>1, PhaseCorrect, PTL DEF Spec, ResetOnlyOnTimeout
=============================================================================
