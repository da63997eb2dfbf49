-------------------------- MODULE EncFormatProofs ---------------------------
(***************************************************************************)
(* What holds of EncFormat whatever user space does: TypeOK, CodecFresh    *)
(* and StableJob. FreshInv relates the operation table, the coded format   *)
(* and the streaming flags; QueueInv the buffers, the queues and the job.  *)
(***************************************************************************)
EXTENDS FormatProofs, SequenceTheorems

USE DEF Dirs

-----------------------------------------------------------------------------
\* ctx->vpu_dst_fmt is the entry of the coded format.
DstAgrees == vpuDst = FindFormat(dstFmt.fourcc)

\* A job is on the device only while both queues stream.
JobStreams == run.pc # "idle" => \A d \in Dirs : streaming[d]

\* The inductive invariant under CodecFresh.
FreshInv ==
  /\ streaming \in [Dirs -> BOOLEAN]
  /\ DstAgrees
  /\ CodecFresh
  /\ JobStreams

\* FreshInv holds in a file just opened.
LEMMA FreshInit == Init => FreshInv
<1> SUFFICES ASSUME Init PROVE FreshInv
  OBVIOUS
<1>1. DstAgrees
  <2>1. dstFmt.fourcc = DefaultFmt(TRUE).fourcc
    BY Zenon DEF Init, ResetDst, PixFmt
  <2>2. 5 \in DOMAIN EncFmts
    BY DEF EncFmts
  <2> QED BY <2>1, <2>2, Defaults, FindOf, Zenon DEF Init, DstAgrees
<1>2. streaming = [d \in Dirs |-> FALSE] /\ run.pc = "idle"
  BY DEF Init, NoJob
<1> QED BY <1>1, <1>2 DEF FreshInv, CodecFresh, JobStreams

\* Every ioctl and every step of a job keeps FreshInv: S_FMT on CAPTURE is
\* the one that changes the coded format, and it requires that CAPTURE does
\* not stream.
LEMMA FreshNext == FreshInv /\ [Next]_vars => FreshInv'
<1> SUFFICES ASSUME FreshInv, [Next]_vars PROVE FreshInv'
  OBVIOUS
<1> USE DEF FreshInv
<1>1. ASSUME NEW f \in Fourccs, NEW w \in Widths, NEW h \in Heights,
             SFmtOut(f, w, h)
      PROVE  FreshInv'
  <2>1. UNCHANGED <<dstFmt, vpuDst, streaming, codec, run>>
    BY <1>1, Zenon DEF SFmtOut, runVars
  <2> QED BY <2>1 DEF DstAgrees, CodecFresh, JobStreams
<1>2. ASSUME NEW f \in Fourccs, NEW w \in Widths, NEW h \in Heights,
             SFmtCap(f, w, h)
      PROVE  FreshInv'
  <2>1. /\ UNCHANGED <<streaming, codec, run>>
        /\ ~streaming["CAP"]
        /\ vpuDst' = FindFormat(dstFmt'.fourcc)
    BY <1>2, Zenon DEF SFmtCap, runVars
  <2> QED BY <2>1, Zenon DEF DstAgrees, CodecFresh, JobStreams
<1>3. ASSUME NEW d \in Dirs, NEW B \in SUBSET Buf, ReqBufs(d, B)
      PROVE  FreshInv'
  BY <1>3, Zenon DEF ReqBufs, DstAgrees, CodecFresh, JobStreams, fmtVars,
                     runVars
<1>4. ASSUME NEW d \in Dirs, NEW b \in Buf, PrepareBuf(d, b) \/ QBuf(d, b)
      PROVE  FreshInv'
  BY <1>4, Zenon
     DEF PrepareBuf, QBuf, DstAgrees, CodecFresh, JobStreams, fmtVars, runVars
<1>5. ASSUME NEW d \in Dirs, NEW b \in Buf, NEW s \in Sizes,
             CreateBuf(d, b, s)
      PROVE  FreshInv'
  BY <1>5, Zenon DEF CreateBuf, DstAgrees, CodecFresh, JobStreams, fmtVars,
                     runVars
<1>6. ASSUME NEW d \in Dirs, StreamOn(d)
      PROVE  FreshInv'
  <2>1. /\ UNCHANGED <<fmtVars, run>>
        /\ streaming' = [streaming EXCEPT ![d] = TRUE]
        /\ codec' = vpuDst.mode
    BY <1>6, Zenon DEF StreamOn, runVars
  <2>2. DstAgrees' /\ CodecFresh'
    BY <2>1, Zenon DEF DstAgrees, CodecFresh, fmtVars
  <2>3. streaming' \in [Dirs -> BOOLEAN] /\ JobStreams'
    BY <2>1 DEF JobStreams
  <2> QED BY <2>2, <2>3
<1>7. ASSUME NEW d \in Dirs, StreamOff(d)
      PROVE  FreshInv'
  <2>1. /\ UNCHANGED <<fmtVars, run, codec>>
        /\ run.pc = "idle"
        /\ streaming' = [streaming EXCEPT ![d] = FALSE]
    BY <1>7, Zenon DEF StreamOff, runVars
  <2>2. ~streaming'[d] /\ streaming' \in [Dirs -> BOOLEAN]
    BY <2>1
  <2> QED BY <2>1, <2>2, Zenon DEF DstAgrees, CodecFresh, JobStreams, fmtVars
<1>8. CASE RunStart
  BY <1>8, Zenon DEF RunStart, DstAgrees, CodecFresh, JobStreams, fmtVars
<1>9. CASE RunKick
  <2>1. UNCHANGED <<fmtVars, streaming, codec>> /\ run.pc = "started"
    BY <1>9, Zenon DEF RunKick
  <2> QED BY <2>1 DEF DstAgrees, CodecFresh, JobStreams, fmtVars
<1>10. CASE JobEnd
  <2>1. UNCHANGED <<fmtVars, streaming, codec>> /\ run'.pc = "idle"
    BY <1>10 DEF JobEnd, NoJob
  <2> QED BY <2>1, Zenon DEF DstAgrees, CodecFresh, JobStreams, fmtVars
<1>11. CASE UNCHANGED vars
  BY <1>11, Zenon DEF vars, fmtVars, runVars, DstAgrees, CodecFresh, JobStreams
<1> QED BY <1>1, <1>2, <1>3, <1>4, <1>5, <1>6, <1>7, <1>8, <1>9, <1>10, <1>11,
           Zenon DEF Next

\* Whatever user space does, and whichever queue it starts last, the
\* operation table is that of the coded format once both queues stream.
THEOREM CodecFreshCorrect == Spec => []CodecFresh
<1>1. FreshInv => CodecFresh
  BY DEF FreshInv
<1> QED BY <1>1, FreshInit, FreshNext, PTL DEF Spec

-----------------------------------------------------------------------------
\* Buffer b is in queue q; no buffer is there twice.
Wait(q, b)  == \E i \in DOMAIN q : q[i] = b
Distinct(q) == \A i, j \in DOMAIN q : q[i] = q[j] => i = j

\* Queueing a buffer that is not queued.
LEMMA AppendDistinct ==
  ASSUME NEW q \in Seq(Buf), NEW b \in Buf, Distinct(q), ~Wait(q, b)
  PROVE  /\ Append(q, b) \in Seq(Buf)
         /\ Distinct(Append(q, b))
         /\ \A c : Wait(Append(q, b), c) <=> Wait(q, c) \/ c = b
         /\ q # <<>> => Head(Append(q, b)) = Head(q)
<1>1. /\ Append(q, b) \in Seq(Buf)
      /\ Len(Append(q, b)) = Len(q) + 1
      /\ \A i \in 1 .. Len(q) : Append(q, b)[i] = q[i]
      /\ Append(q, b)[Len(q) + 1] = b
  BY AppendProperties
<1>2. DOMAIN q = 1 .. Len(q) /\ Len(q) \in Nat
  BY LenProperties
<1>3. DOMAIN Append(q, b) = 1 .. Len(q) + 1
  BY <1>1, LenProperties
<1>4. Distinct(Append(q, b))
  BY <1>1, <1>2, <1>3 DEF Distinct, Wait
<1>5. \A c : Wait(Append(q, b), c) <=> Wait(q, c) \/ c = b
  <2> TAKE c
  <2>1. ASSUME Wait(Append(q, b), c) PROVE Wait(q, c) \/ c = b
    BY <1>1, <1>2, <1>3, <2>1 DEF Wait
  <2>2. ASSUME Wait(q, c) PROVE Wait(Append(q, b), c)
    BY <1>1, <1>2, <1>3, <2>2 DEF Wait
  <2>3. Wait(Append(q, b), b)
    BY <1>1, <1>2, <1>3 DEF Wait
  <2> QED BY <2>1, <2>2, <2>3
<1>6. q # <<>> => Head(Append(q, b)) = Head(q)
  BY HeadTailAppend
<1> QED BY <1>1, <1>4, <1>5, <1>6

\* Taking the head off a queue of distinct buffers.
LEMMA TailDistinct ==
  ASSUME NEW q \in Seq(Buf), q # <<>>, Distinct(q)
  PROVE  /\ Head(q) \in Buf
         /\ Tail(q) \in Seq(Buf)
         /\ Distinct(Tail(q))
         /\ Wait(q, Head(q))
         /\ \A c : Wait(Tail(q), c) <=> Wait(q, c) /\ c # Head(q)
<1>1. /\ Head(q) \in Buf
      /\ Tail(q) \in Seq(Buf)
      /\ Len(Tail(q)) = Len(q) - 1
      /\ \A i \in 1 .. Len(Tail(q)) : Tail(q)[i] = q[i + 1]
  BY HeadTailProperties
<1>2. DOMAIN q = 1 .. Len(q) /\ Len(q) \in Nat /\ Len(q) >= 1
  BY LenProperties, EmptySeq
<1>3. DOMAIN Tail(q) = 1 .. Len(q) - 1
  BY <1>1, LenProperties
<1>4. Head(q) = q[1]
  BY SMT
<1>5. Distinct(Tail(q))
  BY <1>1, <1>2, <1>3 DEF Distinct
<1>6. \A c : Wait(Tail(q), c) <=> Wait(q, c) /\ c # Head(q)
  <2> TAKE c
  <2>1. ASSUME Wait(Tail(q), c) PROVE Wait(q, c) /\ c # Head(q)
    <3>1. PICK i \in 1 .. Len(q) - 1 : Tail(q)[i] = c
      BY <1>3, <2>1 DEF Wait
    <3>2. i + 1 \in DOMAIN q /\ i + 1 # 1 /\ 1 \in DOMAIN q /\ q[i + 1] = c
      BY <1>1, <1>2, <3>1
    <3> QED BY <1>4, <3>2 DEF Wait, Distinct
  <2>2. ASSUME Wait(q, c), c # Head(q) PROVE Wait(Tail(q), c)
    <3>1. PICK i \in DOMAIN q : q[i] = c
      BY <2>2 DEF Wait
    <3>2. i # 1 /\ i - 1 \in 1 .. Len(q) - 1
      BY <1>2, <1>4, <2>2, <3>1
    <3>3. Tail(q)[i - 1] = c
      BY <1>1, <1>2, <3>1, <3>2
    <3> QED BY <1>3, <3>2, <3>3 DEF Wait
  <2> QED BY <2>1, <2>2
<1>7. Wait(q, Head(q))
  BY <1>2, <1>4 DEF Wait
<1> QED BY <1>1, <1>5, <1>6, <1>7

\* The buffers bs and the queue q of one direction agree.
SlotsOK(bs, q) ==
  /\ bs = [b \in Buf |-> Buffer(bs[b].size, bs[b].st)]
  /\ q \in Seq(Buf)
  /\ Distinct(q)
  /\ \A b \in Buf : /\ bs[b].st \in BufStates
                    /\ bs[b].st = "queued" <=> Wait(q, b)

\* The fields of a buffer.
LEMMA BufferFields ==
  \A s, t : Buffer(s, t).size = s /\ Buffer(s, t).st = t
BY DEF Buffer

\* The slots of a queue that was emptied.
LEMMA SlotsEmpty ==
  ASSUME NEW bs, bs = [b \in Buf |-> Buffer(bs[b].size, bs[b].st)],
         \A b \in Buf : bs[b].st \in BufStates \ {"queued"}
  PROVE  SlotsOK(bs, <<>>)
<1>1. <<>> \in Seq(Buf) /\ DOMAIN <<>> = {}
  BY EmptySeq
<1> QED BY <1>1, Zenon DEF SlotsOK, Distinct, Wait

\* A buffer that is not queued changes, and is not queued afterwards.
LEMMA SlotsSet ==
  ASSUME NEW bs, NEW q, SlotsOK(bs, q), NEW b \in Buf, NEW s,
         NEW t \in BufStates \ {"queued"}, bs[b].st # "queued"
  PROVE  SlotsOK([bs EXCEPT ![b] = Buffer(s, t)], q)
<1> DEFINE new == [bs EXCEPT ![b] = Buffer(s, t)]
<1>1. /\ DOMAIN bs = Buf
      /\ \A c \in Buf : bs[c] = Buffer(bs[c].size, bs[c].st)
  BY Zenon DEF SlotsOK
<1>2. \A c \in Buf : new[c] = IF c = b THEN Buffer(s, t) ELSE bs[c]
  BY <1>1
<1>3. \A c \in Buf : new[c] = Buffer(new[c].size, new[c].st)
  <2> TAKE c \in Buf
  <2>1. CASE c = b
    <3>1. new[c] = Buffer(s, t)
      BY <1>2, <2>1, Zenon
    <3>2. new[c].size = s /\ new[c].st = t
      BY <3>1, BufferFields
    <3> QED BY <3>1, <3>2
  <2>2. CASE c # b
    <3>1. new[c] = bs[c]
      BY <1>2, <2>2, Zenon
    <3> QED BY <1>1, <3>1, Zenon
  <2> QED BY <2>1, <2>2
<1>4. new = [c \in Buf |-> new[c]]
  BY <1>1
<1>5. \A c \in Buf : /\ new[c].st \in BufStates
                     /\ new[c].st = "queued" <=> Wait(q, c)
  <2> TAKE c \in Buf
  <2>1. CASE c = b
    <3>1. new[c] = Buffer(s, t)
      BY <1>2, <2>1, Zenon
    <3>2. new[c].st = t
      BY <3>1, BufferFields
    <3>3. ~Wait(q, c)
      BY <2>1, Zenon DEF SlotsOK
    <3> QED BY <3>2, <3>3
  <2>2. CASE c # b
    <3>1. new[c] = bs[c]
      BY <1>2, <2>2, Zenon
    <3> QED BY <3>1, Zenon DEF SlotsOK
  <2> QED BY <2>1, <2>2
<1> HIDE DEF new
<1>6. new = [c \in Buf |-> Buffer(new[c].size, new[c].st)]
  BY <1>3, <1>4
<1> QED BY <1>5, <1>6, Zenon DEF SlotsOK, new

\* A buffer is queued.
LEMMA SlotsQueue ==
  ASSUME NEW bs, NEW q, SlotsOK(bs, q), NEW b \in Buf, NEW s,
         bs[b].st # "queued"
  PROVE  SlotsOK([bs EXCEPT ![b] = Buffer(s, "queued")], Append(q, b))
<1> DEFINE new == [bs EXCEPT ![b] = Buffer(s, "queued")]
<1>1. /\ DOMAIN bs = Buf
      /\ \A c \in Buf : bs[c] = Buffer(bs[c].size, bs[c].st)
  BY Zenon DEF SlotsOK
<1>2. \A c \in Buf : new[c] = IF c = b THEN Buffer(s, "queued") ELSE bs[c]
  BY <1>1
<1>3. \A c \in Buf : new[c] = Buffer(new[c].size, new[c].st)
  <2> TAKE c \in Buf
  <2>1. CASE c = b
    <3>1. new[c] = Buffer(s, "queued")
      BY <1>2, <2>1, Zenon
    <3>2. new[c].size = s /\ new[c].st = "queued"
      BY <3>1, BufferFields
    <3> QED BY <3>1, <3>2
  <2>2. CASE c # b
    <3>1. new[c] = bs[c]
      BY <1>2, <2>2, Zenon
    <3> QED BY <1>1, <3>1, Zenon
  <2> QED BY <2>1, <2>2
<1>4. new = [c \in Buf |-> new[c]]
  BY <1>1
<1>5. /\ Append(q, b) \in Seq(Buf)
      /\ Distinct(Append(q, b))
      /\ \A c : Wait(Append(q, b), c) <=> Wait(q, c) \/ c = b
  BY AppendDistinct, Zenon DEF SlotsOK
<1>6. \A c \in Buf : /\ new[c].st \in BufStates
                     /\ new[c].st = "queued" <=> Wait(Append(q, b), c)
  <2> TAKE c \in Buf
  <2>1. CASE c = b
    <3>0. new[c] = Buffer(s, "queued")
      BY <1>2, <2>1, Zenon
    <3>1. new[c].st = "queued"
      BY <3>0, BufferFields
    <3>2. Wait(Append(q, b), c)
      BY <1>5, <2>1, Zenon
    <3> QED BY <3>1, <3>2 DEF BufStates
  <2>2. CASE c # b
    <3>1. new[c] = bs[c]
      BY <1>2, <2>2, Zenon
    <3> QED BY <1>5, <2>2, <3>1, Zenon DEF SlotsOK
  <2> QED BY <2>1, <2>2
<1> HIDE DEF new
<1>7. new = [c \in Buf |-> Buffer(new[c].size, new[c].st)]
  BY <1>3, <1>4
<1> QED BY <1>5, <1>6, <1>7, Zenon DEF SlotsOK, new

\* The buffer at the head is handed back.
LEMMA SlotsTail ==
  ASSUME NEW bs, NEW q, SlotsOK(bs, q), q # <<>>, NEW s
  PROVE  SlotsOK([bs EXCEPT ![Head(q)] = Buffer(s, "dequeued")], Tail(q))
<1> DEFINE new == [bs EXCEPT ![Head(q)] = Buffer(s, "dequeued")]
<1>1. /\ DOMAIN bs = Buf
      /\ \A c \in Buf : bs[c] = Buffer(bs[c].size, bs[c].st)
  BY Zenon DEF SlotsOK
<1>2. \A c \in Buf :
        new[c] = IF c = Head(q) THEN Buffer(s, "dequeued") ELSE bs[c]
  BY <1>1
<1>3. \A c \in Buf : new[c] = Buffer(new[c].size, new[c].st)
  <2> TAKE c \in Buf
  <2>1. CASE c = Head(q)
    <3>1. new[c] = Buffer(s, "dequeued")
      BY <1>2, <2>1, Zenon
    <3>2. new[c].size = s /\ new[c].st = "dequeued"
      BY <3>1, BufferFields
    <3> QED BY <3>1, <3>2
  <2>2. CASE c # Head(q)
    <3>1. new[c] = bs[c]
      BY <1>2, <2>2, Zenon
    <3> QED BY <1>1, <3>1, Zenon
  <2> QED BY <2>1, <2>2
<1>4. new = [c \in Buf |-> new[c]]
  BY <1>1
<1>5. /\ Tail(q) \in Seq(Buf)
      /\ Distinct(Tail(q))
      /\ \A c : Wait(Tail(q), c) <=> Wait(q, c) /\ c # Head(q)
  BY TailDistinct, Zenon DEF SlotsOK
<1>6. \A c \in Buf : /\ new[c].st \in BufStates
                     /\ new[c].st = "queued" <=> Wait(Tail(q), c)
  <2> TAKE c \in Buf
  <2>1. CASE c = Head(q)
    <3>0. new[c] = Buffer(s, "dequeued")
      BY <1>2, <2>1, Zenon
    <3>1. new[c].st = "dequeued"
      BY <3>0, BufferFields
    <3>2. ~Wait(Tail(q), c)
      BY <1>5, <2>1, Zenon
    <3> QED BY <3>1, <3>2 DEF BufStates
  <2>2. CASE c # Head(q)
    <3>1. new[c] = bs[c]
      BY <1>2, <2>2, Zenon
    <3> QED BY <1>5, <2>2, <3>1, Zenon DEF SlotsOK
  <2> QED BY <2>1, <2>2
<1> HIDE DEF new
<1>7. new = [c \in Buf |-> Buffer(new[c].size, new[c].st)]
  BY <1>3, <1>4
<1> QED BY <1>5, <1>6, <1>7, Zenon DEF SlotsOK, new

\* The queues, the buffers and the job agree.
QueueInv ==
  /\ bufs = [d \in Dirs |-> bufs[d]]
  /\ queue = [d \in Dirs |-> queue[d]]
  /\ \A d \in Dirs : SlotsOK(bufs[d], queue[d])
  /\ run = [pc |-> run.pc, OUT |-> run.OUT, CAP |-> run.CAP]
  /\ run.pc \in {"idle", "started", "busy", "wild"}
  /\ \A d \in Dirs :
       IF run.pc = "idle" THEN run[d] = None
       ELSE queue[d] # <<>> /\ run[d] = Head(queue[d])

\* QueueInv holds in a file just opened.
LEMMA QueueInit == Init => QueueInv
<1> SUFFICES ASSUME Init PROVE QueueInv
  OBVIOUS
<1>1. /\ bufs = [d \in Dirs |-> [b \in Buf |-> NoBuffer]]
      /\ queue = [d \in Dirs |-> <<>>]
      /\ run = NoJob
  BY Zenon DEF Init
<1>2. SlotsOK([b \in Buf |-> NoBuffer], <<>>)
  <2> DEFINE bs == [b \in Buf |-> NoBuffer]
  <2>1. \A b \in Buf :
          bs[b].st = "none" /\ bs[b] = Buffer(bs[b].size, bs[b].st)
    BY BufferFields DEF NoBuffer
  <2>2. bs = [b \in Buf |-> Buffer(bs[b].size, bs[b].st)]
    BY <2>1
  <2>3. \A b \in Buf : bs[b].st \in BufStates \ {"queued"}
    BY <2>1 DEF BufStates
  <2> HIDE DEF bs
  <2>4. SlotsOK(bs, <<>>)
    BY <2>2, <2>3, SlotsEmpty, Zenon
  <2> QED BY <2>4 DEF bs
<1> QED BY <1>1, <1>2 DEF QueueInv, NoJob

\* A step of queue d that leaves the job and the other queue alone.
LEMMA QueueStep ==
  ASSUME QueueInv, NEW d \in Dirs, NEW bs, NEW q, SlotsOK(bs, q),
         bufs' = [bufs EXCEPT ![d] = bs],
         queue' = [queue EXCEPT ![d] = q],
         run' = run,
         run.pc # "idle" => q # <<>> /\ Head(q) = Head(queue[d])
  PROVE  QueueInv'
<1>1. \A e \in Dirs : /\ bufs'[e] = IF e = d THEN bs ELSE bufs[e]
                      /\ queue'[e] = IF e = d THEN q ELSE queue[e]
  BY DEF QueueInv
<1>2. bufs' = [e \in Dirs |-> bufs'[e]] /\ queue' = [e \in Dirs |-> queue'[e]]
  BY DEF QueueInv
<1>3. \A e \in Dirs : SlotsOK(bufs'[e], queue'[e])
  BY <1>1, Zenon DEF QueueInv
<1>4. \A e \in Dirs :
        IF run.pc = "idle" THEN run[e] = None
        ELSE queue'[e] # <<>> /\ run[e] = Head(queue'[e])
  BY <1>1, Zenon DEF QueueInv
<1> QED BY <1>2, <1>3, <1>4, Zenon DEF QueueInv

\* Every step keeps QueueInv. REQBUFS and STREAMOFF empty a queue; the one
\* requires that it does not stream, the other waits for the job, so neither
\* takes the buffers of a job away.
LEMMA QueueNext == FreshInv /\ QueueInv /\ [Next]_vars => QueueInv'
<1> SUFFICES ASSUME FreshInv, QueueInv, [Next]_vars PROVE QueueInv'
  OBVIOUS
<1>0. ASSUME UNCHANGED <<bufs, queue, run>> PROVE QueueInv'
  BY <1>0, Zenon DEF QueueInv
<1>1. ASSUME NEW f \in Fourccs, NEW w \in Widths, NEW h \in Heights,
             SFmtOut(f, w, h) \/ SFmtCap(f, w, h)
      PROVE  QueueInv'
  BY <1>0, <1>1, Zenon DEF SFmtOut, SFmtCap, bufVars, runVars
<1>2. ASSUME NEW d \in Dirs, NEW B \in SUBSET Buf, ReqBufs(d, B)
      PROVE  QueueInv'
  <2> DEFINE bs == [b \in Buf |-> IF b \in B
                                  THEN Buffer(Fmt(d).sizeimage, "dequeued")
                                  ELSE NoBuffer]
  <2>1. \A b \in Buf : /\ bs[b] = Buffer(bs[b].size, bs[b].st)
                       /\ bs[b].st \in {"dequeued", "none"}
    BY BufferFields DEF NoBuffer
  <2>2. bs = [b \in Buf |-> Buffer(bs[b].size, bs[b].st)]
    BY <2>1
  <2>3. /\ bufs' = [bufs EXCEPT ![d] = bs]
        /\ queue' = [queue EXCEPT ![d] = <<>>]
        /\ run' = run
        /\ ~streaming[d]
    BY <1>2, Zenon DEF ReqBufs, runVars
  <2> HIDE DEF bs
  <2>4. \A b \in Buf : bs[b].st \in BufStates \ {"queued"}
    BY <2>1 DEF BufStates
  <2>5. SlotsOK(bs, <<>>)
    BY <2>2, <2>4, SlotsEmpty, Zenon
  <2>6. run.pc = "idle"
    BY <2>3, Zenon DEF FreshInv, JobStreams
  <2> QED BY <2>3, <2>5, <2>6, QueueStep, Zenon
<1>3. ASSUME NEW d \in Dirs, NEW b \in Buf, NEW s,
             NEW t \in BufStates \ {"queued"},
             bufs[d][b].st # "queued",
             bufs' = [bufs EXCEPT ![d][b] = Buffer(s, t)],
             UNCHANGED <<queue, run>>
      PROVE  QueueInv'
  <2>1. SlotsOK([bufs[d] EXCEPT ![b] = Buffer(s, t)], queue[d])
    BY <1>3, SlotsSet, Zenon DEF QueueInv
  <2>2. /\ bufs' = [bufs EXCEPT ![d] = [bufs[d] EXCEPT ![b] = Buffer(s, t)]]
        /\ queue' = [queue EXCEPT ![d] = queue[d]]
    BY <1>3 DEF QueueInv
  <2>3. run.pc # "idle" => queue[d] # <<>>
    BY Zenon DEF QueueInv
  <2> QED BY <1>3, <2>1, <2>2, <2>3, QueueStep, Zenon
<1>4. ASSUME NEW d \in Dirs, NEW b \in Buf, PrepareBuf(d, b)
      PROVE  QueueInv'
  <2>1. /\ bufs[d][b].st = "dequeued"
        /\ bufs' = [bufs EXCEPT ![d][b] = Buffer(bufs[d][b].size, "prepared")]
        /\ UNCHANGED <<queue, run>>
    BY <1>4 DEF PrepareBuf, runVars
  <2>2. "prepared" \in BufStates \ {"queued"} /\ bufs[d][b].st # "queued"
    BY <2>1 DEF BufStates
  <2> QED BY <1>3, <2>1, <2>2, Zenon
<1>5. ASSUME NEW d \in Dirs, NEW b \in Buf, NEW s \in Sizes,
             CreateBuf(d, b, s)
      PROVE  QueueInv'
  <2>1. /\ bufs[d][b].st = "none"
        /\ bufs' = [bufs EXCEPT ![d][b] = Buffer(s, "dequeued")]
        /\ UNCHANGED <<queue, run>>
    BY <1>5 DEF CreateBuf, runVars
  <2>2. "dequeued" \in BufStates \ {"queued"} /\ bufs[d][b].st # "queued"
    BY <2>1 DEF BufStates
  <2> QED BY <1>3, <2>1, <2>2, Zenon
<1>6. ASSUME NEW d \in Dirs, NEW b \in Buf, QBuf(d, b)
      PROVE  QueueInv'
  <2> DEFINE bs == [bufs[d] EXCEPT ![b] = Buffer(bufs[d][b].size, "queued")]
  <2>1. /\ bufs[d][b].st # "queued"
        /\ bufs' = [bufs EXCEPT ![d] = bs]
        /\ queue' = [queue EXCEPT ![d] = Append(queue[d], b)]
        /\ run' = run
    BY <1>6 DEF QBuf, runVars
  <2>2. SlotsOK(bs, Append(queue[d], b))
    BY <2>1, SlotsQueue, Zenon DEF QueueInv
  <2>3. /\ queue[d] \in Seq(Buf) /\ Distinct(queue[d])
        /\ ~Wait(queue[d], b)
    BY <2>1, Zenon DEF QueueInv, SlotsOK
  <2>4. /\ queue[d] # <<>> => Head(Append(queue[d], b)) = Head(queue[d])
        /\ Append(queue[d], b) # <<>>
    BY <2>3, AppendDistinct, AppendProperties
  <2>5. run.pc # "idle" => queue[d] # <<>>
    BY Zenon DEF QueueInv
  <2> HIDE DEF bs
  <2> QED BY <2>1, <2>2, <2>4, <2>5, QueueStep, Zenon
<1>7. ASSUME NEW d \in Dirs, StreamOn(d)
      PROVE  QueueInv'
  BY <1>0, <1>7, Zenon DEF StreamOn, bufVars, runVars
<1>8. ASSUME NEW d \in Dirs, StreamOff(d)
      PROVE  QueueInv'
  <2> DEFINE bs == [b \in Buf |-> IF bufs[d][b].st = "none" THEN NoBuffer
                                  ELSE Buffer(bufs[d][b].size, "dequeued")]
  <2>1. \A b \in Buf : /\ bs[b] = Buffer(bs[b].size, bs[b].st)
                       /\ bs[b].st \in {"dequeued", "none"}
    BY BufferFields DEF NoBuffer
  <2>2. bs = [b \in Buf |-> Buffer(bs[b].size, bs[b].st)]
    BY <2>1
  <2>3. /\ bufs' = [bufs EXCEPT ![d] = bs]
        /\ queue' = [queue EXCEPT ![d] = <<>>]
        /\ run' = run
        /\ run.pc = "idle"
    BY <1>8, Zenon DEF StreamOff, runVars
  <2> HIDE DEF bs
  <2>4. \A b \in Buf : bs[b].st \in BufStates \ {"queued"}
    BY <2>1 DEF BufStates
  <2>5. SlotsOK(bs, <<>>)
    BY <2>2, <2>4, SlotsEmpty, Zenon
  <2> QED BY <2>3, <2>5, QueueStep, Zenon
<1>9. CASE RunStart
  <2>1. /\ \A d \in Dirs : queue[d] # <<>>
        /\ run' = [pc |-> IF codec = "JPEG_ENC" THEN "started" ELSE "wild",
                   OUT |-> Head(queue["OUT"]), CAP |-> Head(queue["CAP"])]
        /\ UNCHANGED <<bufs, queue>>
    BY <1>9, Zenon DEF RunStart, bufVars
  <2>2. /\ run' = [pc |-> run'.pc, OUT |-> run'.OUT, CAP |-> run'.CAP]
        /\ run'.pc \in {"started", "wild"}
        /\ \A d \in Dirs : run'[d] = Head(queue[d])
    BY <2>1
  <2>3. run'.pc # "idle"
    BY <2>2
  <2> QED BY <2>1, <2>2, <2>3 DEF QueueInv
<1>10. CASE RunKick
  <2>1. run.pc = "started" /\ run' = [run EXCEPT !.pc = "busy"]
        /\ UNCHANGED <<bufs, queue>>
    BY <1>10 DEF RunKick, bufVars
  <2>2. /\ run' = [pc |-> run'.pc, OUT |-> run'.OUT, CAP |-> run'.CAP]
        /\ run'.pc = "busy"
        /\ \A d \in Dirs : run'[d] = run[d]
    BY <2>1 DEF QueueInv
  <2> QED BY <2>1, <2>2 DEF QueueInv
<1>11. CASE JobEnd
  <2>1. /\ run.pc \in {"busy", "wild"}
        /\ run' = NoJob
        /\ bufs' = [d \in Dirs |->
                      [bufs[d] EXCEPT ![run[d]] =
                         Buffer(bufs[d][run[d]].size, "dequeued")]]
        /\ queue' = [d \in Dirs |-> Tail(queue[d])]
    BY <1>11, Zenon DEF JobEnd
  <2>2. \A d \in Dirs : queue[d] # <<>> /\ run[d] = Head(queue[d])
    BY <2>1, Zenon DEF QueueInv
  <2>3. \A d \in Dirs : SlotsOK(bufs'[d], queue'[d])
    <3> TAKE d \in Dirs
    <3>1. /\ bufs'[d] = [bufs[d] EXCEPT ![Head(queue[d])] =
                           Buffer(bufs[d][run[d]].size, "dequeued")]
          /\ queue'[d] = Tail(queue[d])
      BY <2>1, <2>2
    <3>2. SlotsOK(bufs[d], queue[d]) /\ queue[d] # <<>>
      BY <2>2, Zenon DEF QueueInv
    <3> QED BY <3>1, <3>2, SlotsTail
  <2>4. /\ bufs' = [d \in Dirs |-> bufs'[d]]
        /\ queue' = [d \in Dirs |-> queue'[d]]
    BY <2>1, Zenon
  <2> QED BY <2>1, <2>3, <2>4 DEF QueueInv, NoJob
<1>12. CASE UNCHANGED vars
  BY <1>0, <1>12, Zenon DEF vars, bufVars, runVars
<1> QED BY <1>1, <1>2, <1>4, <1>5, <1>6, <1>7, <1>8, <1>9, <1>10, <1>11, <1>12,
           Zenon DEF Next

\* The inductive invariants hold in every reachable state.
THEOREM QueueCorrect == Spec => [](FreshInv /\ QueueInv)
BY FreshInit, FreshNext, QueueInit, QueueNext, PTL DEF Spec

\* Buffers, queues and the job agree, whatever user space does.
THEOREM EncTypeCorrect == Spec => []TypeOK
<1>1. FreshInv /\ QueueInv => TypeOK
  <2> SUFFICES ASSUME FreshInv, QueueInv PROVE TypeOK
    OBVIOUS
  <2>1. queue \in [Dirs -> Seq(Buf)]
    BY DEF QueueInv, SlotsOK
  <2>2. \A d \in Dirs :
          run[d] = IF run.pc = "idle" THEN None ELSE Head(queue[d])
    BY Zenon DEF QueueInv
  <2> QED BY <2>1, <2>2, Zenon
          DEF TypeOK, FreshInv, QueueInv, SlotsOK, Distinct, Wait
<1> QED BY <1>1, QueueCorrect, PTL

\* A job that is on the device keeps the formats and the operation table, and
\* until it ends its two buffers.
LEMMA StableStep == FreshInv /\ QueueInv /\ [Next]_vars =>
  (run.pc # "idle" =>
       /\ UNCHANGED <<fmtVars, codec>>
       /\ run'.pc # "idle" =>
            \A d \in Dirs : bufs'[d][run[d]] = bufs[d][run[d]])
<1> SUFFICES ASSUME FreshInv, QueueInv, [Next]_vars, run.pc # "idle"
             PROVE  /\ UNCHANGED <<fmtVars, codec>>
                    /\ run'.pc # "idle" =>
                         \A d \in Dirs : bufs'[d][run[d]] = bufs[d][run[d]]
  OBVIOUS
<1>0. streaming["OUT"] /\ streaming["CAP"]
  BY DEF FreshInv, JobStreams
<1>1. \A d \in Dirs : run[d] \in Buf /\ bufs[d][run[d]].st = "queued"
  <2> TAKE d \in Dirs
  <2>1. /\ queue[d] # <<>> /\ run[d] = Head(queue[d])
        /\ SlotsOK(bufs[d], queue[d])
    BY Zenon DEF QueueInv
  <2>2. run[d] \in Buf /\ Wait(queue[d], run[d])
    BY <2>1, TailDistinct, Zenon DEF SlotsOK
  <2> QED BY <2>1, <2>2, Zenon DEF SlotsOK
<1>2. ASSUME NEW d \in Dirs, NEW b \in Buf, bufs[d][b].st # "queued", NEW r,
             bufs' = [bufs EXCEPT ![d][b] = r]
      PROVE  \A e \in Dirs : bufs'[e][run[e]] = bufs[e][run[e]]
  <2> TAKE e \in Dirs
  <2>1. ~(e = d /\ run[e] = b)
    BY <1>1, <1>2, Zenon
  <2>2. /\ DOMAIN bufs = Dirs /\ DOMAIN bufs[d] = Buf
    BY DEF QueueInv, SlotsOK
  <2> QED BY <1>2, <2>1, <2>2
<1>3. CASE UNCHANGED <<fmtVars, codec, bufs>>
  BY <1>3, Zenon
<1>4. ASSUME NEW d \in Dirs, NEW b \in Buf, PrepareBuf(d, b) \/ QBuf(d, b)
      PROVE  UNCHANGED <<fmtVars, codec>> /\ \A e \in Dirs :
               bufs'[e][run[e]] = bufs[e][run[e]]
  <2>1. /\ bufs[d][b].st # "queued"
        /\ UNCHANGED <<fmtVars, codec>>
    BY <1>4 DEF PrepareBuf, QBuf
  <2>2. \E r : bufs' = [bufs EXCEPT ![d][b] = r]
    BY <1>4, Zenon DEF PrepareBuf, QBuf
  <2> QED BY <1>2, <2>1, <2>2, Zenon
<1>5. ASSUME NEW d \in Dirs, NEW b \in Buf, NEW s \in Sizes,
             CreateBuf(d, b, s)
      PROVE  UNCHANGED <<fmtVars, codec>> /\ \A e \in Dirs :
               bufs'[e][run[e]] = bufs[e][run[e]]
  <2>1. /\ bufs[d][b].st # "queued"
        /\ UNCHANGED <<fmtVars, codec>>
    BY <1>5 DEF CreateBuf
  <2>2. bufs' = [bufs EXCEPT ![d][b] = Buffer(s, "dequeued")]
    BY <1>5, Zenon DEF CreateBuf
  <2> QED BY <1>2, <2>1, <2>2, Zenon
<1>6. ~ \E f \in Fourccs, w \in Widths, h \in Heights :
          SFmtOut(f, w, h) \/ SFmtCap(f, w, h)
  BY <1>0, Zenon DEF SFmtOut, SFmtCap
<1>7. ~ \E d \in Dirs : \/ \E B \in SUBSET Buf : ReqBufs(d, B)
                        \/ StreamOn(d)
                        \/ StreamOff(d)
  BY <1>0, Zenon DEF ReqBufs, StreamOn, StreamOff
<1>8. CASE RunStart
  BY <1>3, <1>8, Zenon DEF RunStart, bufVars
<1>9. CASE RunKick
  BY <1>3, <1>9, Zenon DEF RunKick, bufVars
<1>10. CASE JobEnd
  BY <1>10 DEF JobEnd, NoJob
<1>11. CASE UNCHANGED vars
  BY <1>3, <1>11, Zenon DEF vars, bufVars
<1> QED BY <1>4, <1>5, <1>6, <1>7, <1>8, <1>9, <1>10, <1>11, Zenon DEF Next

\* No ioctl changes what a job on the device was given or reads, so device_run
\* and jpeg_enc_run may read the context without a lock, whatever user space
\* does.
THEOREM StableJobCorrect == Spec => StableJob
BY QueueCorrect, StableStep, PTL DEF Spec, StableJob
=============================================================================
