---------------------------- MODULE EncJobProofs ----------------------------
(***************************************************************************)
(* What a job takes from its file, for tables of every length and numbers  *)
(* of every width, whatever user space does. A step of EncJob is one of    *)
(* EncFormat or leaves its variables alone, so all that EncFormatProofs    *)
(* proves holds here too; the two invariants below are about the rest. The *)
(* last part is about the job of EncFormat alone: it is that of JobSlot.   *)
(***************************************************************************)
EXTENDS EncJob, EncFormatRefinement, EncFormatProofs

USE DEF Dirs

\* The sequence numbers can drift apart only once a queue has been stopped
\* alone: before that, a queue that streams alone has numbered nothing yet.
SeqInv ==
  /\ seq = [d \in Dirs |-> seq[d]]
  /\ ~apart =>
       /\ (\A d \in Dirs : streaming[d]) => seq["OUT"] = seq["CAP"]
       /\ \A d, e \in Dirs : streaming[d] /\ ~streaming[e] => seq[d] = 0

\* S_CTRL renews a table from its first coefficient on; set_qtable has
\* written all coefficients before next, none older than the job.
TableInv ==
  /\ table \in [Coefs -> Nat]
  /\ coefs \in [Coefs -> Int]
  /\ since \in Nat
  /\ next \in 1 .. NumCoef + 1
  /\ \A i \in Coefs : table[NumCoef] <= table[i] /\ table[i] <= table[1]
  /\ since <= table[NumCoef]
  /\ run.pc \in {"idle", "wild", "busy"} => next = 1
  /\ \A i \in Coefs :
       (run.pc = "started" /\ i < next) \/ run.pc = "busy" =>
         since <= coefs[i] /\ coefs[i] <= table[i]

FormatInv == FreshInv /\ QueueInv
JobInv    == FormatInv /\ SeqInv /\ TableInv

-----------------------------------------------------------------------------
\* Every step of EncJob is a step of EncFormat or changes none of its
\* variables.
LEMMA JobStep == JobNext => [Next]_vars
BY DEF JobNext, Ioctl, JobStreamOn, JobStreamOff, StoreCoef, JobStart, SetCoef,
       JobKick, JobDone, OtherJob, Next

\* EncJob implements EncFormat: the tables, the numbers and the jobs of other
\* files are stutters.
THEOREM JobImplementsFormat == JobSpec => Spec
<1>1. JobInit => Init
  BY DEF JobInit
<1>2. [JobNext]_jobVars => [Next]_vars
  BY JobStep DEF jobVars
<1> QED BY <1>1, <1>2, PTL DEF JobSpec, Spec

\* Where a step takes the job.
LEMMA JobPlace ==
  /\ Init => run.pc = "idle"
  /\ FormatInv /\ RunStart => run.pc = "idle" /\ run'.pc \in {"started", "wild"}
  /\ FormatInv /\ RunKick => run.pc = "started" /\ run'.pc = "busy"
  /\ FormatInv /\ JobEnd => /\ run.pc \in {"busy", "wild"} /\ run'.pc = "idle"
                            /\ \A d \in Dirs : streaming[d]
  /\ Ioctl => UNCHANGED <<run, streaming>>
  /\ \A d \in Dirs : StreamOn(d) \/ StreamOff(d) => UNCHANGED run
<1>1. Init => run.pc = "idle"
  <2>1. NoJob.pc = "idle"
    BY DEF NoJob
  <2> QED BY <2>1, Zenon DEF Init
<1>2. FormatInv /\ RunStart => run.pc = "idle" /\ run'.pc \in {"started", "wild"}
  BY DEF RunStart
<1>3. FormatInv /\ RunKick => run.pc = "started" /\ run'.pc = "busy"
  BY DEF RunKick, FormatInv, QueueInv
<1>4. FormatInv /\ JobEnd => /\ run.pc \in {"busy", "wild"} /\ run'.pc = "idle"
                            /\ \A d \in Dirs : streaming[d]
  BY DEF JobEnd, NoJob, FormatInv, FreshInv, JobStreams
<1>5. Ioctl => UNCHANGED <<run, streaming>>
  BY DEF Ioctl, SFmtOut, SFmtCap, ReqBufs, CreateBuf, PrepareBuf, QBuf, runVars
<1>6. \A d \in Dirs : StreamOn(d) \/ StreamOff(d) => UNCHANGED run
  BY DEF StreamOn, StreamOff, runVars
<1> QED BY <1>1, <1>2, <1>3, <1>4, <1>5, <1>6

\* It holds in a file just opened.
LEMMA JobInvInit == JobInit => JobInv
<1> SUFFICES ASSUME JobInit PROVE JobInv
  OBVIOUS
<1>1. FormatInv
  BY FreshInit, QueueInit DEF JobInit, FormatInv
<1>2. SeqInv
  BY DEF JobInit, SeqInv
<1>3. TableInv
  BY JobPlace, CoefAssumption DEF JobInit, TableInv, Coefs, Foreign
<1> QED BY <1>1, <1>2, <1>3 DEF JobInv

\* Only STREAMON, STREAMOFF and job_finish have to do with the numbers.
LEMMA SeqStep == FormatInv /\ SeqInv /\ [JobNext]_jobVars => SeqInv'
<1> SUFFICES ASSUME FormatInv, SeqInv, [JobNext]_jobVars PROVE SeqInv'
  OBVIOUS
<1>1. ASSUME UNCHANGED <<streaming, seq, apart>> PROVE SeqInv'
  BY <1>1 DEF SeqInv
<1>2. ASSUME NEW d \in Dirs, JobStreamOn(d) PROVE SeqInv'
  BY <1>2 DEF JobStreamOn, StreamOn, FormatInv, FreshInv, SeqInv
<1>3. ASSUME NEW d \in Dirs, JobStreamOff(d) PROVE SeqInv'
  BY <1>3 DEF JobStreamOff, StreamOff, FormatInv, FreshInv, SeqInv
<1>4. CASE JobDone
  BY <1>4, JobPlace DEF JobDone, JobEnd, SeqInv
<1>5. CASE Ioctl
  BY <1>1, <1>5, JobPlace DEF Ioctl, seqVars
<1>6. CASE StoreCoef \/ SetCoef \/ OtherJob \/ UNCHANGED jobVars
  BY <1>1, <1>6 DEF StoreCoef, SetCoef, OtherJob, jobVars, seqVars, vars
<1>7. CASE JobStart \/ JobKick
  BY <1>1, <1>7 DEF JobStart, JobKick, RunStart, RunKick, seqVars
<1> QED BY <1>2, <1>3, <1>4, <1>5, <1>6, <1>7 DEF JobNext

\* S_CTRL and set_qtable interleave coefficient by coefficient.
LEMMA TableStep == FormatInv /\ TableInv /\ [JobNext]_jobVars => TableInv'
<1> SUFFICES ASSUME FormatInv, TableInv, [JobNext]_jobVars PROVE TableInv'
  OBVIOUS
<1> USE CoefAssumption DEF Coefs
<1>1. ASSUME UNCHANGED <<run, tableVars>> PROVE TableInv'
  BY <1>1 DEF TableInv, tableVars
<1>2. ASSUME NEW i \in Coefs,
             table[i] = table[NumCoef],
             \A j \in 1 .. i - 1 : table[j] > table[i],
             table' = [table EXCEPT ![i] = @ + 1],
             UNCHANGED <<run, coefs, next, since>>
      PROVE  TableInv'
  <2>1. table' \in [Coefs -> Nat] /\ \A j \in Coefs : table[j] <= table'[j]
    BY <1>2 DEF TableInv
  <2>2. since' <= table'[NumCoef]
    BY <1>2, <2>1 DEF TableInv
  <2>3. ASSUME NEW j \in Coefs
        PROVE  table'[NumCoef] <= table'[j] /\ table'[j] <= table'[1]
    BY <1>2, <2>3 DEF TableInv
  <2>4. \A j \in Coefs :
          (run.pc = "started" /\ j < next) \/ run.pc = "busy" =>
            since <= coefs[j] /\ coefs[j] <= table'[j]
    BY <2>1 DEF TableInv
  <2> QED BY <1>2, <2>1, <2>2, <2>3, <2>4 DEF TableInv
<1>3. CASE StoreCoef
  BY <1>2, <1>3 DEF StoreCoef, vars, runVars
<1>4. CASE JobStart
  BY <1>4, JobPlace DEF JobStart, TableInv
<1>5. CASE SetCoef
  BY <1>5 DEF SetCoef, TableInv, vars, runVars
<1>6. CASE JobKick
  BY <1>6, JobPlace DEF JobKick, TableInv
<1>7. CASE JobDone
  BY <1>7, JobPlace DEF JobDone, TableInv
<1>8. CASE OtherJob
  BY <1>8 DEF OtherJob, TableInv, Foreign, vars, runVars
<1>9. CASE Ioctl
  BY <1>1, <1>9, JobPlace DEF Ioctl
<1>10. ASSUME NEW d \in Dirs, JobStreamOn(d) \/ JobStreamOff(d)
       PROVE  TableInv'
  BY <1>1, <1>10, JobPlace DEF JobStreamOn, JobStreamOff
<1>11. CASE UNCHANGED jobVars
  BY <1>1, <1>11 DEF jobVars, vars, runVars
<1> QED BY <1>3, <1>4, <1>5, <1>6, <1>7, <1>8, <1>9, <1>10, <1>11 DEF JobNext

\* The invariant holds throughout: EncFormat's part because every step is one
\* of its, the rest step by step.
THEOREM JobInductive == JobSpec => []JobInv
<1>1. FormatInv /\ [JobNext]_jobVars => FormatInv'
  <2>1. [JobNext]_jobVars => [Next]_vars
    BY JobStep DEF jobVars
  <2> QED BY <2>1, FreshNext, QueueNext DEF FormatInv
<1>2. JobInv /\ [JobNext]_jobVars => JobInv'
  BY <1>1, SeqStep, TableStep DEF JobInv
<1> QED BY <1>2, JobInvInit, PTL DEF JobSpec

-----------------------------------------------------------------------------
\* A frame is encoded with its own file's tables, no older than the job,
\* although set_qtable and S_CTRL exclude each other in no way.
THEOREM OwnTablesCorrect == JobSpec => []OwnTables
<1>1. JobInv => OwnTables
  BY CoefAssumption DEF JobInv, TableInv, OwnTables, Coefs
<1> QED BY <1>1, JobInductive, PTL

\* A frame and its JPEG are numbered alike by rockchip_vpu_job_finish until a
\* queue is restarted alone.
THEOREM SameNumberCorrect == JobSpec => []SameNumber
<1>1. JobInv => SameNumber
  BY DEF JobInv, SeqInv, SameNumber
<1> QED BY <1>1, JobInductive, PTL

-----------------------------------------------------------------------------
(* EncFormat implements JobSlot.                                           *)

\* The buffers of the job.
Taken == [d \in Dirs |-> run[d]]

SlotVars == <<queue, Streams, Taken>>

LEMMA SlotIs ==
  /\ Slot!vars = <<OnFile(queue), OnFile(Streams), OnFile(Taken)>>
  /\ Slot!NoJob = [d \in Dirs |-> None]
BY DEF Slot!vars, Slot!NoJob, Taken

\* The actions of JobSlot for the one file there is.
LEMMA SlotGive ==
  ASSUME NEW d \in Dirs, NEW b \in Buf, b \notin Slot!ToSet(queue[d]),
         queue' = [queue EXCEPT ![d] = Append(queue[d], b)],
         UNCHANGED <<Streams, Taken>>
  PROVE  Slot!Next
<1>1. Slot!Give(File, d, b)
  BY DEF Slot!Give, OnFile, Taken
<1> QED BY <1>1 DEF Slot!Next

LEMMA SlotStart ==
  ASSUME NEW d \in Dirs, d \notin Streams, Streams' = Streams \cup {d},
         UNCHANGED <<queue, Taken>>
  PROVE  Slot!Next
<1>1. Slot!Start(File, d)
  BY DEF Slot!Start, OnFile, Taken
<1> QED BY <1>1 DEF Slot!Next

LEMMA SlotLoad ==
  ASSUME \A d \in Dirs : run[d] = None /\ queue[d] # <<>>
                         /\ run'[d] = Head(queue[d]),
         Streams = Dirs, UNCHANGED <<queue, Streams>>
  PROVE  Slot!Next
<1>1. Slot!Load(File)
  BY DEF Slot!Load, Slot!NoJob, OnFile
<1> QED BY <1>1 DEF Slot!Next

LEMMA SlotReturn ==
  ASSUME \A d \in Dirs : run[d] # None /\ run'[d] = None,
         queue' = [d \in Dirs |-> Tail(queue[d])], UNCHANGED Streams
  PROVE  Slot!Next
<1>1. Slot!Return(File, Dirs)
  BY DEF Slot!Return, OnFile
<1> QED BY <1>1 DEF Slot!Next

LEMMA SlotStop ==
  ASSUME QueueInv, NEW d \in Dirs, run.pc = "idle",
         queue' = [queue EXCEPT ![d] = <<>>], Streams' = Streams \ {d},
         UNCHANGED Taken
  PROVE  Slot!Next
<1>1. queue' = [e \in Dirs |-> IF e \in {d} THEN <<>> ELSE queue[e]]
  BY DEF QueueInv
<1>2. \A e \in Dirs : run[e] = None
  BY DEF QueueInv
<1>3. Slot!Stop(File, {d})
  BY <1>1, <1>2 DEF Slot!Stop, Slot!NoJob, OnFile, Taken
<1> QED BY <1>3 DEF Slot!Next

\* Every ioctl is a step of JobSlot or leaves the queues, the streaming
\* flags and the job alone.
LEMMA SlotStep == FreshInv /\ QueueInv /\ [Next]_vars => [Slot!Next]_(Slot!vars)
<1> SUFFICES ASSUME FreshInv, QueueInv, [Next]_vars, ~ UNCHANGED SlotVars
             PROVE  Slot!Next
  BY SlotIs DEF SlotVars, OnFile, Slot!vars, Taken
<1>1. ~ UNCHANGED <<queue, streaming, run>>
  BY DEF SlotVars, Streams, Taken
<1>2. ~ \E f \in Fourccs, w \in Widths, h \in Heights :
          SFmtOut(f, w, h) \/ SFmtCap(f, w, h)
  BY <1>1, Zenon DEF SFmtOut, SFmtCap, bufVars, runVars
<1>3. ~ \E d \in Dirs, b \in Buf :
          PrepareBuf(d, b) \/ \E s \in Sizes : CreateBuf(d, b, s)
  BY <1>1, Zenon DEF PrepareBuf, CreateBuf, runVars
<1>4. ASSUME NEW d \in Dirs, NEW B \in SUBSET Buf, ReqBufs(d, B)
      PROVE  Slot!Next
  <2>1. /\ queue' = [queue EXCEPT ![d] = <<>>] /\ ~streaming[d]
        /\ UNCHANGED <<streaming, run>>
    BY <1>4, Zenon DEF ReqBufs, runVars
  <2>2. run.pc = "idle"
    BY <2>1, Zenon DEF FreshInv, JobStreams
  <2>3. UNCHANGED Taken /\ Streams' = Streams \ {d}
    BY <2>1 DEF Taken, Streams
  <2> QED BY <2>1, <2>2, <2>3, SlotStop
<1>5. ASSUME NEW d \in Dirs, NEW b \in Buf, QBuf(d, b) PROVE Slot!Next
  <2>1. /\ bufs[d][b].st # "queued"
        /\ queue' = [queue EXCEPT ![d] = Append(queue[d], b)]
        /\ UNCHANGED <<streaming, run>>
    BY <1>5 DEF QBuf, runVars
  <2>2. b \notin Slot!ToSet(queue[d])
    BY <2>1 DEF QueueInv, SlotsOK, Wait, Slot!ToSet
  <2>3. UNCHANGED <<Streams, Taken>>
    BY <2>1 DEF Streams, Taken
  <2> QED BY <2>1, <2>2, <2>3, SlotGive
<1>6. ASSUME NEW d \in Dirs, StreamOn(d) PROVE Slot!Next
  <2>1. /\ ~streaming[d] /\ streaming' = [streaming EXCEPT ![d] = TRUE]
        /\ UNCHANGED <<queue, run>>
    BY <1>6 DEF StreamOn, bufVars, runVars
  <2>2. /\ d \notin Streams /\ Streams' = Streams \cup {d}
        /\ UNCHANGED Taken
    BY <2>1 DEF Streams, Taken, FreshInv
  <2> QED BY <2>1, <2>2, SlotStart
<1>7. ASSUME NEW d \in Dirs, StreamOff(d) PROVE Slot!Next
  <2>1. /\ run.pc = "idle" /\ queue' = [queue EXCEPT ![d] = <<>>]
        /\ streaming' = [streaming EXCEPT ![d] = FALSE]
        /\ UNCHANGED run
    BY <1>7, Zenon DEF StreamOff, runVars
  <2>2. Streams' = Streams \ {d} /\ UNCHANGED Taken
    BY <2>1 DEF Streams, Taken, FreshInv
  <2> QED BY <2>1, <2>2, SlotStop
<1>8. CASE RunStart
  <2>1. /\ run.pc = "idle" /\ \A d \in Dirs : streaming[d] /\ queue[d] # <<>>
        /\ run' = [pc |-> IF codec = "JPEG_ENC" THEN "started" ELSE "wild",
                   OUT |-> Head(queue["OUT"]), CAP |-> Head(queue["CAP"])]
        /\ UNCHANGED <<queue, streaming>>
    BY <1>8, Zenon DEF RunStart, bufVars
  <2>2. \A d \in Dirs : run[d] = None /\ queue[d] # <<>>
                        /\ run'[d] = Head(queue[d])
    BY <2>1 DEF QueueInv
  <2>3. Streams = Dirs /\ UNCHANGED <<queue, Streams>>
    BY <2>1 DEF Streams
  <2> QED BY <2>2, <2>3, SlotLoad
<1>9. ~RunKick
  <2>1. SUFFICES ASSUME RunKick PROVE FALSE
    OBVIOUS
  <2>2. UNCHANGED <<queue, streaming>> /\ run' = [run EXCEPT !.pc = "busy"]
    BY <2>1 DEF RunKick, bufVars
  <2>3. UNCHANGED Taken
    BY <2>2 DEF Taken, QueueInv
  <2> QED BY <2>2, <2>3 DEF SlotVars, Streams
<1>10. CASE JobEnd
  <2>1. /\ run.pc \in {"busy", "wild"} /\ run' = NoJob
        /\ queue' = [d \in Dirs |-> Tail(queue[d])] /\ UNCHANGED streaming
    BY <1>10, Zenon DEF JobEnd
  <2>2. \A d \in Dirs : run[d] # None /\ run'[d] = None
    <3> TAKE d \in Dirs
    <3>1. run'[d] = None
      BY <2>1 DEF NoJob
    <3>2. /\ queue[d] # <<>> /\ run[d] = Head(queue[d])
          /\ SlotsOK(bufs[d], queue[d])
      BY <2>1, Zenon DEF QueueInv
    <3>3. run[d] \in Buf
      BY <3>2, TailDistinct, Zenon DEF SlotsOK
    <3> QED BY <3>1, <3>3, NoneAssumption
  <2>3. UNCHANGED Streams
    BY <2>1 DEF Streams
  <2> QED BY <2>1, <2>2, <2>3, SlotReturn
<1>11. ~ UNCHANGED vars
  BY <1>1, Zenon DEF vars, bufVars, runVars
<1> QED BY <1>2, <1>3, <1>4, <1>5, <1>6, <1>7, <1>8, <1>9, <1>10, <1>11,
           Zenon DEF Next

\* EncFormat implements JobSlot.
THEOREM EncSlotCorrect == Spec => SlotSafety
<1>1. Init => Slot!Init
  BY DEF Init, NoJob, Slot!Init, Slot!NoJob, OnFile, Streams
<1>2. FreshInv /\ QueueInv /\ [Next]_vars => [Slot!Next]_(Slot!vars)
  BY SlotStep
<1> QED BY <1>1, <1>2, QueueCorrect, PTL DEF Spec, SlotSafety, Slot!Spec

\* ... and so does EncJob.
THEOREM JobSlotCorrect == JobSpec => SlotSafety
BY JobImplementsFormat, EncSlotCorrect, PTL
=============================================================================
