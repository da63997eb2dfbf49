-------------------------- MODULE VpuJobRefinement --------------------------
(***************************************************************************)
(* VpuJob implements FrameService and JobSlot: a buffer that a handler has *)
(* taken off its queue and not yet handed to vb2 is still pending.         *)
(***************************************************************************)
EXTENDS VpuJob

\* The buffer of context c and direction d that a handler in state f holds,
\* if any.
Held(f, c, d) ==
  IF f.ctx # c THEN <<>>
  ELSE CASE d = "out" /\ f.pc \in {"dst", "srcdone"} -> <<f.src>>
         [] d = "cap" /\ f.pc \in {"srcdone", "dstdone"} -> <<f.dst>>
         [] OTHER -> <<>>

Pending == [c \in Ctx |-> [d \in Dirs |->
  Held(fin["irq"], c, d) \o Held(fin["wd"], c, d) \o queue[c][d]]]

HalfDone == [c \in Ctx |->
              \E h \in Handlers : fin[h].ctx = c /\ fin[h].pc = "dstdone"]

Stopping == [c \in Ctx |-> stop[c].dirs]

Service == INSTANCE FrameService
             WITH Client <- Ctx, pend <- Pending, half <- HalfDone,
                  stopping <- Stopping

\* The buffers of the job on the device that are not back yet.
NotBack(d) ==
  /\ run.pc \notin {"get", "program"}
  /\ \A h \in Handlers : fin[h].pc \notin {"finish"} \cup
                            (IF d = "out" THEN {"dstdone"} ELSE {})

Job == [c \in Ctx |-> [d \in Dirs |->
  IF curr # c \/ ~NotBack(d) THEN None
  ELSE IF d = "out" THEN regs.src ELSE regs.dst]]

Slot == INSTANCE JobSlot WITH Client <- Ctx, pend <- Pending, job <- Job

\* Buffers come back paired, in order, and only a stop drops any.
ServiceSafety == Service!Spec

\* A job is what EncFormat takes it for: nothing it works on is stopped,
\* emptied or given to another job before both its buffers are back.
SlotSafety == Slot!Spec

\* Under the fairness of FairSpec every service step that stays possible is
\* taken: a pair comes back whole, and a stop ends.
ServiceLiveness == Service!Fairness

\* No client is starved by another: a pair that can come back does, or its
\* user stops a queue, however many jobs the others queue meanwhile.
NoStarvation == \A c \in Ctx : Service!FairFrame(c)
=============================================================================
