------------------------ MODULE EncFormatRefinement ------------------------
(***************************************************************************)
(* EncFormat, one open file, implements JobSlot.                           *)
(***************************************************************************)
EXTENDS EncFormat

File == "file"

Streams == {d \in Dirs : streaming[d]}

OnFile(x) == [k \in {File} |-> x]

Slot == INSTANCE JobSlot
          WITH Client <- {File}, pend <- OnFile(queue),
               streaming <- OnFile(Streams),
               job <- OnFile([d \in Dirs |-> run[d]])

\* Whatever user space does, the queues and the job move as they do in
\* VpuJob: no ioctl takes a job's buffer, or stops or empties its queues,
\* before the job is over.
SlotSafety == Slot!Spec
=============================================================================
