------------------------------ MODULE JobSlot -------------------------------
(***************************************************************************)
(* What a job of the encoder node is to the files it works for: it takes   *)
(* the oldest buffer of each of one file's queues, which stay queued until *)
(* they come back, one device serves all files, and no queue of the file   *)
(* is stopped or emptied meanwhile. VpuJob models how a job ends and       *)
(* EncFormat what it reads and writes; each implements this module, which  *)
(* is all that EncFormat assumes of the job's end.                         *)
(***************************************************************************)
EXTENDS SequencesExt

CONSTANTS
  Client,  \* open files
  Buf,
  Dirs,    \* the two queues of a file
  None

VARIABLES
  pend,       \* per client and queue: buffers queued, not yet back, in order
  streaming,  \* per client: the queues that are streaming
  job         \* per client and queue: the buffer of its job, or None

vars == <<pend, streaming, job>>

NoJob == [d \in Dirs |-> None]

Init == /\ pend      = [k \in Client |-> [d \in Dirs |-> <<>>]]
        /\ streaming = [k \in Client |-> {}]
        /\ job       = [k \in Client |-> NoJob]

Give(k, d, b) ==
  /\ b \notin ToSet(pend[k][d])
  /\ pend' = [pend EXCEPT ![k][d] = Append(@, b)]
  /\ UNCHANGED <<streaming, job>>

Start(k, d) ==
  /\ d \notin streaming[k]
  /\ streaming' = [streaming EXCEPT ![k] = @ \cup {d}]
  /\ UNCHANGED <<pend, job>>

\* The device, if it is free, takes a pair of buffers.
Load(k) ==
  /\ \A j \in Client : job[j] = NoJob
  /\ streaming[k] = Dirs
  /\ \A d \in Dirs : pend[k][d] # <<>>
  /\ job' = [job EXCEPT ![k] = [d \in Dirs |-> Head(pend[k][d])]]
  /\ UNCHANGED <<pend, streaming>>

\* Buffers of the job come back, at once or one after the other.
Return(k, D) ==
  /\ D # {}
  /\ \A d \in D : job[k][d] # None
  /\ job'  = [job  EXCEPT ![k] = [d \in Dirs |-> IF d \in D THEN None
                                                 ELSE job[k][d]]]
  /\ pend' = [pend EXCEPT ![k] = [d \in Dirs |-> IF d \in D
                                                 THEN Tail(pend[k][d])
                                                 ELSE pend[k][d]]]
  /\ UNCHANGED streaming

\* Between jobs, queues are stopped and emptied.
Stop(k, D) ==
  /\ job[k] = NoJob
  /\ pend' = [pend EXCEPT ![k] = [d \in Dirs |-> IF d \in D THEN <<>>
                                                 ELSE pend[k][d]]]
  /\ streaming' = [streaming EXCEPT ![k] = @ \ D]
  /\ UNCHANGED job

Next == \E k \in Client :
  \/ \E d \in Dirs : Start(k, d)
  \/ \E d \in Dirs, b \in Buf : Give(k, d, b)
  \/ Load(k)
  \/ \E D \in SUBSET Dirs : Return(k, D) \/ Stop(k, D)

Spec == Init /\ [][Next]_vars
=============================================================================
