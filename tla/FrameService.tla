---------------------------- MODULE FrameService ----------------------------
(***************************************************************************)
(* What the encoder node promises to a client of one file handle: raw      *)
(* frames and JPEG buffers come back in pairs, each in the order given,    *)
(* one raw frame and then its JPEG; nothing else comes back until the user *)
(* stops a queue, which never happens between the two halves of a pair.    *)
(***************************************************************************)
EXTENDS SequencesExt

CONSTANTS Client, Buf

VARIABLES
  pend,       \* per client and queue: buffers given, not yet back, oldest first
  half,       \* per client: a raw frame is back, its JPEG is not
  streaming,  \* per client: the queues that are streaming
  stopping    \* per client: the queues being stopped

vars == <<pend, half, streaming, stopping>>

Dirs == {"out", "cap"}

Init == /\ pend      = [k \in Client |-> [d \in Dirs |-> <<>>]]
        /\ half      = [k \in Client |-> FALSE]
        /\ streaming = [k \in Client |-> {}]
        /\ stopping  = [k \in Client |-> {}]

Give(k, d, b) ==
  /\ stopping[k] = {}
  /\ b \notin ToSet(pend[k][d])
  /\ pend' = [pend EXCEPT ![k][d] = Append(@, b)]
  /\ UNCHANGED <<half, streaming, stopping>>

Start(k, d) ==
  /\ stopping[k] = {}
  /\ d \notin streaming[k]
  /\ streaming' = [streaming EXCEPT ![k] = @ \cup {d}]
  /\ UNCHANGED <<pend, half, stopping>>

\* A pair may come back: its raw frame first.
CanReturn(k) == /\ ~half[k]
                /\ streaming[k] = Dirs
                /\ \A d \in Dirs : pend[k][d] # <<>>

ReturnFrame(k) ==
  /\ CanReturn(k)
  /\ pend' = [pend EXCEPT ![k]["out"] = Tail(@)]
  /\ half' = [half EXCEPT ![k] = TRUE]
  /\ UNCHANGED <<streaming, stopping>>

ReturnJpeg(k) ==
  /\ half[k]
  /\ pend' = [pend EXCEPT ![k]["cap"] = Tail(@)]
  /\ half' = [half EXCEPT ![k] = FALSE]
  /\ UNCHANGED <<streaming, stopping>>

\* Stopping some queues (STREAMOFF one, close both) gives back all of their
\* buffers at once.
BeginStop(k, D) ==
  /\ stopping[k] = {} /\ D # {}
  /\ stopping' = [stopping EXCEPT ![k] = D]
  /\ UNCHANGED <<pend, half, streaming>>

EndStop(k) ==
  /\ stopping[k] # {}
  /\ ~half[k]
  /\ pend' = [pend EXCEPT ![k] =
                [d \in Dirs |-> IF d \in stopping[k] THEN <<>> ELSE @[d]]]
  /\ streaming' = [streaming EXCEPT ![k] = @ \ stopping[k]]
  /\ stopping'  = [stopping  EXCEPT ![k] = {}]
  /\ UNCHANGED half

Next == \E k \in Client :
  \/ \E d \in Dirs : Start(k, d)
  \/ \E d \in Dirs, b \in Buf : Give(k, d, b)
  \/ \E D \in SUBSET Dirs : BeginStop(k, D)
  \/ ReturnFrame(k) \/ ReturnJpeg(k) \/ EndStop(k)

Spec == Init /\ [][Next]_vars

(***************************************************************************)
(* Weak fairness of the three service steps, with ENABLED spelled out so   *)
(* that TLC can evaluate it under a refinement mapping.                    *)
(***************************************************************************)
FairFrame(k) == []<>(~CanReturn(k)) \/ []<><<ReturnFrame(k)>>_vars
FairJpeg(k)  == []<>(~half[k]) \/ []<><<ReturnJpeg(k)>>_vars
FairStop(k)  == []<>(stopping[k] = {} \/ half[k]) \/ []<><<EndStop(k)>>_vars

Fairness == \A k \in Client : FairFrame(k) /\ FairJpeg(k) /\ FairStop(k)
=============================================================================
