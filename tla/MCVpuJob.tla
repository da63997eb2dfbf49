------------------------------ MODULE MCVpuJob ------------------------------
(***************************************************************************)
(* VpuJob for TLC: the runs without liveness take the contexts and the     *)
(* buffers as symmetric model values where a property of theirs allows it. *)
(***************************************************************************)
EXTENDS VpuJobRefinement, TLC

Symmetry == Permutations(Ctx) \cup Permutations(Buf)

\* Bound of the run in which the watchdog races: TLC does not look past a
\* state in which the race has already left the encoder, device_run or a
\* handler working for no job, or the usage count wrong.
RaceBound == /\ hw.st # "idle" => curr # None
             /\ run.pc # "idle" => curr = run.ctx
             /\ \A h \in Handlers : fin[h].ctx # None => curr = fin[h].ctx
             /\ usage \in 0 .. 2
=============================================================================
