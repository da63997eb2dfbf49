---------------------------- MODULE VpuNodeProofs ---------------------------
(***************************************************************************)
(* The properties of VpuNode, for any number of files. The argument is one *)
(* invariant about the place probe, its error path or remove has come to:  *)
(* probe holds exactly what the steps before pos have taken; on the way    *)
(* down everything before pos in the list has been let go and everything   *)
(* from pos on is still there, whichever label the list was entered at.    *)
(***************************************************************************)
EXTENDS VpuNode, TLAPS

Vfds == {Vfd[n] : n \in Nodes}

\* Probe holds what its steps have taken, and every open file is of a node
\* that is registered.
ProbeInv ==
  path = "probe" =>
    /\ \A i \in 1 .. 16 : Probe[i] \in held <=> i < pos
    /\ \A f \in File : file[f].st # "closed" => Reg[file[f].node] \in held

\* Runtime PM apart, which a failure to prepare the clocks leaves enabled.
LetGoInv ==
  path # "probe" =>
    \A i \in 1 .. 10 :
      /\ i < pos /\ LetGo[i] # "pm" => LetGo[i] \notin held
      /\ i >= pos => LetGo[i] \in held \cup Vfds

\* A node that is registered has its structure.
VfdInv == \A n \in Nodes : Reg[n] \in held => Vfd[n] \in held

\* What open has set up at each of its stages.
FileInv ==
  \A f \in File :
    /\ file[f].st = "closed" => own[f] = {}
    /\ file[f].st = "m2m" => own[f] = {"ctx"}
    /\ file[f].st = "ctrls" => own[f] = {"ctx", "m2m", "fh"}

\* The inductive invariant. (No handle of a freed context is on a list.)
IInv == /\ TypeOK /\ ProbeInv /\ LetGoInv /\ VfdInv /\ FileInv
        /\ ReleasedOnce /\ lost \subseteq {"m2m"}

-----------------------------------------------------------------------------
(* The lists.                                                              *)

USE DEF Nodes

\* The steps of the three lists.
LEMMA ListLengths == Len(Probe) = 16 /\ Len(Undo) = 10 /\ Len(Remove) = 10
BY DEF Probe, Undo, Remove

\* probe takes nothing twice.
LEMMA ProbeDistinct ==
  ASSUME NEW i \in 1 .. 16, NEW j \in 1 .. 16, Probe[i] = Probe[j]
  PROVE  i = j
BY DEF Probe

\* Neither list names anything twice, and each names only what probe takes.
LEMMA UndoDistinct ==
  /\ \A i, j \in 1 .. 10 : Undo[i] = Undo[j] => i = j
  /\ \A i \in 1 .. 10 : Undo[i] \in Things
<1>1. \A i, j \in 1 .. 10 : Undo[i] = Undo[j] => i = j
  BY DEF Undo
<1>2. \A i \in 1 .. 10 : \E j \in 1 .. 16 : Undo[i] = Probe[j]
  BY DEF Undo, Probe
<1> QED BY <1>1, <1>2, ListLengths DEF Things, Probe

\* (The same of remove.)
LEMMA RemoveDistinct ==
  /\ \A i, j \in 1 .. 10 : Remove[i] = Remove[j] => i = j
  /\ \A i \in 1 .. 10 : Remove[i] \in Things
<1>1. \A i, j \in 1 .. 10 : Remove[i] = Remove[j] => i = j
  BY DEF Remove
<1>2. \A i \in 1 .. 10 : \E j \in 1 .. 16 : Remove[i] = Probe[j]
  BY DEF Remove, Probe
<1> QED BY <1>1, <1>2, ListLengths DEF Things, Probe

\* What there is to hold.
LEMMA ThingsAre == Things = {Probe[i] : i \in 1 .. 16}
BY ListLengths DEF Things, Probe

\* The list the driver is on has the properties of both.
LEMMA LetGoDistinct ==
  /\ Len(LetGo) = 10
  /\ \A i, j \in 1 .. 10 : LetGo[i] = LetGo[j] => i = j
  /\ \A i \in 1 .. 10 : LetGo[i] \in Things
BY ListLengths, UndoDistinct, RemoveDistinct DEF LetGo

\* The label a failure leads to fits what probe has taken by then: nothing
\* before it in the list has been taken, everything from it on has.
LEMMA GotoFits ==
  ASSUME NEW p \in 1 .. 16, Probe[p] \in DOMAIN Goto
  PROVE  /\ Goto[Probe[p]] \in 1 .. 11
         /\ \A i \in 1 .. 10 :
              /\ i < Goto[Probe[p]] /\ Undo[i] # "pm" =>
                   \A q \in 1 .. 16 : Probe[q] = Undo[i] => q >= p
              /\ i >= Goto[Probe[p]] =>
                   \/ Undo[i] \in Vfds
                   \/ \E q \in 1 .. 16 : Probe[q] = Undo[i] /\ q < p
BY DEF Goto, Probe, Undo, Vfds, Vfd

-----------------------------------------------------------------------------
(* The invariant is inductive.                                             *)

\* Nothing is held before probe.
LEMMA IInvInit == Init => IInv
<1> SUFFICES ASSUME Init PROVE IInv
  OBVIOUS
<1>1. TypeOK
  BY ListLengths DEF Init, TypeOK
<1>2. ProbeInv
  BY ListLengths DEF Init, ProbeInv
<1> QED BY <1>1, <1>2 DEF Init, IInv, LetGoInv, VfdInv, FileInv, ReleasedOnce,
                          Reg, Vfd, Vfds

\* A step that leaves the driver's side alone, and opens no file while probe
\* runs but of a registered node.
LEMMA FileStep ==
  ASSUME IInv, UNCHANGED devVars,
         path = "probe" => \A f \in File : file'[f].st # "closed" =>
                             Reg[file'[f].node] \in held
  PROVE  ProbeInv' /\ LetGoInv' /\ VfdInv' /\ ReleasedOnce'
BY DEF IInv, devVars, ProbeInv, LetGoInv, VfdInv, ReleasedOnce, LetGo

\* Only a node that is registered nowhere is freed with its last file.
LEMMA CloseStep ==
  ASSUME IInv, NEW f \in File, file[f].st # "closed", Closed(f),
         UNCHANGED <<path, pos>>, Enter(f, "closed", {})
  PROVE  /\ held' \subseteq Things /\ twice' \subseteq Things
         /\ file' \in [File -> [st : {"closed", "m2m", "ctrls", "open", "dead"},
                                node : Nodes]]
         /\ own' \in [File -> SUBSET {"ctx", "m2m", "fh", "handler", "table"}]
         /\ ProbeInv' /\ LetGoInv' /\ VfdInv' /\ FileInv' /\ ReleasedOnce'
<1>1. PICK freed \in SUBSET {Vfd[file[f].node]} :
        /\ freed # {} => Reg[file[f].node] \notin held
        /\ held' = held \ freed
        /\ twice' = twice \cup (freed \ held)
  BY DEF Closed
<1>2. file[f].node \in Nodes /\ \A n \in Nodes : Vfd[n] \in Things \cap Vfds
  BY ThingsAre DEF IInv, TypeOK, Probe, Vfd, Vfds
<1>3. held' \subseteq Things /\ twice' \subseteq Things
  BY <1>1, <1>2 DEF IInv, TypeOK
<1>4. /\ file' \in [File -> [st : {"closed", "m2m", "ctrls", "open", "dead"},
                             node : Nodes]]
      /\ own' \in [File -> SUBSET {"ctx", "m2m", "fh", "handler", "table"}]
      /\ \A g \in File \ {f} : file'[g] = file[g] /\ own'[g] = own[g]
      /\ file'[f].st = "closed" /\ own'[f] = {}
  BY DEF IInv, TypeOK, Enter
<1>5. ProbeInv'
  BY <1>1, <1>4 DEF IInv, ProbeInv
<1>6. LetGoInv'
  BY <1>1, <1>2 DEF IInv, LetGoInv, LetGo
<1>7. VfdInv'
  BY <1>1, <1>2 DEF IInv, VfdInv, Vfd, Reg
<1>8. FileInv'
  BY <1>4 DEF IInv, FileInv
<1>9. ReleasedOnce'
  BY <1>1, <1>2 DEF IInv, ReleasedOnce, Vfds
<1> QED BY <1>3, <1>4, <1>5, <1>6, <1>7, <1>8, <1>9

\* A step of probe takes one thing more.
LEMMA IInvProbeStep == IInv /\ ProbeStep => IInv'
<1> SUFFICES ASSUME IInv, ProbeStep PROVE IInv'
  OBVIOUS
<1>1. /\ path = "probe" /\ path' = path /\ pos \in 1 .. 16 /\ pos' = pos + 1
      /\ held' = held \cup {Probe[pos]} /\ Probe[pos] \in Things
      /\ UNCHANGED <<twice, fileVars>>
  BY ListLengths, ThingsAre DEF IInv, TypeOK, ProbeStep
<1>2. TypeOK'
  BY <1>1, ListLengths DEF IInv, TypeOK, fileVars
<1>3. ProbeInv'
  BY <1>1, ProbeDistinct DEF IInv, ProbeInv, fileVars
<1>4. VfdInv'
  <2>1. Vfd["enc"] = Probe[8] /\ Reg["enc"] = Probe[9]
        /\ Vfd["dec"] = Probe[12] /\ Reg["dec"] = Probe[13]
    BY DEF Vfd, Reg, Probe
  <2> QED BY <1>1, <1>3, <2>1 DEF VfdInv, ProbeInv
<1> QED BY <1>1, <1>2, <1>3, <1>4
        DEF IInv, LetGoInv, FileInv, ReleasedOnce, fileVars

\* Wherever probe fails, the list is entered where it belongs.
LEMMA IInvProbeFail == IInv /\ ProbeFail => IInv'
<1> SUFFICES ASSUME IInv, ProbeFail PROVE IInv'
  OBVIOUS
<1>1. /\ path = "probe" /\ path' = "undo" /\ pos \in 1 .. 16
      /\ Probe[pos] \in DOMAIN Goto /\ pos' = Goto[Probe[pos]]
      /\ UNCHANGED <<held, twice, fileVars>>
  BY ListLengths DEF IInv, TypeOK, ProbeFail, FailTo
<1>2. LetGo' = Undo
  BY <1>1 DEF LetGo
<1>3. TypeOK'
  BY <1>1, <1>2, GotoFits, ListLengths DEF IInv, TypeOK, fileVars
<1>4. LetGoInv'
  <2> SUFFICES ASSUME NEW i \in 1 .. 10
               PROVE  /\ i < pos' /\ Undo[i] # "pm" => Undo[i] \notin held
                      /\ i >= pos' => Undo[i] \in held \cup Vfds
    BY <1>1, <1>2 DEF LetGoInv
  <2>1. \A q \in 1 .. 16 : Probe[q] \in held <=> q < pos
    BY <1>1 DEF IInv, ProbeInv
  <2>2. PICK q \in 1 .. 16 : Probe[q] = Undo[i]
    BY UndoDistinct, ThingsAre
  <2> QED BY <1>1, <2>1, <2>2, GotoFits
<1> QED BY <1>1, <1>3, <1>4
        DEF IInv, ProbeInv, VfdInv, FileInv, ReleasedOnce, fileVars

\* remove starts with everything held.
LEMMA IInvRemoveStart == IInv /\ RemoveStart => IInv'
<1> SUFFICES ASSUME IInv, RemoveStart PROVE IInv'
  OBVIOUS
<1>1. /\ path = "probe" /\ path' = "remove" /\ pos = 17 /\ pos' = 1
      /\ UNCHANGED <<held, twice, fileVars>>
  BY ListLengths DEF IInv, TypeOK, RemoveStart, Bound
<1>2. LetGo' = Remove
  BY <1>1 DEF LetGo
<1>3. TypeOK'
  BY <1>1, <1>2, ListLengths DEF IInv, TypeOK, fileVars
<1>4. LetGoInv'
  <2>1. Things \subseteq held
    BY <1>1, ThingsAre DEF IInv, ProbeInv
  <2> QED BY <1>1, <1>2, <2>1, RemoveDistinct DEF LetGoInv
<1> QED BY <1>1, <1>3, <1>4
        DEF IInv, ProbeInv, VfdInv, FileInv, ReleasedOnce, fileVars

\* A node is let go before its structure, on both lists.
LEMMA RegFirst ==
  \A i \in 1 .. 10, n \in Nodes :
    /\ LetGo[i] = Vfd[n] => \E j \in 1 .. 10 : j < i /\ LetGo[j] = Reg[n]
    /\ Reg[n] # "pm"
BY DEF LetGo, Undo, Remove, Vfd, Reg

\* A step of either list lets go of one thing, and perhaps of its node's
\* structure.
LEMMA IInvLetGoStep == IInv /\ LetGoStep => IInv'
<1> SUFFICES ASSUME IInv, LetGoStep PROVE IInv'
  OBVIOUS
<1>0. LetGo' = LetGo
  BY DEF LetGoStep, LetGo
<1>1. /\ path # "probe" /\ path' = path /\ pos \in 1 .. 10 /\ pos' = pos + 1
      /\ held' = held \ Freed(LetGo[pos])
      /\ twice' = twice \cup ({LetGo[pos]} \ held)
      /\ LetGo' = LetGo
      /\ UNCHANGED fileVars
  BY <1>0, LetGoDistinct DEF IInv, TypeOK, LetGoStep
<1>2. /\ LetGo[pos] \in Freed(LetGo[pos])
      /\ Freed(LetGo[pos]) \subseteq {LetGo[pos]} \cup Vfds
  BY DEF Freed, Vfds
<1>3. TypeOK'
  BY <1>1, LetGoDistinct DEF IInv, TypeOK, fileVars
<1>4. LetGoInv'
  BY <1>1, <1>2, LetGoDistinct DEF IInv, LetGoInv
<1>5. VfdInv'
  <2> SUFFICES ASSUME NEW n \in Nodes, Reg[n] \in held'
               PROVE  Vfd[n] \in held'
    BY DEF VfdInv
  <2>1. Vfd[n] \in held /\ Reg[n] \notin Freed(LetGo[pos])
    BY <1>1 DEF IInv, VfdInv
  <2>2. LetGo[pos] # Vfd[n]
    <3> SUFFICES ASSUME LetGo[pos] = Vfd[n] PROVE FALSE
      OBVIOUS
    <3>1. PICK j \in 1 .. 10 : j < pos /\ LetGo[j] = Reg[n] /\ Reg[n] # "pm"
      BY <1>1, RegFirst
    <3> QED BY <1>1, <3>1 DEF IInv, LetGoInv
  <2>3. LetGo[pos] # Reg[n]
    BY <1>2, <2>1
  <2>4. Vfd[n] \notin Freed(LetGo[pos])
    BY <2>2, <2>3 DEF Freed, Vfd
  <2> QED BY <1>1, <2>1, <2>4
<1>6. ReleasedOnce'
  BY <1>1 DEF IInv, LetGoInv, ReleasedOnce, Vfds
<1> QED BY <1>1, <1>3, <1>4, <1>5, <1>6 DEF IInv, ProbeInv, FileInv, fileVars

\* open leaves the driver alone, but for the node an unregistration left to
\* its last file.
LEMMA IInvOpen ==
  ASSUME NEW f \in File, IInv, Open(f)
  PROVE  IInv'
<1>1. ASSUME NEW n \in Nodes, OpenStart(f, n) PROVE IInv'
  <2>1. /\ UNCHANGED devVars /\ Reg[n] \in held
        /\ file'[f].node = n
        /\ \A g \in File \ {f} : file'[g] = file[g]
    BY <1>1 DEF OpenStart, IInv, TypeOK
  <2>2. TypeOK'
    BY <1>1 DEF OpenStart, IInv, TypeOK, devVars, LetGo
  <2>3. ProbeInv' /\ LetGoInv' /\ VfdInv' /\ ReleasedOnce'
    BY <2>1, FileStep DEF IInv, ProbeInv
  <2>4. FileInv'
    BY <1>1 DEF OpenStart, IInv, TypeOK, FileInv
  <2> QED BY <1>1, <2>2, <2>3, <2>4 DEF IInv, OpenStart
<1>2. ASSUME OpenM2mFail(f) PROVE IInv'
  <2>1. lost' \subseteq {"m2m"}
    BY <1>2 DEF OpenM2mFail, Close, IInv, FileInv
  <2> QED
    BY <1>2, <2>1, CloseStep DEF OpenM2mFail, Close, IInv, TypeOK, LetGo
<1>3. ASSUME OpenM2m(f) PROVE IInv'
  <2>1. TypeOK'
    BY <1>3 DEF OpenM2m, Enter, IInv, TypeOK, devVars, LetGo
  <2>2. ProbeInv' /\ LetGoInv' /\ VfdInv' /\ ReleasedOnce'
    BY <1>3, FileStep DEF OpenM2m, Enter, IInv, TypeOK, ProbeInv
  <2>3. FileInv'
    BY <1>3 DEF OpenM2m, Enter, IInv, TypeOK, FileInv
  <2> QED BY <1>3, <2>1, <2>2, <2>3 DEF IInv, OpenM2m
<1>4. ASSUME OpenCtrlsFail(f) PROVE IInv'
  <2>1. lost' \subseteq {"m2m"}
    BY <1>4 DEF OpenCtrlsFail, Close, IInv, FileInv
  <2> QED
    BY <1>4, <2>1, CloseStep DEF OpenCtrlsFail, Close, IInv, TypeOK, LetGo
<1>5. ASSUME OpenDone(f) PROVE IInv'
  <2>1. TypeOK'
    BY <1>5 DEF OpenDone, Enter, IInv, TypeOK, devVars, LetGo
  <2>2. ProbeInv' /\ LetGoInv' /\ VfdInv' /\ ReleasedOnce'
    BY <1>5, FileStep DEF OpenDone, Enter, IInv, TypeOK, ProbeInv
  <2>3. FileInv'
    BY <1>5 DEF OpenDone, Enter, IInv, TypeOK, FileInv
  <2> QED BY <1>5, <2>1, <2>2, <2>3 DEF IInv, OpenDone
<1> QED BY <1>1, <1>2, <1>3, <1>4, <1>5 DEF Open

\* So does release.
LEMMA IInvRelease ==
  ASSUME NEW f \in File, IInv, Release(f)
  PROVE  IInv'
<1>1. lost' \subseteq {"m2m"}
  BY DEF Release, Close, IInv, TypeOK
<1> QED BY <1>1, CloseStep DEF Release, Close, IInv, TypeOK, LetGo

\* And a thread that is lost.
LEMMA IInvDie ==
  ASSUME NEW f \in File, IInv, Die(f)
  PROVE  IInv'
<1>1. TypeOK'
  BY DEF Die, Enter, IInv, TypeOK, devVars, LetGo
<1>2. ProbeInv' /\ LetGoInv' /\ VfdInv' /\ ReleasedOnce'
  BY FileStep DEF Die, Enter, IInv, TypeOK, ProbeInv
<1>3. FileInv'
  BY DEF Die, Enter, IInv, TypeOK, FileInv
<1> QED BY <1>1, <1>2, <1>3 DEF IInv, Die

\* Stuttering, and all steps together.
LEMMA IInvStutter == IInv /\ UNCHANGED vars => IInv'
BY DEF IInv, TypeOK, ProbeInv, LetGoInv, VfdInv, FileInv, ReleasedOnce, LetGo,
       vars, devVars, fileVars

\* Every step preserves the invariant.
LEMMA IInvNext == IInv /\ [Next]_vars => IInv'
BY IInvProbeStep, IInvProbeFail, IInvRemoveStart, IInvLetGoStep, IInvOpen,
   IInvRelease, IInvDie, IInvStutter DEF Next

\* Wherever probe or remove has come to, and whatever files are opened beside
\* it, the invariant holds.
THEOREM NodeInductive == Spec => []IInv
<1> QED BY IInvInit, IInvNext, PTL DEF Spec

-----------------------------------------------------------------------------
(* What follows.                                                           *)

\* Every variable has its type, and no failure leads outside the error path
\* of rockchip_vpu_probe.
THEOREM NodeTypeCorrect == Spec => []TypeOK
<1>1. IInv => TypeOK
  BY DEF IInv
<1> QED BY <1>1, NodeInductive, PTL

\* A probe that failed, at whichever step, has let go of everything its error
\* path is there for, with any number of files opened on the way.
THEOREM UndoneCorrect == Spec => []ProbeUndone
<1>1. IInv => ProbeUndone
  <2> SUFFICES ASSUME IInv, Gone, path = "undo"
               PROVE  held \cap {"devm", "clk", "v4l2", "m2m_enc", "m2m_dec",
                            "vfd_enc", "reg_enc", "vfd_dec", "reg_dec"} = {}
    BY DEF ProbeUndone
  <2>1. LetGo = Undo
    BY DEF LetGo
  <2>2. pos = 11
    BY <2>1, ListLengths DEF IInv, TypeOK, Gone
  <2>3. \A i \in 1 .. 10 : Undo[i] # "pm" => Undo[i] \notin held
    BY <2>1, <2>2 DEF IInv, LetGoInv
  <2> QED BY <2>3 DEF Undo
<1> QED BY <1>1, NodeInductive, PTL

\* Through probe and every failure of it, a node that can be opened has what
\* rockchip_vpu_open works with.
THEOREM BackedCorrect == Spec => []NodeBacked
<1>1. IInv => NodeBacked
  <2> SUFFICES ASSUME IInv, path # "remove", NEW n \in Nodes, Reg[n] \in held
               PROVE  {"devm", "pm", "clk", "v4l2", M2m[n], Vfd[n]}
                        \subseteq held
    BY DEF NodeBacked
  <2>1. CASE path = "probe"
    BY <2>1 DEF IInv, TypeOK, ProbeInv, Probe, Reg, M2m, Vfd
  <2>2. CASE path = "undo"
    BY <2>2 DEF IInv, TypeOK, LetGoInv, VfdInv, LetGo, Undo, Reg, M2m, Vfd,
                Vfds
  <2> QED BY <2>1, <2>2 DEF IInv, TypeOK
<1> QED BY <1>1, NodeInductive, PTL

\* Neither the error path nor rockchip_vpu_remove releases what is not there,
\* the two video_device structures excepted.
THEOREM OnceCorrect == Spec => []ReleasedOnce
<1>1. IInv => ReleasedOnce
  BY DEF IInv
<1> QED BY <1>1, NodeInductive, PTL

\* While the driver is bound no file meets a structure that is missing, nor
\* one that a failed open or a close of another has freed, unless it has no
\* control.
THEOREM BoundCorrect == Spec => BoundFilesLive
<1>1. ASSUME IInv, [Next]_vars, Bound, NEW f \in File, file'[f].st = "dead",
             file[f].st # "dead"
      PROVE  file[f].st = "open" /\ "table" \notin own[f]
  <2>1. Things \subseteq held
    BY <1>1, ThingsAre, ListLengths DEF IInv, TypeOK, ProbeInv, Bound
  <2>2. /\ Device \subseteq Things /\ "devm" \in Things
        /\ \A n \in Nodes : Set[n] \in Things /\ Vfd[n] \in Things
    BY ThingsAre DEF Device, Set, Vfd, Probe
  <2>3. PICK g \in File : Open(g) \/ Release(g) \/ Die(g)
    BY <1>1, ListLengths DEF Next, ProbeStep, ProbeFail, FailTo, RemoveStart,
         LetGoStep, Bound, vars, fileVars
  <2>4. Die(g)
    BY <1>1, <2>1, <2>2, <2>3 DEF IInv, TypeOK, Open, OpenStart, OpenM2mFail,
         OpenM2m, OpenCtrlsFail, OpenDone, Release, Close, Enter
  <2>5. file[g].node \in Nodes
    BY <1>1 DEF IInv, TypeOK
  <2>6. List(g) \subseteq held /\ Device \subseteq held
    BY <2>1, <2>2, <2>5 DEF List
  <2>7. "fh" \notin lost
    BY <1>1 DEF IInv, FileInv
  <2> QED BY <1>1, <2>4, <2>6, <2>7 DEF Die, Device, Enter, IInv, TypeOK
<1>2. IInv /\ [Next]_vars =>
        (Bound => \A f \in File :
           file'[f].st = "dead" =>
             \/ file[f].st = "dead"
             \/ file[f].st = "open" /\ "table" \notin own[f])
  BY <1>1
<1> QED BY <1>2, NodeInductive, PTL DEF Spec, BoundFilesLive
=============================================================================
