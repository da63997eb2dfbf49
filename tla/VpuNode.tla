------------------------------ MODULE VpuNode -------------------------------
(***************************************************************************)
(* The life of the device and of the files opened on its nodes             *)
(* (rockchip_vpu_drv.c): probe takes what the driver needs step by step    *)
(* and, when a step fails, jumps into a list of labels that falls through; *)
(* remove lets go in an order of its own. A node can be opened from the    *)
(* moment it is registered until it is unregistered, so open and release   *)
(* run beside all of this.                                                 *)
(***************************************************************************)
EXTENDS Integers, Sequences

CONSTANT File    \* struct file: opens of a node

VARIABLES
  path,    \* "probe", "undo" (its error path) or "remove"
  pos,     \* the next step of that path
  held,    \* what the driver holds: memory, devices, nodes
  twice,   \* what has been released without being held
  file,    \* per file: how far open has come, and on which node
  own,     \* per file: what open has set up for it; "fh": its handle is on
           \* the node's list of handles (vdev->fh_list)
  lost     \* what closed files have left behind

devVars  == <<path, pos, held, twice>>
fileVars == <<file, own, lost>>
vars     == <<devVars, fileVars>>

Nodes == {"enc", "dec"}
Reg   == [enc |-> "reg_enc", dec |-> "reg_dec"]   \* video_register_device
Vfd   == [enc |-> "vfd_enc", dec |-> "vfd_dec"]   \* video_device_alloc
M2m   == [enc |-> "m2m_enc", dec |-> "m2m_dec"]   \* v4l2_m2m_init
Set   == [enc |-> "set_enc", dec |-> "set_dec"]   \* vpu->vfd_*, drvdata

\* probe. "devm" is all that devres releases when the driver is gone: the
\* structure itself, the clocks' handles, the mapping, the interrupts.
Probe == << "devm", "pm", "clk", "v4l2", "m2m_enc", "m2m_dec", "mdev",
            "vfd_enc", "reg_enc", "mc_enc", "set_enc",
            "vfd_dec", "reg_dec", "mc_dec", "set_dec", "media" >>

\* Mutant: the m2m devices go before the nodes, as in remove.
UndoBug == << "reg_dec", "vfd_dec", "m2m_dec", "m2m_enc", "reg_enc",
              "vfd_enc", "v4l2", "clk", "pm", "devm" >>

\* The error path of probe, those of the two registrations included.
Undo == << "reg_dec", "vfd_dec", "reg_enc", "vfd_enc", "m2m_dec", "m2m_enc",
           "v4l2", "clk", "pm", "devm" >>

Remove == << "media", "mc_enc", "m2m_enc", "mdev", "reg_enc", "vfd_enc",
             "v4l2", "clk", "pm", "devm" >>

\* Where in Undo the failure of a step leads. The other steps cannot fail.
\* A failure to prepare the clocks returns at once: only devres follows.
Goto ==
  [devm |-> 11, clk |-> 10, v4l2 |-> 8, m2m_enc |-> 7, m2m_dec |-> 6,
   vfd_enc |-> 5, reg_enc |-> 4, mc_enc |-> 3, vfd_dec |-> 3, reg_dec |-> 2,
   mc_dec |-> 1, media |-> 1]

LetGo == IF path = "remove" THEN Remove ELSE Undo

Bound == path = "probe" /\ pos > Len(Probe)      \* probe has returned 0
Gone  == path # "probe" /\ pos > Len(LetGo)      \* failed, or removed

Init ==
  /\ path  = "probe"
  /\ pos   = 1
  /\ held  = {}
  /\ twice = {}
  /\ file  = [f \in File |-> [st |-> "closed", node |-> "enc"]]
  /\ own   = [f \in File |-> {}]
  /\ lost  = {}

-----------------------------------------------------------------------------
(* The thread in probe or remove.                                          *)

ProbeStep ==
  /\ path = "probe" /\ pos <= Len(Probe)
  /\ held' = held \cup {Probe[pos]}
  /\ pos' = pos + 1
  /\ UNCHANGED <<path, twice, fileVars>>

FailTo(labels) ==
  /\ path = "probe" /\ pos <= Len(Probe)
  /\ Probe[pos] \in DOMAIN labels
  /\ path' = "undo"
  /\ pos' = labels[Probe[pos]]
  /\ UNCHANGED <<held, twice, fileVars>>

\* Mutants: the label of the step before, of a step too late, of none.
ProbeFailBug  == FailTo([Goto EXCEPT !.m2m_dec = 5])
ProbeFailBug2 == FailTo([Goto EXCEPT !.media = 3])
ProbeFailBug3 == FailTo([Goto EXCEPT !.media = 0])

ProbeFail == FailTo(Goto)

\* rmmod, which a file open on a node prevents, or an unbind, which it does
\* not.
RemoveStart ==
  /\ Bound
  /\ path' = "remove"
  /\ pos' = 1
  /\ UNCHANGED <<held, twice, fileVars>>

Refers(n) == \E f \in File : file[f].st # "closed" /\ file[f].node = n

\* A node that is unregistered is freed by its .release when no file refers
\* to it any more.
Freed(r) == {r} \cup {Vfd[n] : n \in {m \in Nodes : Reg[m] = r /\ ~Refers(m)}}

LetGoStep ==
  /\ path # "probe" /\ pos <= Len(LetGo)
  /\ held' = held \ Freed(LetGo[pos])
  /\ twice' = twice \cup ({LetGo[pos]} \ held)
  /\ pos' = pos + 1
  /\ UNCHANGED <<path, fileVars>>

-----------------------------------------------------------------------------
(* Files. A thread that meets a structure that is not there, or not any    *)
(* more, is "dead": what it does then is not of this driver.               *)

Enter(f, st, things) ==
  /\ file' = [file EXCEPT ![f].st = st]
  /\ own'  = [own EXCEPT ![f] = things]

\* The last file of a node that is unregistered frees the node.
Closed(f) ==
  LET freed == {Vfd[n] : n \in {m \in {file[f].node} : Reg[m] \notin held /\
                  ~ \E g \in File \ {f} : /\ file[g].st # "closed"
                                          /\ file[g].node = m}}
  IN /\ held'  = held \ freed
     /\ twice' = twice \cup (freed \ held)

\* open(2) of a registered node: allocates the context, then asks which node
\* it is. The decoder's is refused. (An allocation that fails changes
\* nothing.)
OpenStart(f, n) ==
  /\ file[f].st = "closed"
  /\ Reg[n] \in held
  /\ IF {Set[n], "devm"} \subseteq held
     THEN /\ n = "enc"
          /\ file' = [file EXCEPT ![f] = [st |-> "m2m", node |-> n]]
          /\ own' = [own EXCEPT ![f] = {"ctx"}]
     ELSE /\ file' = [file EXCEPT ![f] = [st |-> "dead", node |-> n]]
          /\ UNCHANGED own
  /\ UNCHANGED <<devVars, lost>>

\* What the m2m context and the list of handles of the file's node live in.
Device == {"devm", "m2m_enc"}
List(f) == {Vfd[file[f].node]}

\* The file goes, with what is freed of what it has set up.
Close(f, freed) ==
  /\ Enter(f, "closed", {}) /\ Closed(f)
  /\ lost' = lost \cup (own[f] \ freed)
  /\ UNCHANGED <<path, pos>>

\* v4l2_m2m_ctx_init; then v4l2_fh_init and v4l2_fh_add.
OpenM2mFail(f) ==
  /\ file[f].st = "m2m"
  /\ Device \subseteq held
  /\ Close(f, {"ctx"})

OpenM2m(f) ==
  /\ file[f].st = "m2m"
  /\ Device \cup List(f) \subseteq held
  /\ Enter(f, "ctrls", own[f] \cup {"m2m", "fh"})
  /\ UNCHANGED <<devVars, lost>>

\* Mutant: the handle stays on the list.
OpenCtrlsFailBug(f) ==
  /\ file[f].st = "ctrls"
  /\ {"devm"} \cup List(f) \subseteq held
  /\ Close(f, {"ctx"})

\* ctrls_setup. If the handler cannot be initialised, err_fh_free takes the
\* handle off the list and frees the context, but not the m2m context. If the
\* control cannot be added, the error code that is returned has been cleared
\* before, and open succeeds.
OpenCtrlsFail(f) ==
  /\ file[f].st = "ctrls"
  /\ {"devm"} \cup List(f) \subseteq held
  /\ Close(f, {"fh", "ctx"})

OpenDone(f) ==
  /\ file[f].st = "ctrls"
  /\ "devm" \in held
  /\ \E ctrls \in {{}, {"handler", "table"}} :
       Enter(f, "open", own[f] \cup ctrls)
  /\ UNCHANGED <<devVars, lost>>

\* close(2): v4l2_m2m_ctx_release needs the m2m device, v4l2_fh_del the list.
Release(f) ==
  /\ file[f].st = "open"
  /\ Device \cup List(f) \subseteq held
  /\ Close(f, {"m2m", "fh", "handler", "table", "ctx"})

\* Any of these, or a job, when the device or the list is not there any more;
\* one that adds or deletes a handle, when the list still has that of a freed
\* context; or a job that needs a quantization table when there is none:
\* find_control_data returns NULL.
Die(f) ==
  /\ \/ /\ file[f].st \in {"m2m", "open"}
        /\ ~(Device \cup List(f) \subseteq held) \/ "fh" \in lost
     \/ /\ file[f].st = "ctrls"
        /\ ~({"devm"} \cup List(f) \subseteq held) \/ "fh" \in lost
     \/ file[f].st = "open" /\ "table" \notin own[f]
  /\ Enter(f, "dead", own[f])
  /\ UNCHANGED <<devVars, lost>>

Open(f) == \/ \E n \in Nodes : OpenStart(f, n)
           \/ OpenM2mFail(f) \/ OpenM2m(f) \/ OpenCtrlsFail(f) \/ OpenDone(f)

Next == \/ ProbeStep \/ ProbeFail \/ RemoveStart \/ LetGoStep
        \/ \E f \in File : Open(f) \/ Release(f) \/ Die(f)

Spec == Init /\ [][Next]_vars

-----------------------------------------------------------------------------
(* Properties.                                                             *)

Things == {Probe[i] : i \in DOMAIN Probe}

\* Every variable has its type, and no label of the error path lies outside
\* it.
TypeOK ==
  /\ path \in {"probe", "undo", "remove"}
  /\ pos \in 1 .. (IF path = "probe" THEN Len(Probe) ELSE Len(LetGo)) + 1
  /\ held \subseteq Things
  /\ twice \subseteq Things
  /\ file \in [File -> [st : {"closed", "m2m", "ctrls", "open", "dead"},
                        node : Nodes]]
  /\ own \in [File -> SUBSET {"ctx", "m2m", "fh", "handler", "table"}]
  /\ lost \subseteq {"ctx", "m2m", "fh", "handler", "table"}

\* What the error path of probe is there for: a probe that failed, at
\* whichever step, has no node, no m2m device, no V4L2 device and no memory
\* left, and the clocks are unprepared. (The media device is never cleaned
\* up, and runtime PM stays enabled if the clocks cannot be prepared.)
ProbeUndone ==
  Gone /\ path = "undo" =>
    held \cap {"devm", "clk", "v4l2", "m2m_enc", "m2m_dec",
               "vfd_enc", "reg_enc", "vfd_dec", "reg_dec"} = {}

\* A node that can be opened has its structure, its m2m device, the V4L2
\* device and the memory open works with; through probe and its error path,
\* at every failure. (Not through remove, which releases the m2m device
\* before the node, and never unregisters the decoder's.)
NodeBacked ==
  path # "remove" =>
    \A n \in Nodes : Reg[n] \in held =>
      {"devm", "pm", "clk", "v4l2", M2m[n], Vfd[n]} \subseteq held

\* Neither the error path, entered at any label, nor remove releases what is
\* not there, the two video_device structures excepted: those are released
\* by video_unregister_device already.
ReleasedOnce == twice \subseteq {Vfd[n] : n \in Nodes}

\* While the driver is bound no thread that opens, uses or closes a file
\* meets a missing structure, nor the handle of a context that another open,
\* failed, or close has freed, unless the file has no control.
BoundFilesLive ==
  [][Bound => \A f \in File :
       file'[f].st = "dead" =>
         \/ file[f].st = "dead"
         \/ file[f].st = "open" /\ "table" \notin own[f]]_vars

\* What open relies on: "reading few fields from dev, which do not change
\* through device's lifetime (which is guaranteed by reference on module from
\* open())". A file finds its node's driver data and device.
FileHasDevice ==
  \A f \in File :
    file[f].st # "closed" => {Set[file[f].node]} \cup Device \subseteq held
=============================================================================
