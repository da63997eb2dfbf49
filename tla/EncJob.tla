------------------------------- MODULE EncJob -------------------------------
(***************************************************************************)
(* What jobs take from and leave in an open file besides its formats:      *)
(* EncFormat with the quantization tables and the sequence numbers. The    *)
(* encoder's registers belong to the jobs of all files in turn, so a job   *)
(* finds another file's tables in them. VIDIOC_S_CTRL stores new tables    *)
(* while jpeg_enc_run, which takes no lock, may be reading the old ones.   *)
(***************************************************************************)
EXTENDS EncFormat

CONSTANTS
  NumCoef,     \* coefficients of the two tables (128)
  TableBound,  \* bound: how often S_CTRL is called
  SeqWidth     \* bits of a sequence number (32)

ASSUME CoefAssumption == NumCoef \in Nat \ {0} /\ TableBound \in Nat
ASSUME SeqAssumption  == SeqWidth \in Nat

VARIABLES
  table,   \* the control's value: which S_CTRL each coefficient is from
  coefs,   \* the encoder's registers: the same, or Foreign
  next,    \* the coefficient set_qtable reads next
  since,   \* history: the tables in force when the job started
  seq,     \* ctx->sequence_out and sequence_cap
  apart    \* history: a queue has been stopped while the other streams

tableVars == <<table, coefs, next, since>>
seqVars   == <<seq, apart>>
jobVars   == <<vars, tableVars, seqVars>>

Coefs   == 1 .. NumCoef
Foreign == -1

JobInit ==
  /\ Init
  /\ table = [i \in Coefs |-> 0]
  /\ coefs = [i \in Coefs |-> Foreign]
  /\ next  = 1
  /\ since = 0
  /\ seq   = [d \in Dirs |-> 0]
  /\ apart = FALSE

\* No S_CTRL is halfway.
Whole == table[1] = table[NumCoef]

\* VIDIOC_S_CTRL, one coefficient: the control framework copies the new
\* value over the one find_control_data returns, which no lock protects.
StoreCoef ==
  \E i \in Coefs :
    /\ table[i] = table[NumCoef] /\ table[i] < TableBound
    /\ \A j \in 1 .. i - 1 : table[j] > table[i]
    /\ table' = [table EXCEPT ![i] = @ + 1]
    /\ UNCHANGED <<vars, coefs, next, since, seqVars>>

\* Mutant: a restart of CAPTURE does not reset its number.
JobStreamOnBug(d) ==
  /\ StreamOn(d)
  /\ seq' = [seq EXCEPT !["OUT"] = IF d = "OUT" THEN 0 ELSE @]
  /\ UNCHANGED <<tableVars, apart>>

JobStreamOn(d) ==
  /\ StreamOn(d)
  /\ seq' = [seq EXCEPT ![d] = 0]
  /\ UNCHANGED <<tableVars, apart>>

JobStreamOff(d) ==
  /\ StreamOff(d)
  /\ apart' = (\E e \in Dirs : streaming'[e] /\ (apart \/ streaming[d]))
  /\ UNCHANGED <<tableVars, seq>>

\* The other ioctls: EncFormat's.
Ioctl ==
  /\ \/ \E f \in Fourccs, w \in Widths, h \in Heights :
          SFmtOut(f, w, h) \/ SFmtCap(f, w, h)
     \/ \E d \in Dirs, b \in Buf :
          \/ \E B \in SUBSET Buf : ReqBufs(d, B)
          \/ \E s \in Sizes : CreateBuf(d, b, s)
          \/ PrepareBuf(d, b)
          \/ QBuf(d, b)
  /\ UNCHANGED <<tableVars, seqVars>>

\* jpeg_enc_run up to set_qtable,
JobStart ==
  /\ RunStart
  /\ since' = table[NumCoef]
  /\ UNCHANGED <<table, coefs, next, seqVars>>

\* one coefficient of set_qtable,
SetCoef ==
  /\ run.pc = "started" /\ next <= NumCoef
  /\ coefs' = [coefs EXCEPT ![next] = table[next]]
  /\ next' = next + 1
  /\ UNCHANGED <<vars, table, since, seqVars>>

\* Mutant: the last coefficient is not written.
JobKickBug ==
  /\ next >= NumCoef
  /\ RunKick
  /\ next' = 1
  /\ UNCHANGED <<table, coefs, since, seqVars>>

\* and the rest of it.
JobKick ==
  /\ next > NumCoef
  /\ RunKick
  /\ next' = 1
  /\ UNCHANGED <<table, coefs, since, seqVars>>

\* job_finish numbers the frame and the JPEG.
JobDone ==
  /\ JobEnd
  /\ seq' = [d \in Dirs |-> (seq[d] + 1) % 2 ^ SeqWidth]
  /\ since' = 0
  /\ UNCHANGED <<table, coefs, next, apart>>

\* A job of another file.
OtherJob ==
  /\ run.pc = "idle"
  /\ coefs' = [i \in Coefs |-> Foreign]
  /\ UNCHANGED <<vars, table, next, since, seqVars>>

\* vpu_mutex: no ioctl of this file while S_CTRL is halfway.
JobNext ==
  \/ Whole /\ \/ Ioctl
              \/ \E d \in Dirs : JobStreamOn(d) \/ JobStreamOff(d)
  \/ StoreCoef
  \/ JobStart \/ SetCoef \/ JobKick \/ JobDone
  \/ OtherJob

JobSpec == JobInit /\ [][JobNext]_jobVars

-----------------------------------------------------------------------------
(* Properties.                                                             *)

\* A frame is encoded with tables of its own file, whatever jobs of others
\* have left in the registers; each coefficient is at least as new as the
\* last S_CTRL that had returned when the job started. (It can be newer: an
\* S_CTRL that overlaps with set_qtable may leave a mixture of two tables.)
OwnTables ==
  run.pc = "busy" =>
    \A i \in Coefs : since <= coefs[i] /\ coefs[i] <= table[1]

\* A frame and the JPEG made of it get the same sequence number, restarts
\* included, unless one queue was stopped and started while the other kept
\* streaming: start_streaming resets the number of its own queue only.
SameNumber ==
  (\A d \in Dirs : streaming[d]) /\ ~apart => seq["OUT"] = seq["CAP"]
=============================================================================
