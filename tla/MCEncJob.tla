------------------------------ MODULE MCEncJob ------------------------------
(***************************************************************************)
(* Values for the constants of EncJob.                                     *)
(***************************************************************************)
EXTENDS EncJob

\* One raw format and the coded one: either can be set on either queue.
JobFourccs == {"YUV420M", "JPEG"}
JobWidths  == {100}
JobHeights == {40, 400}

\* One buffer for the small frame.
JobSizes == {<<7200, 1800, 1800>>}
=============================================================================
