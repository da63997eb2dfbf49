---------------------------- MODULE MCEncFormat -----------------------------
(***************************************************************************)
(* Values for the constants of EncFormat.                                  *)
(***************************************************************************)
EXTENDS EncFormatRefinement, TLC

\* Below the limits, between multiples of 16, at an odd product of
\* macroblocks (where the RK3399 rounds the height), at and above the limits.
AllWidths  == {0, 97, 112, 1000, 8192, 10000}
AllHeights == {0, 40, 48, 1000, 8190, 10000}

\* With buffers: two sizes and two layouts of frame.
FewFourccs == {"YUV420M", "YUYV", "JPEG"}
FewWidths  == {100}
FewHeights == {40, 400}

\* The largest size, which ENUM_FRAMESIZES advertises.
MaxWidths  == {8192}
MaxHeights == {32, 8192}

\* One buffer of three planes, for the small frame only, and one that holds
\* the large frame in one plane.
MCSizes == {<<7200, 1800, 1800>>, <<90000>>}
NoSizes == {}

BufSymmetry == Permutations(Buf)
=============================================================================
