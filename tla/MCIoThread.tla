----------------------------- MODULE MCIoThread -----------------------------
(***************************************************************************)
(* IoThread for TLC.                                                       *)
(***************************************************************************)
EXTENDS IoThread

\* One node with six CPUs, one with a gap, two nodes that take turns, and a
\* machine that is too small.
Machines ==
  {<<0, 1, 2, 3, 4, 5>>, <<0, 2, 5, 7, 8, 11>>, <<0, 2, 4, 1, 3, 5>>, <<0, 1, 2, 3>>}
=============================================================================
