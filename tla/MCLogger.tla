------------------------------ MODULE MCLogger ------------------------------
(***************************************************************************)
(* Logger for TLC.                                                         *)
(***************************************************************************)
EXTENDS Logger

\* Enough for each to hand over a buffer, and for the worker to find its other
\* buffer, or the place in the queue, still taken.
Lines == [t \in Thread |-> IF t = Main THEN 2 ELSE 3]
=============================================================================
