--------------------------- MODULE MC_Positioning ---------------------------
(***************************************************************************)
(* A turn of a few units, with settings and slips of one.                  *)
(***************************************************************************)
EXTENDS Positioning

SmallSlips == -1 .. 1
SmallAngles == {-6, -2, 0, 5}
SmallJogs == {-3, 1}
\* How a move ended is read by no action.
ButResult == <<shaft, cached, status, move>>

SmallErrors == [n \in -Turn .. Turn |-> IF Abs(n) = 5 THEN 1 ELSE 0]
=============================================================================
