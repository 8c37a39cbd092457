------------------------------- MODULE MCSite -------------------------------
(***************************************************************************)
(* A small instance of Site for TLC: words of base 4, a rack of 1 W and 10 *)
(* watt-ticks near its lower taper, and a node of one GPU.                *)
(***************************************************************************)
EXTENDS Site

\* One watt to discharge.
MCSetpoints == {[w \in {50, 51} |-> IF w = 50 THEN 0 ELSE 1]}
=============================================================================
