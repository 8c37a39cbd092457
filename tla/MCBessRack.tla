----------------------------- MODULE MCBessRack -----------------------------
(***************************************************************************)
(* Small instances of BessRack for TLC: words of base 8, so that an int32 *)
(* holds -32..31, a rack of 5 W and 50 watt-ticks, and a SoC register  *)
(* whose step is 10 watt-ticks.                                            *)
(***************************************************************************)
EXTENDS BessRack

Pair(a, x) == [w \in {a, a + 1} |->
                LET raw == x % (Word * Word)
                IN  IF w = a THEN raw \div Word ELSE raw % Word]

\* Setpoints within, below and above what the rack can do.
Setpoints == {Pair(SETPOINT, x) : x \in {-20, 2, 20}}

\* Driving the charge, also beyond 100 %, and one word of a measurement.
Drives == {[a \in {SOC} |-> 2], [a \in {SOC} |-> 7],
           [a \in {ACTIVE_POWER + 1} |-> 7]}
HalfSetpoint == {<<SETPOINT + 1, 3>>}
=============================================================================
