----------------------------- MODULE MCPoiMeter -----------------------------
(***************************************************************************)
(* Small instances of PoiMeter for TLC: two racks and three states of a    *)
(* site whose net is an import at every instant, as the gateway keeps it.  *)
(***************************************************************************)
EXTENDS PoiMeter

CONSTANTS r1, r2

Site(a, b, w) == [rack |-> [r \in Racks |-> IF r = r1 THEN a ELSE b], node |-> w]

\* P_poi is 3, 1 and 9 with a fixed load of 5 and two nodes.
MCSites == {Site(6, 6, 5), Site(4, 4, 2), Site(-2, 6, 4)}

MCBatches == {[a \in {POWER + 1} |-> 7], [a \in {POWER, POWER + 1} |-> 1],
              [a \in {KWH + 1} |-> 0]}
=============================================================================
