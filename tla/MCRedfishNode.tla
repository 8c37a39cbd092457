---------------------------- MODULE MCRedfishNode ---------------------------
(***************************************************************************)
(* A small instance of RedfishNode for TLC, with power in quarters of a    *)
(* watt: set points at both ends of the range, just outside it and a       *)
(* quarter below the demand, whose clock rounds to the full one; and a     *)
(* body without a set point.  The cap at boot is above the demand.         *)
(***************************************************************************)
EXTENDS RedfishNode

MCSetPoints == {11, 12, 39, 40, 41, None}
=============================================================================
