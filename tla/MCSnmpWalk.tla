----------------------------- MODULE MCSnmpWalk -----------------------------
(***************************************************************************)
(* A small instance of SnmpWalk for TLC: the PDU2-MIB of one phase, with   *)
(* OIDs that PUTs create before, within, at the end of and after it, the   *)
(* last of which no reply can carry.                                       *)
(***************************************************************************)
EXTENDS SnmpWalk, TLC

Pdu2 == <<4, 13742>>
Before == <<4, 1718, 9>>
Within == <<4, 13742, 4, 1, 2>>
End == <<4, 13742, 9>>
After == <<5, 1>>
NoOid == <<9, 1>>
MCFresh == {Before, Within, End, After, NoOid}
MCRefused == {NoOid}

\* The second drives the measurements that the walk reads, beyond 32 bits.
MCBatches == {Before :> 1 @@ Within :> 2 @@ NoOid :> 7, Voltage(1) :> 2300 @@ Power :> 70000,
              End :> 3 @@ After :> 4, Malformed :> 5 @@ Within :> 6}
=============================================================================
