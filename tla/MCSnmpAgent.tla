---------------------------- MODULE MCSnmpAgent -----------------------------
(***************************************************************************)
(* Small instances of SnmpAgent for TLC.                                   *)
(***************************************************************************)
EXTENDS SnmpAgent, TLC

\* OIDs that do not exist until a PUT creates them: 1.3.6.1.5.1, one no reply
\* can carry, and 9.1, which makes GetNext panic.
NewOid == <<5, 1>>
Foreign == <<8, 1>>
NoOid == <<9, 1>>
MCFresh == {NewOid, Foreign, NoOid}
MCUnencodable == {Foreign}
MCRefused == {NoOid}

\* A phase without voltage: the load's current saturates, and its mirror wraps.
Dead == (Voltage(1) :> 0 @@ Foreign :> 70000 @@ NoOid :> 1)
Bad == (Power :> 1 @@ Malformed :> 5)
MCBatches == {Dead, Bad}

\* Drives a Raritan OID directly.
Create == (NewOid :> 70000 @@ PoleVoltage(1) :> 7)
CreateOnly == {Create}

\* Both read a current that changes under them; after Dead the first cannot be
\* encoded, and the second, which asks for what follows an OID between the two,
\* panics at its second binding.
Walk == [kind |-> "v2c", next |-> TRUE, oids |-> <<Power, PoleVoltage(1)>>]
Past == [kind |-> "v3", next |-> TRUE, oids |-> <<Power, <<8, 5>>>>]
Hello == [kind |-> "discovery", next |-> FALSE, oids |-> <<>>]

MCRequests == {Walk, Past, Hello}
=============================================================================
