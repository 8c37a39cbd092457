------------------------------ MODULE MCSnmpV3 ------------------------------
(***************************************************************************)
(* Small instances of SnmpV3 for TLC.                                      *)
(***************************************************************************)
EXTENDS SnmpV3

CONSTANTS gateway, stranger

\* A stranger's datagrams: a clear GetNext for a registered name, as it is,
\* with the priv flag, and claiming a signature it lacks: that one is dropped.
Clear == [to |-> "agent", from |-> stranger, id |-> 0, engine |-> OurEngine,
          boots |-> 1, time |-> 0, user |-> gateway, auth |-> FALSE,
          priv |-> FALSE, signer |-> None, seal |-> None, op |-> "getnext"]

MCStrays == {Clear, [Clear EXCEPT !.priv = TRUE], [Clear EXCEPT !.auth = TRUE]}
=============================================================================
