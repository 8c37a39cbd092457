--------------------------- MODULE MCBacnetDevice ---------------------------
(***************************************************************************)
(* A small instance of BacnetDevice for TLC: one ramp of three values      *)
(* whose maximum is not on it.                                             *)
(***************************************************************************)
EXTENDS BacnetDevice

MCMin == [i \in Inputs |-> 70]
MCMax == [i \in Inputs |-> 83]
MCStep == [i \in Inputs |-> 5]
=============================================================================
