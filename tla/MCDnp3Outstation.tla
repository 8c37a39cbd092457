-------------------------- MODULE MCDnp3Outstation --------------------------
(***************************************************************************)
(* Small instances of Dnp3Outstation for TLC: two of the relay's points,   *)
(* one more that a PUT creates, and a buffer shorter than a batch.         *)
(***************************************************************************)
EXTENDS Dnp3Outstation, TLC

MCSeeds == (0 :> 85 @@ 8 :> 79)

MCBatches == {(0 :> 85 @@ 8 :> 70), (0 :> 90 @@ 1 :> 75 @@ 8 :> 79), (1 :> 0)}
=============================================================================
