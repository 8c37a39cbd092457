-------------------------------- MODULE Site --------------------------------
(***************************************************************************)
(* The devices of one site together: a battery rack (BessRack), a GPU node *)
(* (RedfishNode) and the meter that reads both (PoiMeter), each with the   *)
(* code of its own module.  PoiMeter takes the site as an input that moves *)
(* by itself; here it is what the rack gives and the node draws, and a     *)
(* read is a request that the device serves at one instant and whose       *)
(* answer arrives at a later one, or never.                                *)
(*                                                                         *)
(* External are the gateway, which writes the rack's setpoint, the         *)
(* operator, who PATCHes power caps, and the network.  The rack's other    *)
(* registers and the meter's are written by nobody else here: BessRack and *)
(* PoiMeter have the control surfaces.                                     *)
(***************************************************************************)
EXTENDS Integers

CONSTANTS
    Word, Rated, Full, InitialSoc, SocStep,     \* the rack
    rack,                                       \* its name
    Setpoints,                                  \* what the gateway may write
    Gpus, Demand, BootCap, MaxClock, Overhead,  \* the node
    AllowableMin, AllowableMax, SetPoints,
    meter, operator,                            \* its clients
    None,
    FixedLoad, Nodes,                           \* the meter
    Energy,                                     \* its counter, at rest
    MaxWrites, MaxPatches   \* bounds on what the gateway and the operator do

VARIABLES
    r_holding, r_driven, soc, discharged,       \* the rack
    cap, holder, n_pc, req, sum, left, reply, n_during, calm,   \* the node
    holding, driven, pc, pending, powers, node_read, node_w, during, \* the meter
    answer,     \* the rack's answer on its way to the meter: none or one
    writes, patches     \* counted up to their bounds

rackVars == <<r_holding, r_driven, soc, discharged>>
nodeVars == <<cap, holder, n_pc, req, sum, left, reply, n_during, calm>>
meterVars == <<holding, driven, pc, pending, powers, node_read, node_w>>
acts == <<writes, patches>>
vars == <<rackVars, nodeVars, meterVars, during, answer, acts>>

Rack == INSTANCE BessRack
    WITH holding <- r_holding, driven <- r_driven, Writable <- TRUE,
         PutBatches <- {}, Fc16Batches <- Setpoints, Fc6Writes <- {}

NodeM == INSTANCE RedfishNode
    WITH pc <- n_pc, during <- n_during, Clients <- {meter, operator}

ActivePower == Rack!read_i32(r_holding, Rack!ACTIVE_POWER)

\* The site that the meter measures: its devices as they are.
site == [rack |-> [r \in {rack} |-> ActivePower], node |-> NodeM!Total(cap)]

Meter == INSTANCE PoiMeter
    WITH Racks <- {rack}, Compute <- TRUE, PutBatches <- {},
         Sites <- [rack : [{rack} -> -Rated..Rated], node : Nat],
         SawMin <- Energy, SawMax <- Energy, SawStep <- 0

Init == /\ Rack!Init /\ NodeM!Init /\ Meter!Init
        /\ answer = {} /\ writes = 0 /\ patches = 0

\* A step of a device is an instant of the meter's round.
Elapses == during' = IF pc = "reading" THEN during \cup {site'} ELSE during

-----------------------------------------------------------------------------
(* The devices and who drives them.                                        *)

RackStep == /\ UNCHANGED <<nodeVars, meterVars, answer, acts>>
            /\ Rack!Step /\ Elapses

Gateway == /\ writes < MaxWrites /\ writes' = writes + 1
           /\ UNCHANGED <<nodeVars, meterVars, answer, patches>>
           /\ Rack!WriteMultiple /\ Elapses

OperatorCalls == /\ patches < MaxPatches /\ patches' = patches + 1
                 /\ UNCHANGED <<rackVars, meterVars, during, answer, writes>>
                 /\ NodeM!Call(operator) /\ req'[operator].kind = "patch"

OperatorReceives == /\ UNCHANGED <<rackVars, meterVars, during, answer, acts>>
                    /\ NodeM!Receive(operator)

NodeServes(c) == /\ UNCHANGED <<rackVars, meterVars, answer, acts>>
                 /\ NodeM!Serve(c) /\ Elapses

-----------------------------------------------------------------------------
(* A round of the meter.                                                   *)

\* Mutant: an answer late for the round before is taken for this round's.
Start_KeepsAnswer == /\ UNCHANGED <<rackVars, nodeVars, answer, acts>>
                     /\ Meter!Start

Start == /\ UNCHANGED <<rackVars, nodeVars, acts>>
         /\ Meter!Start
         /\ answer' = {}

\* The rack serves the read of active_power, under its handler's mutex.
RackServes == /\ rack \in pending /\ answer = {}
              /\ answer' = {ActivePower}
              /\ UNCHANGED <<rackVars, nodeVars, meterVars, during, acts>>

RackAnswered == /\ rack \in pending /\ answer # {}
                /\ \E p \in answer : powers' = [r \in {rack} |-> p]
                /\ pending' = pending \ {rack}
                /\ answer' = {}
                /\ UNCHANGED <<rackVars, nodeVars, holding, driven, pc,
                               node_read, node_w, during, acts>>

\* Timed out; an answer that comes later belongs to no read.
RackReadFails == /\ UNCHANGED <<rackVars, nodeVars, answer, acts>>
                 /\ Meter!ReadFails(rack)

AskNode == /\ Meter!Node \in pending
           /\ UNCHANGED <<rackVars, meterVars, during, answer, acts>>
           /\ NodeM!Call(meter) /\ req'[meter].kind = "power"

NodeAnswered == /\ Meter!Node \in pending
                /\ NodeM!Receive(meter)
                /\ node_read' = {reply[meter]}
                /\ pending' = pending \ {Meter!Node}
                /\ UNCHANGED <<rackVars, holding, driven, pc, powers, node_w,
                               during, answer, acts>>

\* Refused, or answered by something that is not understood.
NodeReadFails == /\ \/ n_pc[meter] = "idle" /\ UNCHANGED nodeVars
                    \/ NodeM!Receive(meter)
                 /\ UNCHANGED <<rackVars, answer, acts>>
                 /\ Meter!ReadFails(Meter!Node)

Measure == /\ UNCHANGED <<rackVars, nodeVars, answer, acts>>
           /\ Meter!Measure

Next == \/ RackStep \/ Gateway
        \/ OperatorCalls \/ OperatorReceives
        \/ \E c \in {meter, operator} : NodeServes(c)
        \/ Start \/ RackServes \/ RackAnswered \/ RackReadFails
        \/ AskNode \/ NodeAnswered \/ NodeReadFails \/ Measure

Spec == Init /\ [][Next]_vars

\* The devices' tasks run on, and what the meter asks arrives: a rack's read
\* ends by its timeout, and this node is one that answers.
FairSpec == /\ Spec
            /\ WF_vars(RackStep)
            /\ WF_vars(\E c \in {meter, operator} : NodeServes(c))
            /\ WF_vars(Start \/ Measure)
            /\ WF_vars(RackServes \/ RackAnswered \/ RackReadFails)
            /\ WF_vars(AskNode \/ NodeAnswered \/ NodeReadFails)

-----------------------------------------------------------------------------
(* Properties.                                                             *)

\* With real devices behind its reads, the meter does no more than PoiMeter
\* says: each number it adds up was true at some instant of the same round,
\* however long the answers took and whatever the gateway and the operator
\* changed meanwhile (poi.rs:86-97, gpu_chassis.rs:148-166).
ImplementsMeter == Meter!Spec

Reading == Meter!pair(holding, Meter!POWER)

\* Once the gateway and the operator are done (their bounds see to that) the
\* site comes to rest and its meter says so: whatever setpoint was left, the
\* rack ends empty or full and gives nothing, and the meter shows the fixed
\* load and what the caps let the nodes draw, for good, unless reads of the
\* devices never stop failing (battery.rs:51-55, poi.rs:110-118).
RestsAtLoad ==
    (<>[]~Meter!Lost) => <>[](Reading = FixedLoad + Nodes * NodeM!Total(cap))
=============================================================================
