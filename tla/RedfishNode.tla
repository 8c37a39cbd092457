---------------------------- MODULE RedfishNode -----------------------------
(***************************************************************************)
(* The gpu_node of mock-redfish-service: a power cap per GPU, set by PATCH *)
(* and shown by three kinds of GET, over one mutex around all the GPUs.    *)
(*                                                                         *)
(* A handler takes the mutex once and renders its document inside.  The    *)
(* node's total visits the GPUs one by one, a step each, so that what is   *)
(* atomic here is so because of the mutex.                                 *)
(*                                                                         *)
(* The code's watts are f64, and a PATCH may ask for a fraction of one:    *)
(* here power is counted in a unit as small as one likes, and only clocks, *)
(* which the code rounds, are whole.  A cap may so lie below the demand by *)
(* less than makes the rounded clock drop.                                 *)
(***************************************************************************)
EXTENDS Integers, FiniteSets, FiniteSetsExt

CONSTANTS
    Gpus,           \* GPU_SXM_1 ..
    Clients,        \* requests in flight
    None,
    Demand,         \* GPU_DEMAND_W, in units of power
    BootCap,        \* GPU_POWER_LIMIT_W
    MaxClock,       \* GPU_MAX_CLOCK_MHZ, in whole MHz
    Overhead,       \* GPU_NODE_OVERHEAD_W
    AllowableMin, AllowableMax,
    SetPoints       \* what a PATCH may ask for; None: something else

ASSUME NodeAssumption ==
    /\ IsFiniteSet(Gpus)
    /\ None \notin Clients \cup Gpus
    /\ Demand \in Nat \ {0}
    /\ {BootCap, MaxClock, Overhead, AllowableMin, AllowableMax} \subseteq Nat
    /\ SetPoints \subseteq Nat \cup {None}

Requests == [kind : {"power"}]
            \cup [kind : {"environment", "processor"}, gpu : Gpus]
            \cup [kind : {"patch"}, gpu : Gpus, watts : SetPoints]

VARIABLES
    cap,        \* set_point_w of every GPU
    holder,     \* the request inside the mutex
    pc, req,    \* where each request is and what it asks
    sum, left,  \* its total so far and the GPUs still to be added
    reply,
    during,     \* the draws the node has had while each request was served
    calm        \* no cap has changed since the request was sent

vars == <<cap, holder, pc, req, sum, left, reply, during, calm>>

-----------------------------------------------------------------------------
(* One GPU (gpu_processors.rs).                                            *)

\* Mutant: a cap at the demand counts as binding.
capped_AtDemand(w) == w <= Demand

capped(w) == w < Demand

power_w(w) == IF w < Demand THEN w ELSE Demand

\* Rounded half up, of numbers that are not negative.
clock_mhz(w) == (2 * MaxClock * power_w(w) + Demand) \div (2 * Demand)

environment_metrics(w) == [power |-> power_w(w), set_point |-> w]

processor_metrics(w) == [clock |-> clock_mhz(w), throttled |-> capped(w)]

Allowable == AllowableMin..AllowableMax

\* The node's draw under caps k.
Total(k) == Overhead + MapThenSumSet(LAMBDA g : power_w(k[g]), Gpus)

-----------------------------------------------------------------------------
(* The handlers.                                                           *)

Call(c) ==
    /\ pc[c] = "idle"
    /\ \E r \in Requests : req' = [req EXCEPT ![c] = r]
    /\ pc' = [pc EXCEPT ![c] = "want"]
    /\ during' = [during EXCEPT ![c] = {Total(cap)}]
    /\ calm' = [calm EXCEPT ![c] = TRUE]
    /\ UNCHANGED <<cap, holder, sum, left, reply>>

Lock(c) == /\ pc[c] = "want" /\ holder = None
           /\ holder' = c
           /\ pc' = [pc EXCEPT ![c] = "in"]
           /\ UNCHANGED <<cap, req, sum, left, reply, during, calm>>

\* The handler ends: its guard is dropped and its document sent.
Answer(c, doc) == /\ reply' = [reply EXCEPT ![c] = doc]
                  /\ pc' = [pc EXCEPT ![c] = "replied"]
                  /\ holder' = None

Serves(c, k) == pc[c] = "in" /\ req[c].kind = k

\* Mutant: the mutex is taken anew for every GPU.
AddGpu_LocksEach(c) ==
    \E g \in left[c] : /\ Serves(c, "power")
                       /\ sum' = [sum EXCEPT ![c] = @ + power_w(cap[g])]
                       /\ left' = [left EXCEPT ![c] = @ \ {g}]
                       /\ holder' = None
                       /\ pc' = [pc EXCEPT ![c] = "want"]
                       /\ UNCHANGED <<cap, req, reply, during, calm>>

AddGpu(c) ==
    \E g \in left[c] : /\ Serves(c, "power")
                       /\ sum' = [sum EXCEPT ![c] = @ + power_w(cap[g])]
                       /\ left' = [left EXCEPT ![c] = @ \ {g}]
                       /\ UNCHANGED <<cap, holder, pc, req, reply, during, calm>>

GetPower(c) == /\ Serves(c, "power") /\ left[c] = {}
               /\ Answer(c, sum[c] + Overhead)
               /\ UNCHANGED <<cap, req, sum, left, during, calm>>

GetEnvironment(c) == /\ Serves(c, "environment")
                     /\ Answer(c, environment_metrics(cap[req[c].gpu]))
                     /\ UNCHANGED <<cap, req, sum, left, during, calm>>

GetProcessor(c) == /\ Serves(c, "processor")
                   /\ Answer(c, processor_metrics(cap[req[c].gpu]))
                   /\ UNCHANGED <<cap, req, sum, left, during, calm>>

\* From now on requests in flight may see the new caps.
SetCap(new) == /\ cap' = new
               /\ during' = [d \in Clients |-> IF pc[d] \in {"want", "in"}
                                               THEN during[d] \cup {Total(new)}
                                               ELSE during[d]]
               /\ calm' = [d \in Clients |-> FALSE]

\* Mutant: the set point is stored before it is checked.
Patch_StoresFirst(c) ==
    LET w == req[c].watts
        g == req[c].gpu
    IN  /\ Serves(c, "patch")
        /\ IF w = None THEN UNCHANGED <<cap, during, calm>>
           ELSE SetCap([cap EXCEPT ![g] = w])
        /\ Answer(c, IF w \in Allowable THEN environment_metrics(w) ELSE None)
        /\ UNCHANGED <<req, sum, left>>

\* set_power_limit, then the GPU's document or 400.
Patch(c) ==
    LET w == req[c].watts
        g == req[c].gpu
    IN  /\ Serves(c, "patch")
        /\ IF w \in Allowable
           THEN /\ SetCap([cap EXCEPT ![g] = w])
                /\ Answer(c, environment_metrics(w))
           ELSE Answer(c, None) /\ UNCHANGED <<cap, during, calm>>
        /\ UNCHANGED <<req, sum, left>>

Receive(c) == /\ pc[c] = "replied"
              /\ pc' = [pc EXCEPT ![c] = "idle"]
              /\ req' = [req EXCEPT ![c] = None]
              /\ reply' = [reply EXCEPT ![c] = None]
              /\ sum' = [sum EXCEPT ![c] = 0]
              /\ left' = [left EXCEPT ![c] = Gpus]
              /\ during' = [during EXCEPT ![c] = {}]
              /\ UNCHANGED <<cap, holder, calm>>

Init == /\ cap = [g \in Gpus |-> BootCap]
        /\ holder = None
        /\ pc = [c \in Clients |-> "idle"]
        /\ req = [c \in Clients |-> None]
        /\ sum = [c \in Clients |-> 0]
        /\ left = [c \in Clients |-> Gpus]
        /\ reply = [c \in Clients |-> None]
        /\ during = [c \in Clients |-> {}]
        /\ calm = [c \in Clients |-> FALSE]

Serve(c) == \/ Lock(c) \/ AddGpu(c) \/ GetPower(c) \/ GetEnvironment(c)
            \/ GetProcessor(c) \/ Patch(c)

Next == \E c \in Clients : Call(c) \/ Serve(c) \/ Receive(c)

Spec == Init /\ [][Next]_vars

-----------------------------------------------------------------------------
(* Properties.                                                             *)

\* Type invariant.  No PATCH, refused ones included, leaves a cap outside the
\* range that the GPU advertises; only the boot cap is taken as it comes.
TypeOK ==
    /\ cap \in [Gpus -> Allowable \cup {BootCap}]
    /\ holder \in Clients \cup {None}
    /\ pc \in [Clients -> {"idle", "want", "in", "replied"}]
    /\ sum \in [Clients -> Nat]
    /\ left \in [Clients -> SUBSET Gpus]
    /\ \A c \in Clients : pc[c] # "idle" => req[c] \in Requests

Replied(c, k) == pc[c] = "replied" /\ req[c].kind = k

\* The node's draw in a Power document is one the node had while the request
\* was in flight: PATCHes of several GPUs never show half done in the sum of
\* their draws beyond what each of them did (serve, power_json).
TotalOfOneInstant ==
    \A c \in Clients : Replied(c, "power") =>
        reply[c] \in during[c]

\* The two documents of one GPU agree: unless a cap changed while they were
\* asked for, a GPU is reported throttled exactly when it draws less than its
\* demand, its clock is down only then, and the clock is the full one in
\* proportion to the power, within half a MHz (gpu_processors.rs:5-8).  That
\* every throttled GPU shows a clock that is down is not so: one held a fraction
\* of a watt below its demand rounds to the full clock.
ThrottleAgrees ==
    \A c, d \in Clients :
        (/\ Replied(c, "environment") /\ Replied(d, "processor")
         /\ req[c].gpu = req[d].gpu
         /\ calm[c] /\ calm[d]) =>
            /\ reply[d].throttled <=> reply[c].power < Demand
            /\ reply[d].clock < MaxClock => reply[d].throttled
            /\ 2 * Demand * reply[d].clock \in
                    (2 * MaxClock * reply[c].power - Demand)..
                    (2 * MaxClock * reply[c].power + Demand)
=============================================================================
