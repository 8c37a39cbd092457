---------------------------- MODULE BacnetDevice ----------------------------
(***************************************************************************)
(* mock-bacnet-device: analog inputs that ramp every second, and a loop    *)
(* that answers Who-Is and ReadProperty one frame at a time, until a       *)
(* receive fails and the process ends.  There is no error reply: what the  *)
(* device does not know or understand it drops, and the manager that asked *)
(* can only ask again or give up.                                          *)
(*                                                                         *)
(* The managers and the network between are external: a frame may be lost, *)
(* late or sent again, and an invoke id tells to which request an answer   *)
(* belongs.  Values are in tenths of a degree.                             *)
(***************************************************************************)
EXTENDS Integers, FiniteSets

CONSTANTS
    Inputs,         \* the instances of the analog inputs: {1} in the code
    MinOf, MaxOf, StepOf,   \* their ramps
    Device,         \* the device itself
    Unknown,        \* another device, object or property
    Managers,
    None,
    MaxId,          \* bound on a manager's requests
    MaxNet          \* bound on frames in flight when a request is first sent

ASSUME DeviceAssumption ==
    /\ \A f \in {MinOf, MaxOf, StepOf} : f \in [Inputs -> Int]
    /\ \A i \in Inputs : StepOf[i] > 0 /\ MinOf[i] <= MaxOf[i]
    /\ Unknown \notin Inputs \cup {Device} /\ Device \notin Inputs
    /\ None \notin Managers
    /\ MaxId \in Nat /\ MaxNet \in Nat

\* What is asked: Who-Is with a range that holds the device or not, a property
\* of an object, or a frame that is not decoded.
Asks == [service : {"who-is"}, object : {Device, Unknown}]
        \cup [service : {"read"}, object : Inputs \cup {Unknown}]
        \cup [service : {"garbage"}, object : {Unknown}]

VARIABLES
    up,         \* the process runs
    values,     \* present_value of every input
    net,        \* frames in flight
    out,        \* the reply of the frame being served, None between frames
    ask,        \* what each manager waits for, None if for nothing
    id,         \* its invoke id
    got,        \* the last reading it took
    held        \* history: the values of its object since it asked

vars == <<up, values, net, out, ask, id, got, held>>

Request(c) == [to |-> None, from |-> c, id |-> id[c], ask |-> ask[c]]

Requests == {m \in net : m.to = None}

-----------------------------------------------------------------------------
(* The ramps.                                                              *)

\* Mutant: the step that overshoots is taken.
NextValue_NoWrap(i) == values[i] + StepOf[i]

NextValue(i) == IF values[i] + StepOf[i] > MaxOf[i] THEN MinOf[i]
                ELSE values[i] + StepOf[i]

Tick == /\ up
        /\ values' = [i \in Inputs |-> NextValue(i)]
        /\ held' = [c \in Managers |->
                       IF ask[c] # None /\ ask[c].object \in Inputs
                       THEN held[c] \cup {values'[ask[c].object]} ELSE held[c]]
        /\ UNCHANGED <<up, net, out, ask, id, got>>

-----------------------------------------------------------------------------
(* The responder.                                                          *)

iam_frame(m) == [to |-> m.from, service |-> "i-am", id |-> None, val |-> None]

\* Mutant: the reply does not carry the request's invoke id.
answer_read_property_AnyId(m) ==
    IF m.ask.object \notin Inputs THEN None
    ELSE [to |-> m.from, service |-> "ack", id |-> 1, val |-> values[m.ask.object]]

\* Mutant: the responder has a copy of the values from the start.
answer_read_property_AtStart(m) ==
    IF m.ask.object \notin Inputs THEN None
    ELSE [to |-> m.from, service |-> "ack", id |-> m.id, val |-> MinOf[m.ask.object]]

answer_read_property(m) ==
    IF m.ask.object \notin Inputs THEN None
    ELSE [to |-> m.from, service |-> "ack", id |-> m.id, val |-> values[m.ask.object]]

\* The reply to a frame, None where the device drops it.
handle(m) == IF m.ask.service = "read" THEN answer_read_property(m)
             ELSE IF m.ask.service = "who-is" /\ m.ask.object = Device THEN iam_frame(m)
             ELSE None

\* A frame is taken; the lock on the values is given up before the reply is
\* encoded, so a tick may come between this and Send.
Recv(m) == /\ up /\ out = None
           /\ net' = net \ {m}
           /\ out' = handle(m)
           /\ UNCHANGED <<up, values, ask, id, got, held>>

Send == /\ up /\ out # None
        /\ net' = net \cup {out}
        /\ out' = None
        /\ UNCHANGED <<up, values, ask, id, got, held>>

\* An error of recv_from ends the loop and with it the process, the tick too;
\* an error of a frame's handler or of send_to does not.
RecvFails == /\ up /\ out = None
             /\ up' = FALSE
             /\ UNCHANGED <<values, net, out, ask, id, got, held>>

-----------------------------------------------------------------------------
(* Managers and the network (external).                                    *)

Begin(c) == /\ ask[c] = None /\ id[c] < MaxId
            /\ Cardinality(net) < MaxNet
            /\ id' = [id EXCEPT ![c] = @ + 1]
            /\ got' = [got EXCEPT ![c] = None]
            /\ \E a \in Asks :
                /\ ask' = [ask EXCEPT ![c] = a]
                /\ held' = [held EXCEPT ![c] =
                                IF a.object \in Inputs THEN {values[a.object]} ELSE {}]
                /\ net' = net \cup {[to |-> None, from |-> c, id |-> id'[c], ask |-> a]}
            /\ UNCHANGED <<up, values, out>>

Resend(c) == /\ ask[c] # None
             /\ net' = net \cup {Request(c)}
             /\ UNCHANGED <<up, values, out, ask, id, got, held>>

\* An I-Am answers a Who-Is, and an ack the request with its invoke id.
Answers(c, r) == /\ r.to = c /\ ask[c] # None
                 /\ IF ask[c].service = "who-is" THEN r.service = "i-am"
                    ELSE r.id = id[c]

Accept(c) == \E r \in net : /\ Answers(c, r)
                            /\ net' = net \ {r}
                            /\ got' = [got EXCEPT ![c] = r.val]
                            /\ ask' = [ask EXCEPT ![c] = None]
                            /\ UNCHANGED <<up, values, out, id, held>>

GiveUp(c) == /\ ask[c] # None
             /\ ask' = [ask EXCEPT ![c] = None]
             /\ UNCHANGED <<up, values, net, out, id, got, held>>

Lose == \E m \in net : /\ net' = net \ {m}
                       /\ UNCHANGED <<up, values, out, ask, id, got, held>>

Init == /\ up = TRUE
        /\ values = MinOf
        /\ net = {} /\ out = None
        /\ ask = [c \in Managers |-> None]
        /\ id = [c \in Managers |-> 0]
        /\ got = [c \in Managers |-> None]
        /\ held = [c \in Managers |-> {}]

Next == \/ Tick \/ Send \/ RecvFails \/ Lose
        \/ \E m \in Requests : Recv(m)
        \/ \E c \in Managers : Begin(c) \/ Resend(c) \/ Accept(c) \/ GiveUp(c)

Spec == Init /\ [][Next]_vars

\* The two tasks run on; a manager repeats what has no answer, and of what is
\* sent again and again something arrives each way.
FairSpec == /\ Spec
            /\ WF_vars(Tick) /\ WF_vars(Send)
            /\ \A c \in Managers :
                /\ WF_vars(Resend(c) /\ Request(c) \notin net)
                /\ SF_vars(\E m \in Requests : m = Request(c) /\ Recv(m))
                /\ SF_vars(Accept(c))

-----------------------------------------------------------------------------
(* Properties.                                                             *)

\* Type invariant.  A present value is on its ramp, never beyond either end.
TypeOK ==
    /\ up \in BOOLEAN
    /\ \A i \in Inputs : /\ values[i] \in MinOf[i]..MaxOf[i]
                         /\ (values[i] - MinOf[i]) % StepOf[i] = 0
    /\ out = None \/ out.to \in Managers
    /\ ask \in [Managers -> Asks \cup {None}]
    /\ id \in [Managers -> 0..MaxId]
    /\ \A m \in net : m.to \in Managers \cup {None}

\* A reading is a value that its object had between the request and the answer,
\* though a tick comes between the lookup and the reply, requests are repeated,
\* and replies to earlier requests come late (main.rs:141-163).
FreshReading ==
    \A c \in Managers : (ask[c] = None /\ got[c] # None) => got[c] \in held[c]

Known(a) == a.object # Unknown

\* While the process runs, who asks for what the device has is answered in the
\* end, however many frames before it were dropped or failed (main.rs:63-69),
\* whatever came late and whoever asks in vain for what is not there
\* (main.rs:128-130).
Answered == \A c \in Managers :
    (ask[c] # None /\ Known(ask[c])) ~> (ask[c] = None \/ ~up)
=============================================================================
