--------------------------- MODULE Dnp3Outstation ---------------------------
(***************************************************************************)
(* mock-dnp3-outstation: the relay's analog inputs, driven by PUT /points  *)
(* in transactions of the outstation's database and read by one master,    *)
(* which polls the static points and the class 1 events.                   *)
(*                                                                         *)
(* The database, its event buffer and the master are the dnp3 library's:   *)
(* a transaction keeps everybody else out, an update that changes a point  *)
(* leaves an event, and a full buffer drops its oldest event and says so.  *)
(* Values are in tenths, so that a whole number is a multiple of 10.       *)
(***************************************************************************)
EXTENDS Integers, Sequences, SequencesExt

CONSTANTS
    Seeds,      \* ANALOGS: the relay's points and their values
    Batches,    \* the bodies of PUT /points
    Clients,    \* PUT handlers in flight
    Room,       \* analog events the buffer holds
    None

IsSample(v) == v \in Int

ASSUME OutstationAssumption ==
    /\ \A b \in Batches \cup {Seeds} : \A i \in DOMAIN b : IsSample(b[i])
    /\ None \notin Clients
    /\ Room \in Nat

VARIABLES
    points,     \* the static database: index to value and variation
    events,     \* the buffered events, oldest first
    overflown,  \* events have been dropped since the master last knew
    inside,     \* the handler whose transaction is running
    batch,      \* each handler's body
    todo,       \* its points still to be updated
    pc,
    view        \* what the master shows

database == <<points, events, overflown>>
vars == <<points, events, overflown, inside, batch, todo, pc, view>>

-----------------------------------------------------------------------------
(* The database (external).                                                *)

\* A float keeps the value, the 32-bit integer of Group30Var1 its whole part.
Shown(p) == IF p.var = "Var5" THEN p.value
            ELSE IF p.value >= 0 THEN p.value - (p.value % 10)
            ELSE p.value + ((-p.value) % 10)

Image == [i \in DOMAIN points |-> Shown(points[i])]

\* The newest Room of the events.
Buffered(es) == IF Len(es) > Room THEN SubSeq(es, Len(es) - Room + 1, Len(es))
                ELSE es

Record(i, p) == LET es == Append(events, [index |-> i, value |-> Shown(p)])
                IN  /\ events' = Buffered(es)
                    /\ overflown' = (overflown \/ Len(es) > Room)

Set(i, p) == points' = [k \in DOMAIN points \cup {i} |->
                            IF k = i THEN p ELSE points[k]]

\* Database::update with detect_event.
update(i, v) == LET p == [points[i] EXCEPT !.value = v]
                IN  /\ Set(i, p)
                    /\ IF p = points[i] THEN UNCHANGED <<events, overflown>>
                       ELSE Record(i, p)

-----------------------------------------------------------------------------
(* PUT /points.                                                            *)

Put(c) == /\ pc[c] = "idle"
          /\ \E b \in Batches : /\ batch' = [batch EXCEPT ![c] = b]
                                /\ todo' = [todo EXCEPT ![c] = DOMAIN b]
          /\ pc' = [pc EXCEPT ![c] = "want"]
          /\ UNCHANGED <<database, inside, view>>

Begin(c) == /\ pc[c] = "want" /\ inside = None
            /\ inside' = c
            /\ pc' = [pc EXCEPT ![c] = "in"]
            /\ UNCHANGED <<database, batch, todo, view>>

\* Mutant: the new point is added and its value left at zero.
SeedOnDemand_AddOnly(i, v) == LET p == [value |-> 0, var |-> "Var1"]
                              IN  Set(i, p) /\ Record(i, p)

\* Mutant: the update of a new point leaves no event.
SeedOnDemand_NoEvent(i, v) == /\ Set(i, [value |-> v, var |-> "Var1"])
                              /\ UNCHANGED <<events, overflown>>

\* An unknown index is added, then updated; the first update of a point
\* changes its flags and so leaves an event whatever its value.
SeedOnDemand(i, v) == LET p == [value |-> v, var |-> "Var1"]
                      IN  Set(i, p) /\ Record(i, p)

\* Mutant: a point of the relay is configured anew as well.
Write_Reconfigures(i, v) == SeedOnDemand(i, v)

Write(i, v) == IF i \in DOMAIN points THEN update(i, v) ELSE SeedOnDemand(i, v)

\* Mutant: every point is a transaction of its own.
Update_OneByOne(c) ==
    \E i \in todo[c] : /\ pc[c] = "in"
                       /\ Write(i, batch[c][i])
                       /\ todo' = [todo EXCEPT ![c] = @ \ {i}]
                       /\ inside' = None
                       /\ pc' = [pc EXCEPT ![c] = IF todo[c] = {i} THEN "in"
                                                  ELSE "want"]
                       /\ UNCHANGED <<batch, view>>

\* Points are updated in the order of a HashMap's iteration: any.
Update(c) ==
    \E i \in todo[c] : /\ pc[c] = "in"
                       /\ Write(i, batch[c][i])
                       /\ todo' = [todo EXCEPT ![c] = @ \ {i}]
                       /\ UNCHANGED <<inside, batch, pc, view>>

\* 204.
End(c) == /\ pc[c] = "in" /\ todo[c] = {}
          /\ inside' = None
          /\ pc' = [pc EXCEPT ![c] = "idle"]
          /\ UNCHANGED <<database, batch, todo, view>>

-----------------------------------------------------------------------------
(* The master (external): a static read of everything at first and after   *)
(* an overflow, events otherwise; a confirmed event leaves the buffer.     *)

ReadAll == /\ inside = None
           /\ view' = Image
           /\ events' = <<>> /\ overflown' = FALSE
           /\ UNCHANGED <<points, inside, batch, todo, pc>>

Overlaid == FoldLeft(LAMBDA v, e : [i \in DOMAIN v \cup {e.index} |->
                                    IF i = e.index THEN e.value ELSE v[i]],
                     view, events)

PollEvents == /\ inside = None
              /\ view # None /\ ~overflown
              /\ view' = Overlaid
              /\ events' = <<>>
              /\ UNCHANGED <<points, overflown, inside, batch, todo, pc>>

\* Seeded in a transaction before the server listens; whether that left events
\* behind does not matter to a master that starts with a static read.
Init ==
    /\ points = [i \in DOMAIN Seeds |-> [value |-> Seeds[i], var |-> "Var5"]]
    /\ events = <<>> /\ overflown \in BOOLEAN
    /\ inside = None
    /\ batch = [c \in Clients |-> <<>>]
    /\ todo = [c \in Clients |-> {}]
    /\ pc = [c \in Clients |-> "idle"]
    /\ view = None

Next == \/ \E c \in Clients : Put(c) \/ Begin(c) \/ Update(c) \/ End(c)
        \/ ReadAll \/ PollEvents

Spec == Init /\ [][Next]_vars

\* A master keeps polling for events and reads everything when it has to;
\* handlers that have the database finish.
FairSpec == /\ Spec
            /\ WF_vars(PollEvents)
            /\ WF_vars(ReadAll /\ (view = None \/ overflown))
            /\ \A c \in Clients : WF_vars(Update(c) \/ End(c))

-----------------------------------------------------------------------------
(* Properties.                                                             *)

Variations == {"Var1", "Var5"}

\* What the relay and the bodies name.
Indices == DOMAIN Seeds \cup UNION {DOMAIN b : b \in Batches}

Point == [value : Int, var : Variations]
Event == [index : Indices, value : Int]
IsView(w) == \E S \in SUBSET Indices : w \in [S -> Int]

\* Type invariant.  The relay's own points stay and stay floats, the buffer
\* keeps within its room, and events and the master's view are of indices
\* somebody named.
TypeOK ==
    /\ DOMAIN points \subseteq Indices
    /\ \A i \in DOMAIN points : points[i] \in Point
    /\ \A i \in DOMAIN Seeds : i \in DOMAIN points /\ points[i].var = "Var5"
    /\ events \in Seq(Event) /\ Len(events) <= Room
    /\ overflown \in BOOLEAN
    /\ inside \in Clients \cup {None}
    /\ batch \in [Clients -> Batches \cup {<<>>}]
    /\ DOMAIN todo = Clients
    /\ \A c \in Clients : todo[c] \subseteq DOMAIN batch[c]
    /\ pc \in [Clients -> {"idle", "want", "in"}]
    /\ (view = None \/ IsView(view))

\* A master never reads or polls in the middle of a batch: each is there as a
\* whole or not at all (control.rs:4-5, one outstation transaction).
WholeBatches ==
    [][view' # view => \A c \in Clients : todo[c] \in {{}, DOMAIN batch[c]}]_vars

\* The batch of the handler inside names point i, and gives it its new value.
Named(i) == \E c \in Clients : /\ inside = c /\ i \in DOMAIN batch[c]
                               /\ points'[i].value = batch[c][i]

\* A handler that answers 204 leaves every one of its points at the value it was
\* given, and there a point stays, with its variation, until a transaction whose
\* batch names it gives it that batch's value (control.rs:50-66).
AnsweredStands ==
    [][/\ \A c \in Clients : (pc[c] = "in" /\ pc'[c] = "idle") =>
            \A i \in DOMAIN batch[c] :
                i \in DOMAIN points /\ points[i].value = batch[c][i]
       /\ \A i \in DOMAIN points : /\ i \in DOMAIN points'
                                   /\ points'[i].var = points[i].var
                                   /\ points'[i] # points[i] => Named(i)]_vars

\* A master that has read all points once and then only polls events misses
\* nothing: as long as the buffer has not overflown, its view and the events
\* waiting for it make up the database (detect_event in put_points).
EventsTellAll ==
    (view # None /\ ~overflown /\ inside = None) => Overlaid = Image

\* Once PUTs stop, the master's view is the database for good, through points
\* created, events dropped and an overflow that it learns of only from the
\* outstation's indication (control.rs:54-65, outstation.rs:76).
MasterConverges ==
    (<>[](\A c \in Clients : pc[c] = "idle")) => <>[](view = Image)

\* What control.rs:6-7 says: values are carried directly, so what a master is
\* shown is what was driven.
ServesEngineeringValues ==
    \A i \in DOMAIN points : Shown(points[i]) = points[i].value
=============================================================================
