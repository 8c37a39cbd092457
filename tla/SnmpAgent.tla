----------------------------- MODULE SnmpAgent ------------------------------
(***************************************************************************)
(* The tasks of mock-snmp-agent and the locks they share: the drift        *)
(* simulator, the PDU load follower, the handlers of PUT /oids and the     *)
(* handlers of SNMP datagrams, over `values`, `driven` and the USM state.  *)
(*                                                                         *)
(* A task runs until its next await: taking a lock is a step of its own,   *)
(* and so is every entry written and every binding read while one is held, *)
(* so that what is atomic here is so because of the locks.  The mutexes    *)
(* are tokio's: first come, first served, never poisoned.                  *)
(***************************************************************************)
EXTENDS SnmpValues

CONSTANTS
    Sim, Pdu,       \* the drift task and the load follower
    Clients,        \* PUT /oids handlers in flight
    Pollers,        \* datagram handlers in flight
    None,
    Malformed,      \* a dotted string that is no OID
    Batches,        \* the bodies a client may PUT: functions to values
    Requests,       \* the requests a poller may send: [kind, next, oids]
    NodeDraws       \* the watts the node may report

Tasks == {Sim, Pdu} \cup Clients \cup Pollers
Writers == {Pdu} \cup Clients
Locks == {"driven", "values", "state"}

Nothing == [o \in {} |-> 0]

ASSUME AgentAssumption ==
    /\ Sim # Pdu /\ None \notin Tasks
    /\ {Sim, Pdu} \cap (Clients \cup Pollers) = {}
    /\ Clients \cap Pollers = {}
    /\ None \notin Requests
    /\ \A b \in Batches : /\ DOMAIN b \subseteq Oids \cup {Malformed}
                          /\ b \in [DOMAIN b -> Int]
    /\ Malformed \notin Oids
    /\ \A r \in Requests : /\ r.kind \in {"v2c", "v3", "discovery"}
                           /\ r.next \in BOOLEAN
                           /\ r.oids \in Seq(Seq(Nat))
    /\ NodeDraws \subseteq Nat

VARIABLES
    values,     \* SharedValues
    driven,     \* DrivenSet
    holder,     \* the task inside each mutex
    pc,
    rest,       \* what each writer has still to store
    req, got    \* each poller's request and its answers so far

data == <<values, driven>>
polls == <<req, got>>
vars == <<values, driven, holder, pc, rest, req, got>>

HoldsAt == [driven |-> {"held", "claimed", "tick", "mirror", "write"},
            values |-> {"tick", "mirror", "write", "read", "v3read"},
            state  |-> {"verify", "v3get", "v3read", "encode"}]

\* The lock a task at each point waits for.
WaitsAt == [driven |-> {"wantDriven"},
            values |-> {"held", "claimed", "snapshot", "get", "v3get"},
            state  |-> {"wantState"}]

Init ==
    /\ values = initial_values
    /\ driven = {}
    /\ holder = [l \in Locks |-> None]
    /\ pc = [t \in Tasks |-> IF t = Sim THEN "wantDriven"
                             ELSE IF t = Pdu THEN "fetch" ELSE "idle"]
    /\ rest = [w \in Writers |-> Nothing]
    /\ req = [p \in Pollers |-> None]
    /\ got = [p \in Pollers |-> <<>>]

Goto(t, from, to) == pc[t] = from /\ pc' = [pc EXCEPT ![t] = to]

Acquire(t, l) == holder[l] = None /\ holder' = [holder EXCEPT ![l] = t]

Release(S) == holder' = [l \in Locks |-> IF l \in S THEN None ELSE holder[l]]

-----------------------------------------------------------------------------
(* The drift task: both locks, one tick, the mirror, sleep.                *)

SimWake == /\ Goto(Sim, "sleep", "wantDriven")
           /\ UNCHANGED <<data, holder, rest, polls>>

SimTakeDriven == /\ Goto(Sim, "wantDriven", "held")
                 /\ Acquire(Sim, "driven")
                 /\ UNCHANGED <<data, rest, polls>>

\* Mutant: the driven set is cloned and its guard dropped before the tick.
SimTakeValues_ClonesDriven ==
    /\ Goto(Sim, "held", "tick")
    /\ holder["values"] = None
    /\ holder' = [holder EXCEPT !["values"] = Sim, !["driven"] = None]
    /\ UNCHANGED <<data, rest, polls>>

SimTakeValues == /\ Goto(Sim, "held", "tick")
                 /\ Acquire(Sim, "values")
                 /\ UNCHANGED <<data, rest, polls>>

SimTick == /\ Goto(Sim, "tick", "mirror")
           /\ values' = Tick(values, driven)
           /\ UNCHANGED <<driven, holder, rest, polls>>

\* Mutant: the mirror is not refreshed.
SimMirror_Forgotten == /\ Goto(Sim, "mirror", "sleep")
                       /\ Release({"driven", "values"})
                       /\ UNCHANGED <<data, rest, polls>>

SimMirror == /\ Goto(Sim, "mirror", "sleep")
             /\ values' = Extend(values, Mirror(values))
             /\ Release({"driven", "values"})
             /\ UNCHANGED <<driven, rest, polls>>

SimStep == SimWake \/ SimTakeDriven \/ SimTakeValues \/ SimTick \/ SimMirror

-----------------------------------------------------------------------------
(* Writers: entries go in one by one under both locks.                     *)

\* Mutant: the entry is stored and never marked driven.
WriteEntry_Undriven(t) == \E o \in DOMAIN rest[t] :
    /\ Goto(t, "write", "write")
    /\ values' = Extend(values, Entry(o, rest[t][o]))
    /\ rest' = [rest EXCEPT ![t] =
                    [x \in DOMAIN rest[t] \ {o} |-> rest[t][x]]]
    /\ UNCHANGED <<driven, holder, polls>>

WriteEntry(t) == \E o \in DOMAIN rest[t] :
    /\ Goto(t, "write", "write")
    /\ values' = Extend(values, Entry(o, rest[t][o]))
    /\ driven' = driven \cup {o}
    /\ rest' = [rest EXCEPT ![t] =
                    [x \in DOMAIN rest[t] \ {o} |-> rest[t][x]]]
    /\ UNCHANGED <<holder, polls>>

WriteDone(t, to) == /\ Goto(t, "write", to)
                    /\ DOMAIN rest[t] = {}
                    /\ Release({"driven", "values"})
                    /\ UNCHANGED <<data, rest, polls>>

-----------------------------------------------------------------------------
(* The load follower: fetch, read the voltages under the values lock       *)
(* alone, then claim and store.                                            *)

PduFetched == /\ Goto(Pdu, "fetch", "snapshot")
              /\ UNCHANGED <<data, holder, rest, polls>>

\* The node cannot be read: warn, sleep, try again.
PduFetchFailed == /\ Goto(Pdu, "fetch", "sleep")
                  /\ UNCHANGED <<data, holder, rest, polls>>

PduWake == /\ Goto(Pdu, "sleep", "fetch")
           /\ UNCHANGED <<data, holder, rest, polls>>

\* Mutant: the guard lives until the readings have been stored.
PduSnapshot_KeepsGuard ==
    /\ Goto(Pdu, "snapshot", "wantDriven")
    /\ Acquire(Pdu, "values")
    /\ \E w \in NodeDraws : rest' = [rest EXCEPT ![Pdu] = Readings(w, values)]
    /\ UNCHANGED <<data, polls>>

\* The guard is a temporary of one statement: released before `store`.
PduSnapshot == /\ Goto(Pdu, "snapshot", "wantDriven")
               /\ holder["values"] = None
               /\ \E w \in NodeDraws :
                    rest' = [rest EXCEPT ![Pdu] = Readings(w, values)]
               /\ UNCHANGED <<data, holder, polls>>

PduClaim == /\ Goto(Pdu, "wantDriven", "claimed")
            /\ Acquire(Pdu, "driven")
            /\ driven' = driven \cup DOMAIN rest[Pdu]
            /\ UNCHANGED <<values, rest, polls>>

PduTakeValues == /\ Goto(Pdu, "claimed", "write")
                 /\ Acquire(Pdu, "values")
                 /\ UNCHANGED <<data, rest, polls>>

\* What happens once a fetch has ended.
PduGoOn == \/ PduWake \/ PduSnapshot \/ PduClaim \/ PduTakeValues
           \/ WriteEntry(Pdu) \/ WriteDone(Pdu, "sleep")

PduStep == PduFetched \/ PduFetchFailed \/ PduGoOn

-----------------------------------------------------------------------------
(* PUT /oids.                                                              *)

Put(c) == /\ Goto(c, "idle", "parse")
          /\ \E b \in Batches : rest' = [rest EXCEPT ![c] = b]
          /\ UNCHANGED <<data, holder, polls>>

\* 422 before any lock is taken.
PutReject(c) == /\ Goto(c, "parse", "idle")
                /\ Malformed \in DOMAIN rest[c]
                /\ rest' = [rest EXCEPT ![c] = Nothing]
                /\ UNCHANGED <<data, holder, polls>>

\* Mutant: malformed OIDs are not looked for before the batch is applied.
PutParsed_Unchecked(c) == /\ Goto(c, "parse", "wantDriven")
                          /\ UNCHANGED <<data, holder, rest, polls>>

PutParsed(c) == /\ Goto(c, "parse", "wantDriven")
                /\ Malformed \notin DOMAIN rest[c]
                /\ UNCHANGED <<data, holder, rest, polls>>

PutTakeDriven(c) == /\ Goto(c, "wantDriven", "held")
                    /\ Acquire(c, "driven")
                    /\ UNCHANGED <<data, rest, polls>>

PutTakeValues(c) == /\ Goto(c, "held", "write")
                    /\ Acquire(c, "values")
                    /\ UNCHANGED <<data, rest, polls>>

\* What happens to a PUT once it has been received.
PutStep(c) == \/ PutReject(c) \/ PutParsed(c)
              \/ PutTakeDriven(c) \/ PutTakeValues(c)
              \/ WriteEntry(c) \/ WriteDone(c, "idle")

-----------------------------------------------------------------------------
(* SNMP datagrams.  A v2c request reads under the values lock; a v3 one    *)
(* holds the USM state from its first check to the end of its encoding.    *)

Receive(p) == /\ \E r \in Requests :
                   /\ req' = [req EXCEPT ![p] = r]
                   /\ Goto(p, "idle", IF r.kind = "v2c" THEN "get"
                                      ELSE "wantState")
              /\ UNCHANGED <<data, holder, rest, got>>

TakeState(p) == /\ Goto(p, "wantState", "verify")
                /\ Acquire(p, "state")
                /\ UNCHANGED <<data, rest, polls>>

Report == <<[oid |-> <<6, 3, 15, 1, 1, 4, 0>>, val |-> <<1>>]>>

\* No engine id yet: tell the client ours.
Discover(p) == /\ Goto(p, "verify", "send")
               /\ req[p].kind = "discovery"
               /\ got' = [got EXCEPT ![p] = Report]
               /\ Release({"state"})
               /\ UNCHANGED <<data, rest, req>>

\* Engine, user, HMAC or PDU is wrong: the message is dropped.
Drop(p) == /\ Goto(p, "verify", "idle")
           /\ req[p].kind = "v3"
           /\ Release({"state"})
           /\ req' = [req EXCEPT ![p] = None]
           /\ UNCHANGED <<data, rest, got>>

Verified(p) == /\ Goto(p, "verify", "v3get")
               /\ req[p].kind = "v3"
               /\ UNCHANGED <<data, holder, rest, polls>>

\* Mutant: the bindings are read without the lock.
TakeValues_Unlocked(p) ==
    /\ Goto(p, "get", "read") \/ Goto(p, "v3get", "v3read")
    /\ UNCHANGED <<data, holder, rest, polls>>

TakeValues(p) == /\ Goto(p, "get", "read") \/ Goto(p, "v3get", "v3read")
                 /\ Acquire(p, "values")
                 /\ UNCHANGED <<data, rest, polls>>

Binding(p) == Answer(values, req[p].next, req[p].oids[Len(got[p]) + 1])

ReadBinding(p) == /\ pc[p] \in {"read", "v3read"}
                  /\ Len(got[p]) < Len(req[p].oids)
                  /\ Binding(p).oid \notin Refused
                  /\ got' = [got EXCEPT ![p] = Append(@, Binding(p))]
                  /\ UNCHANGED <<data, holder, pc, rest, req>>

\* The task of p ends with no reply: what it holds is dropped.
GiveUp(p) == /\ pc' = [pc EXCEPT ![p] = "idle"]
             /\ holder' = [l \in Locks |-> IF holder[l] = p THEN None
                                            ELSE holder[l]]
             /\ req' = [req EXCEPT ![p] = None]
             /\ got' = [got EXCEPT ![p] = <<>>]
             /\ UNCHANGED <<data, rest>>

\* GetNext comes to an OID a PUT created and the SNMP library refuses: the
\* expect panics, and the guards are released as the stack unwinds.
Panic(p) == /\ pc[p] \in {"read", "v3read"}
            /\ Len(got[p]) < Len(req[p].oids)
            /\ Binding(p).oid \in Refused
            /\ GiveUp(p)

ReadDone(p) == /\ Goto(p, "read", "send") \/ Goto(p, "v3read", "encode")
               /\ Len(got[p]) = Len(req[p].oids)
               /\ Release({"values"})
               /\ UNCHANGED <<data, rest, polls>>

Encodable(p) == \A i \in 1..Len(got[p]) : got[p][i].oid \notin Unencodable

\* Mutant: the reply builder locks the state its caller still holds.
Encode_LocksAgain(p) == /\ Goto(p, "encode", "send")
                        /\ Encodable(p)
                        /\ Acquire(p, "state")
                        /\ UNCHANGED <<data, rest, polls>>

\* The reply is encrypted and signed with the state still locked.
Encode(p) == /\ Goto(p, "encode", "send")
             /\ Encodable(p)
             /\ Release({"state"})
             /\ UNCHANGED <<data, rest, polls>>

\* A v2c reply that cannot be encoded is an error and a warning, a v3 one a
\* panic; neither is sent.
EncodeFails(p) == /\ pc[p] \in {"encode", "send"}
                  /\ ~Encodable(p)
                  /\ GiveUp(p)

Send(p) == /\ Goto(p, "send", "idle")
           /\ Encodable(p)
           /\ req' = [req EXCEPT ![p] = None]
           /\ got' = [got EXCEPT ![p] = <<>>]
           /\ UNCHANGED <<data, holder, rest>>

\* What happens to a request once it has been received.
PollStep(p) == \/ TakeState(p) \/ Discover(p) \/ Drop(p) \/ Verified(p)
               \/ TakeValues(p) \/ ReadBinding(p) \/ ReadDone(p) \/ Panic(p)
               \/ Encode(p) \/ EncodeFails(p) \/ Send(p)

-----------------------------------------------------------------------------
Next == \/ SimStep
        \/ PduStep
        \/ \E c \in Clients : Put(c) \/ PutStep(c)
        \/ \E p \in Pollers : Receive(p) \/ PollStep(p)

Spec == Init /\ [][Next]_vars

\* tokio runs every ready task and its mutexes are fair, so a task that waits
\* for a lock others keep releasing gets it: strong fairness per task.  New
\* requests are the environment's, and so are the outcome and the end of a
\* fetch, which nothing in the code bounds.
Fairness == /\ SF_vars(SimStep)
            /\ SF_vars(PduGoOn)
            /\ \A c \in Clients : SF_vars(PutStep(c))
            /\ \A p \in Pollers : SF_vars(PollStep(p))

FairSpec == Spec /\ Fairness

-----------------------------------------------------------------------------
(* Properties.                                                             *)

Labels == {"idle", "parse", "fetch", "snapshot", "sleep", "wantDriven",
           "held", "claimed", "tick", "mirror", "write", "get", "read",
           "wantState", "verify", "v3get", "v3read", "encode", "send"}

IsSeq(s) == s \in Seq({s[i] : i \in DOMAIN s})

\* Type invariant.  Only well-formed batches get past parsing, and a poller
\* keeps the request it is answering.
TypeOK ==
    /\ IsMap(values)
    /\ driven \subseteq Oids
    /\ holder \in [Locks -> Tasks \cup {None}]
    /\ pc \in [Tasks -> Labels]
    /\ DOMAIN rest = Writers
    /\ \A w \in Writers : /\ rest[w] \in [DOMAIN rest[w] -> Int]
                          /\ pc[w] # "parse" => DOMAIN rest[w] \subseteq Oids
                          /\ DOMAIN rest[w] \subseteq Oids \cup {Malformed}
    /\ req \in [Pollers -> Requests \cup {None}]
    /\ \A p \in Pollers : pc[p] # "idle" => req[p] \in Requests
    /\ DOMAIN got = Pollers
    /\ \A p \in Pollers : IsSeq(got[p])

\* A mutex and the program points inside it say the same: exactly the task at
\* such a point holds it, so no two writers, or a writer and a reader, are
\* inside together (put_oids, store, the tick and build_response).
LockInv == \A l \in Locks, t \in Tasks :
                holder[l] = t <=> pc[t] \in HoldsAt[l]

Waits(t) == \E l \in Locks : pc[t] \in WaitsAt[l] /\ holder[l] # None

\* No deadlock, also of a part of the tasks: whenever a mutex is taken, one of
\* the tasks that hold one can go on.  This is what the lock order documented
\* at control.rs:25-28 is for.
LockProgress ==
    (\E l \in Locks : holder[l] # None) =>
        \E t \in Tasks : (\E l \in Locks : holder[l] = t) /\ ~Waits(t)

\* While a reply is being built, every binding already read still says what
\* the map says: build_response never mixes two states of the map, however
\* many bindings it reads and whatever writers wait outside.
NoTornRead ==
    \A p \in Pollers : pc[p] \in {"read", "v3read"} =>
        \A i \in 1..Len(got[p]) :
            got[p][i] = Answer(values, req[p].next, req[p].oids[i])

\* o changes to what a writer is storing there.
Stored(o) == \E t \in Writers : /\ pc[t] = "write" /\ o \in DOMAIN rest[t]
                                /\ values'[o] = rest[t][o]

\* A driven OID outside the mirror changes only to what a PUT or the load
\* follower stores there: the drift never undoes a PUT, whichever way the two
\* interleave (simulator.rs:2-3).
DrivenSurvivesTick ==
    [][\A o \in (driven \cap DOMAIN values) \ Derived :
            values'[o] # values[o] => Stored(o)]_vars

\* What the documents say of every driven OID (simulator.rs:2-3, control.rs:35),
\* the mirrored ones included.
EveryDrivenSurvivesTick ==
    [][\A o \in driven \cap DOMAIN values :
            values'[o] # values[o] => Stored(o)]_vars

\* Every PUT and every datagram received is dealt with, by a reply, a drop or a
\* panic of its task, and the drift never stops, whatever the others do: no
\* task starves behind the mutexes, and a panic leaves none of them locked.
NobodyStarves ==
    /\ \A t \in Clients \cup Pollers : []<>(pc[t] = "idle")
    /\ []<>(pc[Sim] = "sleep")

Quiet == \A c \in Clients : pc[c] = "idle"

\* Once PUTs stop, both MIBs report the same PDU for good, between any two
\* critical sections: no PUT, tick or load update of one view is left without
\* the other (main.rs:87-89, pdu_load.rs:105-106).
MibsConverge ==
    <>[]Quiet => <>[](holder["values"] = None => MibsAgree(values))

\* The phases carry the reported power of one node draw at the voltages that
\* are served next to it.
CarriesPower ==
    \E w \in NodeDraws :
        /\ values[Power] = InputWatts(w)
        /\ \A p \in Phases :
                values[Current(p)] = PhaseCurrent(w, values[Voltage(p)])

\* The voltages a load update used may be stale when it is stored, but once
\* PUTs stop and as long as the node answers, a stale update is replaced and
\* the readings are consistent for good (pdu_load.rs:45-46, 89-90).
PduCarriesPower ==
    (<>[]Quiet /\ []<>(pc[Pdu] = "snapshot"))
        => <>[](holder["values"] = None => CarriesPower)

-----------------------------------------------------------------------------
(* Refinement.  A writer's batch takes effect when it gets the values lock, *)
(* a tick when it computes, a reply when its last binding has been read.   *)

Storing == {t \in Writers : pc[t] = "write"}

StoreNow ==
    IF pc[Sim] = "mirror" THEN Extend(values, Mirror(values))
    ELSE IF Storing # {} THEN Extend(values, rest[CHOOSE t \in Storing : TRUE])
    ELSE values

OwnedNow == driven \cup UNION {DOMAIN rest[t] : t \in Storing}

RepliesNow == [p \in Pollers |->
                IF pc[p] \in {"encode", "send"} THEN {got[p]} ELSE {}]

Abstract == INSTANCE OidStore
                WITH store <- StoreNow, owned <- OwnedNow, ans <- RepliesNow

\* Every behaviour of the tasks is one of the store its clients see: a PUT is
\* visible all at once or not at all, a load update and a tick show both MIBs
\* in step, and every reply is a snapshot.
ImplementsOidStore == Abstract!Spec
=============================================================================
