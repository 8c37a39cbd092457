------------------------------ MODULE SnmpWalk ------------------------------
(***************************************************************************)
(* A manager walks a subtree of mock-snmp-agent with GetNext while PUTs    *)
(* create OIDs and the drift and the load change values under it.  The     *)
(* agent is the abstract store of OidStore, which SnmpAgent implements; a  *)
(* request or its answer may be lost, late or repeated, and the manager    *)
(* sends again until it has an answer to its latest request.               *)
(***************************************************************************)
EXTENDS OidStore, SequencesExt

CONSTANTS Root      \* the subtree that is walked

ASSUME WalkAssumption ==
    /\ Root \in Seq(Nat)
    /\ \A b \in Batches : /\ DOMAIN b \subseteq Oids \cup {Malformed}
                          /\ IsFiniteSet(DOMAIN b)

Subtree == {o \in Oids : IsStrictPrefix(Root, o)}

VARIABLES
    phase,      \* "walking" or "done"
    pos,        \* the OID after which the manager asks
    answers,    \* answers to its latest request, on their way
    load,       \* the readings the PDU load has computed and not yet stored
    seen,       \* the bindings it has taken
    began,      \* history: the OIDs of the subtree when it began
    held        \* history: the true next bindings since its latest request

walk == <<phase, pos, answers, seen>>
allVars == <<vars, walk, load, began, held>>

\* The binding that follows o in v, and {} after the last one.
TrueNext(v, o) == {[oid |-> k, val |-> v[k]] : k \in {k \in DOMAIN v :
                        /\ Precedes(o, k)
                        /\ \A m \in DOMAIN v : Precedes(o, m) => m = k \/ Precedes(k, m)}}

-----------------------------------------------------------------------------
(* The agent, request by request.                                          *)

Changed == /\ held' = held \cup TrueNext(store', pos)
           /\ UNCHANGED <<walk, began>>

PutOids == Write /\ Changed /\ UNCHANGED load

\* A tick: the sawtooth, then the mirror.
DriftTick == LET t == Tick(store, owned)
             IN  /\ store' = Extend(t, Mirror(t))
                 /\ UNCHANGED <<owned, ans, load>>
                 /\ Changed

\* The load computes its readings at the voltages of one instant, claims its
\* OIDs, and stores those readings in the end, whatever has changed since.
LoadReads == /\ load = {}
             /\ \E w \in NodeDraws : load' = {Readings(w, store)}
             /\ UNCHANGED <<vars, walk, began, held>>

LoadClaim == load # {} /\ Claim /\ Changed /\ UNCHANGED load

LoadUpdate == /\ LoadOids \subseteq owned
              /\ \E r \in load : store' = Extend(store, r)
              /\ load' = {}
              /\ UNCHANGED <<owned, ans>>
              /\ Changed

\* The OIDs that no reply can carry.
Unservable == Refused \cup Unencodable

\* The request, or one of its repetitions, is answered; it is not when the next
\* OID makes the agent panic or fail to encode its reply.
Serve == /\ phase = "walking"
         /\ Answer(store, TRUE, pos).oid \notin Unservable
         /\ answers' = answers \cup {Answer(store, TRUE, pos)}
         /\ UNCHANGED <<vars, phase, pos, seen, load, began, held>>

-----------------------------------------------------------------------------
(* The manager (external).                                                 *)

\* The first answer in counts, by its request id; the others are for nothing.
GoOn == \E a \in answers :
    /\ a.val # <<>> /\ IsPrefix(Root, a.oid)
    /\ seen' = seen \cup {a}
    /\ pos' = a.oid
    /\ answers' = {}
    /\ held' = TrueNext(store, a.oid)
    /\ UNCHANGED <<vars, phase, load, began>>

Finish == \E a \in answers :
    /\ a.val = <<>> \/ ~IsPrefix(Root, a.oid)
    /\ phase' = "done"
    /\ answers' = {}
    /\ UNCHANGED <<vars, pos, seen, load, began, held>>

WalkInit == /\ Init
            /\ phase = "walking" /\ pos = Root
            /\ answers = {} /\ seen = {} /\ load = {}
            /\ began = Subtree \cap DOMAIN store
            /\ held = TrueNext(store, Root)

WalkNext == \/ PutOids \/ DriftTick \/ LoadReads \/ LoadClaim \/ LoadUpdate
            \/ Serve \/ GoOn \/ Finish

\* A request that is sent again and again is answered in the end, if it can be.
WalkSpec == /\ WalkInit /\ [][WalkNext]_allVars
            /\ WF_allVars(Serve) /\ WF_allVars(GoOn \/ Finish)

-----------------------------------------------------------------------------
(* Properties.                                                             *)

Visited == {a.oid : a \in seen}

\* A finished walk has visited every OID of the subtree that was there when it
\* began, whatever PUTs created around it (main.rs:185-191).
WalkComplete == phase = "done" => began \subseteq Visited

Fits(x) == x \in -I32Half..(I32Half - 1)

\* What a walk takes was next at an instant since its request, and with the
\* value stored then if that has 32 bits: no OID comes twice or out of order,
\* which a manager takes for a loop in the agent, and of an answer that comes
\* late the OID and the value still belong together (main.rs:185-191).
WalkReads == [][\A a \in seen' \ seen : \E h \in held :
                    /\ a.oid = h.oid /\ a.val # <<>>
                    /\ Fits(h.val) => a.val = <<h.val>>]_allVars

\* What control.rs:5-7 and readme.md:51 say of the same: the value served is the
\* raw i64 that was put.
RawValues == [][\A a \in seen' \ seen :
                    \E h \in held : a = [oid |-> h.oid, val |-> <<h.val>>]]_allVars

\* The walk stands before an OID that no reply can carry.
Blocked == phase = "walking" /\ Answer(store, TRUE, pos).oid \in Unservable

\* Every walk ends, though PUTs create OIDs ahead of it, unless one of these is
\* an OID that the SNMP library refuses (main.rs:168, 196) and stays its next.
WalkEnds == <>(phase = "done") \/ <>[]Blocked
=============================================================================
