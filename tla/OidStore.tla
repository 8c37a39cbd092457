------------------------------ MODULE OidStore ------------------------------
(***************************************************************************)
(* What mock-snmp-agent promises its clients, with no task and no lock: one *)
(* map of OIDs that a PUT changes in one step, that the PDU load and the   *)
(* drift change in one step each, and of which every reply is a snapshot   *)
(* at one instant.                                                         *)
(***************************************************************************)
EXTENDS SnmpValues

CONSTANTS Pollers, Batches, Requests, NodeDraws, Malformed

VARIABLES store,    \* the map every request sees
          owned,    \* the OIDs under external control
          ans       \* the replies on their way to each poller: one or none

vars == <<store, owned, ans>>

Report == <<[oid |-> <<6, 3, 15, 1, 1, 4, 0>>, val |-> <<1>>]>>

Snapshot(r) == [i \in DOMAIN r.oids |-> Answer(store, r.next, r.oids[i])]

Init == /\ store = initial_values
        /\ owned = {}
        /\ ans = [p \in Pollers |-> {}]

\* A PUT takes effect as a whole, or not at all when one OID is malformed.
Write == \E b \in Batches :
    /\ Malformed \notin DOMAIN b
    /\ store' = Extend(store, b)
    /\ owned' = owned \cup DOMAIN b
    /\ UNCHANGED ans

\* The PDU load announces its OIDs before it stores them.
Claim == /\ owned' = owned \cup LoadOids
         /\ UNCHANGED <<store, ans>>

\* Power, currents and their mirror change together, to one node draw, and
\* nothing that is not claimed changes.
Follow == /\ LoadOids \subseteq owned
          /\ DOMAIN store' = DOMAIN store
          /\ \A o \in DOMAIN store \ LoadOids : store'[o] = store[o]
          /\ \E w \in NodeDraws : store'[Power] = InputWatts(w)
          /\ \A r \in Derived \cap LoadOids :
                store'[r] = Converted(r, store'[Source(r)])
          /\ UNCHANGED <<owned, ans>>

\* A drift touches no owned OID but the mirror, which it brings in step.
Drift == /\ DOMAIN store' = DOMAIN store
         /\ \A o \in DOMAIN store \ Derived : store'[o] # store[o] =>
                o \notin owned /\ store'[o] \in SawMin..SawMax
         /\ MibsAgree(store')
         /\ UNCHANGED <<owned, ans>>

Reply(p) == /\ ans[p] = {}
            /\ \/ \E r \in Requests : ans' = [ans EXCEPT ![p] = {Snapshot(r)}]
               \/ ans' = [ans EXCEPT ![p] = {Report}]
            /\ UNCHANGED <<store, owned>>

\* The reply leaves, or is given up because it cannot be encoded.
Deliver(p) == /\ ans[p] # {}
              /\ ans' = [ans EXCEPT ![p] = {}]
              /\ UNCHANGED <<store, owned>>

Next == \/ Write \/ Claim \/ Follow \/ Drift
        \/ \E p \in Pollers : Reply(p) \/ Deliver(p)

Spec == Init /\ [][Next]_vars
=============================================================================
