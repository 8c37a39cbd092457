------------------------------ MODULE PoiMeter ------------------------------
(***************************************************************************)
(* The poi_meter profile of mock-modbus-server.  One task measures the     *)
(* point of interconnection in rounds: it reads every rack over Modbus and *)
(* a GPU node over HTTP, all at once, and publishes the site load less what*)
(* the racks give.  Another drifts the energy counter.  A third party      *)
(* writes registers over HTTP.  They share the registers under the handler *)
(* mutex, with no await inside, so each use of it is one action; a round's *)
(* reads are apart, and the site moves between them.                       *)
(*                                                                         *)
(* Watts are integers, and a float32 is two words that tell values apart,  *)
(* as its bits do.                                                         *)
(***************************************************************************)
EXTENDS Integers, FiniteSets, Functions

CONSTANTS
    Word,           \* registers hold 0 .. Word - 1
    Racks,          \* POI_BESS_RACKS
    FixedLoad,      \* SITE_LOAD_W
    Compute,        \* SITE_COMPUTE_URL is set
    Nodes,          \* SITE_COMPUTE_NODES
    Sites,          \* external: what the racks give and a node draws, at an instant
    SawMin, SawMax, SawStep,    \* the energy counter's band
    PutBatches      \* the bodies of PUT /registers

POWER == 3060
KWH == 3206
Pairs == {POWER, KWH}
Addrs == Pairs \cup {a + 1 : a \in Pairs}
Words == 0..(Word - 1)

\* The HTTP read of a round, next to the reads of the racks.
Node == "node"

ASSUME MeterAssumption ==
    /\ Word \in Nat /\ Word > 1
    /\ IsFiniteSet(Racks) /\ Node \notin Racks
    /\ FixedLoad \in Int /\ Nodes \in Nat /\ Compute \in BOOLEAN
    /\ Sites \subseteq [rack : [Racks -> Int], node : Nat] /\ Sites # {}
    /\ SawStep \in Nat /\ SawMin \in Nat
    /\ SawMax \in SawMin..(Word * Word - 1)
    /\ \A b \in PutBatches : DOMAIN b \subseteq Addrs /\ b \in [DOMAIN b -> Words]

VARIABLES
    site,       \* external: the site as it is
    holding,    \* the holding registers
    driven,     \* the addresses under external control
    pc,         \* the measuring task: "sleep" or "reading"
    pending,    \* reads of this round that have not ended
    powers,     \* what the racks answered
    node_read,  \* what the node answered: none or one draw
    node_w,     \* the last good draw: none or one
    during      \* history: the site at every instant of this round

round == <<pc, pending, powers, node_read>>
vars == <<site, holding, driven, round, node_w, during>>

Init ==
    /\ site \in Sites
    /\ holding = [a \in Addrs |-> IF a = KWH THEN SawMin \div Word
                                  ELSE IF a = KWH + 1 THEN SawMin % Word ELSE 0]
    /\ driven = {}
    /\ pc = "sleep"
    /\ pending = {} /\ powers = [r \in {} |-> 0]
    /\ node_read = {} /\ node_w = {}
    /\ during = {}

-----------------------------------------------------------------------------
(* Registers.                                                              *)

pair(h, a) == h[a] * Word + h[a + 1]

\* Mutant: an export keeps its sign.
Bits_Signed(p) == p

Bits(p) == p % (Word * Word)

\* Mutant: only the first word is looked up.
write_pair_FirstWord(h, owned, a, raw) ==
    IF a \in owned THEN h
    ELSE [h EXCEPT ![a] = raw \div Word, ![a + 1] = raw % Word]

\* Both words or, when either is driven, none.
write_pair(h, owned, a, raw) ==
    IF {a, a + 1} \cap owned # {} THEN h
    ELSE [h EXCEPT ![a] = raw \div Word, ![a + 1] = raw % Word]

\* Simulator::tick on the energy counter.
SawNext(h) == IF pair(h, KWH) + SawStep > SawMax THEN SawMin ELSE pair(h, KWH) + SawStep

SawTick == /\ holding' = write_pair(holding, driven, KWH, SawNext(holding))
           /\ UNCHANGED <<site, driven, round, node_w, during>>

PutRegisters ==
    \E b \in PutBatches :
        /\ holding' = [a \in Addrs |-> IF a \in DOMAIN b THEN b[a] ELSE holding[a]]
        /\ driven' = driven \cup DOMAIN b
        /\ UNCHANGED <<site, round, node_w, during>>

-----------------------------------------------------------------------------
(* A round.                                                                *)

\* External: racks and nodes change what they give and draw.
Move == /\ site' \in Sites
        /\ during' = IF pc = "reading" THEN during \cup {site'} ELSE during
        /\ UNCHANGED <<holding, driven, round, node_w>>

Start == /\ pc = "sleep"
         /\ pc' = "reading"
         /\ pending' = Racks \cup (IF Compute THEN {Node} ELSE {})
         /\ powers' = [r \in {} |-> 0]
         /\ node_read' = {}
         /\ during' = {site}
         /\ UNCHANGED <<site, holding, driven, node_w>>

\* An answer arrives: what the rack gave at some instant of the round, read
\* as both words at once.
read_rack_power(r) ==
    /\ r \in pending \cap Racks
    /\ pending' = pending \ {r}
    /\ \E s \in during : powers' = [q \in DOMAIN powers \cup {r} |->
                                        IF q = r THEN s.rack[r] ELSE powers[q]]
    /\ UNCHANGED <<site, holding, driven, pc, node_read, node_w, during>>

node_power == /\ Node \in pending
              /\ pending' = pending \ {Node}
              /\ \E s \in during : node_read' = {s.node}
              /\ UNCHANGED <<site, holding, driven, pc, powers, node_w, during>>

\* A read ends without an answer: refused, timed out or not understood.
ReadFails(x) == /\ x \in pending
                /\ pending' = pending \ {x}
                /\ UNCHANGED <<site, holding, driven, pc, powers, node_read,
                               node_w, during>>

\* Mutant: a failed read forgets the last draw.
Held_Dropped == node_read

\* Mutant: the first draw is kept for good.
Held_First == IF node_w # {} THEN node_w ELSE node_read

\* A failed read of the node holds the last one.
Held == IF node_read # {} THEN node_read ELSE node_w

site_load(drawn) ==
    FixedLoad + IF Compute /\ drawn # {} THEN Nodes * CHOOSE w \in drawn : TRUE ELSE 0

poi_active_power(load, gives) == load - FoldFunction(+, 0, gives)

\* Mutant: a rack that failed counts as nothing.
AllRead_Any == TRUE

AllRead == DOMAIN powers = Racks

\* The end of a round: publish, or hold when a rack is missing.
Measure ==
    /\ pc = "reading" /\ pending = {}
    /\ node_w' = Held
    /\ holding' = IF AllRead
                    THEN write_pair(holding, driven, POWER,
                            Bits(poi_active_power(site_load(Held), powers)))
                    ELSE holding
    /\ pc' = "sleep"
    /\ powers' = [r \in {} |-> 0] /\ node_read' = {}
    /\ during' = {}
    /\ UNCHANGED <<site, driven, pending>>

Next == \/ Move \/ SawTick \/ PutRegisters
        \/ Start \/ Measure \/ node_power
        \/ \E r \in Racks : read_rack_power(r)
        \/ \E x \in Racks \cup {Node} : ReadFails(x)

Spec == Init /\ [][Next]_vars

\* A rack's read ends by READ_TIMEOUT.  Nothing bounds the read of the node,
\* so it is given no fairness.
FairSpec == /\ Spec
            /\ WF_vars(Start) /\ WF_vars(Measure)
            /\ \A r \in Racks : WF_vars(read_rack_power(r) \/ ReadFails(r))

-----------------------------------------------------------------------------
(* Properties.                                                             *)

\* Type invariant.
TypeOK == /\ site \in Sites
          /\ holding \in [Addrs -> Words]
          /\ driven \subseteq Addrs
          /\ pc \in {"sleep", "reading"}
          /\ pending \subseteq Racks \cup {Node}
          /\ DOMAIN powers \subseteq Racks \ pending
          /\ powers \in [DOMAIN powers -> Int]
          /\ node_read \in SUBSET Nat /\ Cardinality(node_read) <= 1
          /\ node_w \in SUBSET Nat /\ Cardinality(node_w) <= 1
          /\ during \subseteq Sites

Free(a) == {a, a + 1} \cap driven = {}

\* The end of a round that changes the reading.
Publishes == pc = "reading" /\ pc' = "sleep" /\ pair(holding', POWER) # pair(holding, POWER)

\* What the site's load would be if a node drew w.
LoadAt(w) == FixedLoad + IF Compute THEN Nodes * w ELSE 0

\* P_poi of the site at one instant.
TrueP(s) == poi_active_power(LoadAt(s.node), s.rack)

\* A new reading is made of what every rack gave at some instant of the round
\* and of the draw held after it: never of a sum that misses a rack
\* (poi.rs:46-47) or of an answer left from an earlier round.
NoRackMissing ==
    [][Publishes =>
        \E seen \in [Racks -> during] :
            pair(holding', POWER) =
                Bits(poi_active_power(site_load(node_w'),
                                      [r \in Racks |-> seen[r].rack[r]]))]_vars

\* Once a draw was read, compute stays in the site load however many reads of
\* the node fail after it (poi.rs:82-83), and the draw held is a real one.
LastDrawHeld ==
    [][node_w' # node_w =>
            /\ node_w' # {}
            /\ node_w' \subseteq {s.node : s \in during}]_vars

\* The pairs of registers under external control keep what was written to them:
\* neither the meter nor the counter changes a driven word or its other half,
\* and the counter's two words are always one value of its band.
DrivenPairsStay ==
    [][/\ \A a \in Pairs : ~Free(a) =>
            \/ pair(holding', a) = pair(holding, a)
            \/ \E b \in PutBatches : \A x \in {a, a + 1} :
                    holding'[x] = IF x \in DOMAIN b THEN b[x] ELSE holding[x]
       /\ Free(KWH)' => pair(holding', KWH) \in SawMin..SawMax]_vars

\* A site that settles is metered right in the end, whatever was read while it
\* moved, provided that reads stop failing and the node's read always ends.
Lost == pc = "reading" /\ (Racks \cup (IF Compute THEN {Node} ELSE {}))
            # pending \cup DOMAIN powers \cup (IF node_read = {} THEN {} ELSE {Node})

MeterConverges ==
    \A s \in Sites :
        ((<>[](site = s)) /\ (<>[]~Lost) /\ ([]<>(Node \notin pending)) /\ []Free(POWER))
            => <>[](pair(holding, POWER) = Bits(TrueP(s)))
=============================================================================
