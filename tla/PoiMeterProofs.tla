--------------------------- MODULE PoiMeterProofs ---------------------------
(***************************************************************************)
(* What holds of every poi_meter: for any racks, nodes, load, counter band *)
(* and word size, however the site moves between the reads of a round.     *)
(***************************************************************************)
EXTENDS PoiMeter, FiniteSetTheorems, WellFoundedInduction, TLAPS

-----------------------------------------------------------------------------
(* The sum of what the racks give is a number.  It is a fold; induction is *)
(* by the least counterexample.                                            *)

\* A set of naturals that is not empty has a least element.
LEMMA LeastNatural ==
    ASSUME NEW T \in SUBSET Nat, T # {}
    PROVE  \E n \in T : \A m \in T : n <= m
<1>1. PICK n \in T : \A m \in T : <<m, n>> \notin OpToRel(<, Nat)
  BY NatLessThanWellFounded, WFMin
<1>2. \A m \in T : ~(m < n)
  BY <1>1 DEF OpToRel
<1> QED BY <1>2

Pick(s) == CHOOSE r \in s : TRUE

\* One step of the fold, given what it makes of smaller sets.
Step(it, f, s) == IF s = {} THEN 0 ELSE f[Pick(s)] + it[s \ {Pick(s)}]

\* it is the fold over the subsets of S.
Folds(it, f, S) == it = [s \in SUBSET S |-> Step(it, f, s)]

Sum(f) == FoldFunction(+, 0, f)

\* Removing the element picked from a finite set makes it smaller.
LEMMA PickSmaller ==
    ASSUME NEW s, IsFiniteSet(s), s # {}
    PROVE  /\ Pick(s) \in s /\ IsFiniteSet(s \ {Pick(s)})
           /\ Cardinality(s) \in Nat \ {0}
           /\ Cardinality(s \ {Pick(s)}) = Cardinality(s) - 1
  BY FS_RemoveElement, FS_CardinalityType, FS_EmptySet DEF Pick

\* The recursive function over a finite set exists.
LEMMA FoldExists ==
    ASSUME NEW S, IsFiniteSet(S), NEW f
    PROVE  \E it : Folds(it, f, S)
<1> DEFINE D(n) == {s \in SUBSET S : Cardinality(s) <= n}
           Q(n) == \E it : it = [s \in D(n) |-> Step(it, f, s)]
           T == {n \in Nat : ~Q(n)}
<1>1. \A s \in SUBSET S : IsFiniteSet(s) /\ Cardinality(s) \in Nat
  BY FS_Subset, FS_CardinalityType
<1>2. T = {}
  <2> SUFFICES ASSUME T # {} PROVE FALSE
    OBVIOUS
  <2>1. PICK n \in T : \A m \in T : n <= m
    <3> HIDE DEF T
    <3> QED BY T \in SUBSET Nat, LeastNatural DEF T
  <2>2. CASE n = 0
    <3> DEFINE it == [s \in D(0) |-> 0]
    <3>1. D(0) = {{}}
      BY <1>1, FS_EmptySet
    <3>2. it = [s \in D(0) |-> Step(it, f, s)]
      BY <3>1 DEF Step
    <3> QED BY <2>2, <3>2
  <2>3. CASE n > 0
    <3>1. n - 1 \in Nat /\ n - 1 \notin T
      <4> HIDE DEF Q
      <4> QED BY <2>1, <2>3
    <3>2. PICK it : it = [s \in D(n - 1) |-> Step(it, f, s)]
      BY <3>1
    <3> DEFINE jt == [s \in D(n) |-> Step(it, f, s)]
    <3>3. \A s \in D(n - 1) : s \in D(n) /\ jt[s] = it[s]
      BY <1>1, <2>1, <3>2
    <3>4. \A s \in D(n) : s # {} => s \ {Pick(s)} \in D(n - 1)
      BY <1>1, <2>1, PickSmaller
    <3>5. \A s \in D(n) : Step(jt, f, s) = Step(it, f, s)
      <4> HIDE DEF jt
      <4> QED BY <3>3, <3>4 DEF Step
    <3>6. jt = [s \in D(n) |-> Step(jt, f, s)]
      <4> HIDE DEF D
      <4> QED BY <3>5
    <3> QED BY <2>1, <3>6
  <2> QED BY <2>1, <2>2, <2>3
<1>3. Cardinality(S) \in Nat /\ D(Cardinality(S)) = SUBSET S
  BY <1>1, FS_Subset
<1>4. Q(Cardinality(S))
  BY <1>2, <1>3
<1> QED BY <1>3, <1>4 DEF Folds

\* What any finite number of racks gives adds up to an integer.
LEMMA SumIsInt ==
    ASSUME NEW S, IsFiniteSet(S), NEW f \in [S -> Int]
    PROVE  Sum(f) \in Int
<1>0. DOMAIN f = S
  OBVIOUS
<1>1. (\E it : Folds(it, f, DOMAIN f)) =>
          \E it : Folds(it, f, DOMAIN f) /\ Sum(f) = it[DOMAIN f]
  BY DEF Folds, Step, Pick, Sum, FoldFunction, FoldFunctionOnSet, MapThenFoldSet
<1>2. PICK it : Folds(it, f, S) /\ Sum(f) = it[S]
  BY <1>0, <1>1, FoldExists
<1> DEFINE T == {n \in Nat : \E s \in SUBSET S : Cardinality(s) = n /\ it[s] \notin Int}
<1>3. \A s \in SUBSET S : IsFiniteSet(s) /\ Cardinality(s) \in Nat
  BY FS_Subset, FS_CardinalityType
<1>4. \A s \in SUBSET S : it[s] = Step(it, f, s)
  BY <1>2 DEF Folds
<1>5. T = {}
  <2> SUFFICES ASSUME T # {} PROVE FALSE
    OBVIOUS
  <2>1. PICK n \in T : \A m \in T : n <= m
    <3> HIDE DEF T
    <3> QED BY T \in SUBSET Nat, LeastNatural DEF T
  <2>2. PICK s \in SUBSET S : Cardinality(s) = n /\ it[s] \notin Int
    BY <2>1
  <2>3. s # {} /\ it[s] = f[Pick(s)] + it[s \ {Pick(s)}]
    BY <1>4, <2>2 DEF Step
  <2>4. /\ Pick(s) \in S /\ s \ {Pick(s)} \in SUBSET S
        /\ Cardinality(s \ {Pick(s)}) = n - 1 /\ n - 1 \in Nat
    BY <1>3, <2>2, <2>3, PickSmaller
  <2>5. it[s \ {Pick(s)}] \notin Int
    BY <2>2, <2>3, <2>4
  <2>6. n - 1 \in T
    BY <2>4, <2>5
  <2> QED BY <2>1, <2>6
<1>6. it[S] \in Int
  BY <1>3, <1>5
<1> QED BY <1>2, <1>6

-----------------------------------------------------------------------------
(* Registers.                                                              *)

\* What two words hold.
Raws == 0..(Word * Word - 1)

\* What MeterAssumption says of the numbers.
LEMMA Numbers ==
    /\ Word \in Nat /\ Word > 1 /\ IsFiniteSet(Racks) /\ Node \notin Racks
    /\ FixedLoad \in Int /\ Nodes \in Nat /\ Compute \in BOOLEAN
    /\ SawStep \in Nat /\ SawMin \in Nat /\ SawMax \in SawMin..(Word * Word - 1)
    /\ \A s \in Sites : s.node \in Nat /\ \A r \in Racks : s.rack[r] \in Int
  BY MeterAssumption

\* The two words of a value are words, and make the value again.
LEMMA TwoWords ==
    ASSUME NEW raw \in Raws
    PROVE  /\ raw \div Word \in Words /\ raw % Word \in Words
           /\ (raw \div Word) * Word + (raw % Word) = raw
<1> DEFINE W == Word
           q == raw \div W
           r == raw % W
<1>1. W \in Nat /\ W > 1
  BY Numbers
<1>2. W * W \in Nat /\ raw \in Nat /\ raw < W * W
  <2>1. W * W \in Nat
    <3> HIDE DEF W
    <3> QED BY <1>1
  <2> QED BY <2>1 DEF Raws
<1>3. q \in Nat /\ r \in Nat /\ r < W /\ raw = W * q + r /\ W * q = q * W
  <2> HIDE DEF W
  <2> QED BY <1>1, <1>2
<1> HIDE DEF W, q, r
<1>4. q < W
  <2> SUFFICES ASSUME W <= q PROVE FALSE
    BY <1>1, <1>3
  <2>1. PICK e \in Nat : q = W + e
    BY <1>1, <1>3
  <2>2. W * q = W * W + W * e /\ W * e \in Nat
    BY <1>1, <2>1
  <2> DEFINE Wq == W * q
             WW == W * W
             We == W * e
  <2>3. Wq = WW + We /\ We \in Nat /\ WW \in Nat /\ raw = Wq + r /\ raw < WW
    BY <1>2, <1>3, <2>2
  <2> HIDE DEF Wq, WW, We
  <2> QED BY <1>3, <2>3
<1>5. q \in 0..(W - 1) /\ r \in 0..(W - 1)
  BY <1>1, <1>3, <1>4
<1>6. q * W + r = raw
  BY <1>3
<1> QED BY <1>5, <1>6 DEF q, r, W, Words

\* write_pair stores the value in both words or does nothing, and leaves the
\* other words alone.
LEMMA WritePair ==
    ASSUME NEW h \in [Addrs -> Words], NEW owned, NEW a \in Pairs,
           NEW raw \in Raws
    PROVE  /\ write_pair(h, owned, a, raw) \in [Addrs -> Words]
           /\ {a, a + 1} \cap owned = {} => pair(write_pair(h, owned, a, raw), a) = raw
           /\ {a, a + 1} \cap owned # {} => write_pair(h, owned, a, raw) = h
           /\ \A b \in Pairs \ {a} : pair(write_pair(h, owned, a, raw), b) = pair(h, b)
<1>1. a \in Addrs /\ a + 1 \in Addrs /\ a # a + 1
  BY DEF Pairs, Addrs, POWER, KWH
<1>2. \A b \in Pairs \ {a} : {b, b + 1} \subseteq Addrs /\ {b, b + 1} \cap {a, a + 1} = {}
  BY DEF Pairs, Addrs, POWER, KWH
<1> DEFINE q == raw \div Word
           r == raw % Word
<1>3. q \in Words /\ r \in Words /\ q * Word + r = raw
  BY TwoWords
<1> HIDE DEF q, r
<1>4. write_pair(h, owned, a, raw) = IF {a, a + 1} \cap owned # {} THEN h
                                     ELSE [h EXCEPT ![a] = q, ![a + 1] = r]
  BY DEF write_pair, q, r
<1>5. CASE {a, a + 1} \cap owned # {}
  BY <1>4, <1>5
<1>6. CASE {a, a + 1} \cap owned = {}
  <2> DEFINE g == [h EXCEPT ![a] = q, ![a + 1] = r]
  <2>1. /\ g \in [Addrs -> Words] /\ g[a] = q /\ g[a + 1] = r
        /\ \A x \in Addrs \ {a, a + 1} : g[x] = h[x]
    BY <1>1, <1>3
  <2> HIDE DEF g
  <2>2. write_pair(h, owned, a, raw) = g
    BY <1>4, <1>6 DEF g
  <2>3. pair(g, a) = raw
    BY <1>3, <2>1 DEF pair
  <2>4. ASSUME NEW b \in Pairs \ {a} PROVE pair(g, b) = pair(h, b)
    <3>1. g[b] = h[b] /\ g[b + 1] = h[b + 1]
      BY <1>2, <2>1
    <3> QED BY <3>1 DEF pair
  <2> QED BY <1>6, <2>1, <2>2, <2>3, <2>4
<1> QED BY <1>5, <1>6

\* The energy counter's next value is in its band when the last one was, and
\* fits in two words in any case (Simulator::tick).
LEMMA SawStays ==
    ASSUME NEW h \in [Addrs -> Words]
    PROVE  /\ SawNext(h) \in Raws
           /\ pair(h, KWH) \in SawMin..SawMax => SawNext(h) \in SawMin..SawMax
<1> DEFINE p == pair(h, KWH)
           WW == Word * Word
<1>1. p \in Nat
  <2>1. h[KWH] \in Nat /\ h[KWH + 1] \in Nat /\ Word \in Nat
    BY Numbers DEF Addrs, Pairs, Words
  <2> QED BY <2>1 DEF pair
<1>2. WW \in Int /\ SawStep \in Nat /\ SawMin \in Nat /\ SawMax \in SawMin..(WW - 1)
  BY Numbers
<1> HIDE DEF p, WW
<1>3. SawNext(h) = IF p + SawStep > SawMax THEN SawMin ELSE p + SawStep
  BY DEF SawNext, p
<1>4. SawNext(h) \in 0..(WW - 1) /\ (p \in SawMin..SawMax => SawNext(h) \in SawMin..SawMax)
  BY <1>1, <1>2, <1>3
<1> QED BY <1>4 DEF p, WW, Raws

\* A published reading fits in two words (the bits of a float32).
LEMMA ReadingFits ==
    ASSUME NEW drawn \in SUBSET Nat, NEW gives \in [Racks -> Int]
    PROVE  Bits(poi_active_power(site_load(drawn), gives)) \in Raws
<1>1. site_load(drawn) \in Int
  <2>1. drawn # {} => (CHOOSE w \in drawn : TRUE) \in Nat
    OBVIOUS
  <2> QED BY <2>1, Numbers DEF site_load
<1>2. Sum(gives) \in Int
  BY SumIsInt, Numbers
<1>3. poi_active_power(site_load(drawn), gives) \in Int
  <2>1. poi_active_power(site_load(drawn), gives) = site_load(drawn) - Sum(gives)
    BY DEF poi_active_power, Sum
  <2> QED BY <1>1, <1>2, <2>1
<1> DEFINE WW == Word * Word
<1>4. WW \in Nat \ {0}
  <2>1. Word \in Nat /\ Word > 1
    BY Numbers
  <2>2. Word * Word \in Nat
    BY <2>1
  <2>3. PICK e \in Nat : Word = 2 + e
    BY <2>1
  <2>4. Word * Word = Word + Word + Word * e /\ Word * e \in Nat
    BY <2>1, <2>3
  <2> QED BY <2>1, <2>2, <2>4
<1> HIDE DEF WW
<1>5. \A x \in Int : x % WW \in 0..(WW - 1)
  BY <1>4
<1>6. Bits(poi_active_power(site_load(drawn), gives)) =
          poi_active_power(site_load(drawn), gives) % WW
  BY DEF Bits, WW
<1> QED BY <1>3, <1>5, <1>6 DEF WW, Raws

-----------------------------------------------------------------------------
(* Types.                                                                  *)

\* At most one draw.
LEMMA OneDraw ==
    ASSUME NEW w \in Nat
    PROVE  {w} \in SUBSET Nat /\ Cardinality({w}) <= 1
  BY FS_Singleton

\* Whatever is written, metered and counted, registers hold words and a round
\* holds answers of its own racks only (poi.rs, poi_registers.rs).
THEOREM TypeCorrect == Spec => []TypeOK
<1>1. Init => TypeOK
  <2> SUFFICES ASSUME Init PROVE TypeOK
    OBVIOUS
  <2>1. SawMin \in Raws /\ 0 \in Words
    <3> DEFINE WW == Word * Word
    <3>1. SawMin \in Nat /\ SawMax \in SawMin..(WW - 1) /\ WW \in Int
      BY Numbers
    <3>2. SawMin \in 0..(WW - 1)
      <4> HIDE DEF WW
      <4> QED BY <3>1
    <3> QED BY <3>2, Numbers DEF Words, Raws
  <2>2. SawMin \div Word \in Words /\ SawMin % Word \in Words
    BY <2>1, TwoWords
  <2>3. holding \in [Addrs -> Words]
    <3> DEFINE q == SawMin \div Word
               r == SawMin % Word
    <3>1. holding = [a \in Addrs |-> IF a = KWH THEN q ELSE IF a = KWH + 1 THEN r ELSE 0]
      BY DEF Init
    <3> HIDE DEF q, r
    <3> QED BY <2>1, <2>2, <3>1 DEF q, r
  <2>4. Cardinality({}) = 0
    BY FS_EmptySet
  <2> QED BY <2>3, <2>4 DEF Init, TypeOK
<1>2. TypeOK /\ [Next]_vars => TypeOK'
  <2> SUFFICES ASSUME TypeOK, [Next]_vars PROVE TypeOK'
    OBVIOUS
  <2> USE DEF TypeOK
  <2>1. CASE Move
    BY <2>1 DEF Move, round
  <2>2. CASE SawTick
    <3>1. holding' \in [Addrs -> Words]
      BY <2>2, SawStays, WritePair DEF SawTick, Pairs
    <3> QED BY <2>2, <3>1 DEF SawTick, round
  <2>3. CASE PutRegisters
    <3>1. \A b \in PutBatches : DOMAIN b \subseteq Addrs /\ \A a \in DOMAIN b : b[a] \in Words
      BY MeterAssumption
    <3> QED BY <2>3, <3>1 DEF PutRegisters, round
  <2>4. CASE Start
    <3>1. Cardinality({}) <= 1
      BY FS_EmptySet
    <3> QED BY <2>4, <3>1 DEF Start
  <2>5. CASE Measure
    <3>1. node_w' = Held /\ Held \in SUBSET Nat /\ Cardinality(Held) <= 1
      BY <2>5 DEF Measure, Held
    <3>2. holding' \in [Addrs -> Words]
      <4>1. CASE AllRead
        <5>1. powers \in [Racks -> Int]
          BY <4>1 DEF AllRead
        <5> QED BY <2>5, <3>1, <4>1, <5>1, ReadingFits, WritePair DEF Measure, Pairs
      <4>2. CASE ~AllRead
        BY <2>5, <4>2 DEF Measure
      <4> QED BY <4>1, <4>2
    <3>3. Cardinality({}) <= 1
      BY FS_EmptySet
    <3> QED BY <2>5, <3>1, <3>2, <3>3 DEF Measure
  <2>6. CASE node_power
    <3>1. \A s \in during : {s.node} \in SUBSET Nat /\ Cardinality({s.node}) <= 1
      BY Numbers, OneDraw
    <3> QED BY <2>6, <3>1 DEF node_power
  <2>7. ASSUME NEW r \in Racks, read_rack_power(r) PROVE TypeOK'
    <3>1. PICK s \in during : powers' = [q \in DOMAIN powers \cup {r} |->
                                            IF q = r THEN s.rack[r] ELSE powers[q]]
      BY <2>7 DEF read_rack_power
    <3>2. s.rack[r] \in Int
      BY Numbers
    <3> QED BY <2>7, <3>1, <3>2 DEF read_rack_power
  <2>8. ASSUME NEW x \in Racks \cup {Node}, ReadFails(x) PROVE TypeOK'
    BY <2>8 DEF ReadFails
  <2>9. CASE UNCHANGED vars
    BY <2>9 DEF vars, round
  <2> QED BY <2>1, <2>2, <2>3, <2>4, <2>5, <2>6, <2>7, <2>8, <2>9 DEF Next
<1> QED BY <1>1, <1>2, PTL DEF Spec

-----------------------------------------------------------------------------
(* Rounds.                                                                 *)

\* What a round has read is what the site gave at instants of this round.
OfThisRound ==
    /\ node_read \subseteq {s.node : s \in during}
    /\ \A r \in DOMAIN powers : \E s \in during : powers[r] = s.rack[r]

\* A new round forgets what the last one read (the locals of poi.rs:90-121).
LEMMA RoundsApart == Spec => []OfThisRound
<1>1. Init => OfThisRound
  BY DEF Init, OfThisRound
<1>2. TypeOK /\ OfThisRound /\ [Next]_vars => OfThisRound'
  <2> SUFFICES ASSUME TypeOK, OfThisRound, [Next]_vars PROVE OfThisRound'
    OBVIOUS
  <2> USE DEF OfThisRound
  <2>1. CASE Move
    BY <2>1 DEF Move, round
  <2>2. ASSUME UNCHANGED <<powers, node_read, during>> PROVE OfThisRound'
    BY <2>2
  <2>3. ASSUME DOMAIN powers' = {}, node_read' = {} PROVE OfThisRound'
    BY <2>3
  <2>4. CASE node_power
    BY <2>4 DEF node_power
  <2>5. ASSUME NEW r \in Racks, read_rack_power(r) PROVE OfThisRound'
    BY <2>5 DEF read_rack_power
  <2>6. CASE SawTick \/ PutRegisters \/ \E x \in Racks \cup {Node} : ReadFails(x)
    BY <2>2, <2>6 DEF SawTick, PutRegisters, ReadFails, round
  <2>7. CASE Start \/ Measure
    BY <2>3, <2>7 DEF Start, Measure
  <2>8. CASE UNCHANGED vars
    BY <2>2, <2>8 DEF vars, round
  <2> QED BY <2>1, <2>4, <2>5, <2>6, <2>7, <2>8 DEF Next
<1> QED BY <1>1, <1>2, TypeCorrect, PTL DEF Spec

\* The meter never publishes a sum that misses a rack or uses an answer of an
\* earlier round, for any number of racks (measure, poi.rs:46-47).
THEOREM SumsAreWhole == Spec => NoRackMissing
<1> DEFINE A == Publishes =>
                  \E seen \in [Racks -> during] :
                      pair(holding', POWER) =
                          Bits(poi_active_power(site_load(node_w'),
                                                [r \in Racks |-> seen[r].rack[r]]))
<1>1. TypeOK /\ OfThisRound /\ [Next]_vars => A
  <2> SUFFICES ASSUME TypeOK, OfThisRound, [Next]_vars, Publishes PROVE A
    OBVIOUS
  <2>1. Measure
    BY DEF Publishes, Next, Move, SawTick, PutRegisters, Start, node_power,
           read_rack_power, ReadFails, vars, round
  <2>2. AllRead /\ powers \in [Racks -> Int]
    BY <2>1 DEF Publishes, Measure, AllRead, TypeOK
  <2> DEFINE raw == Bits(poi_active_power(site_load(Held), powers))
  <2>3. raw \in Raws
    BY <2>2, ReadingFits DEF TypeOK, Held
  <2>4. holding' = write_pair(holding, driven, POWER, raw)
    BY <2>1, <2>2 DEF Measure
  <2>5. pair(holding', POWER) = raw
    <3> HIDE DEF raw
    <3>1. holding \in [Addrs -> Words] /\ POWER \in Pairs
      BY DEF TypeOK, Pairs
    <3>2. holding' # holding
      BY DEF Publishes
    <3>3. \/ pair(write_pair(holding, driven, POWER, raw), POWER) = raw
          \/ write_pair(holding, driven, POWER, raw) = holding
      BY <2>3, <3>1, WritePair
    <3> QED BY <2>4, <3>2, <3>3
  <2> DEFINE seen == [r \in Racks |-> CHOOSE s \in during : powers[r] = s.rack[r]]
  <2>6. \A r \in Racks : seen[r] \in during /\ powers[r] = seen[r].rack[r]
    BY <2>2 DEF OfThisRound
  <2>7. seen \in [Racks -> during]
    BY <2>6
  <2>8. powers = [r \in Racks |-> seen[r].rack[r]]
    BY <2>2, <2>6
  <2>9. node_w' = Held
    BY <2>1 DEF Measure
  <2> HIDE DEF seen
  <2> QED BY <2>5, <2>7, <2>8, <2>9
<1>2. NoRackMissing <=> [][A]_vars
  BY DEF NoRackMissing
<1> HIDE DEF A
<1>3. TypeOK /\ OfThisRound /\ [Next]_vars => [A]_vars
  BY <1>1
<1> QED BY <1>2, <1>3, TypeCorrect, RoundsApart, PTL DEF Spec

\* The draw of the node that enters the load is the last one it answered, and
\* one that it had during the round that read it (poi.rs:82-83).
THEOREM LastDrawKept == Spec => LastDrawHeld
<1> DEFINE A == node_w' # node_w => /\ node_w' # {}
                                    /\ node_w' \subseteq {s.node : s \in during}
<1>1. OfThisRound /\ [Next]_vars => A
  <2> SUFFICES ASSUME OfThisRound, [Next]_vars, node_w' # node_w PROVE A
    OBVIOUS
  <2>1. Measure
    BY DEF Next, Move, SawTick, PutRegisters, Start, node_power,
           read_rack_power, ReadFails, vars, round
  <2> QED BY <2>1 DEF Measure, Held, OfThisRound
<1>2. LastDrawHeld <=> [][A]_vars
  BY DEF LastDrawHeld
<1> HIDE DEF A
<1>3. OfThisRound /\ [Next]_vars => [A]_vars
  BY <1>1
<1> QED BY <1>2, <1>3, RoundsApart, PTL DEF Spec

-----------------------------------------------------------------------------
(* External control.                                                       *)

\* Until somebody drives it, the counter is in its band.
CounterInBand == Free(KWH) => pair(holding, KWH) \in SawMin..SawMax

\* Every step but a PUT writes whole pairs that nobody drives.
LEMMA Writers ==
    ASSUME TypeOK, [Next]_vars
    PROVE  \/ PutRegisters
           \/ driven' = driven /\ holding' = holding
           \/ \E a \in Pairs, raw \in Raws :
                  /\ driven' = driven /\ holding' = write_pair(holding, driven, a, raw)
                  /\ a = KWH => raw = SawNext(holding)
<1>1. CASE SawTick
  BY <1>1, SawStays DEF SawTick, TypeOK, Pairs
<1>2. CASE Measure
  <2>1. CASE AllRead
    <3> DEFINE raw == Bits(poi_active_power(site_load(Held), powers))
    <3>1. raw \in Raws
      BY <2>1, ReadingFits DEF AllRead, TypeOK, Held
    <3>2. driven' = driven /\ holding' = write_pair(holding, driven, POWER, raw)
      BY <1>2, <2>1 DEF Measure
    <3>3. POWER \in Pairs /\ POWER # KWH
      BY DEF Pairs, POWER, KWH
    <3> HIDE DEF raw
    <3> QED BY <3>1, <3>2, <3>3
  <2>2. CASE ~AllRead
    BY <1>2, <2>2 DEF Measure
  <2> QED BY <2>1, <2>2
<1>3. CASE \/ Move \/ Start \/ node_power
           \/ \E r \in Racks : read_rack_power(r)
           \/ \E x \in Racks \cup {Node} : ReadFails(x)
           \/ UNCHANGED vars
  BY <1>3 DEF Move, Start, node_power, read_rack_power, ReadFails, vars
<1> QED BY <1>1, <1>2, <1>3 DEF Next

\* No step takes the energy counter out of its band unless a PUT drives it: the
\* sawtooth wraps, and other pairs are written elsewhere (Simulator::tick).
LEMMA CounterStays == TypeOK /\ CounterInBand /\ [Next]_vars => CounterInBand'
<1> SUFFICES ASSUME TypeOK, CounterInBand, [Next]_vars, Free(KWH)'
             PROVE  pair(holding', KWH) \in SawMin..SawMax
  BY DEF CounterInBand, pair
<1>0. KWH \in Pairs /\ holding \in [Addrs -> Words] /\ {KWH, KWH + 1} \subseteq Addrs
  BY DEF TypeOK, Pairs, Addrs
<1>1. CASE PutRegisters
  <2>1. PICK b \in PutBatches :
            /\ holding' = [a \in Addrs |-> IF a \in DOMAIN b THEN b[a] ELSE holding[a]]
            /\ driven' = driven \cup DOMAIN b
    BY <1>1 DEF PutRegisters
  <2>2. {KWH, KWH + 1} \cap DOMAIN b = {} /\ Free(KWH)
    BY <2>1 DEF Free
  <2>3. holding'[KWH] = holding[KWH] /\ holding'[KWH + 1] = holding[KWH + 1]
    BY <1>0, <2>1, <2>2
  <2> QED BY <2>2, <2>3 DEF CounterInBand, pair
<1>2. CASE driven' = driven /\ holding' = holding
  BY <1>2 DEF CounterInBand, Free, pair
<1>3. ASSUME NEW a \in Pairs, NEW raw \in Raws, driven' = driven,
             holding' = write_pair(holding, driven, a, raw), a = KWH => raw = SawNext(holding)
      PROVE  pair(holding', KWH) \in SawMin..SawMax
  <2>1. Free(KWH) /\ pair(holding, KWH) \in SawMin..SawMax
    BY <1>3 DEF Free, CounterInBand
  <2>2. CASE a = KWH
    <3>1. {KWH, KWH + 1} \cap driven = {}
      BY <2>1 DEF Free
    <3>2. pair(write_pair(holding, driven, KWH, raw), KWH) = raw
      <4>1. holding \in [Addrs -> Words] /\ KWH \in Pairs
        BY <1>0
      <4>2. \A k \in Pairs : {k, k + 1} \cap driven = {} =>
                pair(write_pair(holding, driven, k, raw), k) = raw
        BY <4>1, WritePair
      <4> QED BY <3>1, <4>1, <4>2
    <3>3. raw \in SawMin..SawMax
      BY <1>0, <1>3, <2>1, <2>2, SawStays
    <3> QED BY <1>3, <2>2, <3>2, <3>3
  <2>3. CASE a # KWH
    <3>1. KWH \in Pairs \ {a}
      BY <1>0, <2>3
    <3>2. pair(write_pair(holding, driven, a, raw), KWH) = pair(holding, KWH)
      <4>1. holding \in [Addrs -> Words]
        BY <1>0
      <4>2. \A k \in Pairs \ {a} : pair(write_pair(holding, driven, a, raw), k) = pair(holding, k)
        BY <4>1, WritePair
      <4> QED BY <3>1, <4>2
    <3> QED BY <1>3, <2>1, <3>2
  <2> QED BY <2>2, <2>3
<1> QED BY <1>1, <1>2, <1>3, Writers

\* The energy counter stays in its band while no one drives it.
LEMMA CounterBand == Spec => []CounterInBand
<1>1. Init => CounterInBand
  <2> SUFFICES ASSUME Init PROVE pair(holding, KWH) \in SawMin..SawMax
    BY DEF CounterInBand
  <2>1. SawMin \in Raws /\ SawMin \in SawMin..SawMax
    <3> DEFINE WW == Word * Word
    <3>1. SawMin \in Nat /\ SawMax \in SawMin..(WW - 1) /\ WW \in Int
      BY Numbers
    <3>2. SawMin \in 0..(WW - 1) /\ SawMin \in SawMin..SawMax
      <4> HIDE DEF WW
      <4> QED BY <3>1
    <3> QED BY <3>2 DEF Raws
  <2>2. (SawMin \div Word) * Word + (SawMin % Word) = SawMin
    BY <2>1, TwoWords
  <2>3. holding[KWH] = SawMin \div Word /\ holding[KWH + 1] = SawMin % Word
    BY DEF Init, Addrs, Pairs, KWH
  <2>4. pair(holding, KWH) = SawMin
    BY <2>2, <2>3 DEF pair
  <2> QED BY <2>1, <2>4
<1> QED BY <1>1, CounterStays, TypeCorrect, PTL DEF Spec

\* A pair with a driven word keeps it and its other half against the meter and
\* the counter, and the counter's words are never halves of two values
\* (put_registers, Registers::write_pair).
THEOREM DrivenPairsKept == Spec => DrivenPairsStay
<1> DEFINE A == /\ \A a \in Pairs : ~Free(a) =>
                     \/ pair(holding', a) = pair(holding, a)
                     \/ \E b \in PutBatches : \A x \in {a, a + 1} :
                             holding'[x] = IF x \in DOMAIN b THEN b[x] ELSE holding[x]
                /\ Free(KWH)' => pair(holding', KWH) \in SawMin..SawMax
<1>1. TypeOK /\ CounterInBand /\ [Next]_vars => A
  <2> SUFFICES ASSUME TypeOK, CounterInBand, [Next]_vars PROVE A
    OBVIOUS
  <2>1. Free(KWH)' => pair(holding', KWH) \in SawMin..SawMax
    BY CounterStays DEF CounterInBand, pair
  <2>2. ASSUME NEW a \in Pairs, ~Free(a)
        PROVE  \/ pair(holding', a) = pair(holding, a)
               \/ \E b \in PutBatches : \A x \in {a, a + 1} :
                       holding'[x] = IF x \in DOMAIN b THEN b[x] ELSE holding[x]
    <3>1. CASE PutRegisters
      BY <3>1 DEF PutRegisters, Addrs, Pairs
    <3>2. CASE holding' = holding
      BY <3>2
    <3>3. ASSUME NEW c \in Pairs, NEW raw \in Raws,
                 holding' = write_pair(holding, driven, c, raw)
          PROVE  pair(holding', a) = pair(holding, a)
      <4>1. {a, a + 1} \cap driven # {}
        BY <2>2 DEF Free
      <4>2. holding \in [Addrs -> Words]
        BY DEF TypeOK
      <4>3. CASE c = a
        <5>1. write_pair(holding, driven, c, raw) = holding
          BY <4>1, <4>2, <4>3, WritePair
        <5> QED BY <3>3, <5>1
      <4>4. CASE c # a
        <5>1. pair(write_pair(holding, driven, c, raw), a) = pair(holding, a)
          BY <4>2, <4>4, WritePair
        <5> QED BY <3>3, <5>1
      <4> QED BY <4>3, <4>4
    <3> QED BY <3>1, <3>2, <3>3, Writers
  <2> QED BY <2>1, <2>2
<1>2. DrivenPairsStay <=> [][A]_vars
  BY DEF DrivenPairsStay
<1> HIDE DEF A
<1>3. TypeOK /\ CounterInBand /\ [Next]_vars => [A]_vars
  BY <1>1
<1> QED BY <1>2, <1>3, TypeCorrect, CounterBand, PTL DEF Spec
=============================================================================
