------------------------ MODULE Dnp3OutstationProofs ------------------------
(***************************************************************************)
(* What holds of every outstation: for any points, batches, handlers and   *)
(* room for events, in whatever order a batch is gone through.             *)
(***************************************************************************)
EXTENDS Dnp3Outstation, FiniteSetTheorems, SequenceTheorems, WellFoundedInduction,
        TLAPS

-----------------------------------------------------------------------------
(* A view overlaid with events one by one.  It is a fold; induction is by  *)
(* the least counterexample.                                               *)

\* A set of naturals that is not empty has a least element.
LEMMA LeastNatural ==
    ASSUME NEW T \in SUBSET Nat, T # {}
    PROVE  \E n \in T : \A m \in T : n <= m
<1>1. PICK n \in T : \A m \in T : <<m, n>> \notin OpToRel(<, Nat)
  BY NatLessThanWellFounded, WFMin
<1>2. \A m \in T : ~(m < n)
  BY <1>1 DEF OpToRel
<1> QED BY <1>2

\* A view with one event laid over it.
Lay(v, e) == [i \in DOMAIN v \cup {e.index} |-> IF i = e.index THEN e.value ELSE v[i]]

Over(v, es) == FoldLeft(LAMBDA w, e : [i \in DOMAIN w \cup {e.index} |->
                                          IF i = e.index THEN e.value ELSE w[i]],
                        v, es)

Top(s) == Max(s)

\* One step of the fold, given what it makes of smaller sets of positions.
Step(it, v, es, s) == IF s = {} THEN v ELSE Lay(it[s \ {Top(s)}], es[Top(s)])

Folds(it, v, es, S) == it = [s \in SUBSET S |-> Step(it, v, es, s)]

\* The last position of a set of positions, and what is left without it.
LEMMA TopIsLast ==
    ASSUME NEW n \in Nat, NEW s \in SUBSET (1..n), s # {}
    PROVE  /\ Top(s) \in s /\ \A y \in s : y <= Top(s)
           /\ IsFiniteSet(s) /\ IsFiniteSet(s \ {Top(s)})
           /\ Cardinality(s) \in Nat \ {0}
           /\ Cardinality(s \ {Top(s)}) = Cardinality(s) - 1
<1> DEFINE T == {m \in Nat : \A y \in s : y <= m}
<1>1. n \in T
  OBVIOUS
<1>2. PICK m \in T : \A k \in T : m <= k
  <2> HIDE DEF T
  <2> QED BY <1>1, T \in SUBSET Nat, LeastNatural DEF T
<1>3. m \in s
  <2> SUFFICES ASSUME m \notin s PROVE FALSE
    OBVIOUS
  <2>1. PICK y \in s : TRUE
    OBVIOUS
  <2>2. m - 1 \in Nat /\ \A x \in s : x <= m - 1
    BY <1>2, <2>1
  <2>3. m - 1 \in T
    BY <2>2
  <2> QED BY <1>2, <2>2, <2>3
<1>4. \E x \in s : \A y \in s : x >= y
  BY <1>2, <1>3
<1>5. Top(s) \in s /\ \A y \in s : Top(s) >= y
  BY <1>4 DEF Top, Max
<1>6. IsFiniteSet(s)
  <2>1. IsFiniteSet(1..n)
    BY FS_Interval
  <2> HIDE DEF T
  <2> QED BY <2>1, FS_Subset
<1>7. Cardinality(s) \in Nat /\ Cardinality(s) # 0
  BY <1>6, FS_CardinalityType, FS_EmptySet
<1>8. IsFiniteSet(s \ {Top(s)}) /\ Cardinality(s \ {Top(s)}) = Cardinality(s) - 1
  BY <1>5, <1>6, FS_RemoveElement
<1>9. \A y \in s : y <= Top(s)
  BY <1>5
<1> QED BY <1>5, <1>6, <1>7, <1>8, <1>9

\* The recursive function over a range of positions exists.
LEMMA FoldExists ==
    ASSUME NEW z \in Nat, NEW v, NEW es
    PROVE  \E it : Folds(it, v, es, 1..z)
<1> DEFINE D(n) == {s \in SUBSET (1..z) : Cardinality(s) <= n}
           Q(n) == \E it : it = [s \in D(n) |-> Step(it, v, es, s)]
           T == {n \in Nat : ~Q(n)}
<1>1. \A s \in SUBSET (1..z) : IsFiniteSet(s) /\ Cardinality(s) \in Nat
  <2>1. IsFiniteSet(1..z)
    BY FS_Interval
  <2> QED BY <2>1, FS_Subset, FS_CardinalityType
<1>2. T = {}
  <2> SUFFICES ASSUME T # {} PROVE FALSE
    OBVIOUS
  <2>1. PICK n \in T : \A m \in T : n <= m
    <3> HIDE DEF T
    <3> QED BY T \in SUBSET Nat, LeastNatural DEF T
  <2>2. CASE n = 0
    <3> DEFINE it == [s \in D(0) |-> v]
    <3>1. D(0) = {{}}
      BY <1>1, FS_EmptySet
    <3>2. it = [s \in D(0) |-> Step(it, v, es, s)]
      BY <3>1 DEF Step
    <3> QED BY <2>2, <3>2
  <2>3. CASE n > 0
    <3>1. n - 1 \in Nat /\ n - 1 \notin T
      <4> HIDE DEF Q
      <4> QED BY <2>1, <2>3
    <3>2. PICK it : it = [s \in D(n - 1) |-> Step(it, v, es, s)]
      BY <3>1
    <3> DEFINE jt == [s \in D(n) |-> Step(it, v, es, s)]
    <3>3. \A s \in D(n - 1) : s \in D(n) /\ jt[s] = it[s]
      BY <1>1, <2>1, <3>2
    <3>4. \A s \in D(n) : s # {} => s \ {Top(s)} \in D(n - 1)
      <4> SUFFICES ASSUME NEW s \in SUBSET (1..z), Cardinality(s) <= n, s # {}
                   PROVE  s \ {Top(s)} \in D(n - 1)
        OBVIOUS
      <4>1. /\ Cardinality(s) \in Nat
            /\ Cardinality(s \ {Top(s)}) = Cardinality(s) - 1
        BY TopIsLast
      <4>2. Cardinality(s \ {Top(s)}) <= n - 1
        <5>1. n \in Nat
          BY <2>1
        <5> QED BY <4>1, <5>1
      <4>3. s \ {Top(s)} \in SUBSET (1..z)
        OBVIOUS
      <4> QED BY <4>2, <4>3
    <3>5. \A s \in D(n) : Step(jt, v, es, s) = Step(it, v, es, s)
      <4> HIDE DEF jt
      <4> QED BY <3>3, <3>4 DEF Step
    <3>6. jt = [s \in D(n) |-> Step(jt, v, es, s)]
      <4> HIDE DEF D
      <4> QED BY <3>5
    <3> QED BY <2>1, <3>6
  <2> QED BY <2>1, <2>2, <2>3
<1>3. 1..z \in SUBSET (1..z) /\ Cardinality(1..z) = z /\ D(z) = SUBSET (1..z)
  <2>1. IsFiniteSet(1..z) /\ Cardinality(1..z) = z
    BY FS_Interval
  <2>2. \A s \in SUBSET (1..z) : Cardinality(s) <= z
    BY <2>1, FS_Subset
  <2> QED BY <2>1, <2>2
<1>4. Q(z)
  <2> HIDE DEF Q
  <2> QED BY <1>2
<1> QED BY <1>3, <1>4 DEF Folds

\* What a fold makes of a range of positions is made of the range before.
LEMMA FoldOfRange ==
    ASSUME NEW z \in Nat, NEW v, NEW es, NEW it, Folds(it, v, es, 1..z)
    PROVE  /\ it[{}] = v
           /\ \A k \in 1..z : it[1..k] = Lay(it[1..(k - 1)], es[k])
<1>1. it[{}] = v
  BY DEF Folds, Step
<1>2. ASSUME NEW k \in 1..z PROVE it[1..k] = Lay(it[1..(k - 1)], es[k])
  <2>1. k \in 1..k /\ 1..k # {} /\ \A x \in 1..k : x \in 1..z
    <3>1. k \in Nat /\ k >= 1 /\ k <= z
      OBVIOUS
    <3>2. k \in 1..k
      BY <3>1
    <3>3. \A x \in 1..k : x \in 1..z
      BY <3>1
    <3> QED BY <3>2, <3>3, Zenon
  <2>0. 1..k \in SUBSET (1..z)
    BY <2>1, Zenon
  <2>2. Top(1..k) = k
    <3>1. Top(1..k) \in 1..k /\ \A y \in 1..k : y <= Top(1..k)
      BY <2>0, <2>1, TopIsLast
    <3> QED BY <2>1, <3>1
  <2>3. (1..k) \ {k} = 1..(k - 1) /\ 1..k # {}
    OBVIOUS
  <2> QED BY <2>0, <2>1, <2>2, <2>3 DEF Folds, Step
<1> QED BY <1>1, <1>2

\* Laying events over a view is such a fold, whatever the community module's
\* definition of it chooses.
LEMMA OverIsFold ==
    ASSUME NEW v, NEW es, NEW z \in Nat, DOMAIN es = 1..z
    PROVE  \E it : Folds(it, v, es, 1..z) /\ Over(v, es) = it[1..z]
<1>1. (\E it : Folds(it, v, es, DOMAIN es)) =>
          \E it : Folds(it, v, es, DOMAIN es) /\ Over(v, es) = it[DOMAIN es]
  BY DEF Folds, Step, Top, Lay, Over, FoldLeft, MapThenFoldSet
<1> QED BY <1>1, FoldExists

\* The events of a buffer are laid over a view in their order.
LEMMA OverAppend ==
    ASSUME NEW S, NEW es \in Seq(S), NEW e \in S, NEW v
    PROVE  /\ Over(v, Append(es, e)) = Lay(Over(v, es), e)
           /\ Over(v, <<>>) = v
<1> DEFINE n == Len(es)
           fs == Append(es, e)
<1>1. /\ n \in Nat /\ DOMAIN es = 1..n /\ DOMAIN fs = 1..(n + 1)
      /\ fs[n + 1] = e /\ \A k \in 1..n : fs[k] = es[k]
  OBVIOUS
<1> HIDE DEF n, fs
<1>2. PICK it : Folds(it, v, es, 1..n) /\ Over(v, es) = it[1..n]
  BY <1>1, OverIsFold
<1>3. PICK jt : Folds(jt, v, fs, 1..(n + 1)) /\ Over(v, fs) = jt[1..(n + 1)]
  BY <1>1, OverIsFold
<1>4. it[{}] = v /\ \A k \in 1..n : it[1..k] = Lay(it[1..(k - 1)], es[k])
  BY <1>1, <1>2, FoldOfRange
<1>5. jt[{}] = v /\ \A k \in 1..(n + 1) : jt[1..k] = Lay(jt[1..(k - 1)], fs[k])
  BY <1>1, <1>3, FoldOfRange
<1> DEFINE T == {k \in Nat : k <= n /\ it[1..k] # jt[1..k]}
<1>6. T = {}
  <2> SUFFICES ASSUME T # {} PROVE FALSE
    OBVIOUS
  <2>1. PICK k \in T : \A m \in T : k <= m
    <3> HIDE DEF T
    <3> QED BY T \in SUBSET Nat, LeastNatural DEF T
  <2>2. k # 0
    <3>1. 1..0 = {}
      OBVIOUS
    <3> QED BY <1>4, <1>5, <2>1, <3>1
  <2>3. it[1..(k - 1)] = jt[1..(k - 1)]
    BY <1>1, <2>1, <2>2
  <2>4. k \in 1..n /\ k \in 1..(n + 1)
    BY <1>1, <2>1, <2>2
  <2>5. it[1..k] = Lay(it[1..(k - 1)], es[k]) /\ jt[1..k] = Lay(jt[1..(k - 1)], fs[k])
    BY <1>4, <1>5, <2>4
  <2> QED BY <1>1, <2>1, <2>3, <2>4, <2>5
<1>7. it[1..n] = jt[1..n]
  BY <1>1, <1>6
<1>8. jt[1..(n + 1)] = Lay(jt[1..n], e)
  <2>1. n + 1 \in 1..(n + 1) /\ (n + 1) - 1 = n
    BY <1>1
  <2> QED BY <1>1, <1>5, <2>1
<1>9. Over(v, fs) = Lay(Over(v, es), e)
  BY <1>2, <1>3, <1>7, <1>8
<1>10. Over(v, <<>>) = v
  <2>1. DOMAIN <<>> = 1..0 /\ 1..0 = {} /\ 0 \in Nat
    OBVIOUS
  <2>2. PICK kt : Folds(kt, v, <<>>, 1..0) /\ Over(v, <<>>) = kt[1..0]
    BY <2>1, OverIsFold
  <2> QED BY <2>1, <2>2, FoldOfRange
<1> QED BY <1>9, <1>10 DEF fs

-----------------------------------------------------------------------------
(* Types.                                                                  *)

\* What a handler may be asked to write.
LEMMA BatchValues ==
    /\ \A b \in Batches \cup {<<>>} : \A i \in DOMAIN b : i \in Indices /\ b[i] \in Int
    /\ \A i \in DOMAIN Seeds : i \in Indices /\ Seeds[i] \in Int
    /\ None \notin Clients /\ Room \in Nat
  BY OutstationAssumption DEF IsSample, Indices

\* Shown is an integer for both variations.
LEMMA ShownType == ASSUME NEW p \in Point PROVE Shown(p) \in Int
  BY DEF Shown, Point, Variations

\* The buffer keeps to its room.
LEMMA BufferedType ==
    ASSUME NEW es \in Seq(Event)
    PROVE  /\ Buffered(es) \in Seq(Event) /\ Len(Buffered(es)) <= Room
           /\ Len(es) <= Room => Buffered(es) = es
<1> DEFINE m == Len(es) - Room + 1
           n == Len(es)
<1>1. Room \in Nat /\ n \in Nat /\ \A i \in 1..n : es[i] \in Event
  BY BatchValues
<1>2. CASE n > Room
  <2>1. m \in Int /\ n \in Int /\ \A i \in m..n : es[i] \in Event
    BY <1>1, <1>2
  <2>2. Buffered(es) = SubSeq(es, m, n)
    BY <1>2 DEF Buffered
  <2> HIDE DEF m, n
  <2>3. SubSeq(es, m, n) \in Seq(Event)
        /\ Len(SubSeq(es, m, n)) = IF m <= n THEN n - m + 1 ELSE 0
    BY <2>1, SubSeqProperties
  <2>4. (IF m <= n THEN n - m + 1 ELSE 0) <= Room
    BY <1>1, <1>2 DEF m, n
  <2>5. Buffered(es) \in Seq(Event) /\ Len(Buffered(es)) <= Room
    BY <2>2, <2>3, <2>4
  <2>6. ~(Len(es) <= Room)
    BY <1>1, <1>2 DEF n
  <2> QED BY <2>5, <2>6
<1>3. CASE ~(n > Room)
  BY <1>1, <1>3 DEF Buffered
<1> QED BY <1>2, <1>3

\* What writing v to point i does: the point has the value and the variation it
\* had, nothing else changes, and an event tells unless nothing did.
LEMMA WriteEffect ==
    ASSUME TypeOK, NEW i \in Indices, NEW v \in Int, Write(i, v)
    PROVE  /\ DOMAIN points' = DOMAIN points \cup {i}
           /\ points'[i] \in Point /\ points'[i].value = v
           /\ i \in DOMAIN points => points'[i].var = points[i].var
           /\ \A k \in DOMAIN points \ {i} : points'[k] = points[k]
           /\ \/ /\ UNCHANGED <<events, overflown>>
                 /\ i \in DOMAIN points /\ points'[i] = points[i]
              \/ LET e == [index |-> i, value |-> Shown(points'[i])]
                 IN  /\ e \in Event /\ events' = Buffered(Append(events, e))
                     /\ overflown' = (overflown \/ Len(Append(events, e)) > Room)
<1> DEFINE p == IF i \in DOMAIN points THEN [points[i] EXCEPT !.value = v]
                ELSE [value |-> v, var |-> "Var1"]
<1>1. /\ p \in Point /\ p.value = v
      /\ i \in DOMAIN points => p.var = points[i].var
  BY DEF TypeOK, Point, Variations
<1>2. Set(i, p) /\ (Record(i, p) \/ (UNCHANGED <<events, overflown>>
                                     /\ i \in DOMAIN points /\ p = points[i]))
  BY DEF Write, update, SeedOnDemand
<1> HIDE DEF p
<1>3. /\ DOMAIN points' = DOMAIN points \cup {i} /\ points'[i] = p
      /\ \A k \in DOMAIN points \ {i} : points'[k] = points[k]
  BY <1>2 DEF Set
<1>4. Shown(p) \in Int
  BY <1>1, ShownType
<1>5. [index |-> i, value |-> Shown(p)] \in Event
  BY <1>4 DEF Event
<1> QED BY <1>1, <1>2, <1>3, <1>5 DEF Record

-----------------------------------------------------------------------------
(* Events, and with them the master's view and all the types.             *)

\* In the middle of a transaction too, the view and the events that wait make
\* up the database.
Told == view # None /\ ~overflown => Overlaid = Image

\* What the master will know, now and after a step, by one operator.
LEMMA Overlays == Overlaid = Over(view, events) /\ Overlaid' = Over(view', events')
<1>1. Overlaid = Over(view, events)
  BY DEF Overlaid, Over
<1>2. Overlaid' = Over(view', events')
  BY DEF Overlaid, Over, FoldLeft, MapThenFoldSet
<1> QED BY <1>1, <1>2

\* Every step keeps it: an update that changes a point leaves its event behind all
\* others, a poll moves events into the view, an overflow says so.
LEMMA ToldInvariant == TypeOK /\ Told /\ [Next]_vars => Told'
<1> SUFFICES ASSUME TypeOK, Told, [Next]_vars PROVE Told'
  OBVIOUS
<1>1. ASSUME UNCHANGED <<points, events, overflown, view>> PROVE Told'
  <2>1. Image' = Image
    BY <1>1 DEF Image
  <2> QED BY <1>1, <2>1, Overlays DEF Told
<1>2. ASSUME NEW c \in Clients, Update(c) PROVE Told'
  <2>1. PICK i \in todo[c] : Write(i, batch[c][i]) /\ UNCHANGED view
    BY <1>2 DEF Update
  <2>2. i \in Indices /\ batch[c][i] \in Int
    BY BatchValues DEF TypeOK
  <2>3. /\ DOMAIN points' = DOMAIN points \cup {i}
        /\ \A k \in DOMAIN points \ {i} : points'[k] = points[k]
    BY <2>1, <2>2, WriteEffect
  <2>4. Image' = [k \in DOMAIN points \cup {i} |-> Shown(points'[k])]
    BY <2>3 DEF Image
  <2>5. CASE UNCHANGED <<events, overflown>> /\ i \in DOMAIN points /\ points'[i] = points[i]
    <3>1. Image' = Image
      BY <2>3, <2>4, <2>5 DEF Image
    <3> QED BY <2>1, <2>5, <3>1, Overlays DEF Told
  <2>6. ASSUME NEW e \in Event, e = [index |-> i, value |-> Shown(points'[i])],
               events' = Buffered(Append(events, e)),
               overflown' = (overflown \/ Len(Append(events, e)) > Room)
        PROVE  Told'
    <3> SUFFICES ASSUME view' # None, ~overflown' PROVE Overlaid' = Image'
      BY DEF Told
    <3>1. ~overflown /\ ~(Len(Append(events, e)) > Room)
      BY <2>6, Zenon
    <3>2. Append(events, e) \in Seq(Event) /\ events \in Seq(Event)
      BY DEF TypeOK
    <3>3. events' = Append(events, e)
      <4>1. Len(Append(events, e)) <= Room
        BY <3>1, <3>2, BatchValues
      <4> QED BY <2>6, <3>2, <4>1, BufferedType
    <3>4. Overlaid = Image
      BY <2>1, <3>1 DEF Told
    <3>5. Overlaid' = Lay(Image, e)
      BY <2>1, <3>2, <3>3, <3>4, Overlays, OverAppend
    <3>6. e.index = i /\ e.value = Shown(points'[i])
      BY <2>6
    <3>7. Lay(Image, e) = Image'
      BY <2>3, <2>4, <3>6 DEF Lay, Image
    <3> QED BY <3>5, <3>7
  <2> QED BY <2>1, <2>2, <2>5, <2>6, WriteEffect
<1>3. ASSUME view' = Image, events' = <<>>, UNCHANGED points PROVE Told'
  <2>1. Image' = Image
    BY <1>3 DEF Image
  <2>2. Overlaid' = view'
    <3>1. <<>> \in Seq({0}) /\ 0 \in {0}
      OBVIOUS
    <3> QED BY <1>3, <3>1, Overlays, OverAppend
  <2> QED BY <1>3, <2>1, <2>2 DEF Told
<1>4. CASE ReadAll
  BY <1>3, <1>4 DEF ReadAll
<1>5. CASE PollEvents
  BY <1>3, <1>5 DEF PollEvents, Told
<1>6. CASE \E c \in Clients : Put(c) \/ Begin(c) \/ End(c)
  BY <1>1, <1>6 DEF Put, Begin, End, database
<1>7. CASE UNCHANGED vars
  BY <1>1, <1>7 DEF vars
<1> QED BY <1>2, <1>4, <1>5, <1>6, <1>7 DEF Next

\* Between polls and reads the database is itself a view.
LEMMA ImageType == ASSUME TypeOK PROVE IsView(Image)
<1>1. Image \in [DOMAIN points -> Int]
  BY ShownType DEF Image, TypeOK
<1>2. DOMAIN points \in SUBSET Indices
  BY DEF TypeOK
<1> QED BY <1>1, <1>2 DEF IsView

\* Every step keeps the types: points are created with values of their variation
\* and change only in value (control.rs:47-66).
LEMMA TypesAndTold == Spec => [](TypeOK /\ Told)
<1>1. Init => TypeOK /\ Told
  <2>1. events = <<>> => events \in Seq(Event) /\ Len(events) <= Room
    BY BatchValues
  <2> QED BY <2>1, BatchValues DEF Init, TypeOK, Told, IsSample, Point, Variations
<1>2. TypeOK /\ Told /\ [Next]_vars => TypeOK'
  <2> SUFFICES ASSUME TypeOK, Told, [Next]_vars PROVE TypeOK'
    OBVIOUS
  <2>1. ASSUME NEW c \in Clients, Put(c) PROVE TypeOK'
    BY <2>1 DEF Put, TypeOK, database
  <2>2. ASSUME NEW c \in Clients, Begin(c) PROVE TypeOK'
    BY <2>2 DEF Begin, TypeOK, database
  <2>3. ASSUME NEW c \in Clients, Update(c) PROVE TypeOK'
    <3>1. PICK i \in todo[c] : /\ Write(i, batch[c][i])
                               /\ todo' = [todo EXCEPT ![c] = @ \ {i}]
                               /\ UNCHANGED <<inside, batch, pc, view>>
      BY <2>3 DEF Update
    <3>2. i \in Indices /\ batch[c][i] \in Int
      BY BatchValues DEF TypeOK
    <3>3. \A k \in DOMAIN points' : points'[k] \in Point
      BY <3>1, <3>2, WriteEffect DEF TypeOK
    <3>4. \A k \in DOMAIN Seeds : k \in DOMAIN points' /\ points'[k].var = "Var5"
      BY <3>1, <3>2, WriteEffect DEF TypeOK
    <3>5. events' \in Seq(Event) /\ Len(events') <= Room /\ overflown' \in BOOLEAN
      <4>1. CASE UNCHANGED <<events, overflown>>
        BY <4>1 DEF TypeOK
      <4>2. ASSUME NEW e \in Event, events' = Buffered(Append(events, e)),
                   overflown' = (overflown \/ Len(Append(events, e)) > Room)
            PROVE  events' \in Seq(Event) /\ Len(events') <= Room /\ overflown' \in BOOLEAN
        <5>1. Append(events, e) \in Seq(Event)
          BY DEF TypeOK
        <5>2. overflown' \in BOOLEAN
          BY <4>2, Zenon
        <5> QED BY <4>2, <5>1, <5>2, BufferedType
      <4> QED BY <3>1, <3>2, <4>1, <4>2, WriteEffect
    <3>6. DOMAIN points' \subseteq Indices
      BY <3>1, <3>2, WriteEffect DEF TypeOK
    <3> QED BY <3>1, <3>3, <3>4, <3>5, <3>6 DEF TypeOK
  <2>4. ASSUME NEW c \in Clients, End(c) PROVE TypeOK'
    BY <2>4 DEF End, TypeOK, database
  <2>5. CASE ReadAll
    <3>1. events' \in Seq(Event) /\ Len(events') <= Room /\ overflown' \in BOOLEAN
      <4>1. events' = <<>> /\ overflown' \in BOOLEAN
        BY <2>5, Zenon DEF ReadAll
      <4> QED BY <4>1, BatchValues
    <3>2. UNCHANGED <<points, inside, batch, todo, pc>>
      BY <2>5 DEF ReadAll
    <3>3. IsView(view')
      BY <2>5, ImageType DEF ReadAll
    <3> QED BY <3>1, <3>2, <3>3 DEF TypeOK
  <2>6. CASE PollEvents
    <3>1. view' = Image
      BY <2>6 DEF PollEvents, Told
    <3>2. IsView(view')
      BY <3>1, ImageType
    <3>3. events' \in Seq(Event) /\ Len(events') <= Room
      <4>1. events' = <<>>
        BY <2>6 DEF PollEvents
      <4> QED BY <4>1, BatchValues
    <3>4. UNCHANGED <<points, overflown, inside, batch, todo, pc>>
      BY <2>6 DEF PollEvents
    <3> QED BY <3>2, <3>3, <3>4 DEF TypeOK
  <2>7. CASE UNCHANGED vars
    BY <2>7 DEF vars, TypeOK
  <2> QED BY <2>1, <2>2, <2>3, <2>4, <2>5, <2>6, <2>7 DEF Next
<1> QED BY <1>1, <1>2, ToldInvariant, PTL DEF Spec

\* Points, events and the master's view are of known indices with integer
\* values, the relay's own points are never reconfigured or lost, and the buffer
\* never outgrows its room, whatever handlers write (put_points).
THEOREM TypeCorrect == Spec => []TypeOK
  BY TypesAndTold, PTL

-----------------------------------------------------------------------------
(* Transactions.                                                           *)

\* A handler's batch is untouched before its transaction and between batches,
\* and what it has gone through inside stands.
Turn(c) ==
    /\ pc[c] = "in" <=> inside = c
    /\ pc[c] = "want" => todo[c] = DOMAIN batch[c]
    /\ pc[c] = "idle" => todo[c] = {}
    /\ pc[c] = "in" => \A i \in DOMAIN batch[c] \ todo[c] :
                            i \in DOMAIN points /\ points[i].value = batch[c][i]

\* A handler works through its batch alone, from transaction to transaction
\* (outstation.transaction in put_points).
LEMMA Turns == Spec => []\A c \in Clients : Turn(c)
<1> DEFINE IInv == \A c \in Clients : Turn(c)
<1>1. Init => IInv
  BY BatchValues DEF Init, Turn
<1>2. TypeOK /\ IInv /\ [Next]_vars => IInv'
  <2> SUFFICES ASSUME TypeOK, IInv, [Next]_vars, NEW d \in Clients PROVE Turn(d)'
    OBVIOUS
  <2> USE DEF TypeOK
  <2>1. ASSUME NEW c \in Clients, Put(c) PROVE Turn(d)'
    BY <2>1 DEF Put, Turn, database
  <2>2. ASSUME NEW c \in Clients, Begin(c) PROVE Turn(d)'
    BY <2>2, BatchValues DEF Begin, Turn, database
  <2>3. ASSUME NEW c \in Clients, Update(c) PROVE Turn(d)'
    <3>1. PICK i \in todo[c] : /\ Write(i, batch[c][i])
                               /\ todo' = [todo EXCEPT ![c] = @ \ {i}]
                               /\ UNCHANGED <<inside, batch, pc, view>>
                               /\ pc[c] = "in"
      BY <2>3 DEF Update
    <3>2. i \in Indices /\ batch[c][i] \in Int /\ i \in DOMAIN batch[c]
      BY BatchValues
    <3>3. CASE d = c
      <4>1. /\ DOMAIN points' = DOMAIN points \cup {i} /\ points'[i].value = batch[c][i]
            /\ \A k \in DOMAIN points \ {i} : points'[k] = points[k]
        BY <3>1, <3>2, WriteEffect
      <4>2. todo'[c] = todo[c] \ {i}
        BY <3>1
      <4> HIDE DEF TypeOK
      <4> QED BY <3>1, <3>3, <4>1, <4>2 DEF Turn
    <3>4. CASE d # c
      <4>1. pc[d] # "in" /\ todo'[d] = todo[d]
        BY <3>1, <3>4 DEF Turn
      <4> QED BY <3>1, <4>1 DEF Turn
    <3> QED BY <3>3, <3>4
  <2>4. ASSUME NEW c \in Clients, End(c) PROVE Turn(d)'
    BY <2>4, BatchValues DEF End, Turn, database
  <2>5. CASE ReadAll
    BY <2>5 DEF ReadAll, Turn
  <2>6. CASE PollEvents
    BY <2>6 DEF PollEvents, Turn
  <2>7. CASE UNCHANGED vars
    BY <2>7 DEF vars, Turn
  <2> QED BY <2>1, <2>2, <2>3, <2>4, <2>5, <2>6, <2>7 DEF Next
<1> QED BY <1>1, <1>2, TypeCorrect, PTL DEF Spec

\* What a master reads never holds part of a batch, for any number of handlers
\* (one outstation transaction, control.rs:4-5).
THEOREM BatchesWhole == Spec => WholeBatches
<1> DEFINE A == view' # view => \A c \in Clients : todo[c] \in {{}, DOMAIN batch[c]}
           IInv == \A c \in Clients : Turn(c)
<1>1. TypeOK /\ IInv /\ [Next]_vars => A
  <2> SUFFICES ASSUME TypeOK, IInv, [Next]_vars, view' # view, NEW c \in Clients
               PROVE  todo[c] \in {{}, DOMAIN batch[c]}
    OBVIOUS
  <2>1. inside = None
    BY DEF Next, Put, Begin, Update, End, ReadAll, PollEvents, vars
  <2>2. pc[c] \in {"idle", "want"}
    BY <2>1, BatchValues DEF TypeOK, Turn
  <2> QED BY <2>2 DEF Turn
<1>2. WholeBatches <=> [][A]_vars
  BY DEF WholeBatches
<1>3. TypeOK /\ IInv /\ [Next]_vars => [A]_vars
  BY <1>1
<1>4. Spec => []IInv
  BY Turns
<1> HIDE DEF A, IInv
<1> QED BY <1>2, <1>3, <1>4, TypeCorrect, PTL DEF Spec

\* A handler that answers 204 leaves all its points at its values, and each stays
\* until a batch that names it is applied (put_points).
THEOREM AnswersStand == Spec => AnsweredStands
<1> DEFINE Left == \A c \in Clients : (pc[c] = "in" /\ pc'[c] = "idle") =>
                       \A i \in DOMAIN batch[c] :
                           i \in DOMAIN points /\ points[i].value = batch[c][i]
           Kept == \A i \in DOMAIN points : /\ i \in DOMAIN points'
                                            /\ points'[i].var = points[i].var
                                            /\ points'[i] # points[i] => Named(i)
           A == /\ Left
                /\ Kept
           IInv == \A c \in Clients : Turn(c)
<1>1. TypeOK /\ IInv /\ [Next]_vars => Left
  <2> SUFFICES ASSUME TypeOK, IInv, [Next]_vars, NEW c \in Clients,
                      pc[c] = "in", pc'[c] = "idle", NEW i \in DOMAIN batch[c]
               PROVE  i \in DOMAIN points /\ points[i].value = batch[c][i]
    OBVIOUS
  <2>1. todo[c] = {}
    BY DEF Next, Put, Begin, Update, End, ReadAll, PollEvents, vars, TypeOK
  <2> QED BY <2>1 DEF Turn
<1>2. TypeOK /\ IInv /\ [Next]_vars => Kept
  <2> SUFFICES ASSUME TypeOK, IInv, [Next]_vars, NEW i \in DOMAIN points
               PROVE  /\ i \in DOMAIN points'
                      /\ points'[i].var = points[i].var
                      /\ points'[i] # points[i] => Named(i)
    OBVIOUS
  <2>1. CASE UNCHANGED points
    BY <2>1
  <2>2. ASSUME NEW c \in Clients, Update(c)
        PROVE  /\ i \in DOMAIN points'
               /\ points'[i].var = points[i].var
               /\ points'[i] # points[i] => Named(i)
    <3>1. PICK k \in todo[c] : Write(k, batch[c][k]) /\ pc[c] = "in"
      BY <2>2 DEF Update
    <3>2. k \in Indices /\ batch[c][k] \in Int /\ k \in DOMAIN batch[c]
      BY BatchValues DEF TypeOK
    <3>3. /\ DOMAIN points' = DOMAIN points \cup {k} /\ points'[k].value = batch[c][k]
          /\ k \in DOMAIN points => points'[k].var = points[k].var
          /\ \A j \in DOMAIN points \ {k} : points'[j] = points[j]
      BY <3>1, <3>2, WriteEffect
    <3>4. inside = c
      BY <3>1 DEF Turn
    <3>5. i # k => points'[i] = points[i]
      BY <3>3
    <3> QED BY <3>2, <3>3, <3>4, <3>5 DEF Named
  <2> QED BY <2>1, <2>2 DEF Next, Put, Begin, End, ReadAll, PollEvents, database, vars
<1>3. AnsweredStands <=> [][A]_vars
  BY DEF AnsweredStands
<1>4. TypeOK /\ IInv /\ [Next]_vars => [A]_vars
  BY <1>1, <1>2
<1>5. Spec => []IInv
  BY Turns
<1> HIDE DEF A, IInv
<1> QED BY <1>3, <1>4, <1>5, TypeCorrect, PTL DEF Spec

-----------------------------------------------------------------------------
(* What polling misses.                                                    *)

\* A master that polls events misses nothing until the buffer overflows, for
\* any room, points and batches (detect_event in put_points).
THEOREM EventsSuffice == Spec => []EventsTellAll
<1>1. Told => EventsTellAll
  BY DEF Told, EventsTellAll
<1> QED BY <1>1, TypesAndTold, PTL
=============================================================================
