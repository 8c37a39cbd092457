--------------------------- MODULE SnmpWalkProofs ---------------------------
(***************************************************************************)
(* A GetNext walk over any subtree of any map misses nothing that was      *)
(* there when it began, and every binding it takes was the next one, with  *)
(* that value, at one instant since it was asked for.                      *)
(***************************************************************************)
EXTENDS SnmpWalk, FiniteSetTheorems, WellFoundedInduction, TLAPS

-----------------------------------------------------------------------------
(* The order of OIDs.                                                      *)

\* Nothing precedes itself.
LEMMA NotItself ==
    ASSUME NEW a \in Seq(Nat)
    PROVE  ~Precedes(a, a)
<1>1. Len(a) \in Nat /\ \A i \in 1..Len(a) : a[i] \in Nat
  OBVIOUS
<1> QED BY <1>1 DEF Precedes

\* What it takes to precede.
LEMMA PrecedesAt ==
    ASSUME NEW a, NEW b, NEW m \in 1..Len(b), m <= Len(a) + 1,
           \A j \in 1..(m - 1) : a[j] = b[j], m = Len(a) + 1 \/ a[m] < b[m]
    PROVE  Precedes(a, b)
  BY DEF Precedes

\* What precedes a predecessor precedes.
LEMMA Transitive ==
    ASSUME NEW a \in Seq(Nat), NEW b \in Seq(Nat), NEW c \in Seq(Nat),
           Precedes(a, b), Precedes(b, c)
    PROVE  Precedes(a, c)
<1>1. PICK i \in 1..Len(b) : /\ i <= Len(a) + 1
                             /\ \A j \in 1..(i - 1) : a[j] = b[j]
                             /\ i = Len(a) + 1 \/ a[i] < b[i]
  BY DEF Precedes
<1>2. PICK k \in 1..Len(c) : /\ k <= Len(b) + 1
                             /\ \A j \in 1..(k - 1) : b[j] = c[j]
                             /\ k = Len(b) + 1 \/ b[k] < c[k]
  BY DEF Precedes
<1>3. /\ Len(a) \in Nat /\ Len(b) \in Nat /\ Len(c) \in Nat
      /\ \A j \in 1..Len(a) : a[j] \in Nat
      /\ \A j \in 1..Len(b) : b[j] \in Nat
      /\ \A j \in 1..Len(c) : c[j] \in Nat
  OBVIOUS
<1>5. CASE i < k
  <2>1. i \in 1..Len(c) /\ b[i] = c[i] /\ \A j \in 1..(i - 1) : a[j] = c[j]
    BY <1>1, <1>2, <1>3, <1>5
  <2> QED BY <1>1, <2>1, PrecedesAt
<1>6. CASE i = k
  <2>1. \A j \in 1..(i - 1) : a[j] = c[j]
    BY <1>1, <1>2, <1>6
  <2>2. b[i] < c[i]
    BY <1>1, <1>2, <1>3, <1>6
  <2>3. i \in 1..Len(c)
    BY <1>2, <1>6
  <2>4. CASE i = Len(a) + 1
    BY <1>1, <2>1, <2>3, <2>4, PrecedesAt
  <2>5. CASE i # Len(a) + 1
    <3>1. i \in 1..Len(a) /\ a[i] < b[i]
      BY <1>1, <1>3, <2>5
    <3>2. a[i] \in Nat /\ b[i] \in Nat /\ c[i] \in Nat
      BY <1>3, <2>3, <3>1
    <3>3. a[i] < c[i]
      BY <2>2, <3>1, <3>2
    <3> QED BY <1>1, <2>1, <2>3, <3>3, PrecedesAt
  <2> QED BY <2>4, <2>5
<1>7. CASE k < i
  <2>1. \A j \in 1..(k - 1) : a[j] = c[j]
    BY <1>1, <1>2, <1>3, <1>7
  <2>2. k <= Len(a) /\ a[k] = b[k] /\ b[k] < c[k]
    BY <1>1, <1>2, <1>3, <1>7
  <2>3. k <= Len(a) + 1 /\ a[k] < c[k]
    BY <1>3, <2>2
  <2> QED BY <1>2, <2>1, <2>3, PrecedesAt
<1> QED BY <1>1, <1>2, <1>5, <1>6, <1>7

\* A set of numbers that is not empty has a least one.
LEMMA LeastNatural ==
    ASSUME NEW T \in SUBSET Nat, T # {}
    PROVE  \E n \in T : \A m \in T : n <= m
<1>1. PICK n \in T : \A m \in T : <<m, n>> \notin OpToRel(<, Nat)
  BY NatLessThanWellFounded, WFMin
<1>2. \A m \in T : ~(m < n)
  BY <1>1 DEF OpToRel
<1> QED BY <1>2

\* Of two OIDs one precedes, or they are the same.
LEMMA Total ==
    ASSUME NEW a \in Seq(Nat), NEW b \in Seq(Nat)
    PROVE  a = b \/ Precedes(a, b) \/ Precedes(b, a)
<1> DEFINE T == {j \in Nat : j >= 1 /\ (j > Len(a) \/ j > Len(b) \/ a[j] # b[j])}
<1>1. /\ Len(a) \in Nat /\ Len(b) \in Nat
      /\ \A j \in 1..Len(a) : a[j] \in Nat
      /\ \A j \in 1..Len(b) : b[j] \in Nat
  OBVIOUS
<1>2. Len(a) + 1 \in T
  BY <1>1
<1>3. PICK i \in T : \A m \in T : i <= m
  <2> HIDE DEF T
  <2> QED BY <1>2, T \in SUBSET Nat, LeastNatural DEF T
<1>4. i \in Nat /\ i >= 1 /\ i <= Len(a) + 1 /\ i <= Len(b) + 1
  BY <1>1, <1>2, <1>3
<1>5. \A j \in 1..(i - 1) : a[j] = b[j]
  BY <1>1, <1>3, <1>4
<1>6. CASE i <= Len(a) /\ i <= Len(b)
  <2>1. a[i] # b[i] /\ a[i] \in Nat /\ b[i] \in Nat
    BY <1>1, <1>3, <1>4, <1>6
  <2>2. a[i] < b[i] \/ b[i] < a[i]
    BY <2>1
  <2>3. i \in 1..Len(a) /\ i \in 1..Len(b)
    BY <1>1, <1>4, <1>6
  <2>4. \A j \in 1..(i - 1) : b[j] = a[j]
    BY <1>5
  <2> HIDE DEF T
  <2>5. CASE a[i] < b[i]
    BY <1>4, <1>5, <2>3, <2>5, PrecedesAt
  <2>6. CASE b[i] < a[i]
    BY <1>4, <2>3, <2>4, <2>6, PrecedesAt
  <2> QED BY <2>2, <2>5, <2>6
<1>7. CASE i = Len(a) + 1 /\ i <= Len(b)
  <2>1. i \in 1..Len(b)
    BY <1>1, <1>4, <1>7
  <2> HIDE DEF T
  <2> QED BY <1>4, <1>5, <1>7, <2>1, PrecedesAt
<1>8. CASE i = Len(b) + 1 /\ i <= Len(a)
  <2>1. \A j \in 1..(i - 1) : b[j] = a[j]
    BY <1>5
  <2>2. i \in 1..Len(a)
    BY <1>1, <1>4, <1>8
  <2> HIDE DEF T
  <2> QED BY <1>4, <1>8, <2>1, <2>2, PrecedesAt
<1>9. CASE i = Len(a) + 1 /\ i = Len(b) + 1
  <2>1. Len(a) = Len(b) /\ \A j \in 1..Len(a) : a[j] = b[j]
    BY <1>1, <1>5, <1>9
  <2>2. a = [j \in 1..Len(a) |-> a[j]] /\ b = [j \in 1..Len(b) |-> b[j]]
    OBVIOUS
  <2> QED BY <2>1, <2>2
<1> QED
  <2> HIDE DEF T
  <2>1. \/ i <= Len(a) /\ i <= Len(b)
        \/ i = Len(a) + 1 /\ i <= Len(b)
        \/ i = Len(b) + 1 /\ i <= Len(a)
        \/ i = Len(a) + 1 /\ i = Len(b) + 1
    BY <1>1, <1>4
  <2> QED BY <2>1, <1>6, <1>7, <1>8, <1>9

\* Of a finite set of OIDs, First is the one that precedes all the others.
LEMMA FirstIsLeast ==
    ASSUME NEW S \in SUBSET Seq(Nat), IsFiniteSet(S), S # {}
    PROVE  First(S) \in S /\ \A m \in S \ {First(S)} : Precedes(First(S), m)
<1> DEFINE Below(k) == {m \in S : Precedes(m, k)}
           N == {Cardinality(Below(k)) : k \in S}
<1>1. \A k \in S : IsFiniteSet(Below(k)) /\ Cardinality(Below(k)) \in Nat
  <2>1. \A k \in S : Below(k) \in SUBSET S
    OBVIOUS
  <2> HIDE DEF Below
  <2> QED BY <2>1, FS_Subset, FS_CardinalityType
<1>2. PICK k \in S : \A n \in S : Cardinality(Below(k)) <= Cardinality(Below(n))
  <2>1. N \in SUBSET Nat /\ N # {}
    <3> HIDE DEF Below
    <3> QED BY <1>1
  <2>2. PICK n \in N : \A m \in N : n <= m
    <3> HIDE DEF N
    <3> QED BY <2>1, LeastNatural
  <2> HIDE DEF Below
  <2> QED BY <2>2
<1>3. ASSUME NEW m \in S \ {k}, ~Precedes(k, m)
      PROVE  FALSE
  <2>1. k \in Seq(Nat) /\ m \in Seq(Nat)
    OBVIOUS
  <2>2. Precedes(m, k)
    BY <1>3, <2>1, Total
  <2>3. Below(m) \in SUBSET Below(k)
    BY <2>1, <2>2, Transitive
  <2>4. m \in Below(k) /\ m \notin Below(m)
    BY <2>1, <2>2, NotItself
  <2> HIDE DEF Below
  <2>5. Cardinality(Below(m)) <= Cardinality(Below(k))
    BY <1>1, <2>3, FS_Subset
  <2>6. Cardinality(Below(k)) <= Cardinality(Below(m))
    BY <1>2
  <2>7. Cardinality(Below(k)) \in Nat /\ Cardinality(Below(m)) \in Nat
    BY <1>1
  <2>8. Cardinality(Below(k)) = Cardinality(Below(m))
    BY <2>5, <2>6, <2>7
  <2>9. Below(k) = Below(m)
    BY <1>1, <2>3, <2>8, FS_Subset
  <2> QED BY <2>4, <2>9
<1>4. \A m \in S \ {k} : Precedes(k, m)
  BY <1>3
<1> HIDE DEF N, Below
<1> QED BY <1>4 DEF First

-----------------------------------------------------------------------------
(* The order of a subtree.                                                 *)

\* A prefix, component by component.
LEMMA PrefixAt ==
    ASSUME NEW s \in Seq(Nat), NEW t \in Seq(Nat)
    PROVE  IsPrefix(s, t) <=> Len(s) <= Len(t) /\ \A j \in 1..Len(s) : s[j] = t[j]
<1>1. s = [j \in 1..Len(s) |-> s[j]] /\ Len(s) \in Nat /\ Len(t) \in Nat
  OBVIOUS
<1>2. SubSeq(s, 1, Len(s)) = s
  BY <1>1
<1>3. ASSUME Len(s) <= Len(t)
      PROVE  /\ Len(SubSeq(t, 1, Len(s))) = Len(s)
             /\ SubSeq(t, 1, Len(s)) = [j \in 1..Len(s) |-> t[j]]
  BY <1>1, <1>3
<1> QED BY <1>1, <1>2, <1>3 DEF IsPrefix

\* The root precedes what is below it.
LEMMA RootPrecedes ==
    ASSUME NEW r \in Seq(Nat), NEW o \in Seq(Nat), IsStrictPrefix(r, o)
    PROVE  Precedes(r, o)
<1>1. Len(r) \in Nat /\ Len(o) \in Nat
  OBVIOUS
<1>2. Len(r) <= Len(o) /\ (\A j \in 1..Len(r) : r[j] = o[j]) /\ r # o
  BY PrefixAt DEF IsStrictPrefix
<1>3. Len(r) # Len(o)
  <2>1. r = [j \in 1..Len(r) |-> r[j]] /\ o = [j \in 1..Len(o) |-> o[j]]
    OBVIOUS
  <2> QED BY <1>2, <2>1
<1>4. Len(r) + 1 \in 1..Len(o) /\ \A j \in 1..(Len(r) + 1 - 1) : r[j] = o[j]
  BY <1>1, <1>2, <1>3
<1> DEFINE m == Len(r) + 1
<1>5. m \in 1..Len(o) /\ m <= Len(r) + 1 /\ m = Len(r) + 1 /\ \A j \in 1..(m - 1) : r[j] = o[j]
  BY <1>1, <1>4
<1> HIDE DEF m
<1> QED BY <1>5, PrecedesAt

\* What lies between two OIDs of a subtree is in the subtree.
LEMMA NoGap ==
    ASSUME NEW r \in Seq(Nat), NEW x \in Seq(Nat), NEW y \in Seq(Nat), NEW z \in Seq(Nat),
           IsPrefix(r, x), IsPrefix(r, z), Precedes(x, y), Precedes(y, z)
    PROVE  IsPrefix(r, y)
<1>1. PICK i \in 1..Len(y) : /\ i <= Len(x) + 1
                             /\ \A j \in 1..(i - 1) : x[j] = y[j]
                             /\ i = Len(x) + 1 \/ x[i] < y[i]
  BY DEF Precedes
<1>2. PICK k \in 1..Len(z) : /\ k <= Len(y) + 1
                             /\ \A j \in 1..(k - 1) : y[j] = z[j]
                             /\ k = Len(y) + 1 \/ y[k] < z[k]
  BY DEF Precedes
<1>3. /\ Len(r) \in Nat /\ Len(x) \in Nat /\ Len(y) \in Nat /\ Len(z) \in Nat
      /\ \A j \in 1..Len(x) : x[j] \in Nat
      /\ \A j \in 1..Len(y) : y[j] \in Nat
      /\ \A j \in 1..Len(z) : z[j] \in Nat
  OBVIOUS
<1>4. /\ Len(r) <= Len(x) /\ \A j \in 1..Len(r) : r[j] = x[j]
      /\ Len(r) <= Len(z) /\ \A j \in 1..Len(r) : r[j] = z[j]
  BY PrefixAt
<1>5. CASE i > Len(r)
  <2>1. Len(r) <= Len(y) /\ \A j \in 1..Len(r) : r[j] = y[j]
    BY <1>1, <1>3, <1>4, <1>5
  <2> QED BY <2>1, PrefixAt
<1>6. CASE i <= Len(r)
  <2>1. i \in 1..Len(r) /\ x[i] < y[i] /\ r[i] = x[i] /\ r[i] = z[i]
    BY <1>1, <1>3, <1>4, <1>6
  <2>2. i \in 1..Len(x) /\ i \in 1..Len(y) /\ i \in 1..Len(z)
    <3>1. i \in 1..Len(y)
      OBVIOUS
    <3>2. i \in Nat /\ 1 <= i
      BY <1>3, <3>1
    <3>3. Len(r) <= Len(x) /\ Len(r) <= Len(z)
      BY <1>4
    <3>4. Len(r) \in Nat /\ Len(x) \in Nat /\ Len(z) \in Nat
      BY <1>3
    <3>5. \A l, n \in Nat : i <= l /\ l <= n => i <= n
      BY <3>2
    <3>6. i <= Len(x) /\ i <= Len(z)
      BY <1>6, <3>3, <3>4, <3>5
    <3> QED BY <1>3, <3>1, <3>2, <3>6
  <2>3. x[i] \in Nat /\ y[i] \in Nat /\ z[i] \in Nat
    BY <1>3, <2>2
  <2>4. CASE k < i
    <3>1. k \in 1..Len(r) /\ k \in 1..Len(z) /\ k # Len(y) + 1 /\ k \in 1..(i - 1)
      <4>1. k \in 1..Len(z) /\ i \in 1..Len(y)
        OBVIOUS
      <4>2. k \in Nat /\ 1 <= k /\ k <= i - 1 /\ i \in Nat /\ i <= Len(y)
        BY <1>3, <2>4, <4>1
      <4> QED BY <1>3, <1>6, <4>1, <4>2
    <3>2. y[k] < z[k] /\ z[k] \in Nat
      BY <1>2, <1>3, <3>1
    <3>3. x[k] = y[k] /\ r[k] = x[k] /\ r[k] = z[k]
      BY <1>1, <1>4, <3>1
    <3> QED BY <3>2, <3>3
  <2>5. CASE k = i
    <3>1. y[i] < z[i]
      BY <1>2, <1>3, <2>2, <2>5
    <3> QED BY <2>1, <2>3, <3>1
  <2>6. CASE k > i
    <3>1. y[i] = z[i]
      BY <1>2, <1>3, <2>2, <2>6
    <3> QED BY <2>1, <2>3, <3>1
  <2> QED BY <1>2, <1>3, <2>2, <2>4, <2>5, <2>6
<1> QED BY <1>1, <1>3, <1>5, <1>6

-----------------------------------------------------------------------------
(* The OIDs of the map.                                                    *)

\* Every OID is a sequence of numbers.
LEMMA OidsAreSequences ==
    ASSUME NEW o \in Oids
    PROVE  o \in Seq(Nat)
<1>1. Phases \subseteq 1..3 /\ \A k \in Fresh : k \in Seq(Nat)
  BY ValuesAssumption
<1>2. \A p \in Phases : p \in Nat
  BY <1>1
<1>3. CASE o \in Sentry
  <2>1. Power \in Seq(Nat)
    BY DEF Power
  <2>2. \A p \in Phases : Current(p) \in Seq(Nat) /\ Voltage(p) \in Seq(Nat)
    BY <1>2 DEF Current, Voltage
  <2> QED BY <1>3, <2>1, <2>2 DEF Sentry
<1>4. CASE o \in Derived
  <2>1. InletPower \in Seq(Nat)
    BY DEF InletPower
  <2>2. \A p \in Phases : PoleCurrent(p) \in Seq(Nat) /\ PoleVoltage(p) \in Seq(Nat)
    BY <1>2 DEF PoleCurrent, PoleVoltage
  <2> QED BY <1>4, <2>1, <2>2 DEF Derived
<1>5. CASE o \in Switch
  <2>1. <<2, 2, 1>> \in Seq(Nat) /\ <<2, 99, 1>> \in Seq(Nat) /\ <<2, 99, 2>> \in Seq(Nat)
    OBVIOUS
  <2> QED BY <1>5, <2>1 DEF Switch
<1> QED BY <1>1, <1>3, <1>4, <1>5 DEF Oids

\* The OIDs that the map starts with, and those that the load drives.
BuiltIn == Sentry \cup Derived \cup Switch

\* The image of a function on a finite set is finite.
LEMMA FiniteImage ==
    ASSUME NEW f, IsFiniteSet(DOMAIN f)
    PROVE  IsFiniteSet({f[x] : x \in DOMAIN f})
<1> DEFINE T == {f[x] : x \in DOMAIN f}
           g == [x \in DOMAIN f |-> f[x]]
<1>1. g \in Surjection(DOMAIN f, T)
  BY DEF Surjection
<1> HIDE DEF T, g
<1>2. IsFiniteSet(T)
  BY <1>1, FS_Surjection
<1> QED BY <1>2 DEF T

\* There are finitely many built-in OIDs.
LEMMA BuiltInFinite == IsFiniteSet(BuiltIn)
<1>1. IsFiniteSet(Phases)
  <2>1. IsFiniteSet(1..3)
    <3>1. 1 \in Int /\ 3 \in Int
      OBVIOUS
    <3> QED BY <3>1, FS_Interval
  <2> QED BY <2>1, ValuesAssumption, FS_Subset
<1>2. IsFiniteSet({Current(p) : p \in Phases})
  <2> DEFINE f == [p \in Phases |-> Current(p)]
  <2>1. IsFiniteSet({f[p] : p \in DOMAIN f})
    <3>1. DOMAIN f = Phases
      OBVIOUS
    <3> HIDE DEF f
    <3> QED BY <1>1, <3>1, FiniteImage
  <2>2. {f[p] : p \in DOMAIN f} = {Current(p) : p \in Phases}
    OBVIOUS
  <2> QED BY <2>1, <2>2
<1>3. IsFiniteSet({Voltage(p) : p \in Phases})
  <2> DEFINE f == [p \in Phases |-> Voltage(p)]
  <2>1. IsFiniteSet({f[p] : p \in DOMAIN f})
    <3>1. DOMAIN f = Phases
      OBVIOUS
    <3> HIDE DEF f
    <3> QED BY <1>1, <3>1, FiniteImage
  <2>2. {f[p] : p \in DOMAIN f} = {Voltage(p) : p \in Phases}
    OBVIOUS
  <2> QED BY <2>1, <2>2
<1>4. IsFiniteSet({PoleCurrent(p) : p \in Phases})
  <2> DEFINE f == [p \in Phases |-> PoleCurrent(p)]
  <2>1. IsFiniteSet({f[p] : p \in DOMAIN f})
    <3>1. DOMAIN f = Phases
      OBVIOUS
    <3> HIDE DEF f
    <3> QED BY <1>1, <3>1, FiniteImage
  <2>2. {f[p] : p \in DOMAIN f} = {PoleCurrent(p) : p \in Phases}
    OBVIOUS
  <2> QED BY <2>1, <2>2
<1>5. IsFiniteSet({PoleVoltage(p) : p \in Phases})
  <2> DEFINE f == [p \in Phases |-> PoleVoltage(p)]
  <2>1. IsFiniteSet({f[p] : p \in DOMAIN f})
    <3>1. DOMAIN f = Phases
      OBVIOUS
    <3> HIDE DEF f
    <3> QED BY <1>1, <3>1, FiniteImage
  <2>2. {f[p] : p \in DOMAIN f} = {PoleVoltage(p) : p \in Phases}
    OBVIOUS
  <2> QED BY <2>1, <2>2
<1>6. IsFiniteSet({Power}) /\ IsFiniteSet({InletPower}) /\ IsFiniteSet(Switch)
  <2>1. Switch = {<<2, 2, 1>>} \cup {<<2, 99, 1>>} \cup {<<2, 99, 2>>}
    BY DEF Switch
  <2> QED BY <2>1, FS_Singleton, FS_Union
<1>7. IsFiniteSet(Sentry)
  BY <1>2, <1>3, <1>6, FS_Union DEF Sentry
<1>8. IsFiniteSet(Derived)
  BY <1>4, <1>5, <1>6, FS_Union DEF Derived
<1> QED BY <1>6, <1>7, <1>8, FS_Union DEF BuiltIn

\* The keys of a map with a First among any of them.
Listed(v) == DOMAIN v \subseteq Oids /\ IsFiniteSet(DOMAIN v)

\* A map of built-in OIDs is listed.
LEMMA BuiltInListed ==
    ASSUME NEW v, DOMAIN v \subseteq BuiltIn
    PROVE  Listed(v)
  BY BuiltInFinite, FS_Subset DEF Listed, BuiltIn, Oids

\* An extended map has the keys of both, and is listed if they are.
LEMMA ExtendListed ==
    ASSUME NEW v, NEW b
    PROVE  /\ DOMAIN Extend(v, b) = DOMAIN v \cup DOMAIN b
           /\ Listed(v) /\ Listed(b) => Listed(Extend(v, b))
<1>1. DOMAIN Extend(v, b) = DOMAIN v \cup DOMAIN b
  BY DEF Extend
<1> QED BY <1>1, FS_Union DEF Listed

\* The mirror of any map.
LEMMA MirrorListed ==
    ASSUME NEW v
    PROVE  DOMAIN Mirror(v) \subseteq BuiltIn
  BY DEF Mirror, BuiltIn

\* What the agent stores of its own is built in.
LEMMA OwnListed ==
    /\ Listed(initial_values)
    /\ \A v, d : Listed(v) => Listed(Tick(v, d)) /\ DOMAIN v \subseteq DOMAIN Tick(v, d)
    /\ \A v, w : Listed(Readings(w, v))
<1>0. 1 \in Phases
  BY ValuesAssumption
<1>1. Listed(initial_values)
  <2>1. DOMAIN sentry4_and_switch = Sentry \cup Switch
    BY DEF sentry4_and_switch
  <2>2. DOMAIN sentry4_and_switch \subseteq BuiltIn
    BY <2>1 DEF BuiltIn
  <2> QED BY <2>2, MirrorListed, BuiltInListed, ExtendListed DEF initial_values
<1>2. ASSUME NEW v, NEW d, Listed(v)
      PROVE  Listed(Tick(v, d)) /\ DOMAIN v \subseteq DOMAIN Tick(v, d)
  <2>1. \A x : Listed(Entry(Current(1), x))
    <3>1. \A x : DOMAIN Entry(Current(1), x) = {Current(1)}
      BY DEF Entry
    <3>2. {Current(1)} \subseteq BuiltIn
      BY <1>0 DEF BuiltIn, Sentry
    <3> QED BY <3>1, <3>2, BuiltInListed
  <2>2. CASE Current(1) \in d
    BY <1>2, <2>2 DEF Tick
  <2>3. CASE Current(1) \notin d
    <3>1. PICK x : Tick(v, d) = Extend(v, Entry(Current(1), x))
      BY <2>3 DEF Tick
    <3>2. Listed(Entry(Current(1), x))
      BY <2>1
    <3> DEFINE e == Entry(Current(1), x)
    <3> HIDE DEF e
    <3>3. /\ DOMAIN Extend(v, e) = DOMAIN v \cup DOMAIN e
          /\ Listed(v) /\ Listed(e) => Listed(Extend(v, e))
      BY ExtendListed
    <3>4. Tick(v, d) = Extend(v, e) /\ Listed(e)
      BY <3>1, <3>2 DEF e
    <3> QED BY <1>2, <3>3, <3>4
  <2> QED BY <2>2, <2>3
<1>3. ASSUME NEW v, NEW w
      PROVE  Listed(Readings(w, v))
  <2> DEFINE D == {Power} \cup {Current(p) : p \in Phases}
  <2>1. D \subseteq BuiltIn
    BY DEF BuiltIn, Sentry
  <2>2. PICK out : DOMAIN out = D /\ Readings(w, v) = Extend(out, Mirror(out))
    BY DEF Readings
  <2> HIDE DEF D
  <2>3. Listed(out) /\ Listed(Mirror(out))
    BY <2>1, <2>2, MirrorListed, BuiltInListed
  <2> QED BY <2>2, <2>3, ExtendListed
<1> QED BY <1>1, <1>2, <1>3

-----------------------------------------------------------------------------
(* The values served.                                                      *)

\* A 32-bit value is served as it is.
LEMMA FittingIsServed ==
    ASSUME NEW x, Fits(x)
    PROVE  Served(x) = x
<1>1. I32Half \in Nat \ {0}
  BY ValuesAssumption
<1>2. x \in Int /\ -I32Half <= x /\ x <= I32Half - 1
  BY <1>1 DEF Fits
<1> DEFINE m == 2 * I32Half
           y == x + I32Half
<1>3. m \in Nat /\ m > 0 /\ y \in Nat /\ y < m
  BY <1>1, <1>2
<1>4. ASSUME NEW a \in Nat, NEW b \in Nat, a < b
      PROVE  a % b = a
  BY <1>4
<1>5. y % m = y
  <2> HIDE DEF y, m
  <2> QED BY <1>3, <1>4
<1>6. y - I32Half = x
  BY <1>1, <1>2
<1>7. Served(x) = (y % m) - I32Half
  BY DEF Served, Wrap
<1> QED BY <1>5, <1>6, <1>7

-----------------------------------------------------------------------------
(* The inductive invariant of a walk.                                      *)

\* The manager's place is in the subtree, and what was there when it began
\* still is; whatever follows that place has been seen to.
PlaceKept == /\ Listed(store)
             /\ pos \in Seq(Nat) /\ IsPrefix(Root, pos)
             /\ phase \in {"walking", "done"}
             /\ began \subseteq Subtree \cap DOMAIN store
             /\ TrueNext(store, pos) \subseteq held
             /\ \A r \in load : Listed(r)

\* However late, an answer skips nothing that was there when the walk began.
Skipless(a) ==
    /\ a.val = <<>> => \A o \in began : ~Precedes(pos, o)
    /\ a.val # <<>> =>
         /\ a.oid \in Oids /\ Precedes(pos, a.oid)
         /\ \A o \in began : Precedes(pos, o) => o = a.oid \/ Precedes(a.oid, o)
         /\ \E h \in held : a.oid = h.oid /\ a.val = <<Served(h.val)>>

AnswersSkipless == \A a \in answers : Skipless(a)

\* What was there when the walk began is behind it or ahead.
BehindOrAhead ==
    /\ phase = "walking" => \A o \in began : o \in Visited \/ Precedes(pos, o)
    /\ phase = "done" => began \subseteq Visited /\ answers = {}

WalkInv == PlaceKept /\ AnswersSkipless /\ BehindOrAhead

\* It holds when the walk begins.
LEMMA WalkInvInit == WalkInit => WalkInv
<1> SUFFICES ASSUME WalkInit PROVE WalkInv
  OBVIOUS
<1> USE DEF WalkInit, Init
<1>1. PlaceKept
  <2>1. Listed(store)
    BY OwnListed
  <2>2. Root \in Seq(Nat) /\ IsPrefix(Root, Root)
    <3>1. Root \in Seq(Nat)
      BY WalkAssumption
    <3> QED BY <3>1, PrefixAt
  <2> QED BY <2>1, <2>2 DEF PlaceKept
<1>2. AnswersSkipless
  BY DEF AnswersSkipless
<1>3. BehindOrAhead
  <2>1. \A o \in began : Precedes(Root, o)
    <3>1. \A o \in began : o \in Oids /\ IsStrictPrefix(Root, o)
      BY DEF Subtree
    <3> QED BY <3>1, WalkAssumption, OidsAreSequences, RootPrecedes
  <2> QED BY <2>1 DEF BehindOrAhead
<1> QED BY <1>1, <1>2, <1>3 DEF WalkInv

\* A change of the map by the agent, which removes no OID, keeps it.
LEMMA ChangeKeepsInv ==
    ASSUME WalkInv, Changed, Listed(store'), DOMAIN store \subseteq DOMAIN store',
           load' \subseteq load
    PROVE  WalkInv'
<1> USE DEF Changed, walk
<1>1. PlaceKept'
  <2>1. UNCHANGED <<pos, phase, began>> /\ TrueNext(store, pos)' = TrueNext(store', pos)
    BY DEF TrueNext
  <2>2. (Subtree)' = Subtree
    BY DEF Subtree, Oids, Sentry, Derived, Switch, Power, Current, Voltage,
           InletPower, PoleCurrent, PoleVoltage
  <2>3. TrueNext(store', pos) \subseteq held'
    OBVIOUS
  <2> QED BY <2>1, <2>2, <2>3 DEF WalkInv, PlaceKept, Listed
<1>2. AnswersSkipless'
  <2>1. held \subseteq held' /\ UNCHANGED <<answers, began, pos>>
    OBVIOUS
  <2> QED BY <2>1 DEF WalkInv, AnswersSkipless, Skipless
<1>3. BehindOrAhead'
  BY DEF WalkInv, BehindOrAhead, Visited
<1> QED BY <1>1, <1>2, <1>3 DEF WalkInv

\* An answer is the next binding at the instant it is given.
LEMMA AnswerSkipless ==
    ASSUME PlaceKept
    PROVE  Skipless(Answer(store, TRUE, pos))
<1> DEFINE S == Following(store, pos)
<1>1. S \subseteq DOMAIN store /\ \A k \in S : Precedes(pos, k)
  BY DEF Following
<1>2. \A o \in began : Precedes(pos, o) => o \in S
  BY DEF PlaceKept, Following
<1>3. S \subseteq Oids /\ S \in SUBSET Seq(Nat) /\ IsFiniteSet(S)
  <2>1. DOMAIN store \subseteq Oids /\ IsFiniteSet(DOMAIN store)
    BY DEF PlaceKept, Listed
  <2> HIDE DEF S
  <2> QED BY <1>1, <2>1, FS_Subset, OidsAreSequences
<1>4. CASE S = {}
  <2>1. Answer(store, TRUE, pos) = [oid |-> pos, val |-> <<>>]
    BY <1>4 DEF Answer
  <2>2. Skipless([oid |-> pos, val |-> <<>>])
    <3>1. \A o \in began : ~Precedes(pos, o)
      BY <1>2, <1>4
    <3> QED BY <3>1 DEF Skipless
  <2> QED BY <2>1, <2>2
<1>5. CASE S # {}
  <2> DEFINE k == First(S)
             h == [oid |-> k, val |-> store[k]]
             a == [oid |-> k, val |-> <<Served(store[k])>>]
  <2>1. Answer(store, TRUE, pos) = a
    BY <1>5 DEF Answer
  <2>2. k \in S /\ \A m \in S \ {k} : Precedes(k, m)
    <3> HIDE DEF S
    <3> QED BY <1>3, <1>5, FirstIsLeast
  <2>3. \A m \in DOMAIN store : Precedes(pos, m) => m = k \/ Precedes(k, m)
    BY <2>2 DEF Following
  <2>4. h \in TrueNext(store, pos)
    <3> HIDE DEF k
    <3> QED BY <1>1, <2>2, <2>3 DEF TrueNext
  <2>5. h \in held
    BY <2>4 DEF PlaceKept
  <2>6. \A o \in began : Precedes(pos, o) => o = k \/ Precedes(k, o)
    BY <1>2, <2>2
  <2> HIDE DEF k, S
  <2>7. k \in Oids /\ Precedes(pos, k)
    BY <1>1, <1>3, <2>2
  <2>8. a.oid = h.oid /\ a.val = <<Served(h.val)>> /\ a.oid = k
    OBVIOUS
  <2> HIDE DEF h
  <2>9. a.val # <<>>
    <3>1. \A x : <<x>> # <<>>
      OBVIOUS
    <3> QED BY <3>1
  <2> HIDE DEF a
  <2>10. Skipless(a)
    BY <2>5, <2>6, <2>7, <2>8, <2>9 DEF Skipless
  <2> QED BY <2>1, <2>10
<1> QED BY <1>4, <1>5

\* To take an answer keeps it.
LEMMA GoOnKeepsInv ==
    ASSUME WalkInv, phase = "walking", GoOn
    PROVE  WalkInv'
<1>1. PICK a \in answers : /\ a.val # <<>> /\ IsPrefix(Root, a.oid)
                           /\ seen' = seen \cup {a} /\ pos' = a.oid /\ answers' = {}
                           /\ held' = TrueNext(store, a.oid)
                           /\ UNCHANGED <<store, owned, ans, phase, load, began>>
  BY DEF GoOn, vars
<1>2. /\ a.oid \in Oids
      /\ \A o \in began : Precedes(pos, o) => o = a.oid \/ Precedes(a.oid, o)
  BY <1>1 DEF WalkInv, AnswersSkipless, Skipless
<1>3. PlaceKept'
  <2>1. a.oid \in Seq(Nat)
    BY <1>2, OidsAreSequences
  <2>2. (Subtree)' = Subtree /\ (TrueNext(store, pos))' = TrueNext(store, a.oid)
    BY <1>1 DEF Subtree, TrueNext, Oids, Sentry, Derived, Switch, Power, Current, Voltage,
           InletPower, PoleCurrent, PoleVoltage
  <2> QED BY <1>1, <2>1, <2>2 DEF WalkInv, PlaceKept, Listed
<1>4. AnswersSkipless'
  BY <1>1 DEF AnswersSkipless
<1>5. BehindOrAhead'
  <2>1. Visited' = Visited \cup {a.oid}
    BY <1>1 DEF Visited
  <2>2. \A o \in began : o \in Visited' \/ Precedes(pos', o)
    BY <1>1, <1>2, <2>1 DEF WalkInv, BehindOrAhead
  <2> QED BY <1>1, <2>2 DEF BehindOrAhead
<1> QED BY <1>3, <1>4, <1>5 DEF WalkInv

\* So does an answer that ends the walk: nothing of the subtree is left ahead.
LEMMA FinishKeepsInv ==
    ASSUME WalkInv, phase = "walking", Finish
    PROVE  WalkInv'
<1>1. PICK a \in answers : /\ a.val = <<>> \/ ~IsPrefix(Root, a.oid)
                           /\ phase' = "done" /\ answers' = {}
                           /\ UNCHANGED <<store, owned, ans, pos, seen, load, began, held>>
  BY DEF Finish, vars
<1>2. \A o \in began : ~Precedes(pos, o)
  <2> SUFFICES ASSUME NEW o \in began, Precedes(pos, o) PROVE FALSE
    OBVIOUS
  <2>1. Skipless(a)
    BY <1>1 DEF WalkInv, AnswersSkipless
  <2>2. o \in Oids /\ IsPrefix(Root, o) /\ pos \in Seq(Nat) /\ IsPrefix(Root, pos)
    BY DEF WalkInv, PlaceKept, Subtree, IsStrictPrefix
  <2>3. a.val # <<>> /\ ~IsPrefix(Root, a.oid)
    BY <1>1, <2>1 DEF Skipless
  <2>4. a.oid \in Oids /\ Precedes(pos, a.oid) /\ (o = a.oid \/ Precedes(a.oid, o))
    BY <2>1, <2>3 DEF Skipless
  <2>5. Precedes(a.oid, o)
    BY <2>2, <2>3, <2>4
  <2>6. IsPrefix(Root, a.oid)
    BY <2>2, <2>4, <2>5, OidsAreSequences, WalkAssumption, NoGap
  <2> QED BY <2>3, <2>6
<1>3. PlaceKept'
  <2>1. (Subtree)' = Subtree /\ (TrueNext(store, pos))' = TrueNext(store, pos)
    BY <1>1 DEF Subtree, TrueNext, Oids, Sentry, Derived, Switch, Power, Current, Voltage,
           InletPower, PoleCurrent, PoleVoltage
  <2> QED BY <1>1, <2>1 DEF WalkInv, PlaceKept, Listed
<1>4. AnswersSkipless'
  BY <1>1 DEF AnswersSkipless
<1>5. BehindOrAhead'
  BY <1>1, <1>2 DEF WalkInv, BehindOrAhead, Visited
<1> QED BY <1>3, <1>4, <1>5 DEF WalkInv

\* Every step keeps it.
LEMMA WalkInvNext == WalkInv /\ [WalkNext]_allVars => WalkInv'
<1> SUFFICES ASSUME WalkInv, [WalkNext]_allVars PROVE WalkInv'
  OBVIOUS
<1>0. Listed(store)
  BY DEF WalkInv, PlaceKept
<1>1. CASE PutOids
  <2>1. PICK b \in Batches : Malformed \notin DOMAIN b /\ store' = Extend(store, b)
    BY <1>1 DEF PutOids, Write
  <2>2. Listed(b)
    BY <2>1, WalkAssumption DEF Listed
  <2>3. Listed(store') /\ DOMAIN store \subseteq DOMAIN store'
    BY <1>0, <2>1, <2>2, ExtendListed
  <2> QED BY <1>1, <2>3, ChangeKeepsInv DEF PutOids
<1>2. CASE DriftTick
  <2> DEFINE t == Tick(store, owned)
  <2>1. store' = Extend(t, Mirror(t)) /\ Changed /\ UNCHANGED load
    BY <1>2 DEF DriftTick
  <2>2. Listed(t) /\ DOMAIN store \subseteq DOMAIN t
    BY <1>0, OwnListed
  <2> HIDE DEF t
  <2>3. Listed(Mirror(t))
    BY MirrorListed, BuiltInListed
  <2>4. DOMAIN Extend(t, Mirror(t)) = DOMAIN t \cup DOMAIN Mirror(t)
    BY ExtendListed
  <2>5. Listed(Extend(t, Mirror(t)))
    BY <2>2, <2>3, ExtendListed
  <2> QED BY <2>1, <2>2, <2>4, <2>5, ChangeKeepsInv
<1>3. CASE LoadClaim
  BY <1>0, <1>3, ChangeKeepsInv DEF LoadClaim, Claim
<1>4. CASE LoadUpdate
  <2>1. PICK r \in load : store' = Extend(store, r)
    BY <1>4 DEF LoadUpdate
  <2>2. Listed(r) /\ Changed /\ load' = {}
    BY <1>4, <2>1 DEF LoadUpdate, WalkInv, PlaceKept
  <2>3. Listed(store') /\ DOMAIN store \subseteq DOMAIN store'
    BY <1>0, <2>1, <2>2, ExtendListed
  <2> QED BY <2>2, <2>3, ChangeKeepsInv
<1>5. CASE Serve
  <2> DEFINE n == Answer(store, TRUE, pos)
  <2>1. /\ phase = "walking" /\ answers' = answers \cup {n}
        /\ UNCHANGED <<store, phase, pos, seen, load, began, held>>
    BY <1>5 DEF Serve, vars
  <2>2. Skipless(n)
    BY AnswerSkipless DEF WalkInv
  <2> HIDE DEF n
  <2>3. PlaceKept'
    <3>1. (Subtree)' = Subtree /\ (TrueNext(store, pos))' = TrueNext(store, pos)
      BY <2>1 DEF Subtree, TrueNext, Oids, Sentry, Derived, Switch, Power, Current,
             Voltage, InletPower, PoleCurrent, PoleVoltage
    <3> QED BY <2>1, <3>1 DEF WalkInv, PlaceKept, Listed
  <2>4. AnswersSkipless'
    <3>1. \A a \in answers \cup {n} : Skipless(a)
      BY <2>2 DEF WalkInv, AnswersSkipless
    <3> QED BY <2>1, <3>1 DEF AnswersSkipless, Skipless
  <2>5. BehindOrAhead'
    BY <2>1 DEF WalkInv, BehindOrAhead, Visited
  <2> QED BY <2>3, <2>4, <2>5 DEF WalkInv
<1>6. CASE GoOn \/ Finish
  <2>1. answers # {}
    BY <1>6 DEF GoOn, Finish
  <2>2. phase = "walking"
    BY <2>1 DEF WalkInv, PlaceKept, BehindOrAhead
  <2> QED BY <1>6, <2>2, GoOnKeepsInv, FinishKeepsInv
<1>7. CASE UNCHANGED allVars
  <2>1. UNCHANGED <<store, phase, pos, answers, seen, load, began, held>>
    BY <1>7 DEF allVars, vars, walk
  <2>2. (Subtree)' = Subtree /\ (TrueNext(store, pos))' = TrueNext(store, pos)
    BY <2>1 DEF Subtree, TrueNext, Oids, Sentry, Derived, Switch, Power, Current,
           Voltage, InletPower, PoleCurrent, PoleVoltage
  <2> QED BY <2>1, <2>2 DEF WalkInv, PlaceKept, Listed, AnswersSkipless, Skipless,
                         BehindOrAhead, Visited
<1>8. CASE LoadReads
  <2>1. PICK w \in NodeDraws : load' = {Readings(w, store)}
    BY <1>8 DEF LoadReads
  <2>2. UNCHANGED <<store, phase, pos, answers, seen, began, held>>
    BY <1>8 DEF LoadReads, vars, walk
  <2>3. \A r \in load' : Listed(r)
    BY <2>1, OwnListed
  <2>4. (Subtree)' = Subtree /\ (TrueNext(store, pos))' = TrueNext(store, pos)
    BY <2>2 DEF Subtree, TrueNext, Oids, Sentry, Derived, Switch, Power, Current,
           Voltage, InletPower, PoleCurrent, PoleVoltage
  <2>5. PlaceKept'
    BY <2>2, <2>3, <2>4 DEF WalkInv, PlaceKept, Listed
  <2>6. AnswersSkipless' /\ BehindOrAhead'
    BY <2>2 DEF WalkInv, AnswersSkipless, Skipless, BehindOrAhead, Visited
  <2> QED BY <2>5, <2>6 DEF WalkInv
<1> QED BY <1>1, <1>2, <1>3, <1>4, <1>5, <1>6, <1>7, <1>8 DEF WalkNext

\* It holds of every walk.
LEMMA WalkInvariant == WalkSpec => []WalkInv
<1> QED BY WalkInvInit, WalkInvNext, PTL DEF WalkSpec

-----------------------------------------------------------------------------
(* What it gives.                                                          *)

\* A walk that ends has visited every OID of its subtree that was there when it
\* began, whatever root it has, whatever PUTs create and in whatever order they,
\* the drift and the load fall between its requests (main.rs:185-191).
THEOREM WalkMissesNothing == WalkSpec => []WalkComplete
<1>1. WalkInv => WalkComplete
  BY DEF WalkInv, BehindOrAhead, WalkComplete
<1> QED BY <1>1, WalkInvariant, PTL

\* Every binding that a walk takes was the next one after the last it took, with
\* the value stored then if it has 32 bits, at one instant since it was asked
\* for, however late its answer (main.rs:185-191, main.rs:198).
THEOREM BindingsWereNext == WalkSpec => WalkReads
<1> DEFINE TakesNext == \A a \in seen' \ seen : \E h \in held :
                            /\ a.oid = h.oid /\ a.val # <<>>
                            /\ Fits(h.val) => a.val = <<h.val>>
<1>1. WalkInv /\ [WalkNext]_allVars => [TakesNext]_allVars
  <2> SUFFICES ASSUME WalkInv, WalkNext PROVE TakesNext
    OBVIOUS
  <2>1. CASE GoOn
    <3>1. PICK a \in answers : a.val # <<>> /\ seen' = seen \cup {a}
      BY <2>1 DEF GoOn
    <3>2. PICK h \in held : a.oid = h.oid /\ a.val = <<Served(h.val)>>
      BY <3>1 DEF WalkInv, AnswersSkipless, Skipless
    <3>3. Fits(h.val) => a.val = <<h.val>>
      BY <3>2, FittingIsServed
    <3> QED BY <3>1, <3>2, <3>3
  <2>2. CASE ~GoOn
    <3>1. seen' = seen
      BY <2>2 DEF WalkNext, PutOids, DriftTick, LoadReads, LoadClaim, LoadUpdate, Changed,
             Serve, Finish, walk
    <3> QED BY <3>1
  <2> QED BY <2>1, <2>2
<1> HIDE DEF TakesNext
<1>2. WalkSpec => [][TakesNext]_allVars
  BY <1>1, WalkInvariant, PTL DEF WalkSpec
<1> QED BY <1>2 DEF WalkReads, TakesNext
=============================================================================
