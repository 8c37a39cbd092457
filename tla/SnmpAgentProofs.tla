--------------------------- MODULE SnmpAgentProofs --------------------------
(***************************************************************************)
(* Proofs about SnmpAgent: its types, its mutual exclusion, its freedom    *)
(* from deadlock, the consistency of its replies, the survival of driven   *)
(* values, and that it implements OidStore, for any number of clients and  *)
(* pollers.                                                                *)
(***************************************************************************)
EXTENDS SnmpAgent, FiniteSetTheorems, TLAPS

-----------------------------------------------------------------------------
(* The operators on maps stay within maps from OIDs to integers.           *)

\* Extending a map by a map gives a map, with the keys of both.
LEMMA ExtendType ==
    ASSUME NEW v, IsMap(v), NEW b, IsMap(b)
    PROVE  /\ IsMap(Extend(v, b))
           /\ DOMAIN Extend(v, b) = DOMAIN v \cup DOMAIN b
  BY DEF IsMap, Extend

\* A map of one entry.
LEMMA SingleType ==
    ASSUME NEW o \in Oids, NEW x \in Int
    PROVE  IsMap(Entry(o, x)) /\ DOMAIN Entry(o, x) = {o}
  BY DEF IsMap, Entry

\* Wrapping gives an integer.
LEMMA WrapType ==
    ASSUME NEW x \in Int, NEW h \in Nat \ {0}
    PROVE  Wrap(x, h) \in Int
  BY DEF Wrap

\* So does the conversion of a voltage.
LEMMA LineToLineType ==
    ASSUME NEW v \in Int
    PROVE  LineToLine(v) \in Int
<1> DEFINE low == (173 * Abs(v)) \div 1000
           R == (low + 1)..((174 * Abs(v)) \div 1000 + 1)
           S == {k \in R : (20 * k - 10) * (20 * k - 10) < 12 * v * v}
<1>1. low \in Int /\ low + 1 \in Int /\ (174 * Abs(v)) \div 1000 + 1 \in Int
  BY DEF Abs
<1>2. IsFiniteSet(R)
  BY <1>1, FS_Interval
<1>3. S \subseteq R
  OBVIOUS
<1>4. IsFiniteSet(S)
  <2> HIDE DEF S, R
  <2> QED BY <1>2, <1>3, FS_Subset
<1>5. Cardinality(S) \in Nat
  <2> HIDE DEF S
  <2> QED BY <1>4, FS_CardinalityType
<1>6. LineToLine(v) = IF v < 0 THEN -(low + Cardinality(S)) ELSE low + Cardinality(S)
  BY DEF LineToLine
<1> QED
  <2> HIDE DEF S, low
  <2> QED BY <1>1, <1>5, <1>6

\* And the rounded, saturated quotient of a load reading.
LEMMA ToI64Type ==
    ASSUME NEW n \in Int, NEW d \in Int
    PROVE  ToI64(n, d) \in Int
<1>1. I64Half \in Int
  BY ValuesAssumption
<1>2. CASE d = 0
  BY <1>1, <1>2 DEF ToI64
<1>3. CASE d # 0
  <2> DEFINE q == (2 * Abs(n) + Abs(d)) \div (2 * Abs(d))
  <2>1. 2 * Abs(n) + Abs(d) \in Int /\ 2 * Abs(d) \in Nat \ {0}
    BY <1>3 DEF Abs
  <2>2. q \in Int
    BY <2>1
  <2>3. ToI64(n, d) \in {0, q, -q, I64Half - 1, -I64Half}
    BY <1>3, <2>2 DEF ToI64
  <2> HIDE DEF q
  <2> QED BY <1>1, <2>2, <2>3
<1> QED BY <1>2, <1>3

\* The mirror of a map is a map of Raritan OIDs.
LEMMA MirrorType ==
    ASSUME NEW v, IsMap(v)
    PROVE  IsMap(Mirror(v)) /\ DOMAIN Mirror(v) \subseteq Derived
<1>1. \A r, x : x \in Int => Converted(r, x) \in Int
  <2> TAKE r, x
  <2> HAVE x \in Int
  <2>1. 10 * x \in Int /\ I64Half \in Nat \ {0}
    BY ValuesAssumption
  <2> QED BY <2>1, WrapType, LineToLineType DEF Converted
<1>2. \A r \in DOMAIN Mirror(v) : v[Source(r)] \in Int
  BY DEF Mirror, IsMap
<1>3. Derived \subseteq Oids
  BY DEF Oids
<1> QED BY <1>1, <1>2, <1>3 DEF Mirror, IsMap

\* The readings taken from a map, and their mirror, are a map.
LEMMA ReadingsType ==
    ASSUME NEW v, IsMap(v), NEW w \in Nat
    PROVE  IsMap(Readings(w, v))
<1> DEFINE volts(p) == IF Voltage(p) \in DOMAIN v THEN v[Voltage(p)] ELSE 2400
           D == {Power} \cup {Current(p) : p \in Phases}
           out == [o \in D |-> IF o = Power THEN InputWatts(w)
                               ELSE PhaseCurrent(w, volts(o[4]))]
<1>1. InputWatts(w) \in Int
  BY ToI64Type, ValuesAssumption, Nodes * w + BaseW \in Int DEF InputWatts
<1>2. ASSUME NEW x \in Int PROVE PhaseCurrent(w, x) \in Int
  <2>1. (Nodes * w + BaseW) * 1000 \in Int /\ Share * 3 * x \in Int
    <3>1. Nodes * w + BaseW \in Int /\ Share * 3 \in Int
      BY ValuesAssumption
    <3> QED BY <3>1
  <2> QED BY <2>1, ToI64Type DEF PhaseCurrent
<1>3. \A p : volts(p) \in Int
  BY DEF IsMap
<1>4. D \subseteq Oids
  BY DEF Oids, Sentry
<1>5. IsMap(out)
  <2> HIDE DEF volts
  <2> QED BY <1>1, <1>2, <1>3, <1>4 DEF IsMap
<1>6. IsMap(Extend(out, Mirror(out)))
  <2> HIDE DEF out
  <2> QED BY <1>5, MirrorType, ExtendType
<1> QED BY <1>6 DEF Readings

\* A tick leaves a map, and adds no key but its own.
LEMMA TickType ==
    ASSUME NEW v, IsMap(v), NEW owned
    PROVE  IsMap(Tick(v, owned))
<1> DEFINE cur == IF Current(1) \in DOMAIN v THEN v[Current(1)] ELSE SawMin
           next == IF cur + SawStep > SawMax THEN SawMin ELSE cur + SawStep
<1>1. Current(1) \in Oids
  BY ValuesAssumption DEF Oids, Sentry
<1>2. next \in Int
  BY ValuesAssumption DEF IsMap
<1>3. IsMap(Extend(v, Entry(Current(1), next)))
  <2> HIDE DEF next
  <2> QED BY <1>1, <1>2, SingleType, ExtendType
<1> QED BY <1>3 DEF Tick

\* The map the agent starts with.
LEMMA InitialType == IsMap(initial_values)
<1> DEFINE at(o) == sentry4_and_switch[o]
<1>1. Phases \subseteq {1, 2, 3}
  BY ValuesAssumption
<1>2. at(Power) \in Int
  BY DEF sentry4_and_switch, Sentry
<1>3. \A p \in Phases : at(Current(p)) \in Int /\ at(Voltage(p)) \in Int
  BY <1>1 DEF sentry4_and_switch, Sentry, Current, Voltage, Power
<1>4. \A o \in Switch : at(o) \in Int
  BY DEF sentry4_and_switch, Switch, Power
<1>5. \A o \in Sentry \cup Switch : at(o) \in Int
  <2> HIDE DEF at
  <2> QED BY <1>2, <1>3, <1>4 DEF Sentry
<1>6. IsMap(sentry4_and_switch)
  <2>1. sentry4_and_switch = [o \in Sentry \cup Switch |-> sentry4_and_switch[o]]
    BY DEF sentry4_and_switch
  <2>2. DOMAIN sentry4_and_switch = Sentry \cup Switch
    BY DEF sentry4_and_switch
  <2> QED BY <1>5, <2>1, <2>2 DEF IsMap, Oids
<1> QED BY <1>6, MirrorType, ExtendType DEF initial_values

-----------------------------------------------------------------------------
(* Types.                                                                  *)

\* Appending to a sequence gives a sequence one longer.
LEMMA AppendSeq ==
    ASSUME NEW s, IsSeq(s), NEW e
    PROVE  /\ IsSeq(Append(s, e))
           /\ Len(Append(s, e)) = Len(s) + 1
           /\ \A i \in 1..Len(s) : Append(s, e)[i] = s[i]
           /\ Append(s, e)[Len(s) + 1] = e
<1> DEFINE R == {s[i] : i \in DOMAIN s} \cup {e}
           a == Append(s, e)
<1>1. s \in Seq(R) /\ e \in R
  BY DEF IsSeq
<1>2. a \in Seq(R) /\ Len(a) = Len(s) + 1
  <2> HIDE DEF R
  <2> QED BY <1>1
<1>3. (\A i \in 1..Len(s) : a[i] = s[i]) /\ a[Len(s) + 1] = e
  <2> HIDE DEF R
  <2> QED BY <1>1
<1>4. a \in Seq({a[i] : i \in DOMAIN a})
  <2> DEFINE Q == {a[i] : i \in DOMAIN a}
  <2>1. \A i \in 1..Len(a) : a[i] \in Q
    BY <1>2
  <2>2. a = [i \in 1..Len(a) |-> a[i]] /\ Len(a) \in Nat
    <3> HIDE DEF a, R
    <3> QED BY <1>2
  <2> HIDE DEF a, Q
  <2> QED BY <2>1, <2>2
<1> QED BY <1>2, <1>3, <1>4 DEF IsSeq

\* The types are right at every step: no malformed OID gets into a map, and a
\* poller inside a handler has its request (every action of SnmpAgent).
THEOREM TypeCorrect == Spec => []TypeOK
<1> USE DEF Goto, Acquire, Release, data, polls, Labels
<1>1. Init => TypeOK
  BY InitialType, AgentAssumption
     DEF Init, TypeOK, Tasks, Writers, Nothing, IsSeq
<1>2. TypeOK /\ [Next]_vars => TypeOK'
  <2> SUFFICES ASSUME TypeOK, [Next]_vars PROVE TypeOK'
    OBVIOUS
  <2>1. CASE SimWake
    BY <2>1 DEF SimWake, TypeOK, Tasks, Writers, Locks, IsMap
  <2>2. CASE SimTakeDriven
    BY <2>2 DEF SimTakeDriven, TypeOK, Tasks, Writers, Locks, IsMap
  <2>3. CASE SimTakeValues
    BY <2>3 DEF SimTakeValues, TypeOK, Tasks, Writers, Locks, IsMap
  <2>4. CASE SimTick
    BY <2>4, TickType DEF SimTick, TypeOK, Tasks, Writers, Locks, IsMap
  <2>5. CASE SimMirror
    BY <2>5, MirrorType, ExtendType DEF SimMirror, TypeOK, Tasks, Writers, Locks, IsMap
  <2>6. CASE PduFetched
    BY <2>6 DEF PduFetched, TypeOK, Tasks, Writers, Locks, IsMap
  <2>7. CASE PduFetchFailed
    BY <2>7 DEF PduFetchFailed, TypeOK, Tasks, Writers, Locks, IsMap
  <2>8. CASE PduWake
    BY <2>8 DEF PduWake, TypeOK, Tasks, Writers, Locks, IsMap
  <2>9. CASE PduSnapshot
    <3>1. PICK w \in NodeDraws : rest' = [rest EXCEPT ![Pdu] = Readings(w, values)]
      BY <2>9 DEF PduSnapshot
    <3>2. IsMap(Readings(w, values))
      BY ReadingsType, AgentAssumption DEF TypeOK
    <3> HIDE DEF Goto
    <3>3. pc' \in [Tasks -> Labels] /\ \A t \in Tasks \ {Pdu} : pc'[t] = pc[t]
      BY <2>9 DEF PduSnapshot, Goto, TypeOK, Tasks
    <3>4. UNCHANGED <<values, driven, holder, req, got>>
      BY <2>9 DEF PduSnapshot
    <3>5. /\ DOMAIN rest' = Writers
          /\ \A t \in Writers : rest'[t] = IF t = Pdu THEN Readings(w, values)
                                           ELSE rest[t]
      BY <3>1 DEF TypeOK, Writers
    <3>6. \A t \in Writers : /\ rest'[t] \in [DOMAIN rest'[t] -> Int]
                             /\ pc'[t] # "parse" => DOMAIN rest'[t] \subseteq Oids
                             /\ DOMAIN rest'[t] \subseteq Oids \cup {Malformed}
      BY <3>2, <3>3, <3>5 DEF TypeOK, IsMap, Writers, Tasks
    <3>7. Pdu \notin Pollers /\ Pollers \subseteq Tasks
      BY AgentAssumption DEF Tasks
    <3> QED BY <3>3, <3>4, <3>5, <3>6, <3>7 DEF TypeOK, IsMap
  <2>10. CASE PduClaim
    BY <2>10 DEF PduClaim, TypeOK, Tasks, Writers, Locks, IsMap
  <2>11. CASE PduTakeValues
    BY <2>11 DEF PduTakeValues, TypeOK, Tasks, Writers, Locks, IsMap
  <2>12. ASSUME NEW t \in Writers, WriteEntry(t) PROVE TypeOK'
    <3>1. PICK o \in DOMAIN rest[t] :
            /\ values' = Extend(values, Entry(o, rest[t][o]))
            /\ driven' = driven \cup {o}
            /\ rest' = [rest EXCEPT ![t] =
                            [x \in DOMAIN rest[t] \ {o} |-> rest[t][x]]]
      BY <2>12 DEF WriteEntry
    <3>2. pc[t] = "write" /\ pc' = pc /\ UNCHANGED <<holder, req, got>>
      BY <2>12 DEF WriteEntry, TypeOK
    <3>3. o \in Oids /\ rest[t][o] \in Int
      BY <3>2 DEF TypeOK
    <3>4. IsMap(values')
      BY <3>1, <3>3, SingleType, ExtendType DEF TypeOK
    <3>5. /\ DOMAIN rest' = Writers
          /\ \A w \in Writers : rest'[w] =
                IF w = t THEN [x \in DOMAIN rest[t] \ {o} |-> rest[t][x]]
                ELSE rest[w]
      BY <3>1 DEF TypeOK
    <3>6. \A w \in Writers : /\ rest'[w] \in [DOMAIN rest'[w] -> Int]
                             /\ pc'[w] # "parse" => DOMAIN rest'[w] \subseteq Oids
                             /\ DOMAIN rest'[w] \subseteq Oids \cup {Malformed}
      BY <3>2, <3>5 DEF TypeOK
    <3> QED BY <3>1, <3>2, <3>3, <3>4, <3>5, <3>6 DEF TypeOK
  <2>13. ASSUME NEW t \in Writers, NEW l \in {"idle", "sleep"}, WriteDone(t, l) PROVE TypeOK'
    BY <2>13 DEF WriteDone, TypeOK, Tasks, Writers, Locks
  <2>14. ASSUME NEW c \in Clients, Put(c) PROVE TypeOK'
    BY <2>14, AgentAssumption DEF Put, TypeOK, Tasks, Writers, Locks, Nothing
  <2>15. ASSUME NEW c \in Clients, PutReject(c) PROVE TypeOK'
    BY <2>15 DEF PutReject, TypeOK, Tasks, Writers, Locks, Nothing
  <2>16. ASSUME NEW c \in Clients, PutParsed(c) PROVE TypeOK'
    BY <2>16 DEF PutParsed, TypeOK, Tasks, Writers, Locks, Nothing
  <2>17. ASSUME NEW c \in Clients, PutTakeDriven(c) PROVE TypeOK'
    BY <2>17 DEF PutTakeDriven, TypeOK, Tasks, Writers, Locks, Nothing
  <2>18. ASSUME NEW c \in Clients, PutTakeValues(c) PROVE TypeOK'
    BY <2>18 DEF PutTakeValues, TypeOK, Tasks, Writers, Locks, Nothing
  <2>19. ASSUME NEW p \in Pollers, Receive(p) PROVE TypeOK'
    BY <2>19 DEF Receive, TypeOK, Tasks, Locks, IsSeq
  <2>20. ASSUME NEW p \in Pollers, TakeState(p) PROVE TypeOK'
    BY <2>20 DEF TakeState, TypeOK, Tasks, Locks, IsSeq
  <2>21. ASSUME NEW p \in Pollers, Discover(p) PROVE TypeOK'
    <3>1. IsSeq(Report)
      BY Report \in Seq({Report[1]}) DEF IsSeq, Report
    <3> HIDE DEF Report
    <3> QED BY <2>21, <3>1 DEF Discover, TypeOK, Tasks, Locks, IsMap
  <2>22. ASSUME NEW p \in Pollers, Drop(p) PROVE TypeOK'
    BY <2>22 DEF Drop, TypeOK, Tasks, Locks, IsSeq
  <2>23. ASSUME NEW p \in Pollers, Verified(p) PROVE TypeOK'
    BY <2>23 DEF Verified, TypeOK, Tasks, Locks, IsSeq
  <2>24. ASSUME NEW p \in Pollers, TakeValues(p) PROVE TypeOK'
    <3>1. pc[p] # "idle" /\ pc' \in [Tasks -> Labels]
      BY <2>24 DEF TakeValues, TypeOK, Tasks
    <3>2. \A t \in Tasks \ {p} : pc'[t] = pc[t]
      BY <2>24 DEF TakeValues, TypeOK, Tasks
    <3>3. pc[p] # "parse" /\ pc'[p] # "parse"
      BY <2>24 DEF TakeValues, TypeOK, Tasks
    <3>4. /\ UNCHANGED <<values, driven, rest, req, got>>
          /\ holder' \in [Locks -> Tasks \cup {None}]
      BY <2>24 DEF TakeValues, TypeOK, Tasks, Locks
    <3>5. \A q \in Pollers : pc'[q] # "idle" => req[q] \in Requests
      BY <3>1, <3>2 DEF TypeOK, Tasks
    <3>6. \A w \in Writers : pc'[w] # "parse" => DOMAIN rest[w] \subseteq Oids
      BY <3>2, <3>3 DEF TypeOK, Tasks, Writers
    <3> QED BY <3>1, <3>4, <3>5, <3>6 DEF TypeOK, IsMap, IsSeq
  <2>25. ASSUME NEW p \in Pollers, ReadBinding(p) PROVE TypeOK'
    <3>1. IsSeq(Append(got[p], Binding(p)))
      BY AppendSeq DEF TypeOK
    <3>2. /\ got' = [got EXCEPT ![p] = Append(got[p], Binding(p))]
          /\ UNCHANGED <<values, driven, holder, pc, rest, req>>
      BY <2>25 DEF ReadBinding
    <3>3. /\ DOMAIN got' = Pollers
          /\ \A q \in Pollers : got'[q] = IF q = p THEN Append(got[p], Binding(p))
                                          ELSE got[q]
      BY <3>2 DEF TypeOK
    <3> QED BY <3>1, <3>2, <3>3 DEF TypeOK
  <2>26. ASSUME NEW p \in Pollers, ReadDone(p) PROVE TypeOK'
    <3>1. pc[p] # "idle" /\ pc' \in [Tasks -> Labels]
      BY <2>26 DEF ReadDone, TypeOK, Tasks
    <3>2. \A t \in Tasks \ {p} : pc'[t] = pc[t]
      BY <2>26 DEF ReadDone, TypeOK, Tasks
    <3>3. pc[p] # "parse" /\ pc'[p] # "parse"
      BY <2>26 DEF ReadDone, TypeOK, Tasks
    <3>4. /\ UNCHANGED <<values, driven, rest, req, got>>
          /\ holder' \in [Locks -> Tasks \cup {None}]
      BY <2>26 DEF ReadDone, TypeOK, Tasks, Locks
    <3>5. \A q \in Pollers : pc'[q] # "idle" => req[q] \in Requests
      BY <3>1, <3>2 DEF TypeOK, Tasks
    <3>6. \A w \in Writers : pc'[w] # "parse" => DOMAIN rest[w] \subseteq Oids
      BY <3>2, <3>3 DEF TypeOK, Tasks, Writers
    <3> QED BY <3>1, <3>4, <3>5, <3>6 DEF TypeOK, IsMap, IsSeq
  <2>27. ASSUME NEW p \in Pollers, Encode(p) PROVE TypeOK'
    BY <2>27 DEF Encode, TypeOK, Tasks, Locks, IsSeq
  <2>28. ASSUME NEW p \in Pollers, Send(p) PROVE TypeOK'
    BY <2>28 DEF Send, TypeOK, Tasks, Locks, IsSeq
  <2>29. CASE UNCHANGED vars
    BY <2>29 DEF vars, TypeOK, IsSeq, IsMap
  <2>30. ASSUME NEW p \in Pollers, Panic(p) \/ EncodeFails(p) PROVE TypeOK'
    <3>1. GiveUp(p) /\ p \in Tasks /\ pc[p] # "parse"
      BY <2>30 DEF Panic, EncodeFails, Tasks
    <3>2. /\ pc' \in [Tasks -> Labels] /\ pc'[p] = "idle"
          /\ \A t \in Tasks \ {p} : pc'[t] = pc[t]
      BY <3>1 DEF GiveUp, TypeOK, Labels
    <3>3. holder' \in [Locks -> Tasks \cup {None}]
      BY <3>1 DEF GiveUp, TypeOK
    <3>4. /\ UNCHANGED <<values, driven, rest>>
          /\ req' = [req EXCEPT ![p] = None] /\ got' = [got EXCEPT ![p] = <<>>]
      BY <3>1 DEF GiveUp, data
    <3>5. /\ req' \in [Pollers -> Requests \cup {None}]
          /\ \A q \in Pollers : pc'[q] # "idle" => req'[q] \in Requests
      BY <3>2, <3>4 DEF TypeOK, Tasks
    <3>6. \A w \in Writers : pc'[w] # "parse" => DOMAIN rest[w] \subseteq Oids
      BY <3>1, <3>2 DEF TypeOK, Tasks, Writers
    <3>7. DOMAIN got' = Pollers /\ \A q \in Pollers : IsSeq(got'[q])
      BY <3>4 DEF TypeOK, IsSeq
    <3> QED BY <3>2, <3>3, <3>4, <3>5, <3>6, <3>7 DEF TypeOK, IsMap
  <2> QED BY <2>1, <2>2, <2>3, <2>4, <2>5, <2>6, <2>7, <2>8, <2>9, <2>10, <2>11, <2>12, <2>13, <2>14, <2>15, <2>16, <2>17, <2>18, <2>19, <2>20, <2>21, <2>22, <2>23, <2>24, <2>25, <2>26, <2>27, <2>28, <2>29, <2>30 DEF Next, SimStep, PduStep, PduGoOn, PutStep, PollStep, Writers
<1> QED BY <1>1, <1>2, PTL DEF Spec

-----------------------------------------------------------------------------
(* Locks.                                                                  *)

LockTypes == holder \in [Locks -> Tasks \cup {None}] /\ pc \in [Tasks -> Labels]

\* A step of one task that takes and releases nothing.
LEMMA MoveInside ==
    ASSUME LockTypes, LockInv, NEW t \in Tasks, NEW from, NEW to \in Labels,
           Goto(t, from, to), holder' = holder,
           \A l \in Locks : from \in HoldsAt[l] <=> to \in HoldsAt[l]
    PROVE  LockInv'
  BY DEF LockTypes, LockInv, Goto

\* A step of one task that takes a free mutex.
LEMMA MoveIn ==
    ASSUME LockTypes, LockInv, NEW t \in Tasks, NEW from, NEW to \in Labels,
           NEW m \in Locks, Goto(t, from, to), Acquire(t, m),
           \A l \in Locks : to \in HoldsAt[l] <=> from \in HoldsAt[l] \/ l = m
    PROVE  LockInv'
<1> None \notin Tasks
  BY AgentAssumption
<1> QED BY DEF LockTypes, LockInv, Goto, Acquire

\* A step of one task that releases mutexes it holds.
LEMMA MoveOut ==
    ASSUME LockTypes, LockInv, NEW t \in Tasks, NEW from, NEW to \in Labels,
           NEW S \in SUBSET Locks, Goto(t, from, to), Release(S),
           \A l \in S : from \in HoldsAt[l],
           \A l \in Locks : to \in HoldsAt[l] <=> from \in HoldsAt[l] /\ l \notin S
    PROVE  LockInv'
<1> None \notin Tasks
  BY AgentAssumption
<1> QED BY DEF LockTypes, LockInv, Goto, Release

\* The end of a task drops every mutex it holds.
LEMMA MoveAway ==
    ASSUME LockTypes, LockInv, NEW t \in Tasks, pc' = [pc EXCEPT ![t] = "idle"],
           holder' = [l \in Locks |-> IF holder[l] = t THEN None ELSE holder[l]]
    PROVE  LockInv'
<1>1. None \notin Tasks /\ \A l \in Locks : "idle" \notin HoldsAt[l]
  BY AgentAssumption DEF HoldsAt, Locks
<1>2. \A l \in Locks, u \in Tasks \ {t} : holder'[l] = u <=> holder[l] = u
  BY <1>1
<1>3. \A l \in Locks : holder'[l] # t
  BY <1>1
<1> QED BY <1>1, <1>2, <1>3 DEF LockTypes, LockInv, HoldsAt

\* A task is at a point inside a mutex exactly while it holds that mutex
\* (every lock().await and every scope that ends one).
THEOREM MutualExclusion == Spec => []LockInv
<1>1. Init => LockInv
  BY AgentAssumption DEF Init, LockInv, HoldsAt, Tasks, Locks
<1>2. TypeOK /\ LockInv /\ [Next]_vars => LockInv'
  <2> SUFFICES ASSUME TypeOK, LockInv, [Next]_vars PROVE LockInv'
    OBVIOUS
  <2> LockTypes
    BY DEF LockTypes, TypeOK
  <2> USE DEF HoldsAt
  <2>1. CASE SimWake
    BY <2>1, MoveInside DEF SimWake, Tasks, Writers, Locks, Labels
  <2>2. CASE SimTakeDriven
    BY <2>2, MoveIn DEF SimTakeDriven, Tasks, Writers, Locks, Labels
  <2>3. CASE SimTakeValues
    BY <2>3, MoveIn DEF SimTakeValues, Tasks, Writers, Locks, Labels
  <2>4. CASE SimTick
    BY <2>4, MoveInside DEF SimTick, Tasks, Writers, Locks, Labels
  <2>5. CASE SimMirror
    <3>1. /\ {"driven", "values"} \in SUBSET Locks
          /\ Sim \in Tasks /\ "sleep" \in Labels
          /\ Goto(Sim, "mirror", "sleep") /\ Release({"driven", "values"})
      BY <2>5 DEF SimMirror, Tasks, Locks, Labels
    <3> QED BY <3>1, MoveOut DEF Locks
  <2>6. CASE PduFetched
    BY <2>6, MoveInside DEF PduFetched, Tasks, Writers, Locks, Labels
  <2>7. CASE PduFetchFailed
    BY <2>7, MoveInside DEF PduFetchFailed, Tasks, Writers, Locks, Labels
  <2>8. CASE PduWake
    BY <2>8, MoveInside DEF PduWake, Tasks, Writers, Locks, Labels
  <2>9. CASE PduSnapshot
    BY <2>9, MoveInside DEF PduSnapshot, Tasks, Writers, Locks, Labels
  <2>10. CASE PduClaim
    BY <2>10, MoveIn DEF PduClaim, Tasks, Writers, Locks, Labels
  <2>11. CASE PduTakeValues
    BY <2>11, MoveIn DEF PduTakeValues, Tasks, Writers, Locks, Labels
  <2>12. ASSUME NEW t \in Writers, WriteEntry(t) PROVE LockInv'
    BY <2>12, MoveInside DEF WriteEntry, Tasks, Writers, Locks, Labels
  <2>13. ASSUME NEW t \in Writers, NEW l \in {"idle", "sleep"}, WriteDone(t, l)
        PROVE  LockInv'
    BY <2>13, MoveOut DEF WriteDone, Tasks, Writers, Locks, Labels
  <2>14. ASSUME NEW c \in Clients, Put(c) PROVE LockInv'
    BY <2>14, MoveInside DEF Put, Tasks, Writers, Locks, Labels
  <2>15. ASSUME NEW c \in Clients, PutReject(c) PROVE LockInv'
    BY <2>15, MoveInside DEF PutReject, Tasks, Writers, Locks, Labels
  <2>16. ASSUME NEW c \in Clients, PutParsed(c) PROVE LockInv'
    BY <2>16, MoveInside DEF PutParsed, Tasks, Writers, Locks, Labels
  <2>17. ASSUME NEW c \in Clients, PutTakeDriven(c) PROVE LockInv'
    BY <2>17, MoveIn DEF PutTakeDriven, Tasks, Writers, Locks, Labels
  <2>18. ASSUME NEW c \in Clients, PutTakeValues(c) PROVE LockInv'
    BY <2>18, MoveIn DEF PutTakeValues, Tasks, Writers, Locks, Labels
  <2>19. ASSUME NEW p \in Pollers, Receive(p) PROVE LockInv'
    BY <2>19, MoveInside DEF Receive, Tasks, Locks, Labels
  <2>20. ASSUME NEW p \in Pollers, TakeState(p) PROVE LockInv'
    BY <2>20, MoveIn DEF TakeState, Tasks, Writers, Locks, Labels
  <2>21. ASSUME NEW p \in Pollers, Discover(p) PROVE LockInv'
    BY <2>21, MoveOut DEF Discover, Tasks, Writers, Locks, Labels
  <2>22. ASSUME NEW p \in Pollers, Drop(p) PROVE LockInv'
    BY <2>22, MoveOut DEF Drop, Tasks, Writers, Locks, Labels
  <2>23. ASSUME NEW p \in Pollers, Verified(p) PROVE LockInv'
    BY <2>23, MoveInside DEF Verified, Tasks, Writers, Locks, Labels
  <2>24. ASSUME NEW p \in Pollers, TakeValues(p) PROVE LockInv'
    BY <2>24, MoveIn DEF TakeValues, Tasks, Locks, Labels
  <2>25. ASSUME NEW p \in Pollers, ReadBinding(p) PROVE LockInv'
    BY <2>25 DEF ReadBinding, LockInv
  <2>26. ASSUME NEW p \in Pollers, ReadDone(p) PROVE LockInv'
    BY <2>26, MoveOut DEF ReadDone, Tasks, Locks, Labels
  <2>27. ASSUME NEW p \in Pollers, Encode(p) PROVE LockInv'
    BY <2>27, MoveOut DEF Encode, Tasks, Writers, Locks, Labels
  <2>28. ASSUME NEW p \in Pollers, Send(p) PROVE LockInv'
    BY <2>28, MoveInside DEF Send, Tasks, Writers, Locks, Labels
  <2>29. CASE UNCHANGED vars
    BY <2>29 DEF vars, LockInv
  <2>30. ASSUME NEW p \in Pollers, Panic(p) \/ EncodeFails(p) PROVE LockInv'
    BY <2>30, MoveAway DEF Panic, EncodeFails, GiveUp, Tasks
  <2> QED BY <2>1, <2>2, <2>3, <2>4, <2>5, <2>6, <2>7, <2>8, <2>9, <2>10, <2>11, <2>12, <2>13, <2>14, <2>15, <2>16, <2>17, <2>18, <2>19, <2>20, <2>21, <2>22, <2>23, <2>24, <2>25, <2>26, <2>27, <2>28, <2>29, <2>30
          DEF Next, SimStep, PduStep, PduGoOn, PutStep, PollStep, Writers
<1> QED BY <1>1, <1>2, TypeCorrect, PTL DEF Spec

\* The task that holds values never waits, and when values is free the holder
\* of another mutex can wait for nothing else.
LEMMA HoldersProgress == TypeOK /\ LockInv => LockProgress
<1> SUFFICES ASSUME TypeOK, LockInv, NEW l \in Locks, holder[l] # None
             PROVE  \E t \in Tasks : (\E m \in Locks : holder[m] = t) /\ ~Waits(t)
  BY DEF LockProgress
<1>1. CASE holder["values"] # None
  <2>1. holder["values"] \in Tasks
    BY <1>1 DEF TypeOK, Locks
  <2>2. pc[holder["values"]] \in HoldsAt["values"]
    BY <2>1 DEF LockInv, Locks
  <2>3. ~Waits(holder["values"])
    BY <2>2 DEF Waits, WaitsAt, HoldsAt, Locks
  <2> QED BY <2>1, <2>3 DEF Locks
<1>2. CASE holder["values"] = None
  <2>1. holder[l] \in Tasks /\ l \in {"driven", "state"}
    BY <1>2 DEF TypeOK, Locks
  <2>2. pc[holder[l]] \in HoldsAt[l]
    BY <2>1 DEF LockInv
  <2>3. ~Waits(holder[l])
    BY <1>2, <2>1, <2>2 DEF Waits, WaitsAt, HoldsAt, Locks
  <2> QED BY <2>1, <2>3
<1> QED BY <1>1, <1>2

\* No deadlock among any number of tasks: the order driven before values, and
\* state before values, is enough (control.rs:25-28).
THEOREM NoDeadlock == Spec => []LockProgress
BY TypeCorrect, MutualExclusion, HoldersProgress, PTL

-----------------------------------------------------------------------------
(* Replies.                                                                *)

\* The points from which the map is changed.
Changing == {"tick", "mirror", "write"}

\* A step of someone else, or one that reads no binding, leaves what has been
\* read; and no one changes the map under a reader, who holds the values lock.
LEMMA ReaderAlone ==
    ASSUME TypeOK, LockInv, NEW t \in Tasks, pc[t] \in Changing,
           NEW p \in Pollers, pc[p] \in {"read", "v3read"}
    PROVE  FALSE
<1>1. holder["values"] = t /\ holder["values"] = p
  BY DEF LockInv, HoldsAt, Locks, Tasks, Changing
<1> QED BY <1>1 DEF Changing

Untorn(p) ==
    /\ pc[p] \in {"read", "v3read"} =>
        \A i \in 1..Len(got[p]) :
            got[p][i] = Answer(values, req[p].next, req[p].oids[i])
    /\ pc[p] \in {"idle", "get", "wantState", "verify", "v3get"} => got[p] = <<>>

\* A step that changes the map only if p is not reading, and nothing of p.
LEMMA UntornKept ==
    ASSUME NEW p \in Pollers, Untorn(p),
           pc[p] \in {"read", "v3read"} => values' = values,
           pc'[p] = pc[p], req'[p] = req[p], got'[p] = got[p]
    PROVE  Untorn(p)'
  BY DEF Untorn

\* Every step keeps it, of this poller or of another task (build_response keeps
\* the values lock over all the bindings of a request).
LEMMA RepliesUntorn == Spec => []\A p \in Pollers : Untorn(p)
<1> DEFINE IInv == \A p \in Pollers : Untorn(p)
<1>1. Init => IInv
  BY AgentAssumption DEF Init, Untorn, Tasks
<1>2. TypeOK /\ LockInv /\ IInv /\ [Next]_vars => IInv'
  <2> SUFFICES ASSUME TypeOK, LockInv, IInv, [Next]_vars, NEW q \in Pollers
               PROVE  Untorn(q)'
    OBVIOUS
  <2> DEFINE Same == pc'[q] = pc[q] /\ req'[q] = req[q] /\ got'[q] = got[q]
  <2>0. /\ pc \in [Tasks -> Labels] /\ q \in Tasks
        /\ q \notin Writers /\ q # Sim /\ q # Pdu
        /\ DOMAIN got = Pollers /\ req \in [Pollers -> Requests \cup {None}]
        /\ IsSeq(got[q])
    BY AgentAssumption DEF TypeOK, Tasks, Writers
  <2> USE DEF Goto, data, polls
  <2>1. CASE SimWake
    BY <2>0, <2>1, UntornKept DEF SimWake
  <2>2. CASE SimTakeDriven
    BY <2>0, <2>2, UntornKept DEF SimTakeDriven
  <2>3. CASE SimTakeValues
    BY <2>0, <2>3, UntornKept DEF SimTakeValues
  <2>4. CASE SimTick
    BY <2>0, <2>4, ReaderAlone, UntornKept, Sim \in Tasks DEF SimTick, Changing, Tasks
  <2>5. CASE SimMirror
    BY <2>0, <2>5, ReaderAlone, UntornKept, Sim \in Tasks DEF SimMirror, Changing, Tasks
  <2>6. CASE PduFetched
    BY <2>0, <2>6, UntornKept DEF PduFetched
  <2>7. CASE PduFetchFailed
    BY <2>0, <2>7, UntornKept DEF PduFetchFailed
  <2>8. CASE PduWake
    BY <2>0, <2>8, UntornKept DEF PduWake
  <2>9. CASE PduSnapshot
    BY <2>0, <2>9, UntornKept DEF PduSnapshot
  <2>10. CASE PduClaim
    BY <2>0, <2>10, UntornKept DEF PduClaim
  <2>11. CASE PduTakeValues
    BY <2>0, <2>11, UntornKept DEF PduTakeValues
  <2>12. ASSUME NEW t \in Writers, WriteEntry(t) PROVE Untorn(q)'
    BY <2>0, <2>12, ReaderAlone, UntornKept DEF WriteEntry, Changing, Tasks, Writers
  <2>13. ASSUME NEW t \in Writers, NEW l, WriteDone(t, l) PROVE Untorn(q)'
    BY <2>0, <2>13, UntornKept DEF WriteDone
  <2>14. ASSUME NEW c \in Clients, Put(c) PROVE Untorn(q)'
    BY <2>0, <2>14, UntornKept DEF Put, Writers
  <2>15. ASSUME NEW c \in Clients, PutReject(c) PROVE Untorn(q)'
    BY <2>0, <2>15, UntornKept DEF PutReject, Writers
  <2>16. ASSUME NEW c \in Clients, PutParsed(c) PROVE Untorn(q)'
    BY <2>0, <2>16, UntornKept DEF PutParsed, Writers
  <2>17. ASSUME NEW c \in Clients, PutTakeDriven(c) PROVE Untorn(q)'
    BY <2>0, <2>17, UntornKept DEF PutTakeDriven, Writers
  <2>18. ASSUME NEW c \in Clients, PutTakeValues(c) PROVE Untorn(q)'
    BY <2>0, <2>18, UntornKept DEF PutTakeValues, Writers
  <2>19. ASSUME NEW p \in Pollers, Receive(p) PROVE Untorn(q)'
    <3>1. CASE p # q
      BY <2>0, <2>19, <3>1, UntornKept DEF Receive
    <3>2. CASE p = q
      BY <2>0, <2>19, <3>2 DEF Receive, Untorn
    <3> QED BY <3>1, <3>2
  <2>20. ASSUME NEW p \in Pollers, TakeState(p) PROVE Untorn(q)'
    <3>1. CASE p # q
      BY <2>0, <2>20, <3>1, UntornKept DEF TakeState
    <3>2. CASE p = q
      BY <2>0, <2>20, <3>2 DEF TakeState, Untorn
    <3> QED BY <3>1, <3>2
  <2>21. ASSUME NEW p \in Pollers, Discover(p) PROVE Untorn(q)'
    <3>1. CASE p # q
      BY <2>0, <2>21, <3>1, UntornKept DEF Discover
    <3>2. CASE p = q
      BY <2>0, <2>21, <3>2 DEF Discover, Untorn
    <3> QED BY <3>1, <3>2
  <2>22. ASSUME NEW p \in Pollers, Drop(p) PROVE Untorn(q)'
    <3>1. CASE p # q
      BY <2>0, <2>22, <3>1, UntornKept DEF Drop
    <3>2. CASE p = q
      BY <2>0, <2>22, <3>2 DEF Drop, Untorn
    <3> QED BY <3>1, <3>2
  <2>23. ASSUME NEW p \in Pollers, Verified(p) PROVE Untorn(q)'
    <3>1. CASE p # q
      BY <2>0, <2>23, <3>1, UntornKept DEF Verified
    <3>2. CASE p = q
      BY <2>0, <2>23, <3>2 DEF Verified, Untorn
    <3> QED BY <3>1, <3>2
  <2>24. ASSUME NEW p \in Pollers, TakeValues(p) PROVE Untorn(q)'
    <3>1. CASE p # q
      BY <2>0, <2>24, <3>1, UntornKept DEF TakeValues
    <3>2. CASE p = q
      BY <2>0, <2>24, <3>2 DEF TakeValues, Untorn
    <3> QED BY <3>1, <3>2
  <2>25. ASSUME NEW p \in Pollers, ReadBinding(p) PROVE Untorn(q)'
    <3>1. CASE p # q
      BY <2>0, <2>25, <3>1, UntornKept DEF ReadBinding
    <3>2. CASE p = q
      <4> DEFINE new == Append(got[q], Binding(q))
      <4>1. /\ got'[q] = new
            /\ UNCHANGED <<values, pc, req>> /\ pc[q] \in {"read", "v3read"}
        BY <2>0, <2>25, <3>2 DEF ReadBinding
      <4>2. /\ Len(new) = Len(got[q]) + 1
            /\ \A i \in 1..Len(got[q]) : new[i] = got[q][i]
            /\ new[Len(got[q]) + 1] = Binding(q)
        BY <2>0, AppendSeq
      <4>3. Len(got[q]) \in Nat
        BY <2>0 DEF IsSeq
      <4>4. \A i \in 1..Len(new) :
                new[i] = Answer(values, req[q].next, req[q].oids[i])
        <5> HIDE DEF new
        <5> QED BY <4>1, <4>2, <4>3 DEF Untorn, Binding
      <4> HIDE DEF new
      <4> QED BY <4>1, <4>4 DEF Untorn
    <3> QED BY <3>1, <3>2
  <2>26. ASSUME NEW p \in Pollers, ReadDone(p) PROVE Untorn(q)'
    <3>1. CASE p # q
      BY <2>0, <2>26, <3>1, UntornKept DEF ReadDone
    <3>2. CASE p = q
      BY <2>0, <2>26, <3>2 DEF ReadDone, Untorn
    <3> QED BY <3>1, <3>2
  <2>27. ASSUME NEW p \in Pollers, Encode(p) PROVE Untorn(q)'
    <3>1. CASE p # q
      BY <2>0, <2>27, <3>1, UntornKept DEF Encode
    <3>2. CASE p = q
      BY <2>0, <2>27, <3>2 DEF Encode, Untorn
    <3> QED BY <3>1, <3>2
  <2>28. ASSUME NEW p \in Pollers, Send(p) PROVE Untorn(q)'
    <3>1. CASE p # q
      BY <2>0, <2>28, <3>1, UntornKept DEF Send
    <3>2. CASE p = q
      BY <2>0, <2>28, <3>2 DEF Send, Untorn
    <3> QED BY <3>1, <3>2
  <2>29. CASE UNCHANGED vars
    BY <2>29 DEF vars, Untorn
  <2>30. ASSUME NEW p \in Pollers, Panic(p) \/ EncodeFails(p) PROVE Untorn(q)'
    <3>0. GiveUp(p)
      BY <2>30 DEF Panic, EncodeFails
    <3>1. CASE p # q
      BY <2>0, <3>0, <3>1, UntornKept DEF GiveUp
    <3>2. CASE p = q
      BY <2>0, <3>0, <3>2 DEF GiveUp, Untorn
    <3> QED BY <3>1, <3>2
  <2> QED BY <2>1, <2>2, <2>3, <2>4, <2>5, <2>6, <2>7, <2>8, <2>9, <2>10, <2>11, <2>12, <2>13, <2>14, <2>15, <2>16, <2>17, <2>18, <2>19, <2>20, <2>21, <2>22, <2>23, <2>24, <2>25, <2>26, <2>27, <2>28, <2>29, <2>30
          DEF Next, SimStep, PduStep, PduGoOn, PutStep, PollStep, Writers
<1> QED BY <1>1, <1>2, TypeCorrect, MutualExclusion, PTL DEF Spec

\* Every reply is a snapshot: all its bindings agree with one state of the map,
\* the one in which its last binding is read.
THEOREM RepliesAreSnapshots == Spec => []NoTornRead
<1>1. (\A p \in Pollers : Untorn(p)) => NoTornRead
  BY DEF Untorn, NoTornRead
<1> QED BY <1>1, RepliesUntorn, PTL

-----------------------------------------------------------------------------
(* Driven values.                                                          *)

\* A driven value outside the mirror is only ever replaced by one that a PUT or
\* the load follower stores: the tick skips what is driven (simulator.rs:42).
THEOREM DrivenValuesSurvive == Spec => DrivenSurvivesTick
<1> DEFINE Kept == \A o \in (driven \cap DOMAIN values) \ Derived :
                        values'[o] # values[o] => Stored(o)
<1>1. [Next]_vars => [Kept]_vars
  <2> SUFFICES ASSUME [Next]_vars, NEW o \in (driven \cap DOMAIN values) \ Derived,
                      values'[o] # values[o]
               PROVE  Stored(o)
    OBVIOUS
  <2>1. CASE SimTick
    BY <2>1 DEF SimTick, Tick, Extend, Entry
  <2>2. CASE SimMirror
    BY <2>2 DEF SimMirror, Mirror, Extend
  <2>3. ASSUME NEW t \in Writers, WriteEntry(t) PROVE Stored(o)
    <3>1. PICK x \in DOMAIN rest[t] : values' = Extend(values, Entry(x, rest[t][x]))
      BY <2>3 DEF WriteEntry
    <3>2. x = o /\ values'[o] = rest[t][o]
      BY <3>1 DEF Extend, Entry
    <3>3. pc[t] = "write"
      BY <2>3 DEF WriteEntry, Goto
    <3> QED BY <3>2, <3>3 DEF Stored
  <2>4. CASE values' = values
    BY <2>4
  <2>5. \/ values' = values \/ SimTick \/ SimMirror
        \/ \E t \in Writers : WriteEntry(t)
    BY DEF Next, SimStep, PduStep, PduGoOn, PutStep, PollStep, Writers, vars, data,
           SimWake, SimTakeDriven, SimTakeValues, PduFetched, PduFetchFailed,
           PduWake, PduSnapshot, PduClaim, PduTakeValues, WriteDone, Put,
           PutReject, PutParsed, PutTakeDriven, PutTakeValues, Receive,
           TakeState, Discover, Drop, Verified, TakeValues, ReadBinding,
           ReadDone, Encode, Send, Panic, EncodeFails, GiveUp
  <2> QED BY <2>1, <2>2, <2>3, <2>4, <2>5
<1> QED BY <1>1, PTL DEF Spec, DrivenSurvivesTick

-----------------------------------------------------------------------------
(* The store and the agent speak of maps with the same operators.          *)

\* The OIDs and where the mirror takes a reading from.
LEMMA SameOids ==
    /\ Abstract!Sentry = Sentry /\ Abstract!Derived = Derived
    /\ Abstract!LoadOids = LoadOids /\ Abstract!Power = Power
    /\ \A r : Abstract!Source(r) = Source(r)
  BY DEF Abstract!Sentry, Sentry, Abstract!Derived, Derived, Abstract!LoadOids, LoadOids,
         Abstract!Power, Power, Abstract!InletPower, InletPower, Abstract!Current, Current,
         Abstract!Voltage, Voltage, Abstract!PoleCurrent, PoleCurrent,
         Abstract!PoleVoltage, PoleVoltage, Abstract!Source, Source

\* A batch laid over a map.
LEMMA SameExtend == \A v, b : Abstract!Extend(v, b) = Extend(v, b)
  BY DEF Abstract!Extend, Extend

\* The conversions of the mirror, ...
LEMMA SameConverted == \A r, x : Abstract!Converted(r, x) = Converted(r, x)
<1>0. \A S : Abstract!Cardinality(S) = Cardinality(S)
  BY DEF Abstract!Cardinality, Cardinality
<1>1. \A x : Abstract!LineToLine(x) = LineToLine(x)
  BY <1>0 DEF Abstract!LineToLine, LineToLine, Abstract!Abs, Abs
<1> QED BY <1>1 DEF Abstract!Converted, Converted, Abstract!Wrap, Wrap, Abstract!InletPower, InletPower

\* ... the mirror itself, ...
LEMMA SameMirror == \A v : Abstract!Mirror(v) = Mirror(v)
  BY SameOids, SameConverted DEF Abstract!Mirror, Mirror

\* ... and the agreement of the two MIBs.
LEMMA SameAgree == \A v : Abstract!MibsAgree(v) <=> MibsAgree(v)
  BY SameOids, SameConverted DEF Abstract!MibsAgree, MibsAgree

\* The power at the inlet.
LEMMA SameWatts == \A w : Abstract!InputWatts(w) = InputWatts(w)
  BY DEF Abstract!InputWatts, InputWatts, Abstract!ToI64, ToI64, Abstract!Abs, Abs

\* The answer to one binding.
LEMMA SameAnswer == \A v, n, o : Abstract!Answer(v, n, o) = Answer(v, n, o)
<1>1. \A a, b : Abstract!Precedes(a, b) <=> Precedes(a, b)
  BY DEF Abstract!Precedes, Precedes
<1>2. \A S : Abstract!First(S) = First(S)
  BY <1>1 DEF Abstract!First, First
<1>3. \A v, o : Abstract!Following(v, o) = Following(v, o)
  BY <1>1 DEF Abstract!Following, Following
<1>4. \A x : Abstract!Served(x) = Served(x)
  BY DEF Abstract!Served, Served, Abstract!Wrap, Wrap
<1> QED BY <1>2, <1>3, <1>4 DEF Abstract!Answer, Answer

\* The map at start.
LEMMA SameInit == Abstract!initial_values = initial_values
<1>1. Abstract!sentry4_and_switch = sentry4_and_switch
  BY SameOids DEF Abstract!sentry4_and_switch, sentry4_and_switch, Abstract!Switch, Switch
<1> QED BY <1>1, SameMirror, SameExtend DEF Abstract!initial_values, initial_values

-----------------------------------------------------------------------------
(* What the store sees.                                                    *)

\* What clients see of the map, by who is inside: nobody, the tick before its
\* mirror, or a writer in the middle of its batch.
Seen ==
    /\ (pc[Sim] # "mirror" /\ \A t \in Writers : pc[t] # "write") =>
            StoreNow = values /\ OwnedNow = driven
    /\ pc[Sim] = "mirror" =>
            StoreNow = Extend(values, Mirror(values)) /\ OwnedNow = driven
    /\ \A t \in Writers : pc[t] = "write" =>
            /\ StoreNow = Extend(values, rest[t])
            /\ OwnedNow = driven \cup DOMAIN rest[t]

\* At most one task changes the map, as both locks are held meanwhile.
LEMMA OneChanges ==
    ASSUME LockInv, NEW t \in Tasks, NEW u \in Tasks,
           pc[t] \in HoldsAt["values"], pc[u] \in HoldsAt["values"]
    PROVE  t = u
  BY DEF LockInv, Locks

\* The views follow from who holds the values lock.
LEMMA Views == LockInv => Seen
<1> SUFFICES ASSUME LockInv PROVE Seen
  OBVIOUS
<1>0. Sim \notin Writers /\ Writers \subseteq Tasks /\ Sim \in Tasks
  BY AgentAssumption DEF Writers, Tasks
<1>1. ASSUME \A t \in Writers : pc[t] # "write"
      PROVE  Storing = {} /\ OwnedNow = driven
  BY <1>1 DEF Storing, OwnedNow
<1>2. ASSUME NEW t \in Writers, pc[t] = "write"
      PROVE  Storing = {t} /\ pc[Sim] # "mirror"
  BY <1>0, <1>2, OneChanges DEF Storing, HoldsAt
<1>3. ASSUME NEW t \in Writers, pc[t] = "write"
      PROVE  /\ StoreNow = Extend(values, rest[t])
             /\ OwnedNow = driven \cup DOMAIN rest[t]
  <2>1. (CHOOSE u \in {t} : TRUE) = t
    OBVIOUS
  <2> QED BY <1>2, <1>3, <2>1 DEF StoreNow, OwnedNow
<1>4. pc[Sim] = "mirror" => \A t \in Writers : pc[t] # "write"
  BY <1>2
<1> QED BY <1>1, <1>3, <1>4 DEF Seen, StoreNow

\* So they do after a step.
LEMMA ViewsNext == LockInv' => Seen'
  BY Views, PTL

\* A step between points that no client sees.
LEMMA Unseen ==
    ASSUME pc \in [Tasks -> Labels], NEW t \in Tasks, NEW from, NEW to, Goto(t, from, to),
           {from, to} \cap {"write", "mirror", "encode", "send"} = {},
           UNCHANGED data, \A w \in Writers \ {t} : rest'[w] = rest[w],
           \A p \in Pollers \ {t} : got'[p] = got[p]
    PROVE  UNCHANGED <<StoreNow, OwnedNow, RepliesNow>>
<1>1. \A u \in Tasks \ {t} : pc'[u] = pc[u]
  BY DEF Goto
<1>2. pc[t] = from /\ pc'[t] = to
  BY DEF Goto
<1>3. Sim \in Tasks /\ Writers \subseteq Tasks /\ Pollers \subseteq Tasks
  BY DEF Tasks, Writers
<1>4. Storing' = Storing /\ t \notin Storing
  BY <1>1, <1>2, <1>3 DEF Storing
<1>5. \A u \in Storing : rest'[u] = rest[u]
  BY <1>4 DEF Storing
<1>6. pc'[Sim] = "mirror" <=> pc[Sim] = "mirror"
  BY <1>1, <1>2, <1>3
<1>7. OwnedNow' = OwnedNow
  BY <1>4, <1>5 DEF OwnedNow, data
<1>8. StoreNow' = StoreNow
  <2>1. CASE Storing = {}
    BY <1>4, <1>6, <2>1 DEF StoreNow, data, Extend, Mirror
  <2>2. CASE Storing # {}
    <3>1. (CHOOSE u \in Storing : TRUE) \in Storing
      BY <2>2
    <3> QED BY <1>4, <1>5, <1>6, <2>2, <3>1 DEF StoreNow, data, Extend, Mirror
  <2> QED BY <2>1, <2>2
<1>9. RepliesNow' = RepliesNow
  BY <1>1, <1>2, <1>3 DEF RepliesNow
<1> QED BY <1>7, <1>8, <1>9
-----------------------------------------------------------------------------
(* What writers are about to store.                                        *)

\* Readings of one node draw with a mirror that agrees.
IsLoad(b) ==
    /\ DOMAIN b = LoadOids
    /\ \E w \in NodeDraws : b[Power] = InputWatts(w)
    /\ \A r \in Derived \cap LoadOids : /\ Source(r) \in LoadOids
                                        /\ b[r] = Converted(r, b[Source(r)])

\* The measurements never leave the map, and the current drifts in its band
\* until it is driven.
Measured ==
    /\ Sentry \cup Derived \subseteq DOMAIN values
    /\ Current(1) \notin driven => values[Current(1)] \in SawMin..SawMax

\* The load follower claims what it stores before it stores it.
LoadReady ==
    /\ pc[Pdu] \in {"wantDriven", "claimed"} => IsLoad(rest[Pdu])
    /\ pc[Pdu] = "claimed" => LoadOids \subseteq driven

\* A batch is whole, and well-formed once parsed, until its handler stores it.
BatchReady(c) ==
    /\ pc[c] \in {"parse", "wantDriven", "held"} => rest[c] \in Batches
    /\ pc[c] \in {"wantDriven", "held"} => Malformed \notin DOMAIN rest[c]

Ready == Measured /\ LoadReady /\ \A c \in Clients : BatchReady(c)

\* The mirrored OIDs among those of the load, and where they come from.
LEMMA LoadSources ==
    /\ Power \in LoadOids
    /\ \A r \in Derived \cap LoadOids : Source(r) \in LoadOids \ Derived
    /\ \A r \in Derived \ LoadOids : Source(r) \notin LoadOids
    /\ \A r \in Derived : Source(r) \in Sentry
    /\ Sentry \cap Derived = {} /\ LoadOids \subseteq Sentry \cup Derived
    /\ LoadOids \ Derived = {Power} \cup {Current(p) : p \in Phases}
<1>1. Phases \subseteq {1, 2, 3}
  BY ValuesAssumption
<1> USE DEF Sentry, Derived, LoadOids, Source, Power, InletPower, Current, Voltage,
            PoleCurrent, PoleVoltage
<1>2. Power \in LoadOids
  OBVIOUS
<1>3. \A r \in Derived \cap LoadOids : Source(r) \in LoadOids \ Derived
  BY <1>1
<1>4. \A r \in Derived \ LoadOids : Source(r) \notin LoadOids
  BY <1>1
<1>5. \A r \in Derived : Source(r) \in Sentry
  BY <1>1
<1>6. Sentry \cap Derived = {}
  OBVIOUS
<1>7. LoadOids \subseteq Sentry \cup Derived
  OBVIOUS
<1>8. LoadOids \ Derived = {Power} \cup {Current(p) : p \in Phases}
  OBVIOUS
<1> QED BY <1>2, <1>3, <1>4, <1>5, <1>6, <1>7, <1>8

\* The readings of a node draw are such a load, whatever the voltages.
LEMMA ReadingsAreLoad ==
    ASSUME NEW v, NEW w \in NodeDraws
    PROVE  IsLoad(Readings(w, v))
<1> DEFINE volts(p) == IF Voltage(p) \in DOMAIN v THEN v[Voltage(p)] ELSE 2400
           D == {Power} \cup {Current(p) : p \in Phases}
           out == [o \in D |-> IF o = Power THEN InputWatts(w)
                               ELSE PhaseCurrent(w, volts(o[4]))]
           b == Extend(out, Mirror(out))
<1>1. Readings(w, v) = b
  BY DEF Readings
<1>2. out[Power] = InputWatts(w) /\ DOMAIN out = D /\ D = LoadOids \ Derived
  BY LoadSources
<1> HIDE DEF out, D
<1>3. DOMAIN Mirror(out) = Derived \cap LoadOids
  BY <1>2, LoadSources DEF Mirror
<1>4. /\ DOMAIN b = LoadOids /\ b[Power] = InputWatts(w)
      /\ \A o \in LoadOids \ Derived : b[o] = out[o]
      /\ \A r \in Derived \cap LoadOids : b[r] = Converted(r, out[Source(r)])
  <2>1. Power \notin Derived
    BY LoadSources DEF Sentry
  <2> QED BY <1>2, <1>3, <2>1, LoadSources DEF Extend, Mirror
<1> HIDE DEF b
<1> QED BY <1>1, <1>4, LoadSources DEF IsLoad
\* The map at start has all measurements, the current at the sawtooth's start.
LEMMA InitialMeasured ==
    /\ Sentry \cup Derived \subseteq DOMAIN initial_values
    /\ initial_values[Current(1)] \in SawMin..SawMax
<1>1. DOMAIN sentry4_and_switch = Sentry \cup Switch
  BY DEF sentry4_and_switch
<1>2. DOMAIN Mirror(sentry4_and_switch) = Derived
  BY <1>1, LoadSources DEF Mirror
<1>3. Current(1) \in Sentry /\ Current(1) \notin Derived
  BY ValuesAssumption, LoadSources DEF Sentry
<1>4. sentry4_and_switch[Current(1)] = 1500
  BY <1>3 DEF sentry4_and_switch, Current, Power
<1>5. initial_values[Current(1)] = 1500
  BY <1>1, <1>2, <1>3, <1>4 DEF initial_values, Extend
<1>6. DOMAIN initial_values = Sentry \cup Switch \cup Derived
  BY <1>1, <1>2 DEF initial_values, Extend
<1> QED BY <1>5, <1>6, ValuesAssumption

\* The sawtooth stays in its band and touches no other OID.
LEMMA TickStep ==
    ASSUME NEW v, NEW owned, Current(1) \in DOMAIN v, v[Current(1)] \in Int,
           Current(1) \notin owned => v[Current(1)] \in SawMin..SawMax
    PROVE  /\ DOMAIN Tick(v, owned) = DOMAIN v
           /\ \A o \in DOMAIN v \ {Current(1)} : Tick(v, owned)[o] = v[o]
           /\ IF Current(1) \in owned THEN Tick(v, owned) = v
              ELSE Tick(v, owned)[Current(1)] \in SawMin..SawMax
<1> DEFINE next == IF v[Current(1)] + SawStep > SawMax THEN SawMin
                   ELSE v[Current(1)] + SawStep
<1>1. Tick(v, owned) = IF Current(1) \in owned THEN v
                       ELSE Extend(v, Entry(Current(1), next))
  BY DEF Tick
<1>2. Current(1) \notin owned => next \in SawMin..SawMax
  BY ValuesAssumption
<1> HIDE DEF next
<1> QED BY <1>1, <1>2 DEF Extend, Entry

\* Every step keeps what is ready, ready.
LEMMA ReadyKept == TypeOK /\ LockInv /\ Ready /\ [Next]_vars => Ready'
<1> SUFFICES ASSUME TypeOK, LockInv, Ready, [Next]_vars PROVE Ready'
  OBVIOUS
<1>0. /\ pc \in [Tasks -> Labels] /\ DOMAIN rest = Writers
      /\ Sim \in Tasks /\ Pdu \in Tasks /\ Clients \subseteq Tasks /\ Pollers \subseteq Tasks
      /\ Sim \notin Writers /\ Pdu \in Writers /\ Clients \subseteq Writers
      /\ Pdu \notin Clients /\ Pollers \cap Writers = {} /\ Sim \notin Pollers
  BY AgentAssumption DEF TypeOK, Tasks, Writers
<1> USE DEF Goto, data, polls
<1>1. ASSUME UNCHANGED data, UNCHANGED rest,
             \A w \in Writers : \/ pc'[w] = pc[w]
                                \/ pc'[w] \notin {"parse", "wantDriven", "held", "claimed"}
      PROVE  Ready'
  BY <1>0, <1>1 DEF Ready, Measured, LoadReady, BatchReady, IsLoad
<1>2. ASSUME UNCHANGED pc, UNCHANGED rest, Measured', driven \subseteq driven' PROVE Ready'
  BY <1>0, <1>2 DEF Ready, LoadReady, BatchReady, IsLoad
<1>3. CASE SimTick
  <2>1. /\ Current(1) \in DOMAIN values /\ values[Current(1)] \in Int
        /\ Current(1) \notin driven => values[Current(1)] \in SawMin..SawMax
    BY ValuesAssumption DEF Ready, Measured, Sentry, TypeOK, IsMap
  <2>2. DOMAIN values' = DOMAIN values /\ UNCHANGED <<driven, rest>>
    BY <1>3, <2>1, TickStep DEF SimTick
  <2>3. Current(1) \notin driven => values'[Current(1)] \in SawMin..SawMax
    BY <1>3, <2>1, TickStep DEF SimTick
  <2>4. Measured'
    BY <2>2, <2>3 DEF Ready, Measured
  <2>5. \A w \in Writers : pc'[w] = pc[w]
    BY <1>0, <1>3 DEF SimTick
  <2> QED BY <1>0, <2>2, <2>4, <2>5 DEF Ready, LoadReady, BatchReady, IsLoad
<1>4. CASE SimMirror
  <2>1. Current(1) \in Sentry \ Derived
    BY LoadSources, ValuesAssumption DEF Sentry
  <2>2. Measured'
    BY <1>4, <2>1 DEF SimMirror, Ready, Measured, Extend, Mirror
  <2>3. \A w \in Writers : pc'[w] = pc[w]
    BY <1>0, <1>4 DEF SimMirror
  <2>4. UNCHANGED <<driven, rest>>
    BY <1>4 DEF SimMirror
  <2> QED BY <1>0, <2>2, <2>3, <2>4 DEF Ready, LoadReady, BatchReady, IsLoad
<1>5. CASE PduSnapshot
  <2>1. PICK w \in NodeDraws : rest' = [rest EXCEPT ![Pdu] = Readings(w, values)]
    BY <1>5 DEF PduSnapshot
  <2>2. rest'[Pdu] = Readings(w, values) /\ \A c \in Clients : rest'[c] = rest[c]
    BY <1>0, <2>1
  <2>3. IsLoad(rest[Pdu])'
    BY <2>2, ReadingsAreLoad DEF IsLoad
  <2>4. pc'[Pdu] = "wantDriven" /\ \A c \in Clients : pc'[c] = pc[c]
    BY <1>0, <1>5 DEF PduSnapshot
  <2>5. UNCHANGED data
    BY <1>5 DEF PduSnapshot
  <2> QED BY <2>2, <2>3, <2>4, <2>5 DEF Ready, Measured, LoadReady, BatchReady
<1>6. CASE PduClaim
  BY <1>0, <1>6 DEF PduClaim, Ready, Measured, LoadReady, BatchReady, IsLoad
<1>7. ASSUME NEW t \in Writers, WriteEntry(t) PROVE Ready'
  <2>1. PICK o \in DOMAIN rest[t] :
            /\ values' = Extend(values, Entry(o, rest[t][o]))
            /\ driven' = driven \cup {o}
            /\ rest' = [rest EXCEPT ![t] =
                            [x \in DOMAIN rest[t] \ {o} |-> rest[t][x]]]
    BY <1>7 DEF WriteEntry
  <2>2. pc[t] = "write" /\ pc' = pc
    BY <1>0, <1>7 DEF WriteEntry
  <2>3. \A w \in Writers \ {t} : rest'[w] = rest[w]
    BY <1>0, <2>1
  <2>4. Measured'
    <3>1. Current(1) \in Sentry
      BY ValuesAssumption DEF Sentry
    <3> QED BY <2>1, <3>1 DEF Ready, Measured, Extend, Entry
  <2> QED BY <1>0, <2>1, <2>2, <2>3, <2>4 DEF Ready, LoadReady, BatchReady, IsLoad
<1>8. ASSUME NEW c \in Clients, Put(c) PROVE Ready'
  <2>1. PICK b \in Batches : rest' = [rest EXCEPT ![c] = b]
    BY <1>8 DEF Put
  <2>2. rest'[c] = b /\ pc'[c] = "parse" /\ UNCHANGED data
    BY <1>0, <1>8, <2>1 DEF Put
  <2>3. \A w \in Writers \ {c} : rest'[w] = rest[w] /\ pc'[w] = pc[w]
    BY <1>0, <1>8, <2>1 DEF Put
  <2> QED BY <1>0, <2>2, <2>3 DEF Ready, Measured, LoadReady, BatchReady, IsLoad
<1>9. ASSUME NEW c \in Clients, PutReject(c) PROVE Ready'
  <2>1. pc'[c] = "idle" /\ UNCHANGED data
    BY <1>0, <1>9 DEF PutReject
  <2>2. \A w \in Writers \ {c} : rest'[w] = rest[w] /\ pc'[w] = pc[w]
    BY <1>0, <1>9 DEF PutReject
  <2> QED BY <1>0, <2>1, <2>2 DEF Ready, Measured, LoadReady, BatchReady, IsLoad
<1>10. ASSUME NEW c \in Clients, PutParsed(c) \/ PutTakeDriven(c) \/ PutTakeValues(c)
       PROVE  Ready'
  <2>1. /\ UNCHANGED <<values, driven, rest>> /\ \A w \in Writers \ {c} : pc'[w] = pc[w]
        /\ pc[c] \in {"parse", "wantDriven", "held"}
        /\ pc'[c] \in {"wantDriven", "held", "write"}
        /\ pc[c] = "parse" => Malformed \notin DOMAIN rest[c]
    <3>1. CASE PutParsed(c)
      BY <1>0, <3>1 DEF PutParsed
    <3>2. CASE PutTakeDriven(c)
      BY <1>0, <3>2 DEF PutTakeDriven
    <3>3. CASE PutTakeValues(c)
      BY <1>0, <3>3 DEF PutTakeValues
    <3> QED BY <1>10, <3>1, <3>2, <3>3
  <2> QED BY <1>0, <2>1 DEF Ready, Measured, LoadReady, BatchReady, IsLoad
<1>11. CASE SimWake \/ SimTakeDriven \/ SimTakeValues
  <2>1. UNCHANGED data /\ UNCHANGED rest
    BY <1>11 DEF SimWake, SimTakeDriven, SimTakeValues
  <2>2. \A w \in Writers : pc'[w] = pc[w]
    <3>1. PICK l : pc' = [pc EXCEPT ![Sim] = l]
      BY <1>11 DEF SimWake, SimTakeDriven, SimTakeValues
    <3> QED BY <1>0, <3>1
  <2> QED BY <1>1, <2>1, <2>2
<1>12. CASE PduFetched \/ PduFetchFailed \/ PduWake \/ PduTakeValues
  <2>1. UNCHANGED data /\ UNCHANGED rest
    BY <1>12 DEF PduFetched, PduFetchFailed, PduWake, PduTakeValues
  <2>2. /\ \A w \in Writers \ {Pdu} : pc'[w] = pc[w]
        /\ pc'[Pdu] \in {"snapshot", "sleep", "fetch", "write"}
    <3>1. PICK l \in {"snapshot", "sleep", "fetch", "write"} : pc' = [pc EXCEPT ![Pdu] = l]
      BY <1>12 DEF PduFetched, PduFetchFailed, PduWake, PduTakeValues
    <3> QED BY <1>0, <3>1
  <2> QED BY <1>1, <2>1, <2>2
<1>13. ASSUME NEW t \in Writers, NEW l \in {"idle", "sleep"}, WriteDone(t, l) PROVE Ready'
  BY <1>0, <1>1, <1>13 DEF WriteDone
<1>14. ASSUME NEW p \in Pollers, Receive(p) \/ PollStep(p) PROVE Ready'
  <2>1. UNCHANGED data /\ UNCHANGED rest
    BY <1>14 DEF Receive, PollStep, TakeState, Discover, Drop, Verified, TakeValues,
                 ReadBinding, ReadDone, Encode, Send, Panic, EncodeFails, GiveUp
  <2>2. pc' = pc \/ \E l : pc' = [pc EXCEPT ![p] = l]
    BY <1>14 DEF Receive, PollStep, TakeState, Discover, Drop, Verified, TakeValues,
                 ReadBinding, ReadDone, Encode, Send, Panic, EncodeFails, GiveUp
  <2>3. \A w \in Writers : pc'[w] = pc[w]
    <3>1. CASE pc' = pc
      BY <3>1
    <3>2. ASSUME NEW l, pc' = [pc EXCEPT ![p] = l] PROVE \A w \in Writers : pc'[w] = pc[w]
      BY <1>0, <3>2
    <3> QED BY <2>2, <3>1, <3>2
  <2> QED BY <1>1, <2>1, <2>3
<1>15. CASE UNCHANGED vars
  BY <1>1, <1>15 DEF vars
<1> QED BY <1>3, <1>4, <1>5, <1>6, <1>7, <1>8, <1>9, <1>10, <1>11, <1>12, <1>13, <1>14, <1>15
        DEF Next, SimStep, PduStep, PduGoOn, PutStep, Writers
-----------------------------------------------------------------------------
(* The refinement, step by step.                                           *)

\* The agent starts as the store does.
LEMMA StartsAsStore == Init => Abstract!Init
<1> SUFFICES ASSUME Init PROVE Abstract!Init
  OBVIOUS
<1>1. /\ pc[Sim] = "wantDriven" /\ \A t \in Writers : pc[t] # "write"
      /\ \A p \in Pollers : pc[p] = "idle"
  BY AgentAssumption DEF Init, Tasks, Writers
<1>2. StoreNow = values /\ OwnedNow = driven
  BY <1>1 DEF StoreNow, OwnedNow, Storing
<1>3. RepliesNow = [p \in Pollers |-> {}]
  BY <1>1 DEF RepliesNow
<1> QED BY <1>2, <1>3, SameInit DEF Init, Abstract!Init

\* A tick is a drift, seen with its mirror (main.rs:80-93).
LEMMA TickIsDrift ==
    ASSUME TypeOK, LockInv, LockInv', Ready, SimTick
    PROVE  Abstract!Drift
<1>0. /\ Sim \in Tasks /\ Sim \notin Writers /\ Writers \subseteq Tasks /\ Sim \notin Pollers
      /\ Pollers \subseteq Tasks
  BY AgentAssumption DEF Tasks, Writers
<1>1. /\ pc[Sim] = "tick" /\ pc'[Sim] = "mirror" /\ \A t \in Tasks \ {Sim} : pc'[t] = pc[t]
      /\ values' = Tick(values, driven) /\ UNCHANGED <<driven, rest, got>>
  BY <1>0 DEF SimTick, Goto, TypeOK, polls
<1>2. \A t \in Writers : pc[t] # "write"
  BY <1>0, <1>1, OneChanges DEF HoldsAt
<1>3. StoreNow = values /\ OwnedNow = driven
  BY <1>1, <1>2, Views DEF Seen
<1>4. StoreNow' = Extend(values', Mirror(values')) /\ OwnedNow' = driven
  BY <1>1, ViewsNext DEF Seen, Extend, Mirror
<1>5. RepliesNow' = RepliesNow
  BY <1>0, <1>1 DEF RepliesNow
<1>6. /\ Current(1) \in Sentry /\ Current(1) \in DOMAIN values /\ values[Current(1)] \in Int
      /\ Sentry \cup Derived \subseteq DOMAIN values
      /\ Current(1) \notin driven => values[Current(1)] \in SawMin..SawMax
  BY ValuesAssumption DEF Ready, Measured, Sentry, TypeOK, IsMap
<1>7. /\ DOMAIN values' = DOMAIN values
      /\ \A o \in DOMAIN values \ {Current(1)} : values'[o] = values[o]
      /\ IF Current(1) \in driven THEN values' = values
         ELSE values'[Current(1)] \in SawMin..SawMax
  BY <1>1, <1>6, TickStep
<1> PICK new : new = Extend(values', Mirror(values'))
  OBVIOUS
<1>8. DOMAIN Mirror(values') = Derived
  BY <1>6, <1>7, LoadSources DEF Mirror
<1>9. /\ DOMAIN new = DOMAIN values
      /\ \A o \in DOMAIN values \ Derived : new[o] = values'[o]
      /\ \A r \in Derived : new[r] = Converted(r, values'[Source(r)])
  BY <1>6, <1>7, <1>8 DEF Extend, Mirror
<1>10. MibsAgree(new)
  BY <1>6, <1>9, LoadSources DEF MibsAgree
<1>11. \A o \in DOMAIN values \ Derived : new[o] # values[o] =>
            o \notin driven /\ new[o] \in SawMin..SawMax
  BY <1>7, <1>9
<1>12. StoreNow' = new
  BY <1>4
<1> QED BY <1>3, <1>4, <1>5, <1>9, <1>10, <1>11, <1>12, SameAgree, SameOids DEF Abstract!Drift
\* A handler that gets the second lock has stored its batch, as far as any client
\* can see (put_oids).
LEMMA PutIsWrite ==
    ASSUME TypeOK, LockInv, LockInv', Ready, NEW c \in Clients, PutTakeValues(c)
    PROVE  Abstract!Write
<1>0. /\ Sim \in Tasks /\ c \in Writers /\ Writers \subseteq Tasks /\ c \notin Pollers
      /\ Pollers \subseteq Tasks /\ "values" \in Locks
  BY AgentAssumption DEF Tasks, Writers, Locks
<1>1. /\ pc[c] = "held" /\ pc'[c] = "write" /\ \A t \in Tasks \ {c} : pc'[t] = pc[t]
      /\ holder["values"] = None /\ UNCHANGED <<values, driven, rest, got>>
  BY <1>0 DEF PutTakeValues, Acquire, Goto, TypeOK, data, polls
<1>2. None \notin Tasks
  BY AgentAssumption
<1>3. \A t \in Tasks : pc[t] \notin HoldsAt["values"]
  BY <1>0, <1>1, <1>2 DEF LockInv
<1>4. pc[Sim] # "mirror" /\ \A t \in Writers : pc[t] # "write"
  BY <1>0, <1>3 DEF HoldsAt
<1>5. StoreNow = values /\ OwnedNow = driven
  BY <1>4, Views DEF Seen
<1>6. /\ StoreNow' = Extend(values, rest[c])
      /\ OwnedNow' = driven \cup DOMAIN rest[c]
  BY <1>0, <1>1, ViewsNext DEF Seen, Extend
<1>7. RepliesNow' = RepliesNow
  BY <1>0, <1>1 DEF RepliesNow
<1>8. rest[c] \in Batches /\ Malformed \notin DOMAIN rest[c]
  BY <1>1 DEF Ready, BatchReady
<1> QED BY <1>5, <1>6, <1>7, <1>8, SameExtend DEF Abstract!Write

\* The follower claims its OIDs ahead of its readings (pdu_load.rs:50-55).
LEMMA ClaimIsClaim ==
    ASSUME TypeOK, Ready, PduClaim
    PROVE  Abstract!Claim
<1>0. /\ Sim \in Tasks /\ Pdu \in Tasks /\ Pdu # Sim /\ Pdu \in Writers
      /\ Writers \subseteq Tasks /\ Pdu \notin Pollers /\ Pollers \subseteq Tasks
  BY AgentAssumption DEF Tasks, Writers
<1>1. /\ pc[Pdu] = "wantDriven" /\ pc'[Pdu] = "claimed"
      /\ \A t \in Tasks \ {Pdu} : pc'[t] = pc[t]
      /\ driven' = driven \cup DOMAIN rest[Pdu] /\ UNCHANGED <<values, rest, got>>
  BY <1>0 DEF PduClaim, Goto, TypeOK, polls
<1>2. DOMAIN rest[Pdu] = LoadOids
  BY <1>1 DEF Ready, LoadReady, IsLoad
<1>3. Storing' = Storing /\ (pc'[Sim] = "mirror" <=> pc[Sim] = "mirror")
  BY <1>0, <1>1 DEF Storing
<1>4. OwnedNow' = OwnedNow \cup LoadOids
  BY <1>1, <1>2, <1>3 DEF OwnedNow
<1>5. StoreNow' = StoreNow
  BY <1>1, <1>3 DEF StoreNow, Extend, Mirror
<1>6. RepliesNow' = RepliesNow
  BY <1>0, <1>1 DEF RepliesNow
<1> QED BY <1>4, <1>5, <1>6, SameOids DEF Abstract!Claim

\* The follower that gets the values lock has stored its readings (store).
LEMMA LoadIsFollow ==
    ASSUME TypeOK, LockInv, LockInv', Ready, PduTakeValues
    PROVE  Abstract!Follow
<1>0. /\ Sim \in Tasks /\ Pdu \in Tasks /\ Pdu # Sim /\ Pdu \in Writers
      /\ Writers \subseteq Tasks /\ Pdu \notin Pollers /\ Pollers \subseteq Tasks
      /\ "values" \in Locks /\ None \notin Tasks
  BY AgentAssumption DEF Tasks, Writers, Locks
<1>1. /\ pc[Pdu] = "claimed" /\ pc'[Pdu] = "write"
      /\ \A t \in Tasks \ {Pdu} : pc'[t] = pc[t]
      /\ holder["values"] = None /\ UNCHANGED <<values, driven, rest, got>>
  BY <1>0 DEF PduTakeValues, Acquire, Goto, TypeOK, data, polls
<1>3. \A t \in Tasks : pc[t] \notin HoldsAt["values"]
  BY <1>0, <1>1 DEF LockInv
<1>4. pc[Sim] # "mirror" /\ \A t \in Writers : pc[t] # "write"
  BY <1>0, <1>3 DEF HoldsAt
<1>5. StoreNow = values /\ OwnedNow = driven
  BY <1>4, Views DEF Seen
<1>6. IsLoad(rest[Pdu]) /\ LoadOids \subseteq driven /\ LoadOids \subseteq DOMAIN values
  BY <1>1, LoadSources DEF Ready, Measured, LoadReady
<1>7. StoreNow' = Extend(values, rest[Pdu]) /\ OwnedNow' = driven \cup DOMAIN rest[Pdu]
  BY <1>0, <1>1, ViewsNext DEF Seen, Extend
<1>8. OwnedNow' = OwnedNow
  BY <1>5, <1>6, <1>7 DEF IsLoad
<1>9. RepliesNow' = RepliesNow
  BY <1>0, <1>1 DEF RepliesNow
<1> PICK new : new = Extend(values, rest[Pdu])
  OBVIOUS
<1>10. /\ DOMAIN new = DOMAIN values
       /\ \A o \in LoadOids : new[o] = rest[Pdu][o]
       /\ \A o \in DOMAIN values \ LoadOids : new[o] = values[o]
  BY <1>6 DEF IsLoad, Extend
<1>11. \E w \in NodeDraws : new[Power] = InputWatts(w)
  BY <1>6, <1>10, LoadSources DEF IsLoad
<1>12. \A r \in Derived \cap LoadOids : new[r] = Converted(r, new[Source(r)])
  BY <1>6, <1>10 DEF IsLoad
<1>13. StoreNow' = new
  BY <1>7
<1> QED BY <1>5, <1>6, <1>8, <1>9, <1>10, <1>11, <1>12, <1>13,
           SameOids, SameConverted, SameWatts DEF Abstract!Follow

\* Storing an entry, and giving up the locks after the last one, changes nothing
\* that a client sees.
LEMMA StoringUnseen ==
    ASSUME TypeOK, LockInv, LockInv', NEW t \in Writers,
           WriteEntry(t) \/ \E l \in {"idle", "sleep"} : WriteDone(t, l)
    PROVE  UNCHANGED <<StoreNow, OwnedNow, RepliesNow>>
<1>0. /\ Sim \in Tasks /\ t \in Tasks /\ t # Sim /\ t \notin Pollers
      /\ Writers \subseteq Tasks /\ Pollers \subseteq Tasks
  BY AgentAssumption DEF Tasks, Writers
<1>1. pc[t] = "write"
  BY DEF WriteEntry, WriteDone, Goto
<1>2. StoreNow = Extend(values, rest[t]) /\ OwnedNow = driven \cup DOMAIN rest[t]
  BY <1>1, Views DEF Seen
<1>3. CASE WriteEntry(t)
  <2>1. PICK o \in DOMAIN rest[t] :
            /\ values' = Extend(values, Entry(o, rest[t][o]))
            /\ driven' = driven \cup {o}
            /\ rest' = [rest EXCEPT ![t] =
                            [x \in DOMAIN rest[t] \ {o} |-> rest[t][x]]]
    BY <1>3 DEF WriteEntry
  <2>2. pc' = pc /\ UNCHANGED got
    BY <1>0, <1>3 DEF WriteEntry, Goto, TypeOK, polls
  <2>3. rest'[t] = [x \in DOMAIN rest[t] \ {o} |-> rest[t][x]]
    BY <2>1 DEF TypeOK
  <2>4. StoreNow' = Extend(values', rest'[t]) /\ OwnedNow' = driven' \cup DOMAIN rest'[t]
    BY <1>1, <2>2, ViewsNext DEF Seen, Extend
  <2>5. Extend(values', rest'[t]) = Extend(values, rest[t])
    <3> PICK a, b : a = values' /\ b = rest'[t]
      OBVIOUS
    <3>1. Extend(a, b) = Extend(values, rest[t])
      BY <2>1, <2>3 DEF Extend, Entry
    <3> QED BY <3>1
  <2>6. OwnedNow' = OwnedNow
    BY <1>2, <2>1, <2>3, <2>4
  <2> QED BY <1>2, <2>2, <2>4, <2>5, <2>6 DEF RepliesNow
<1>4. ASSUME NEW l \in {"idle", "sleep"}, WriteDone(t, l)
      PROVE  UNCHANGED <<StoreNow, OwnedNow, RepliesNow>>
  <2>1. /\ pc'[t] = l /\ \A u \in Tasks \ {t} : pc'[u] = pc[u]
        /\ DOMAIN rest[t] = {} /\ UNCHANGED <<values, driven, got>>
    BY <1>0, <1>4 DEF WriteDone, Goto, TypeOK, data, polls
  <2>2. \A u \in Tasks \ {t} : pc[u] \notin HoldsAt["values"]
    BY <1>0, <1>1, OneChanges DEF HoldsAt
  <2>3. pc'[Sim] # "mirror" /\ \A u \in Writers : pc'[u] # "write"
    BY <1>0, <2>1, <2>2 DEF HoldsAt
  <2>4. StoreNow' = values /\ OwnedNow' = driven
    BY <2>1, <2>3, ViewsNext DEF Seen
  <2>5. Extend(values, rest[t]) = values
    <3>1. IsMap(values)
      BY DEF TypeOK
    <3> QED BY <2>1, <3>1 DEF Extend, IsMap
  <2>6. RepliesNow' = RepliesNow
    BY <1>0, <2>1 DEF RepliesNow
  <2> QED BY <1>2, <2>1, <2>4, <2>5, <2>6
<1> QED BY <1>3, <1>4

\* So does the mirror after a tick.
LEMMA MirrorUnseen ==
    ASSUME TypeOK, LockInv, LockInv', SimMirror
    PROVE  UNCHANGED <<StoreNow, OwnedNow, RepliesNow>>
<1>0. /\ Sim \in Tasks /\ Sim \notin Writers /\ Writers \subseteq Tasks /\ Sim \notin Pollers
      /\ Pollers \subseteq Tasks
  BY AgentAssumption DEF Tasks, Writers
<1>1. /\ pc[Sim] = "mirror" /\ pc'[Sim] = "sleep" /\ \A t \in Tasks \ {Sim} : pc'[t] = pc[t]
      /\ values' = Extend(values, Mirror(values)) /\ UNCHANGED <<driven, got>>
  BY <1>0 DEF SimMirror, Goto, TypeOK, polls
<1>2. StoreNow = Extend(values, Mirror(values)) /\ OwnedNow = driven
  BY <1>1, Views DEF Seen
<1>3. \A t \in Writers : pc[t] # "write"
  BY <1>0, <1>1, OneChanges DEF HoldsAt
<1>4. StoreNow' = values' /\ OwnedNow' = driven'
  BY <1>0, <1>1, <1>3, ViewsNext DEF Seen
<1>5. RepliesNow' = RepliesNow
  BY <1>0, <1>1 DEF RepliesNow
<1> QED BY <1>1, <1>2, <1>4, <1>5
\* Reading the last binding makes the reply: a snapshot of the map, which nobody
\* changes under the reader's lock (build_response).
LEMMA ReadIsReply ==
    ASSUME TypeOK, LockInv, NEW p \in Pollers, Untorn(p), ReadDone(p)
    PROVE  Abstract!Reply(p)
<1>0. /\ Sim \in Tasks /\ p \in Tasks /\ p \notin Writers /\ p # Sim
      /\ Writers \subseteq Tasks /\ Pollers \subseteq Tasks /\ "values" \in Locks
  BY AgentAssumption DEF Tasks, Writers, Locks
<1>1. PICK l \in {"send", "encode"} : pc' = [pc EXCEPT ![p] = l]
  BY DEF ReadDone, Goto
<1>2. /\ pc[p] \in {"read", "v3read"} /\ Len(got[p]) = Len(req[p].oids)
      /\ UNCHANGED <<values, driven, rest, req, got>>
  BY DEF ReadDone, Goto, data, polls
<1>3. pc'[p] = l /\ \A t \in Tasks \ {p} : pc'[t] = pc[t]
  BY <1>0, <1>1 DEF TypeOK
<1>4. pc[Sim] # "mirror" /\ \A t \in Writers : pc[t] # "write"
  BY <1>0, <1>2, OneChanges DEF HoldsAt
<1>5. StoreNow = values
  BY <1>4, Views DEF Seen
<1>6. /\ Storing' = Storing /\ Storing = {}
      /\ (pc'[Sim] = "mirror" <=> pc[Sim] = "mirror")
  BY <1>0, <1>3, <1>4 DEF Storing
<1>7. StoreNow' = StoreNow /\ OwnedNow' = OwnedNow
  BY <1>2, <1>4, <1>6 DEF StoreNow, OwnedNow
<1> DEFINE r == req[p]
<1>8. r \in Requests /\ r.oids \in Seq(Seq(Nat))
  BY <1>2, AgentAssumption DEF TypeOK
<1>9. got[p] = [i \in DOMAIN r.oids |-> Answer(values, r.next, r.oids[i])]
  <2>1. IsSeq(got[p])
    BY DEF TypeOK
  <2>2. got[p] = [i \in 1..Len(got[p]) |-> got[p][i]]
    BY <2>1 DEF IsSeq
  <2>3. DOMAIN r.oids = 1..Len(r.oids)
    BY <1>8
  <2>4. \A i \in 1..Len(got[p]) : got[p][i] = Answer(values, r.next, r.oids[i])
    BY <1>2 DEF Untorn
  <2> HIDE DEF r
  <2>5. Len(got[p]) = Len(r.oids)
    BY <1>2 DEF r
  <2> QED BY <2>2, <2>3, <2>4, <2>5
<1>10. got[p] = Abstract!Snapshot(r)
  BY <1>5, <1>9, SameAnswer DEF Abstract!Snapshot
<1>11. RepliesNow[p] = {} /\ RepliesNow' = [RepliesNow EXCEPT ![p] = {got[p]}]
  BY <1>0, <1>2, <1>3 DEF RepliesNow
<1> QED BY <1>7, <1>8, <1>10, <1>11 DEF Abstract!Reply

\* The discovery report is a reply of its own (v3.rs:98-104).
LEMMA ReportIsReply ==
    ASSUME TypeOK, NEW p \in Pollers, Discover(p)
    PROVE  Abstract!Reply(p)
<1>0. /\ Sim \in Tasks /\ p \in Tasks /\ p \notin Writers /\ p # Sim
      /\ Writers \subseteq Tasks /\ Pollers \subseteq Tasks
  BY AgentAssumption DEF Tasks, Writers
<1>1. /\ pc[p] = "verify" /\ pc'[p] = "send" /\ \A t \in Tasks \ {p} : pc'[t] = pc[t]
      /\ got'[p] = Report /\ \A q \in Pollers \ {p} : got'[q] = got[q]
      /\ UNCHANGED <<values, driven, rest, req>>
  BY <1>0 DEF Discover, Goto, TypeOK, data
<1>2. Storing' = Storing /\ (pc'[Sim] = "mirror" <=> pc[Sim] = "mirror")
  BY <1>0, <1>1 DEF Storing
<1>3. StoreNow' = StoreNow /\ OwnedNow' = OwnedNow
  BY <1>1, <1>2 DEF StoreNow, OwnedNow, Extend, Mirror
<1>4. RepliesNow[p] = {} /\ RepliesNow' = [RepliesNow EXCEPT ![p] = {Report}]
  BY <1>0, <1>1 DEF RepliesNow
<1>5. Abstract!Report = Report
  BY DEF Abstract!Report, Report
<1> QED BY <1>3, <1>4, <1>5 DEF Abstract!Reply

\* Sending delivers the reply (send_to in main.rs), and one that cannot be
\* encoded is given up.
LEMMA SendIsDeliver ==
    ASSUME TypeOK, NEW p \in Pollers, Send(p) \/ EncodeFails(p)
    PROVE  Abstract!Deliver(p)
<1>0. /\ Sim \in Tasks /\ p \in Tasks /\ p \notin Writers /\ p # Sim
      /\ Writers \subseteq Tasks /\ Pollers \subseteq Tasks
  BY AgentAssumption DEF Tasks, Writers
<1>1. /\ pc[p] \in {"encode", "send"} /\ pc' = [pc EXCEPT ![p] = "idle"]
      /\ got' = [got EXCEPT ![p] = <<>>]
      /\ UNCHANGED <<values, driven, rest>>
  BY DEF Send, EncodeFails, GiveUp, Goto, data
<1>5. /\ pc'[p] = "idle" /\ \A t \in Tasks \ {p} : pc'[t] = pc[t]
      /\ \A q \in Pollers \ {p} : got'[q] = got[q]
  BY <1>0, <1>1 DEF TypeOK
<1>2. Storing' = Storing /\ (pc'[Sim] = "mirror" <=> pc[Sim] = "mirror")
  BY <1>0, <1>1, <1>5 DEF Storing
<1>3. StoreNow' = StoreNow /\ OwnedNow' = OwnedNow
  BY <1>1, <1>2 DEF StoreNow, OwnedNow, Extend, Mirror
<1>4. RepliesNow[p] = {got[p]} /\ RepliesNow' = [RepliesNow EXCEPT ![p] = {}]
  BY <1>0, <1>1, <1>5 DEF RepliesNow
<1> QED BY <1>3, <1>4 DEF Abstract!Deliver

\* What a poller does before its reply is made, or with a reply that is made, is
\* not seen.
LEMMA PollUnseen ==
    ASSUME TypeOK, NEW p \in Pollers,
           \/ Receive(p) \/ TakeState(p) \/ Drop(p) \/ Verified(p)
           \/ TakeValues(p) \/ ReadBinding(p) \/ Panic(p) \/ Encode(p)
    PROVE  UNCHANGED <<StoreNow, OwnedNow, RepliesNow>>
<1>0. /\ Sim \in Tasks /\ p \in Tasks /\ p \notin Writers /\ p # Sim
      /\ Writers \subseteq Tasks /\ Pollers \subseteq Tasks /\ pc \in [Tasks -> Labels]
  BY AgentAssumption DEF Tasks, Writers, TypeOK
<1> USE DEF data, polls
<1>1. CASE Receive(p)
  <2>1. PICK l \in {"get", "wantState"} : Goto(p, "idle", l)
    BY <1>1 DEF Receive
  <2>2. UNCHANGED <<values, driven, rest, got>>
    BY <1>1 DEF Receive
  <2> QED BY <1>0, <2>1, <2>2, Unseen
<1>2. CASE TakeState(p)
  BY <1>0, <1>2, Unseen DEF TakeState
<1>3. CASE Drop(p)
  BY <1>0, <1>3, Unseen DEF Drop
<1>4. CASE Verified(p)
  BY <1>0, <1>4, Unseen DEF Verified
<1>5. CASE TakeValues(p)
  <2>1. UNCHANGED <<values, driven, rest, got>>
    BY <1>5 DEF TakeValues
  <2>2. CASE Goto(p, "get", "read")
    BY <1>0, <2>1, <2>2, Unseen
  <2>3. CASE Goto(p, "v3get", "v3read")
    BY <1>0, <2>1, <2>3, Unseen
  <2> QED BY <1>5, <2>2, <2>3 DEF TakeValues
<1>6. CASE ReadBinding(p)
  <2>1. /\ pc[p] \in {"read", "v3read"} /\ UNCHANGED <<values, driven, rest, pc>>
        /\ \A q \in Pollers \ {p} : got'[q] = got[q]
    BY <1>6 DEF ReadBinding, TypeOK
  <2>2. StoreNow' = StoreNow /\ OwnedNow' = OwnedNow
    BY <2>1 DEF StoreNow, OwnedNow, Storing, Extend, Mirror
  <2> QED BY <2>1, <2>2 DEF RepliesNow
<1>7. CASE Encode(p)
  <2>1. /\ pc[p] = "encode" /\ pc'[p] = "send" /\ \A t \in Tasks \ {p} : pc'[t] = pc[t]
        /\ UNCHANGED <<values, driven, rest, got>>
    BY <1>0, <1>7 DEF Encode, Goto
  <2>2. Storing' = Storing /\ (pc'[Sim] = "mirror" <=> pc[Sim] = "mirror")
    BY <1>0, <2>1 DEF Storing
  <2>3. StoreNow' = StoreNow /\ OwnedNow' = OwnedNow
    BY <2>1, <2>2 DEF StoreNow, OwnedNow, Extend, Mirror
  <2> QED BY <1>0, <2>1, <2>3 DEF RepliesNow
<1>8. CASE Panic(p)
  <2>1. PICK l \in {"read", "v3read"} : pc[p] = l
    BY <1>8 DEF Panic
  <2>2. /\ Goto(p, l, "idle") /\ UNCHANGED <<values, driven, rest>>
        /\ \A q \in Pollers \ {p} : got'[q] = got[q]
    BY <1>8, <2>1 DEF Panic, GiveUp, Goto, TypeOK
  <2>3. {l, "idle"} \cap {"write", "mirror", "encode", "send"} = {}
    BY <2>1
  <2> QED BY <1>0, <2>2, <2>3, Unseen
<1> QED BY <1>1, <1>2, <1>3, <1>4, <1>5, <1>6, <1>7, <1>8

\* Nor is what the other tasks do outside their critical sections.
LEMMA TaskUnseen ==
    ASSUME TypeOK,
           \/ SimWake \/ SimTakeDriven \/ SimTakeValues
           \/ PduFetched \/ PduFetchFailed \/ PduWake \/ PduSnapshot
           \/ \E c \in Clients : Put(c) \/ PutReject(c) \/ PutParsed(c) \/ PutTakeDriven(c)
    PROVE  UNCHANGED <<StoreNow, OwnedNow, RepliesNow>>
<1>0. /\ {Sim, Pdu} \subseteq Tasks /\ Clients \subseteq Tasks /\ Pdu \in Writers
      /\ Clients \subseteq Writers /\ pc \in [Tasks -> Labels] /\ DOMAIN rest = Writers
  BY DEF Tasks, Writers, TypeOK
<1> USE DEF data, polls
<1>1. CASE SimWake
  BY <1>0, <1>1, Unseen DEF SimWake
<1>2. CASE SimTakeDriven
  BY <1>0, <1>2, Unseen DEF SimTakeDriven
<1>3. CASE SimTakeValues
  BY <1>0, <1>3, Unseen DEF SimTakeValues
<1>4. CASE PduFetched
  BY <1>0, <1>4, Unseen DEF PduFetched
<1>5. CASE PduFetchFailed
  BY <1>0, <1>5, Unseen DEF PduFetchFailed
<1>6. CASE PduWake
  BY <1>0, <1>6, Unseen DEF PduWake
<1>7. CASE PduSnapshot
  <2>1. /\ Goto(Pdu, "snapshot", "wantDriven") /\ UNCHANGED <<values, driven, req, got>>
        /\ \A w \in Writers \ {Pdu} : rest'[w] = rest[w]
    BY <1>0, <1>7 DEF PduSnapshot
  <2> QED BY <1>0, <2>1, Unseen
<1>8. ASSUME NEW c \in Clients, Put(c)
      PROVE  UNCHANGED <<StoreNow, OwnedNow, RepliesNow>>
  <2>1. /\ Goto(c, "idle", "parse") /\ UNCHANGED <<values, driven, req, got>>
        /\ \A w \in Writers \ {c} : rest'[w] = rest[w]
    BY <1>0, <1>8 DEF Put
  <2> QED BY <1>0, <2>1, Unseen
<1>9. ASSUME NEW c \in Clients, PutReject(c)
      PROVE  UNCHANGED <<StoreNow, OwnedNow, RepliesNow>>
  <2>1. /\ Goto(c, "parse", "idle") /\ UNCHANGED <<values, driven, req, got>>
        /\ \A w \in Writers \ {c} : rest'[w] = rest[w]
    BY <1>0, <1>9 DEF PutReject
  <2> QED BY <1>0, <2>1, Unseen
<1>10. ASSUME NEW c \in Clients, PutParsed(c)
       PROVE  UNCHANGED <<StoreNow, OwnedNow, RepliesNow>>
  BY <1>0, <1>10, Unseen DEF PutParsed
<1>11. ASSUME NEW c \in Clients, PutTakeDriven(c)
       PROVE  UNCHANGED <<StoreNow, OwnedNow, RepliesNow>>
  BY <1>0, <1>11, Unseen DEF PutTakeDriven
<1> QED BY <1>1, <1>2, <1>3, <1>4, <1>5, <1>6, <1>7, <1>8, <1>9, <1>10, <1>11

\* What holds when a step is taken, and what the locks say after it.
Ongoing == TypeOK /\ LockInv /\ Ready /\ \A p \in Pollers : Untorn(p)

\* Every step of the tasks is a step of the store, or one that it does not see.
LEMMA StepsAreStoreSteps ==
    Ongoing /\ LockInv' /\ [Next]_vars => [Abstract!Next]_(Abstract!vars)
<1> SUFFICES ASSUME Ongoing, LockInv', [Next]_vars
             PROVE  Abstract!Next \/ UNCHANGED Abstract!vars
  OBVIOUS
<1> USE DEF Ongoing
<1>1. ASSUME UNCHANGED <<StoreNow, OwnedNow, RepliesNow>> PROVE UNCHANGED Abstract!vars
  BY <1>1 DEF Abstract!vars
<1>2. CASE SimStep
  BY <1>1, <1>2, TickIsDrift, MirrorUnseen, TaskUnseen DEF SimStep, Abstract!Next
<1>3. CASE PduStep
  <2>1. Pdu \in Writers
    BY DEF Writers
  <2>2. CASE WriteEntry(Pdu) \/ WriteDone(Pdu, "sleep")
    BY <1>1, <2>1, <2>2, StoringUnseen
  <2>3. CASE PduClaim
    BY <2>3, ClaimIsClaim DEF Abstract!Next
  <2>4. CASE PduTakeValues
    BY <2>4, LoadIsFollow DEF Abstract!Next
  <2>5. CASE PduFetched \/ PduFetchFailed \/ PduWake \/ PduSnapshot
    BY <1>1, <2>5, TaskUnseen
  <2> QED BY <1>3, <2>2, <2>3, <2>4, <2>5 DEF PduStep, PduGoOn
<1>4. ASSUME NEW c \in Clients, Put(c) \/ PutStep(c)
      PROVE  Abstract!Next \/ UNCHANGED Abstract!vars
  <2>1. c \in Writers
    BY DEF Writers
  <2>2. CASE WriteEntry(c) \/ WriteDone(c, "idle")
    BY <1>1, <2>1, <2>2, StoringUnseen
  <2>3. CASE PutTakeValues(c)
    BY <2>3, PutIsWrite DEF Abstract!Next
  <2>4. CASE Put(c) \/ PutReject(c) \/ PutParsed(c) \/ PutTakeDriven(c)
    BY <1>1, <2>4, TaskUnseen
  <2> QED BY <1>4, <2>2, <2>3, <2>4 DEF PutStep
<1>5. ASSUME NEW p \in Pollers, Receive(p) \/ PollStep(p)
      PROVE  Abstract!Next \/ UNCHANGED Abstract!vars
  <2>1. CASE ReadDone(p)
    BY <2>1, ReadIsReply DEF Abstract!Next
  <2>2. CASE Discover(p)
    BY <2>2, ReportIsReply DEF Abstract!Next
  <2>3. CASE Send(p) \/ EncodeFails(p)
    BY <2>3, SendIsDeliver DEF Abstract!Next
  <2>4. CASE ~(ReadDone(p) \/ Discover(p) \/ Send(p) \/ EncodeFails(p))
    BY <1>1, <1>5, <2>4, PollUnseen DEF PollStep
  <2> QED BY <2>1, <2>2, <2>3, <2>4
<1>6. CASE UNCHANGED vars
  BY <1>1, <1>6 DEF vars, StoreNow, OwnedNow, RepliesNow, Storing, Extend, Mirror
<1> QED BY <1>2, <1>3, <1>4, <1>5, <1>6 DEF Next

\* The agent with its tasks and locks is, to its clients, one store that each PUT,
\* load update and tick changes in one step and every reply shows at one instant,
\* for any number of clients and pollers and any batches, requests and draws.
THEOREM StoreImplemented == Spec => ImplementsOidStore
<1>1. Init => Ready
  <2> SUFFICES ASSUME Init PROVE Ready
    OBVIOUS
  <2>1. \A w \in Writers : pc[w] \in {"idle", "fetch"}
    BY AgentAssumption DEF Init, Tasks, Writers
  <2>2. Measured
    BY InitialMeasured DEF Init, Measured
  <2> QED BY <2>1, <2>2 DEF Ready, LoadReady, BatchReady, Writers
<1>2. Spec => []Ready
  BY <1>1, ReadyKept, TypeCorrect, MutualExclusion, PTL DEF Spec
<1>3. Spec => []Ongoing
  BY <1>2, TypeCorrect, MutualExclusion, RepliesUntorn, PTL DEF Ongoing
<1> QED BY <1>3, MutualExclusion, StartsAsStore, StepsAreStoreSteps, PTL
        DEF Spec, Abstract!Spec, ImplementsOidStore
=============================================================================
