--------------------------- MODULE BessRackProofs ---------------------------
(***************************************************************************)
(* What holds of every bess_rack, whatever its word, rating and capacity.  *)
(***************************************************************************)
EXTENDS BessRack, TLAPS

-----------------------------------------------------------------------------
(* Arithmetic.                                                             *)

\* A division and its remainder, as the words of a number are taken.
LEMMA Split ==
    ASSUME NEW x \in Nat, NEW d \in Nat \ {0}
    PROVE  /\ x \div d \in Nat /\ x % d \in 0..(d - 1)
           /\ x = (x \div d) * d + (x % d)
  BY SMTT(30)

\* A quotient is bounded by what its numerator is bounded by.
LEMMA QuotientBound ==
    ASSUME NEW x \in Nat, NEW d \in Nat \ {0}, NEW b \in Nat, x < b * d + d
    PROVE  x \div d \in 0..b
<1> DEFINE q == x \div d
<1>1. q \in Nat /\ q * d <= x
  BY Split
<1>2. q * d < b * d + d
  BY <1>1
<1>3. ~(b + 1 <= q)
  <2> SUFFICES ASSUME b + 1 <= q PROVE FALSE
    OBVIOUS
  <2> HIDE DEF q
  <2>1. PICK k \in Nat : q = b + 1 + k
    <3>1. q - (b + 1) \in Nat /\ q = b + 1 + (q - (b + 1))
      BY <1>1
    <3> QED BY <3>1
  <2>2. q * d = b * d + d + k * d /\ k * d >= 0
    BY <2>1, SMTT(30)
  <2> QED BY <1>2, <2>2
<1> HIDE DEF q
<1>4. q \in 0..b
  BY <1>1, <1>3
<1> QED BY <1>4 DEF q

\* A product grows with its factor.
LEMMA TimesMonotone ==
    ASSUME NEW a \in Nat, NEW b \in Nat, NEW c \in Nat, a <= b
    PROVE  c * a <= c * b /\ c * a \in Nat /\ c * b \in Nat
<1>1. PICK k \in Nat : b = a + k
  <2>1. b - a \in Nat /\ b = a + (b - a)
    OBVIOUS
  <2> QED BY <2>1
<1>2. c * b = c * a + c * k /\ c * k >= 0
  BY <1>1, SMTT(30)
<1> QED BY <1>2

\* A clamped number is within the bounds (i64::clamp).
LEMMA ClampType ==
    ASSUME NEW x \in Int, NEW lo \in Int, NEW hi \in Int, lo <= hi
    PROVE  Clamp(x, lo, hi) \in lo..hi
  BY DEF Clamp

-----------------------------------------------------------------------------
(* The registers.                                                          *)

\* The assumptions in the form that the provers use.
LEMMA Constants ==
    /\ Word \in Nat /\ Word >= 4
    /\ Word * Word \in Nat /\ Word * Word >= 16
    /\ I32Max \in Nat /\ 2 * I32Max + 2 = Word * Word
    /\ Rated \in 1..I32Max
    /\ Full \in Nat \ {0} /\ LowTaper \in Nat /\ HighTaper \in Nat
    /\ 5 * LowTaper = Full /\ 10 * HighTaper = Full
    /\ Rated <= HighTaper /\ Rated <= LowTaper
    /\ InitialSoc \in 0..Full
<1>1. Word \in Nat /\ Word >= 4 /\ Word % 2 = 0
  BY RackAssumption DEF RackAssumption
<1>2. PICK k \in Nat : Word = 2 * k
  <2>1. Word \div 2 \in Nat /\ Word = 2 * (Word \div 2)
    BY <1>1
  <2> QED BY <2>1
<1>3. k >= 2 /\ k * k >= 4 /\ k * k \in Nat
  BY <1>1, <1>2, SMTT(30)
<1>4. Word * Word = 4 * (k * k)
  BY <1>2, SMTT(30)
<1>5. Word * Word \in Nat /\ Word * Word >= 16 /\ I32Max \in Nat /\ 2 * I32Max + 2 = Word * Word
  BY <1>3, <1>4 DEF I32Max
<1>6. Rated \in 0..I32Max /\ Rated > 0
  BY RackAssumption, TickAssumption DEF RackAssumption, TickAssumption, I32Max
<1>7. Full \in Nat /\ Full % 10 = 0 /\ InitialSoc \in 0..Full /\ Rated <= Full \div 10
  BY RackAssumption, TickAssumption DEF RackAssumption, TickAssumption, HighTaper
<1>8. LowTaper \in Nat /\ HighTaper \in Nat /\ 5 * LowTaper = Full /\ 10 * HighTaper = Full
  BY <1>7 DEF LowTaper, HighTaper
<1> HIDE DEF I32Max, LowTaper, HighTaper
<1>9. Rated <= HighTaper
  BY TickAssumption DEF TickAssumption
<1> QED BY <1>1, <1>5, <1>6, <1>7, <1>8, <1>9

\* Both words of an int32 are words, and make up its value modulo 2^32.
LEMMA WordsOf ==
    ASSUME NEW x \in Int
    PROVE  LET raw == x % (Word * Word)
           IN  /\ raw \in 0..(Word * Word - 1)
               /\ raw \div Word \in Words /\ raw % Word \in Words
               /\ (raw \div Word) * Word + (raw % Word) = raw
<1> DEFINE m == Word * Word
           raw == x % m
<1>1. m \in Nat \ {0} /\ Word \in Nat \ {0}
  BY Constants
<1>2. raw \in 0..(m - 1)
  <2> HIDE DEF m
  <2> QED BY <1>1, SMTT(30)
<1>6. raw \in Nat /\ Word \in Nat \ {0}
  BY <1>1, <1>2
<1> HIDE DEF raw, m
<1>3. /\ raw \div Word \in Nat /\ raw % Word \in 0..(Word - 1)
      /\ raw = (raw \div Word) * Word + (raw % Word)
  BY <1>6, Split
<1>5. raw \div Word \in 0..(Word - 1)
  <2> DEFINE q == raw \div Word
  <2>1. q * Word <= raw
    BY <1>1, <1>3, <1>2
  <2>2. ~(Word <= q)
    <3> SUFFICES ASSUME Word <= q PROVE FALSE
      OBVIOUS
    <3>1. Word * Word <= Word * q
      BY TimesMonotone, <1>1, <1>3
    <3>2. Word * q = q * Word
      BY <1>1, <1>3
    <3> QED BY <2>1, <3>1, <3>2, <1>1, <1>2, <1>3 DEF m
  <2> HIDE DEF q
  <2> QED BY <2>2, <1>1, <1>3 DEF q
<1> QED BY <1>2, <1>3, <1>5 DEF Words, raw, m

\* Storing a word leaves registers of words (put).
LEMMA PutType ==
    ASSUME NEW h \in [Addrs -> Words], NEW owned, NEW a \in Addrs, NEW x \in Words
    PROVE  put(h, owned, a, x) \in [Addrs -> Words]
  BY DEF put

\* So does storing an int32 (put_i32).
LEMMA PutPairType ==
    ASSUME NEW h \in [Addrs -> Words], NEW owned, NEW a \in Pairs, NEW x \in Int
    PROVE  put_i32(h, owned, a, x) \in [Addrs -> Words]
  BY WordsOf DEF put_i32

\* An int32 that no word of is driven reads back as it was written.
LEMMA ReadsBack ==
    ASSUME NEW h \in [Addrs -> Words], NEW owned, NEW a \in Pairs,
           a \notin owned, a + 1 \notin owned,
           NEW x \in (-I32Max)..I32Max
    PROVE  read_i32(put_i32(h, owned, a, x), a) = x
<1> DEFINE m == Word * Word
           raw == x % m
           g == put_i32(h, owned, a, x)
<1>1. m \in Nat /\ 2 * I32Max + 2 = m /\ I32Max \in Nat
  BY Constants
<1>2. raw = IF x >= 0 THEN x ELSE x + m
  <2> HIDE DEF m
  <2> QED BY <1>1, SMTT(30)
<1>3. a \in Addrs /\ a + 1 \in Addrs /\ a # a + 1
  BY DEF Addrs, Pairs, ACTIVE_POWER, ENERGY_DISCHARGED, SETPOINT, MAX_CHARGE, MAX_DISCHARGE
<1>4. g[a] = raw \div Word /\ g[a + 1] = raw % Word
  BY <1>3 DEF put_i32
<1>5. g[a] * Word + g[a + 1] = raw
  BY <1>4, WordsOf
<1> HIDE DEF g, raw, m
<1>6. read_i32(g, a) = IF raw > I32Max THEN raw - m ELSE raw
  BY <1>5 DEF read_i32, m
<1> QED BY <1>1, <1>2, <1>6 DEF g

-----------------------------------------------------------------------------
(* The battery.                                                            *)

\* A tapered limit stays within the rating and, when the rating is no more than
\* the taper holds, within what is left in the taper.
LEMMA Taper ==
    ASSUME NEW t \in Nat, Rated <= t, NEW c \in 0..t
    PROVE  (Rated * c) \div t \in 0..Rated /\ (Rated * c) \div t <= c
<1>1. Rated \in Nat \ {0} /\ t \in Nat \ {0} /\ c \in Nat
  BY Constants
<1>2. Rated * c <= Rated * t /\ Rated * c \in Nat
  BY <1>1, TimesMonotone
<1>3. c * Rated <= c * t /\ c * Rated = Rated * c
  BY <1>1, TimesMonotone
<1> DEFINE x == Rated * c
<1>4. x \in Nat /\ x <= Rated * t /\ x <= c * t
  BY <1>2, <1>3
<1> HIDE DEF x
<1>5. x < Rated * t + t /\ x < c * t + t
  BY <1>1, <1>2, <1>3, <1>4
<1>6. x \div t \in 0..Rated /\ x \div t \in 0..c
  BY <1>1, <1>4, <1>5, QuotientBound
<1> QED BY <1>1, <1>6 DEF x

\* From a charge within its bounds, the limits are within the rating, and what
\* can be taken or given in a tick is there to be taken, or fits.
LEMMA Limits ==
    ASSUME NEW e \in 0..Full
    PROVE  /\ max_discharge_w(e) \in 0..Rated /\ max_discharge_w(e) <= e
           /\ max_charge_w(e) \in 0..Rated /\ max_charge_w(e) <= Full - e
<1>1. Clamp(e, 0, LowTaper) \in 0..LowTaper /\ Clamp(e, 0, LowTaper) <= e
  BY Constants DEF Clamp
<1>2. Clamp(Full - e, 0, HighTaper) \in 0..HighTaper
        /\ Clamp(Full - e, 0, HighTaper) <= Full - e
  BY Constants DEF Clamp
<1>3. max_discharge_w(e) \in 0..Rated /\ max_discharge_w(e) <= Clamp(e, 0, LowTaper)
  BY <1>1, Taper, Constants DEF max_discharge_w
<1>4. max_charge_w(e) \in 0..Rated /\ max_charge_w(e) <= Clamp(Full - e, 0, HighTaper)
  BY <1>2, Taper, Constants DEF max_charge_w
<1> QED BY <1>1, <1>2, <1>3, <1>4, Constants

\* From any charge, even one driven beyond 100 %, the limits are within the
\* rating.
LEMMA LimitsType ==
    ASSUME NEW e \in Int
    PROVE  max_discharge_w(e) \in 0..Rated /\ max_charge_w(e) \in 0..Rated
<1>1. Clamp(e, 0, LowTaper) \in 0..LowTaper /\ Clamp(Full - e, 0, HighTaper) \in 0..HighTaper
  BY Constants DEF Clamp
<1> QED BY <1>1, Taper, Constants DEF max_discharge_w, max_charge_w

\* What the rack delivers is within the limits of its charge (deliverable).
LEMMA DeliverableType ==
    ASSUME NEW e \in Int, NEW p \in Int
    PROVE  deliverable(e, p) \in (-max_charge_w(e))..max_discharge_w(e)
<1>1. -max_charge_w(e) \in Int /\ max_discharge_w(e) \in Int
        /\ -max_charge_w(e) <= max_discharge_w(e)
  BY LimitsType, Constants
<1> QED BY <1>1, ClampType DEF deliverable

\* A pair of registers reads as an integer (read_i32).
LEMMA ReadType ==
    ASSUME NEW h \in [Addrs -> Words], NEW a \in Pairs
    PROVE  read_i32(h, a) \in Int
<1>1. h[a] \in Nat /\ h[a + 1] \in Nat /\ Word \in Nat
  BY Constants DEF Addrs, Words
<1>2. h[a] * Word \in Nat /\ Word * Word \in Nat
  BY <1>1, Constants, TimesMonotone
<1> QED BY <1>1, <1>2 DEF read_i32

\* A charge within the capacity fits its register.
LEMMA SocRegisterType ==
    ASSUME NEW e \in 0..Full
    PROVE  SocRegister(e) \in Words
<1> DEFINE k == Full \div SocStep
<1>1. SocStep \in Nat \ {0} /\ Full \in Nat /\ k + 1 < Word
  BY RackAssumption DEF RackAssumption
<1>2. k \in Nat /\ Full % SocStep \in 0..(SocStep - 1) /\ Full = k * SocStep + (Full % SocStep)
  BY <1>1, Split
<1> HIDE DEF k
<1>3. k * SocStep \in Nat
  BY <1>1, <1>2, SMTT(30)
<1>4. (k + 1) * (2 * SocStep) = 2 * (k * SocStep) + 2 * SocStep
  BY <1>1, <1>2, SMTT(30)
<1> DEFINE n == 2 * e + SocStep
           d == 2 * SocStep
<1>5. n \in Nat /\ d \in Nat \ {0} /\ k + 1 \in Nat
  BY <1>1, <1>2
<1>6. n < (k + 1) * d + d
  <2>1. e \in Nat /\ e < k * SocStep + SocStep
    BY <1>1, <1>2, <1>3
  <2>2. n < 2 * (k * SocStep) + 2 * SocStep + 2 * SocStep
    BY <2>1, <1>1, <1>3
  <2> QED BY <2>2, <1>4
<1>7. n \div d \in 0..(k + 1)
  <2> HIDE DEF n, d
  <2> QED BY <1>5, <1>6, QuotientBound
<1>8. SocRegister(e) = n \div d
  BY DEF SocRegister
<1> HIDE DEF n, d
<1> QED BY <1>1, <1>2, <1>7, <1>8, Constants DEF Words

-----------------------------------------------------------------------------
(* Types.                                                                  *)

\* The registers and pairs are at addresses that there are.
LEMMA AddrsOf ==
    /\ Pairs \subseteq Addrs /\ SOC \in Addrs /\ OPERATING_STATE \in Addrs
    /\ \A a \in Pairs : a \in Int /\ a + 1 \in Addrs
  BY DEF Addrs, Pairs, SOC, OPERATING_STATE, ACTIVE_POWER, ENERGY_DISCHARGED,
         SETPOINT, MAX_CHARGE, MAX_DISCHARGE

\* The charge a tick starts from and the power it moves.
LEMMA TickType ==
    ASSUME TypeOK
    PROVE  /\ SocNow \in Int /\ Power \in Int
           /\ Power \in (-max_charge_w(SocNow))..max_discharge_w(SocNow)
           /\ SocNext \in 0..Full /\ DischargedNext \in 0..I32Max
<1>1. SocNow \in Int
  <2>1. holding[SOC] \in Nat /\ SocStep \in Nat
    BY AddrsOf, Constants, RackAssumption DEF TypeOK, Words, RackAssumption
  <2>2. holding[SOC] * SocStep \in Nat
    BY <2>1, TimesMonotone
  <2> QED BY <2>2, Constants DEF SocNow, TypeOK
<1>2. read_i32(holding, SETPOINT) \in Int
  BY ReadType DEF TypeOK, Pairs
<1>3. Power \in (-max_charge_w(SocNow))..max_discharge_w(SocNow)
  BY <1>1, <1>2, DeliverableType DEF Power
<1>4. Power \in Int
  BY <1>1, <1>3, LimitsType, Constants
<1>5. SocNext \in 0..Full
  BY <1>1, <1>4, Constants, ClampType DEF SocNext
<1>6. DischargedNext \in 0..I32Max
  BY <1>4, Constants, ClampType DEF DischargedNext, TypeOK
<1> QED BY <1>1, <1>3, <1>4, <1>5, <1>6

\* The registers a tick publishes are words (Battery::step).
LEMMA PublishedType ==
    ASSUME TypeOK, NEW p \in Int, NEW e \in 0..Full, NEW d \in Int
    PROVE  Published(p, e, d) \in [Addrs -> Words]
<1> DEFINE h1 == put(holding, driven, SOC, SocRegister(e))
           h2 == put_i32(h1, driven, ACTIVE_POWER, p)
           h3 == put_i32(h2, driven, ENERGY_DISCHARGED, d)
           h4 == put_i32(h3, driven, MAX_CHARGE, max_charge_w(e))
           h5 == put_i32(h4, driven, MAX_DISCHARGE, max_discharge_w(e))
<1>0. /\ ACTIVE_POWER \in Pairs /\ ENERGY_DISCHARGED \in Pairs
      /\ MAX_CHARGE \in Pairs /\ MAX_DISCHARGE \in Pairs
  BY DEF Pairs
<1>1. h1 \in [Addrs -> Words]
  BY SocRegisterType, PutType, AddrsOf DEF TypeOK
<1>2. h2 \in [Addrs -> Words]
  <2> HIDE DEF h1
  <2> QED BY <1>0, <1>1, PutPairType
<1>3. h3 \in [Addrs -> Words]
  <2> HIDE DEF h2
  <2> QED BY <1>0, <1>2, PutPairType
<1>4. max_charge_w(e) \in Int /\ max_discharge_w(e) \in Int
  BY LimitsType, Constants
<1>5. h4 \in [Addrs -> Words]
  <2> HIDE DEF h3
  <2> QED BY <1>0, <1>3, <1>4, PutPairType
<1>6. h5 \in [Addrs -> Words]
  <2> HIDE DEF h4
  <2> QED BY <1>0, <1>4, <1>5, PutPairType
<1>7. StateOf(p) \in Words
  BY Constants DEF StateOf, Words, DISCHARGING, CHARGING, STANDBY
<1>8. put(h5, driven, OPERATING_STATE, StateOf(p)) \in [Addrs -> Words]
  <2> HIDE DEF h5
  <2> QED BY <1>6, <1>7, PutType, AddrsOf
<1> QED BY <1>8 DEF Published

\* A PUT or a protocol write of words keeps the types.
LEMMA ApplyType ==
    ASSUME TypeOK, NEW b, IsBatch(b), Apply(b)
    PROVE  TypeOK'
  BY DEF TypeOK, IsBatch, Apply

\* Every write is of addresses and words of the rack.
LEMMA WritesType ==
    ASSUME TypeOK, PutRegisters \/ WriteMultiple \/ WriteSingle
    PROVE  TypeOK'
<1>1. CASE PutRegisters
  BY <1>1, ApplyType, RackAssumption DEF PutRegisters, RackAssumption
<1>2. CASE WriteMultiple
  BY <1>2, ApplyType, RackAssumption DEF WriteMultiple, RackAssumption
<1>3. CASE WriteSingle
  <2>1. PICK w \in Fc6Writes : Apply([a \in {w[1]} |-> w[2]])
    BY <1>3 DEF WriteSingle
  <2>2. w[1] \in Addrs /\ w[2] \in Words
    BY RackAssumption DEF RackAssumption
  <2>3. IsBatch([a \in {w[1]} |-> w[2]])
    BY <2>2 DEF IsBatch
  <2> QED BY <2>1, <2>3, ApplyType
<1> QED BY <1>1, <1>2, <1>3

\* The registers always hold words, the charge stays within 0 % and 100 % and
\* the counter within its register, whatever is written (Battery::step,
\* MeterHandler).
THEOREM TypeCorrect == Spec => []TypeOK
<1>1. Init => TypeOK
  <2> SUFFICES ASSUME Init PROVE TypeOK
    OBVIOUS
  <2> DEFINE h == [a \in Addrs |-> IF a = SOC THEN SocRegister(InitialSoc) ELSE 0]
             g == put_i32(h, {}, MAX_CHARGE, max_charge_w(InitialSoc))
  <2>1. h \in [Addrs -> Words]
    BY SocRegisterType, Constants DEF Words
  <2>2. max_charge_w(InitialSoc) \in Int /\ max_discharge_w(InitialSoc) \in Int
    BY LimitsType, Constants
  <2>3. g \in [Addrs -> Words]
    <3> HIDE DEF h
    <3> QED BY <2>1, <2>2, PutPairType DEF Pairs
  <2>4. put_i32(g, {}, MAX_DISCHARGE, max_discharge_w(InitialSoc)) \in [Addrs -> Words]
    <3> HIDE DEF g
    <3> QED BY <2>2, <2>3, PutPairType DEF Pairs
  <2> QED BY <2>4, Constants DEF Init, TypeOK
<1>2. TypeOK /\ [Next]_vars => TypeOK'
  <2> SUFFICES ASSUME TypeOK, [Next]_vars PROVE TypeOK'
    OBVIOUS
  <2>1. CASE Step
    <3>1. /\ Power \in Int /\ SocNext \in 0..Full /\ DischargedNext \in 0..I32Max
          /\ DischargedNext \in Int
      BY TickType, Constants
    <3>2. Published(Power, SocNext, DischargedNext) \in [Addrs -> Words]
      BY <3>1, PublishedType
    <3> QED BY <2>1, <3>1, <3>2 DEF Step, TypeOK
  <2>2. CASE PutRegisters \/ WriteMultiple \/ WriteSingle
    BY <2>2, WritesType
  <2>3. CASE UNCHANGED vars
    BY <2>3 DEF vars, TypeOK
  <2> QED BY <2>1, <2>2, <2>3 DEF Next
<1> QED BY <1>1, <1>2, PTL DEF Spec

-----------------------------------------------------------------------------
(* What the counter counts.                                                *)

\* A step that changes the charge is a tick: no write touches the model's own.
LEMMA OnlyTicksCharge ==
    ASSUME [Next]_vars, soc' # soc
    PROVE  Step
  BY DEF Next, vars, PutRegisters, WriteMultiple, WriteSingle, Apply

\* While the charge is the model's own, a tick moves exactly its power: the
\* clamp at 0 % and 100 % never bites.
LEMMA ClampIdle ==
    ASSUME TypeOK, SOC \notin driven
    PROVE  SocNext = soc - Power /\ Power \in (-Full)..Full
<1>1. SocNow = soc /\ soc \in 0..Full
  BY DEF SocNow, TypeOK
<1>2. Power \in (-max_charge_w(soc))..max_discharge_w(soc)
  BY <1>1, TickType
<1>3. Power <= soc /\ Power >= -(Full - soc)
  BY <1>1, <1>2, Limits, Constants
<1> QED BY <1>1, <1>3, TickType, Constants DEF SocNext, Clamp

\* The energy counter of the rack counts what left the battery, for every
\* rating that its tapers can bear (Battery::step, battery.rs:52-58).
THEOREM EnergyIsMetered == Spec => MetersWhatLeft
<1> DEFINE A == (SOC \notin driven /\ soc' # soc /\ discharged' < I32Max)
                    => discharged' - discharged = Clamp(soc - soc', 0, Full)
<1>1. TypeOK /\ [Next]_vars => [A]_vars
  <2> SUFFICES ASSUME TypeOK, [Next]_vars, SOC \notin driven, soc' # soc,
                      discharged' < I32Max
               PROVE  discharged' - discharged = Clamp(soc - soc', 0, Full)
    BY DEF vars
  <2>1. Step
    BY OnlyTicksCharge
  <2>2. soc' = soc - Power /\ Power \in (-Full)..Full /\ soc \in 0..Full
    BY <2>1, ClampIdle DEF Step, TypeOK
  <2>3. discharged' = IF Power > 0 THEN Clamp(discharged + Power, 0, I32Max) ELSE discharged
    BY <2>1 DEF Step, DischargedNext
  <2>4. discharged \in 0..I32Max
    BY DEF TypeOK
  <2> QED BY <2>2, <2>3, <2>4, Constants DEF Clamp
<1>2. Spec => []TypeOK
  BY TypeCorrect
<1>3. MetersWhatLeft <=> [][A]_vars
  BY DEF MetersWhatLeft
<1> QED BY <1>1, <1>2, <1>3, PTL DEF Spec

-----------------------------------------------------------------------------
(* What the registers report.                                              *)

\* Writing one pair or one register leaves the other pairs as they were.
LEMMA ReadsElsewhere ==
    ASSUME NEW h \in [Addrs -> Words], NEW owned, NEW a \in Pairs, NEW x \in Int
    PROVE  /\ \A b \in Pairs \ {a} : read_i32(put_i32(h, owned, b, x), a) = read_i32(h, a)
           /\ \A b \in {SOC, OPERATING_STATE} : read_i32(put(h, owned, b, x), a) = read_i32(h, a)
<1>1. \A b \in Pairs \ {a} : {a, a + 1} \cap {b, b + 1} = {}
  BY DEF Pairs, ACTIVE_POWER, ENERGY_DISCHARGED, SETPOINT, MAX_CHARGE, MAX_DISCHARGE
<1>2. \A b \in {SOC, OPERATING_STATE} : b \notin {a, a + 1}
  BY DEF Pairs, SOC, OPERATING_STATE, ACTIVE_POWER, ENERGY_DISCHARGED, SETPOINT,
         MAX_CHARGE, MAX_DISCHARGE
<1>3. ASSUME NEW b \in Pairs \ {a}
      PROVE  read_i32(put_i32(h, owned, b, x), a) = read_i32(h, a)
  <2> DEFINE g == put_i32(h, owned, b, x)
  <2>1. g[a] = h[a] /\ g[a + 1] = h[a + 1]
    BY <1>1, AddrsOf DEF put_i32
  <2> HIDE DEF g
  <2> QED BY <2>1 DEF read_i32, g
<1>4. ASSUME NEW b \in {SOC, OPERATING_STATE}
      PROVE  read_i32(put(h, owned, b, x), a) = read_i32(h, a)
  <2> DEFINE g == put(h, owned, b, x)
  <2>1. g[a] = h[a] /\ g[a + 1] = h[a + 1]
    BY <1>2, AddrsOf DEF put
  <2> HIDE DEF g
  <2> QED BY <2>1 DEF read_i32, g
<1> QED BY <1>3, <1>4

\* A tick reports the power and both limits, each in a pair that nobody drives.
LEMMA PublishedReports ==
    ASSUME TypeOK, NEW e \in 0..Full, NEW d \in Int, NEW p \in (-I32Max)..I32Max
    PROVE  LET g == Published(p, e, d)
           IN  /\ driven \cap {ACTIVE_POWER, ACTIVE_POWER + 1} = {}
                    => read_i32(g, ACTIVE_POWER) = p
               /\ driven \cap {MAX_CHARGE, MAX_CHARGE + 1} = {}
                    => read_i32(g, MAX_CHARGE) = max_charge_w(e)
               /\ driven \cap {MAX_DISCHARGE, MAX_DISCHARGE + 1} = {}
                    => read_i32(g, MAX_DISCHARGE) = max_discharge_w(e)
<1> DEFINE c == max_charge_w(e)
           m == max_discharge_w(e)
           h1 == put(holding, driven, SOC, SocRegister(e))
           h2 == put_i32(h1, driven, ACTIVE_POWER, p)
           h3 == put_i32(h2, driven, ENERGY_DISCHARGED, d)
           h4 == put_i32(h3, driven, MAX_CHARGE, c)
           h5 == put_i32(h4, driven, MAX_DISCHARGE, m)
           g == put(h5, driven, OPERATING_STATE, StateOf(p))
<1>0. /\ ACTIVE_POWER \in Pairs \ {MAX_CHARGE, MAX_DISCHARGE, ENERGY_DISCHARGED}
      /\ MAX_CHARGE \in Pairs \ {MAX_DISCHARGE}
      /\ ENERGY_DISCHARGED \in Pairs /\ MAX_DISCHARGE \in Pairs
  BY DEF Pairs, ACTIVE_POWER, ENERGY_DISCHARGED, MAX_CHARGE, MAX_DISCHARGE
<1>1. /\ p \in Int /\ c \in (-I32Max)..I32Max /\ m \in (-I32Max)..I32Max
      /\ c \in Int /\ m \in Int /\ StateOf(p) \in Int
  BY LimitsType, Constants DEF StateOf, DISCHARGING, CHARGING, STANDBY
<1> HIDE DEF c, m
<1>2. h1 \in [Addrs -> Words]
  BY SocRegisterType, PutType, AddrsOf DEF TypeOK
<1> HIDE DEF h1
<1>3. h2 \in [Addrs -> Words]
  BY <1>0, <1>1, <1>2, PutPairType
<1>4. driven \cap {ACTIVE_POWER, ACTIVE_POWER + 1} = {} => read_i32(h2, ACTIVE_POWER) = p
  BY <1>0, <1>2, ReadsBack
<1> HIDE DEF h2
<1>5. h3 \in [Addrs -> Words] /\ read_i32(h3, ACTIVE_POWER) = read_i32(h2, ACTIVE_POWER)
  BY <1>0, <1>3, PutPairType, ReadsElsewhere
<1> HIDE DEF h3
<1>6. h4 \in [Addrs -> Words] /\ read_i32(h4, ACTIVE_POWER) = read_i32(h3, ACTIVE_POWER)
  BY <1>0, <1>1, <1>5, PutPairType, ReadsElsewhere
<1>7. driven \cap {MAX_CHARGE, MAX_CHARGE + 1} = {} => read_i32(h4, MAX_CHARGE) = c
  <2> SUFFICES ASSUME MAX_CHARGE \notin driven, MAX_CHARGE + 1 \notin driven
               PROVE  read_i32(h4, MAX_CHARGE) = c
    OBVIOUS
  <2>1. MAX_CHARGE \in Pairs /\ c \in (-I32Max)..I32Max /\ h3 \in [Addrs -> Words]
    BY <1>0, <1>1, <1>5
  <2> QED BY <2>1, ReadsBack DEF h4
<1> HIDE DEF h4
<1>8. /\ h5 \in [Addrs -> Words]
      /\ read_i32(h5, ACTIVE_POWER) = read_i32(h4, ACTIVE_POWER)
      /\ read_i32(h5, MAX_CHARGE) = read_i32(h4, MAX_CHARGE)
  BY <1>0, <1>1, <1>6, PutPairType, ReadsElsewhere
<1>9. driven \cap {MAX_DISCHARGE, MAX_DISCHARGE + 1} = {} => read_i32(h5, MAX_DISCHARGE) = m
  <2> SUFFICES ASSUME MAX_DISCHARGE \notin driven, MAX_DISCHARGE + 1 \notin driven
               PROVE  read_i32(h5, MAX_DISCHARGE) = m
    OBVIOUS
  <2>1. MAX_DISCHARGE \in Pairs /\ m \in (-I32Max)..I32Max /\ h4 \in [Addrs -> Words]
    BY <1>0, <1>1, <1>6
  <2> QED BY <2>1, ReadsBack DEF h5
<1> HIDE DEF h5
<1>10. \A a \in {ACTIVE_POWER, MAX_CHARGE, MAX_DISCHARGE} : read_i32(g, a) = read_i32(h5, a)
  <2> SUFFICES ASSUME NEW a \in Pairs PROVE read_i32(g, a) = read_i32(h5, a)
    BY <1>0
  <2> DEFINE x == StateOf(p)
  <2>1. x \in Int /\ h5 \in [Addrs -> Words]
    BY <1>1, <1>8
  <2> HIDE DEF x
  <2>2. read_i32(put(h5, driven, OPERATING_STATE, x), a) = read_i32(h5, a)
    BY <2>1, ReadsElsewhere
  <2> QED BY <2>2 DEF x
<1>11. g = Published(p, e, d)
  BY DEF Published, h5, h4, h3, h2, h1, c, m
<1> HIDE DEF g
<1> QED BY <1>4, <1>5, <1>6, <1>7, <1>8, <1>9, <1>10, <1>11 DEF c, m

\* The addresses on which the reported limits rest.
LimitAddrs == {SOC, MAX_CHARGE, MAX_CHARGE + 1, MAX_DISCHARGE, MAX_DISCHARGE + 1}

\* While they are left to the model, the registers report the limits of its
\* charge.  It holds between ticks, and is what makes the limits of one tick
\* bind the power of the next.
LimitsReported ==
    driven \cap LimitAddrs = {} =>
        /\ read_i32(holding, MAX_CHARGE) = max_charge_w(soc)
        /\ read_i32(holding, MAX_DISCHARGE) = max_discharge_w(soc)

\* The seed reports the limits of the initial charge.
LEMMA InitReports == Init => LimitsReported
<1> SUFFICES ASSUME Init PROVE LimitsReported
  OBVIOUS
<1> DEFINE c == max_charge_w(InitialSoc)
           m == max_discharge_w(InitialSoc)
           h == [a \in Addrs |-> IF a = SOC THEN SocRegister(InitialSoc) ELSE 0]
           g == put_i32(h, {}, MAX_CHARGE, c)
<1>1. h \in [Addrs -> Words]
  BY SocRegisterType, Constants DEF Words
<1>2. /\ c \in (-I32Max)..I32Max /\ m \in (-I32Max)..I32Max
      /\ c \in Int /\ m \in Int
  BY LimitsType, Constants
<1>3. MAX_CHARGE \in Pairs \ {MAX_DISCHARGE} /\ MAX_DISCHARGE \in Pairs
  BY DEF Pairs, MAX_CHARGE, MAX_DISCHARGE
<1>4. holding = put_i32(g, {}, MAX_DISCHARGE, m) /\ soc = InitialSoc
  BY DEF Init
<1> HIDE DEF c, m, h
<1>5. g \in [Addrs -> Words] /\ read_i32(g, MAX_CHARGE) = c
  BY <1>1, <1>2, <1>3, PutPairType, ReadsBack
<1> HIDE DEF g
<1>6. read_i32(holding, MAX_DISCHARGE) = m
  <2> DEFINE owned == {}
  <2>1. MAX_DISCHARGE \notin owned /\ MAX_DISCHARGE + 1 \notin owned
    OBVIOUS
  <2>2. holding = put_i32(g, owned, MAX_DISCHARGE, m)
    BY <1>4
  <2> HIDE DEF owned
  <2> QED BY <1>2, <1>3, <1>5, <2>1, <2>2, ReadsBack
<1>7. read_i32(holding, MAX_CHARGE) = c
  BY <1>2, <1>3, <1>4, <1>5, ReadsElsewhere
<1> QED BY <1>4, <1>6, <1>7 DEF LimitsReported, c, m

\* A write to none of those addresses leaves what they report.
LEMMA ApplyReports ==
    ASSUME TypeOK, LimitsReported, NEW b, IsBatch(b), Apply(b)
    PROVE  LimitsReported'
<1> SUFFICES ASSUME driven' \cap LimitAddrs = {}
             PROVE  /\ read_i32(holding', MAX_CHARGE) = max_charge_w(soc')
                    /\ read_i32(holding', MAX_DISCHARGE) = max_discharge_w(soc')
  BY DEF LimitsReported
<1>1. driven \cap LimitAddrs = {} /\ DOMAIN b \cap LimitAddrs = {} /\ soc' = soc
  BY DEF Apply
<1>2. LimitAddrs \subseteq Addrs
  BY DEF LimitAddrs, Addrs, Pairs
<1>3. \A a \in LimitAddrs : holding'[a] = holding[a]
  BY <1>1, <1>2 DEF Apply
<1>4. \A a \in {MAX_CHARGE, MAX_DISCHARGE} : read_i32(holding', a) = read_i32(holding, a)
  BY <1>3 DEF LimitAddrs, read_i32
<1> QED BY <1>1, <1>4 DEF LimitsReported

\* Every step keeps it: a tick publishes the limits of the new charge, and what it
\* does not drive no one else writes.
LEMMA ReportsKept ==
    ASSUME TypeOK, LimitsReported, [Next]_vars
    PROVE  LimitsReported'
<1>1. CASE Step
  <2>1. driven' = driven /\ soc' = SocNext /\ holding' = Published(Power, SocNext, DischargedNext)
    BY <1>1 DEF Step
  <2>2. /\ SocNext \in 0..Full /\ DischargedNext \in Int
        /\ Power \in (-I32Max)..I32Max
    BY TickType, LimitsType, Constants
  <2>3. driven \cap LimitAddrs = {} =>
            /\ driven \cap {MAX_CHARGE, MAX_CHARGE + 1} = {}
            /\ driven \cap {MAX_DISCHARGE, MAX_DISCHARGE + 1} = {}
    BY DEF LimitAddrs
  <2> QED BY <2>1, <2>2, <2>3, PublishedReports DEF LimitsReported
<1>2. CASE PutRegisters
  BY <1>2, ApplyReports, RackAssumption DEF PutRegisters, RackAssumption
<1>3. CASE WriteMultiple
  BY <1>3, ApplyReports, RackAssumption DEF WriteMultiple, RackAssumption
<1>4. CASE WriteSingle
  <2>1. PICK w \in Fc6Writes : Apply([a \in {w[1]} |-> w[2]])
    BY <1>4 DEF WriteSingle
  <2>2. IsBatch([a \in {w[1]} |-> w[2]])
    BY RackAssumption DEF RackAssumption, IsBatch
  <2> QED BY <2>1, <2>2, ApplyReports
<1>5. CASE UNCHANGED vars
  BY <1>5 DEF vars, LimitsReported
<1> QED BY <1>1, <1>2, <1>3, <1>4, <1>5 DEF Next

\* The output of a tick is within the limits that the registers reported before
\* it, for every rating, capacity and setpoint (Battery::deliverable).
THEOREM OutputWithinReported == Spec => WithinReportedLimits
<1> DEFINE All == LimitAddrs \cup {ACTIVE_POWER, ACTIVE_POWER + 1}
           A == (driven' = driven /\ soc' # soc
                    /\ driven \cap {SOC, ACTIVE_POWER, ACTIVE_POWER + 1,
                                    MAX_CHARGE, MAX_CHARGE + 1,
                                    MAX_DISCHARGE, MAX_DISCHARGE + 1} = {})
                 => read_i32(holding', ACTIVE_POWER)
                        \in -read_i32(holding, MAX_CHARGE)..read_i32(holding, MAX_DISCHARGE)
           I == TypeOK /\ LimitsReported
<1>1. I /\ [Next]_vars => [A]_vars
  <2> SUFFICES ASSUME I, [Next]_vars, soc' # soc, driven \cap All = {}
               PROVE  read_i32(holding', ACTIVE_POWER)
                        \in -read_i32(holding, MAX_CHARGE)..read_i32(holding, MAX_DISCHARGE)
    BY DEF vars, LimitAddrs
  <2>1. holding' = Published(Power, SocNext, DischargedNext)
    BY OnlyTicksCharge DEF Step
  <2>2. driven \cap LimitAddrs = {} /\ SOC \notin driven
        /\ driven \cap {ACTIVE_POWER, ACTIVE_POWER + 1} = {}
    BY DEF LimitAddrs
  <2>3. /\ SocNext \in 0..Full /\ DischargedNext \in Int
        /\ Power \in (-I32Max)..I32Max
        /\ Power \in (-max_charge_w(SocNow))..max_discharge_w(SocNow)
    BY TickType, LimitsType, Constants
  <2>4. read_i32(holding', ACTIVE_POWER) = Power
    BY <2>1, <2>2, <2>3, PublishedReports
  <2>5. SocNow = soc
    BY <2>2 DEF SocNow
  <2> QED BY <2>2, <2>3, <2>4, <2>5 DEF LimitsReported
<1>2. Spec => []TypeOK
  BY TypeCorrect
<1>3. Spec => []I
  <2>1. Init => LimitsReported
    BY InitReports
  <2>2. TypeOK /\ LimitsReported /\ [Next]_vars => LimitsReported'
    BY ReportsKept
  <2> QED BY <1>2, <2>1, <2>2, PTL DEF Spec
<1>4. WithinReportedLimits <=> [][A]_vars
  BY DEF WithinReportedLimits
<1> QED BY <1>1, <1>3, <1>4, PTL DEF Spec

-----------------------------------------------------------------------------
(* Words under external control.                                           *)

\* A single register that is written leaves every frozen word alone.
LEMMA PutFrozen ==
    ASSUME NEW h, DOMAIN h = Addrs, NEW r \in {SOC, OPERATING_STATE}, NEW x
    PROVE  /\ DOMAIN put(h, driven, r, x) = Addrs
           /\ \A a \in Frozen \cap Addrs : put(h, driven, r, x)[a] = h[a]
<1>1. \A p \in Pairs : r \notin {p, p + 1}
  BY DEF Pairs, SOC, OPERATING_STATE, ACTIVE_POWER, ENERGY_DISCHARGED, SETPOINT,
         MAX_CHARGE, MAX_DISCHARGE
<1>2. r \in Frozen => r \in driven
  BY <1>1 DEF Frozen
<1> QED BY <1>2 DEF put

\* So does an int32: its two words are computed together or not at all.
LEMMA PutPairFrozen ==
    ASSUME NEW h, DOMAIN h = Addrs, NEW p \in Pairs, NEW x
    PROVE  /\ DOMAIN put_i32(h, driven, p, x) = Addrs
           /\ \A a \in Frozen \cap Addrs : put_i32(h, driven, p, x)[a] = h[a]
<1> DEFINE g == put_i32(h, driven, p, x)
<1>1. CASE p \in driven \/ p + 1 \in driven
  BY <1>1 DEF put_i32
<1>2. CASE p \notin driven /\ p + 1 \notin driven
  <2>1. /\ DOMAIN g = Addrs
        /\ \A a \in Addrs : a \notin {p, p + 1} => g[a] = h[a]
    BY <1>2 DEF put_i32
  <2>2. \A q \in Pairs : q # p => {q, q + 1} \cap {p, p + 1} = {}
    BY DEF Pairs, ACTIVE_POWER, ENERGY_DISCHARGED, SETPOINT, MAX_CHARGE, MAX_DISCHARGE
  <2>3. p \notin Frozen /\ p + 1 \notin Frozen
    BY <1>2, <2>2 DEF Frozen
  <2> QED BY <2>1, <2>3
<1> QED BY <1>1, <1>2

\* A tick leaves every frozen word alone.
LEMMA PublishedFrozen ==
    ASSUME TypeOK, NEW p, NEW e, NEW d, NEW a \in Frozen
    PROVE  Published(p, e, d)[a] = holding[a]
<1> DEFINE h1 == put(holding, driven, SOC, SocRegister(e))
           h2 == put_i32(h1, driven, ACTIVE_POWER, p)
           h3 == put_i32(h2, driven, ENERGY_DISCHARGED, d)
           h4 == put_i32(h3, driven, MAX_CHARGE, max_charge_w(e))
           h5 == put_i32(h4, driven, MAX_DISCHARGE, max_discharge_w(e))
<1>0. /\ {ACTIVE_POWER, ENERGY_DISCHARGED, MAX_CHARGE, MAX_DISCHARGE} \subseteq Pairs
      /\ DOMAIN holding = Addrs /\ a \in Frozen \cap Addrs
  BY DEF Pairs, TypeOK, Frozen
<1>1. DOMAIN h1 = Addrs /\ h1[a] = holding[a]
  BY <1>0, PutFrozen
<1>2. DOMAIN h2 = Addrs /\ h2[a] = holding[a]
  <2> HIDE DEF h1
  <2> QED BY <1>0, <1>1, PutPairFrozen
<1>3. DOMAIN h3 = Addrs /\ h3[a] = holding[a]
  <2> HIDE DEF h2
  <2> QED BY <1>0, <1>2, PutPairFrozen
<1>4. DOMAIN h4 = Addrs /\ h4[a] = holding[a]
  <2> HIDE DEF h3
  <2> QED BY <1>0, <1>3, PutPairFrozen
<1>5. DOMAIN h5 = Addrs /\ h5[a] = holding[a]
  <2> HIDE DEF h4
  <2> QED BY <1>0, <1>4, PutPairFrozen
<1>6. put(h5, driven, OPERATING_STATE, StateOf(p))[a] = holding[a]
  <2> HIDE DEF h5
  <2> QED BY <1>0, <1>5, PutFrozen
<1> QED BY <1>6 DEF Published

\* No tick undoes a write, or mixes a written word with a computed one, for any
\* addresses that are driven (put, put_i32); a word that changes while it is
\* under external control changes to what some write stores there.
THEOREM DrivenWordsKept == Spec => DrivenWordsStay
<1> DEFINE A == \A a \in Frozen : holding'[a] # holding[a] =>
                    \/ \E b \in PutBatches \cup Fc16Batches :
                            a \in DOMAIN b /\ holding'[a] = b[a]
                    \/ <<a, holding'[a]>> \in Fc6Writes
<1>1. TypeOK /\ [Next]_vars => [A]_vars
  <2> SUFFICES ASSUME TypeOK, [Next]_vars, NEW a \in Frozen, holding'[a] # holding[a]
               PROVE  \/ \E b \in PutBatches \cup Fc16Batches :
                            a \in DOMAIN b /\ holding'[a] = b[a]
                      \/ <<a, holding'[a]>> \in Fc6Writes
    OBVIOUS
  <2>0. a \in Addrs
    BY DEF Frozen, TypeOK
  <2>1. CASE Step
    BY <2>1, PublishedFrozen DEF Step
  <2>2. ASSUME NEW b, Apply(b) PROVE a \in DOMAIN b /\ holding'[a] = b[a]
    BY <2>0, <2>2 DEF Apply
  <2>3. CASE PutRegisters \/ WriteMultiple
    BY <2>2, <2>3 DEF PutRegisters, WriteMultiple
  <2>4. CASE WriteSingle
    <3>1. PICK w \in Fc6Writes : Apply([c \in {w[1]} |-> w[2]])
      BY <2>4 DEF WriteSingle
    <3>2. w = <<w[1], w[2]>>
      BY RackAssumption DEF RackAssumption
    <3>3. a = w[1] /\ holding'[a] = w[2]
      BY <2>2, <3>1
    <3> QED BY <3>2, <3>3
  <2>5. CASE UNCHANGED vars
    BY <2>5 DEF vars
  <2> QED BY <2>1, <2>3, <2>4, <2>5 DEF Next
<1>2. DrivenWordsStay <=> [][A]_vars
  BY DEF DrivenWordsStay
<1> QED BY <1>1, <1>2, TypeCorrect, PTL DEF Spec
=============================================================================
