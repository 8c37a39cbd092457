----------------------------- MODULE SnmpValues -----------------------------
(***************************************************************************)
(* The OID value map of mock-snmp-agent and the pure functions over it:    *)
(* the initial map, the drifting sawtooth, the Raritan mirror, the load    *)
(* readings of a PDU, and the answer to one variable binding.              *)
(*                                                                         *)
(* A map is a function whose domain is the set of the OIDs it holds.  An   *)
(* OID is the sequence of its components that tell it from the others: the *)
(* common prefix 1.3.6.1 and the constant middles are left out, which      *)
(* keeps the lexicographic order of the real OIDs; one that a PUT creates  *)
(* outside 1.3.6.1 sorts before or after all of them.                      *)
(***************************************************************************)
EXTENDS Integers, FiniteSets, Sequences

CONSTANTS
    Phases,             \* the phases of the inlet: 1..3 in the code
    Fresh,              \* OIDs absent at start that a PUT may create,
    Refused,            \* those of them that ObjectIdentifier::new refuses
    Unencodable,        \* ... and those that the BER encoder refuses
    SawMin, SawMax, SawStep,    \* the L1 current sawtooth
    Nodes, Share, BaseW,        \* PduLoad: what the PDU feeds
    I64Half, I32Half    \* 2^63 and 2^31 in the code

\* Readings of the Sentry4-MIB (under 1.3.6.1.4.1.1718) ...
Power == <<4, 1718, 3>>
Current(p) == <<4, 1718, 4, p>>
Voltage(p) == <<4, 1718, 5, p>>
Sentry == {Power} \cup {Current(p) : p \in Phases}
                  \cup {Voltage(p) : p \in Phases}

\* ... and of the PDU2-MIB (under 1.3.6.1.4.1.13742) that mirror them.
InletPower == <<4, 13742, 3>>
PoleCurrent(p) == <<4, 13742, 4, p, 1>>
PoleVoltage(p) == <<4, 13742, 4, p, 4>>
Derived == {InletPower} \cup {PoleCurrent(p) : p \in Phases}
                        \cup {PoleVoltage(p) : p \in Phases}

Switch == {<<2, 2, 1>>, <<2, 99, 1>>, <<2, 99, 2>>}

Oids == Sentry \cup Derived \cup Switch \cup Fresh

\* The OIDs a load-following PDU drives.
LoadOids == {Power, InletPower} \cup {Current(p) : p \in Phases}
                                \cup {PoleCurrent(p) : p \in Phases}

ASSUME ValuesAssumption ==
    /\ Phases \subseteq 1..3 /\ 1 \in Phases
    /\ Fresh \cap (Sentry \cup Derived \cup Switch) = {}
    /\ \A o \in Fresh : o \in Seq(Nat)
    /\ Refused \subseteq Fresh /\ Unencodable \subseteq Fresh
    /\ SawMin \in Int /\ SawMax \in Int /\ SawStep \in Nat \ {0}
    /\ 1500 \in SawMin..SawMax      \* the current at start (oids.rs:48)
    /\ Nodes \in Nat /\ Share \in Nat \ {0} /\ BaseW \in Nat
    /\ I64Half \in Nat \ {0} /\ I32Half \in Nat \ {0}

IsMap(v) == DOMAIN v \subseteq Oids /\ v \in [DOMAIN v -> Int]

\* HashMap::extend: the entries of b replace those of v.
Extend(v, b) == [o \in DOMAIN v \cup DOMAIN b |->
                    IF o \in DOMAIN b THEN b[o] ELSE v[o]]

\* The batch of one entry.
Entry(o, x) == [k \in {o} |-> x]

-----------------------------------------------------------------------------
(* Machine arithmetic.                                                     *)

Abs(x) == IF x < 0 THEN -x ELSE x

\* Two's complement wrap-around at -h .. h-1.
Wrap(x, h) == ((x + h) % (2 * h)) - h

\* (n / d).round() as i64: half away from zero, saturating; x/0 is an
\* infinity that saturates, 0/0 a NaN that casts to 0.
ToI64(n, d) ==
    LET q == (2 * Abs(n) + Abs(d)) \div (2 * Abs(d))
        bounded == IF q > I64Half - 1 THEN I64Half - 1 ELSE q
    IN  IF n = 0 THEN 0
        ELSE IF d = 0 THEN IF n > 0 THEN I64Half - 1 ELSE -I64Half
        ELSE IF (n < 0) = (d < 0) THEN bounded
        ELSE IF q > I64Half THEN -I64Half ELSE -q

\* (v / 10 * sqrt 3).round(): k is reached once 20k - 10 is below 2 * sqrt 3 * |v|,
\* which is so up to 0.173 |v| and counted from there to 0.174 |v|.
LineToLine(v) ==
    LET low == (173 * Abs(v)) \div 1000
        high == (174 * Abs(v)) \div 1000
        n == low + Cardinality({k \in (low + 1)..(high + 1) :
                                  (20 * k - 10) * (20 * k - 10) < 12 * v * v})
    IN  IF v < 0 THEN -n ELSE n

-----------------------------------------------------------------------------
(* The Raritan view.                                                       *)

Source(r) == IF r = InletPower THEN Power
             ELSE IF r[5] = 1 THEN Current(r[4]) ELSE Voltage(r[4])

Converted(r, x) == IF r = InletPower THEN x
                   ELSE IF r[5] = 1 THEN Wrap(10 * x, I64Half)
                   ELSE LineToLine(x)

\* raritan::mirror: a PDU2 reading for every Sentry4 one present in v.
Mirror(v) == [r \in {q \in Derived : Source(q) \in DOMAIN v}
                |-> Converted(r, v[Source(r)])]

\* Both MIBs of v report the same PDU.
MibsAgree(v) == \A r \in Derived : Source(r) \in DOMAIN v =>
                    r \in DOMAIN v /\ v[r] = Converted(r, v[Source(r)])

-----------------------------------------------------------------------------
(* Where values come from.                                                 *)

sentry4_and_switch ==
    [o \in Sentry \cup Switch |->
        IF o = Power THEN 10800
        ELSE IF o = <<2, 2, 1>> THEN 1
        ELSE IF o = <<2, 99, 1>> THEN 27
        ELSE IF o = <<2, 99, 2>> THEN 58
        ELSE IF o[3] = 4 THEN <<1500, 1520, 1480>>[o[4]]
        ELSE <<2400, 2395, 2405>>[o[4]]]

initial_values == Extend(sentry4_and_switch, Mirror(sentry4_and_switch))

\* Mutant: driven OIDs drift too.
Tick_Always(v, owned) ==
    LET cur == IF Current(1) \in DOMAIN v THEN v[Current(1)] ELSE SawMin
    IN  Extend(v, Entry(Current(1), IF cur + SawStep > SawMax THEN SawMin
                                    ELSE cur + SawStep))

\* Simulator::tick: the one sawtooth, skipped while its OID is driven.
Tick(v, owned) ==
    LET cur == IF Current(1) \in DOMAIN v THEN v[Current(1)] ELSE SawMin
        next == IF cur + SawStep > SawMax THEN SawMin ELSE cur + SawStep
    IN  IF Current(1) \in owned THEN v ELSE Extend(v, Entry(Current(1), next))

InputWatts(nodeW) == ToI64(Nodes * nodeW + BaseW, Share)

\* power / 3 / (v / 10) * 100: hundredths of an amp at v tenths of a volt.
PhaseCurrent(nodeW, v) == ToI64((Nodes * nodeW + BaseW) * 1000, Share * 3 * v)

\* Mutant: the currents are computed at the nominal voltage.
Readings_Nominal(nodeW, v) ==
    LET out == [o \in {Power} \cup {Current(p) : p \in Phases} |->
                  IF o = Power THEN InputWatts(nodeW)
                  ELSE PhaseCurrent(nodeW, 2400)]
    IN  Extend(out, Mirror(out))

\* readings: power, the phase currents at the voltages in v, and their mirror.
Readings(nodeW, v) ==
    LET volts(p) == IF Voltage(p) \in DOMAIN v THEN v[Voltage(p)] ELSE 2400
        out == [o \in {Power} \cup {Current(p) : p \in Phases} |->
                  IF o = Power THEN InputWatts(nodeW)
                  ELSE PhaseCurrent(nodeW, volts(o[4]))]
    IN  Extend(out, Mirror(out))

-----------------------------------------------------------------------------
(* Answers.                                                                *)

\* Lexicographic order on OIDs.
Precedes(a, b) ==
    \E i \in 1..Len(b) :
        /\ i <= Len(a) + 1
        /\ \A j \in 1..(i - 1) : a[j] = b[j]
        /\ i = Len(a) + 1 \/ a[i] < b[i]

\* Mutant: an OID follows itself.
Following_OrEqual(v, o) == {k \in DOMAIN v : k = o \/ Precedes(o, k)}

Following(v, o) == {k \in DOMAIN v : Precedes(o, k)}

\* Mutant: the greatest instead of the least.
First_Greatest(S) == CHOOSE k \in S : \A m \in S \ {k} : Precedes(m, k)

First(S) == CHOOSE k \in S : \A m \in S \ {k} : Precedes(k, m)

\* `v as i32`
Served(x) == Wrap(x, I32Half)

\* Mutant: the next OID with the value of the one asked for.
Answer_OldValue(v, next, o) ==
    LET S == IF next THEN Following(v, o) ELSE DOMAIN v \cap {o}
    IN  IF S = {} THEN [oid |-> o, val |-> <<>>]
        ELSE [oid |-> First(S),
              val |-> <<Served(IF o \in DOMAIN v THEN v[o] ELSE v[First(S)])>>]

\* One variable binding of build_response.  No value stands for endOfMibView in
\* the answer to a GetNext, and for noSuchInstance in that to a Get.  Whether
\* the agent gets to send it depends on the OID (Refused, Unencodable).
Answer(v, next, o) ==
    LET S == IF next THEN Following(v, o) ELSE DOMAIN v \cap {o}
    IN  IF S = {} THEN [oid |-> o, val |-> <<>>]
        ELSE [oid |-> First(S), val |-> <<Served(v[First(S)])>>]
=============================================================================
