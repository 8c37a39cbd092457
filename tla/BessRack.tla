------------------------------ MODULE BessRack ------------------------------
(***************************************************************************)
(* The bess_rack profile of mock-modbus-server: a battery model stepped    *)
(* every tick over the holding registers that the gateway and the control  *)
(* surface write.  Every step, write and PUT runs under the one handler    *)
(* mutex with no await inside, so each is one action.                      *)
(*                                                                         *)
(* Power is in watts and energy in watt-ticks, both as integers: the code  *)
(* keeps them as f64, and what is below one watt is rounded towards zero   *)
(* here.  Registers are words of base Word, 2^16 in the code.              *)
(***************************************************************************)
EXTENDS Integers, FiniteSets

CONSTANTS
    Word,           \* registers hold 0 .. Word - 1
    Rated,          \* power_limit_w
    Full,           \* capacity, in watt-ticks
    InitialSoc,     \* charge at start, in watt-ticks
    SocStep,        \* what one count of the SoC register stands for: Full / 1000
    Writable,       \* profile bess_rack: protocol writes are accepted
    PutBatches,     \* the bodies of PUT /registers: functions to words
    Fc16Batches,    \* the writes of function code 16
    Fc6Writes       \* the writes of function code 6: <<address, word>>

SOC == 0
ACTIVE_POWER == 10
ENERGY_DISCHARGED == 30
OPERATING_STATE == 40
SETPOINT == 50
MAX_CHARGE == 60
MAX_DISCHARGE == 62

Pairs == {ACTIVE_POWER, ENERGY_DISCHARGED, SETPOINT, MAX_CHARGE, MAX_DISCHARGE}
Addrs == {SOC, OPERATING_STATE} \cup Pairs \cup {a + 1 : a \in Pairs}
Words == 0..(Word - 1)

STANDBY == 0
CHARGING == 1
DISCHARGING == 2

\* Where discharge and charge taper: below 20 % and above 90 %.
LowTaper == Full \div 5
HighTaper == Full \div 10

IsBatch(b) == DOMAIN b \subseteq Addrs /\ b \in [DOMAIN b -> Words]

ASSUME RackAssumption ==
    /\ Word \in Nat /\ Word >= 4 /\ Word % 2 = 0
    /\ Rated \in 0..((Word * Word) \div 2 - 1) /\ Full \in Nat /\ Full % 10 = 0
    /\ InitialSoc \in 0..Full
    /\ SocStep \in Nat \ {0}
    /\ Full \div SocStep + 1 < Word
    /\ Writable \in BOOLEAN
    /\ \A b \in PutBatches \cup Fc16Batches : IsBatch(b)
    /\ Fc6Writes \subseteq Addrs \X Words

\* One tick at full power moves no more than the narrower taper holds: ticks
\* of at most 0.2 simulated hours, BATTERY_TIME_SCALE up to 720 at TICK_MS=1000.
ASSUME TickAssumption == Rated > 0 /\ Rated <= HighTaper

VARIABLES
    holding,    \* the holding registers
    driven,     \* the addresses under external control
    soc,        \* Battery::soc_percent, in watt-ticks
    discharged  \* Battery::energy_discharged_wh, up to what its register holds

vars == <<holding, driven, soc, discharged>>

-----------------------------------------------------------------------------
(* Words and numbers.                                                      *)

I32Max == (Word * Word) \div 2 - 1

read_i32(h, a) == LET raw == h[a] * Word + h[a + 1]
                  IN  IF raw > I32Max THEN raw - Word * Word ELSE raw

\* Mutant: each word is skipped on its own.
put_i32_ByWord(h, owned, a, x) ==
    LET raw == x % (Word * Word)
        high == raw \div Word
    IN  [h EXCEPT ![a] = IF a \in owned THEN @ ELSE high,
                  ![a + 1] = IF a + 1 \in owned THEN @ ELSE raw % Word]

\* Both words or, when either is driven, none.
put_i32(h, owned, a, x) ==
    LET raw == x % (Word * Word)
    IN  IF a \in owned \/ a + 1 \in owned THEN h
        ELSE [h EXCEPT ![a] = raw \div Word, ![a + 1] = raw % Word]

put(h, owned, a, x) == IF a \in owned THEN h ELSE [h EXCEPT ![a] = x]

Clamp(x, lo, hi) == IF x < lo THEN lo ELSE IF x > hi THEN hi ELSE x

\* (soc * 10).round(): the register rounds to its step.
SocRegister(e) == (2 * e + SocStep) \div (2 * SocStep)

-----------------------------------------------------------------------------
(* The battery.                                                            *)

\* Mutant: rated down to an empty battery.
max_discharge_w_Flat(e) == IF e > 0 THEN Rated ELSE 0

max_discharge_w(e) == (Rated * Clamp(e, 0, LowTaper)) \div LowTaper

max_charge_w(e) == (Rated * Clamp(Full - e, 0, HighTaper)) \div HighTaper

\* Mutant: charging is held to the rated power only.
deliverable_RatedCharge(e, setpoint) == Clamp(setpoint, -Rated, max_discharge_w(e))

deliverable(e, setpoint) == Clamp(setpoint, -max_charge_w(e), max_discharge_w(e))

\* Mutant: the charge is read back from its register at every tick.
SocNow_FromRegister == holding[SOC] * SocStep

\* A driven state of charge is the new truth, otherwise the model's own.
SocNow == IF SOC \in driven THEN holding[SOC] * SocStep ELSE soc

Power == deliverable(SocNow, read_i32(holding, SETPOINT))

\* Mutant: the charge is not kept within 0 % and 100 %.
SocNext_Unclamped == SocNow - Power

SocNext == Clamp(SocNow - Power, 0, Full)

DischargedNext == IF Power > 0 THEN Clamp(discharged + Power, 0, I32Max)
                  ELSE discharged

StateOf(p) == IF p > 0 THEN DISCHARGING ELSE IF p < 0 THEN CHARGING ELSE STANDBY

\* The registers after a tick that leaves charge e and energy d at power p.
Published(p, e, d) ==
    LET h1 == put(holding, driven, SOC, SocRegister(e))
        h2 == put_i32(h1, driven, ACTIVE_POWER, p)
        h3 == put_i32(h2, driven, ENERGY_DISCHARGED, d)
        h4 == put_i32(h3, driven, MAX_CHARGE, max_charge_w(e))
        h5 == put_i32(h4, driven, MAX_DISCHARGE, max_discharge_w(e))
    IN  put(h5, driven, OPERATING_STATE, StateOf(p))

Init ==
    /\ driven = {}
    /\ soc = InitialSoc
    /\ discharged = 0
    /\ LET h == [a \in Addrs |-> IF a = SOC THEN SocRegister(InitialSoc) ELSE 0]
       IN  holding = put_i32(put_i32(h, {}, MAX_CHARGE, max_charge_w(InitialSoc)),
                             {}, MAX_DISCHARGE, max_discharge_w(InitialSoc))

\* Battery::step.
Step == /\ soc' = SocNext
        /\ discharged' = DischargedNext
        /\ holding' = Published(Power, SocNext, DischargedNext)
        /\ UNCHANGED driven

-----------------------------------------------------------------------------
(* Writes: values go in and their addresses become driven.                 *)

Apply(b) == /\ holding' = [a \in Addrs |-> IF a \in DOMAIN b THEN b[a]
                                           ELSE holding[a]]
            /\ driven' = driven \cup DOMAIN b
            /\ UNCHANGED <<soc, discharged>>

\* PUT /registers.
PutRegisters == \E b \in PutBatches : Apply(b)

\* Function code 16, IllegalFunction unless writable.
WriteMultiple == Writable /\ \E b \in Fc16Batches : Apply(b)

\* Function code 6, one word.
WriteSingle == Writable /\ \E w \in Fc6Writes : Apply([a \in {w[1]} |-> w[2]])

Next == Step \/ PutRegisters \/ WriteMultiple \/ WriteSingle

Spec == Init /\ [][Next]_vars

\* The simulator task never stops ticking.
FairSpec == Spec /\ WF_vars(Step)

-----------------------------------------------------------------------------
(* Properties.                                                             *)

\* Type invariant.
TypeOK == /\ holding \in [Addrs -> Words]
          /\ driven \subseteq Addrs
          /\ soc \in 0..Full
          /\ discharged \in 0..I32Max

\* What the meter counts as discharged is what left the battery, to the
\* watt-tick: the taper never lets a tick take more than there is, so the
\* clamp at 0 % in Battery::step hides nothing.  Not so while the charge is
\* pinned through the control surface, nor once the register is at its end.
MetersWhatLeft ==
    [][(SOC \notin driven /\ soc' # soc /\ discharged' < I32Max)
            => discharged' - discharged = Clamp(soc - soc', 0, Full)]_vars

\* Output stays within the limits that the registers reported before the tick:
\* a gateway that plans with them is not surprised (readme.md:28).
WithinReportedLimits ==
    [][(driven' = driven /\ soc' # soc
            /\ driven \cap {SOC, ACTIVE_POWER, ACTIVE_POWER + 1,
                            MAX_CHARGE, MAX_CHARGE + 1,
                            MAX_DISCHARGE, MAX_DISCHARGE + 1} = {})
        => read_i32(holding', ACTIVE_POWER)
                \in -read_i32(holding, MAX_CHARGE)..read_i32(holding, MAX_DISCHARGE)]_vars

\* The words a tick may not touch: the driven ones and their other halves.
Frozen == driven \cup {a \in Addrs : \E p \in Pairs :
                            a \in {p, p + 1} /\ {p, p + 1} \cap driven # {}}

\* A word under external control keeps what was last written to it until the
\* next write, and so does the other half of its int32: no tick undoes a write
\* or mixes a written word with a computed one (put, put_i32).
DrivenWordsStay ==
    [][\A a \in Frozen : holding'[a] # holding[a] =>
            \/ \E b \in PutBatches \cup Fc16Batches :
                    a \in DOMAIN b /\ holding'[a] = b[a]
            \/ <<a, holding'[a]>> \in Fc6Writes]_vars

\* Left alone with a setpoint to discharge, the rack runs down into its taper,
\* however small the setpoint is next to the register's step (battery.rs:43-46).
RunsDown ==
    [](soc > LowTaper =>
        \/ <>(soc <= LowTaper)
        \/ []<>(SOC \in driven \/ read_i32(holding, SETPOINT) <= 0))
=============================================================================
