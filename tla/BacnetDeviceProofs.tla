------------------------- MODULE BacnetDeviceProofs -------------------------
(***************************************************************************)
(* What holds of every BACnet device: for any inputs and ramps, managers   *)
(* and frames in flight, and whatever the network does to them.            *)
(***************************************************************************)
EXTENDS BacnetDevice, TLAPS

\* The other variables have an entry per manager.
Domains == /\ DOMAIN values = Inputs
           /\ got \in [Managers -> Int \cup {None}]
           /\ held \in [Managers -> SUBSET Int]

\* A request is of its manager; the latest one asks what the manager waits for.
Asked(m) ==
    /\ m.from \in Managers /\ m.ask \in Asks /\ m.id \in 0..id[m.from]
    /\ ask[m.from] # None /\ m.id = id[m.from] => m.ask = ask[m.from]

\* A reply to the request that its manager waits on shows a value held since.
Told(r) ==
    /\ r.to \in Managers
    /\ r.val # None =>
        /\ r.service = "ack" /\ r.id \in 0..id[r.to] /\ r.val \in Int
        /\ ask[r.to] # None /\ r.id = id[r.to] => r.val \in held[r.to]

Holding(c) ==
    IF ask[c] # None
    THEN got[c] = None /\ (ask[c].object \in Inputs => values[ask[c].object] \in held[c])
    ELSE got[c] # None => got[c] \in held[c]

\* What makes FreshReading inductive.
IInv == /\ TypeOK /\ Domains
        /\ \A m \in net : IF m.to = None THEN Asked(m) ELSE Told(m)
        /\ out = None \/ Told(out)
        /\ \A c \in Managers : Holding(c)

\* Next to a multiple of s is, s further, another.
LEMMA NextMultiple ==
    ASSUME NEW a \in Nat, NEW s \in Nat \ {0}, a % s = 0
    PROVE  (a + s) % s = 0
<1> DEFINE q == a \div s
           p == (a + s) \div s
           r == (a + s) % s
<1>1. q \in Nat /\ a = s * q
  OBVIOUS
<1>2. p \in Nat /\ r \in Nat /\ r < s /\ a + s = s * p + r
  OBVIOUS
<1> HIDE DEF q, p, r
<1> DEFINE sp == s * p
           sq == s * q
<1>3. ASSUME p <= q PROVE sp <= sq
  <2>1. PICK e \in Nat : q = p + e
    BY <1>1, <1>2, <1>3
  <2>2. s * q = s * p + s * e /\ s * e \in Nat /\ s * p \in Nat
    BY <1>2, <2>1
  <2> QED BY <2>2
<1>4. ASSUME q + 2 <= p PROVE sq + s + s <= sp
  <2>1. PICK e \in Nat : p = q + 2 + e
    BY <1>1, <1>2, <1>4
  <2>2. s * p = s * q + s + s + s * e /\ s * e \in Nat /\ s * q \in Nat
    BY <1>1, <2>1
  <2> QED BY <2>2
<1>5. p = q + 1 => sp = sq + s
  BY <1>1
<1>6. sp \in Nat /\ sq \in Nat /\ sq + s = sp + r
  BY <1>1, <1>2
<1> HIDE DEF sp, sq
<1>7. r = 0
  BY <1>1, <1>2, <1>3, <1>4, <1>5, <1>6
<1> QED BY <1>7 DEF r

\* A ramp takes a step or wraps, and stays on its steps (Simulator::tick).
LEMMA RampStep ==
    ASSUME NEW i \in Inputs, values[i] \in MinOf[i]..MaxOf[i],
           (values[i] - MinOf[i]) % StepOf[i] = 0
    PROVE  /\ NextValue(i) \in MinOf[i]..MaxOf[i]
           /\ (NextValue(i) - MinOf[i]) % StepOf[i] = 0
<1> DEFINE v == values[i]
           lo == MinOf[i]
           hi == MaxOf[i]
           s == StepOf[i]
<1>1. lo \in Int /\ hi \in Int /\ s \in Int /\ s > 0 /\ lo <= hi
  BY DeviceAssumption
<1>2. v \in lo..hi /\ (v - lo) % s = 0
  OBVIOUS
<1>3. ASSUME NEW a \in Nat, a % s = 0 PROVE (a + s) % s = 0
  <2> HIDE DEF s
  <2>1. s \in Nat \ {0}
    BY <1>1
  <2> QED BY <1>3, <2>1, NextMultiple, Zenon
<1>4. v + s <= hi => v + s \in lo..hi
  <2> HIDE DEF v, lo, hi, s
  <2> QED BY <1>1, <1>2
<1>5. (v - lo) + s = (v + s) - lo
  <2> HIDE DEF v, lo, hi, s
  <2> QED BY <1>1, <1>2
<1>6. ((v + s) - lo) % s = 0
  <2>1. v - lo \in Nat
    <3> HIDE DEF v, lo, hi
    <3> QED BY <1>1, <1>2
  <2> HIDE DEF s
  <2> QED BY <1>1, <1>2, <1>3, <1>5, <2>1
<1>7. lo \in lo..hi /\ (lo - lo) % s = 0
  <2> HIDE DEF lo, hi, s
  <2> QED BY <1>1
<1> QED BY <1>1, <1>2, <1>4, <1>6, <1>7 DEF NextValue

\* Every step keeps it: a tick adds to what has been held, a lookup tells what is
\* held now, and the network repeats, reorders and loses but invents nothing.
LEMMA InvInductive == IInv /\ [Next]_vars => IInv'
<1> SUFFICES ASSUME IInv, [Next]_vars PROVE IInv'
  OBVIOUS
<1> USE DEF IInv, TypeOK, Domains
<1>0. None \notin Managers /\ MaxId \in Nat
  BY DeviceAssumption
<1>1. CASE Tick
  <2>1. TypeOK' /\ Domains'
    BY <1>1, RampStep, DeviceAssumption DEF Tick
  <2>2. \A c \in Managers : held[c] \subseteq held'[c] /\ Holding(c)'
    BY <1>1 DEF Tick, Holding
  <2>3. ASSUME NEW m \in net PROVE (IF m.to = None THEN Asked(m) ELSE Told(m))'
    BY <1>1, <2>2, <2>3 DEF Tick, Asked, Told
  <2>4. (out = None \/ Told(out))'
    BY <1>1, <2>2 DEF Tick, Told
  <2> QED BY <1>1, <2>1, <2>2, <2>3, <2>4 DEF Tick
<1>2. CASE Send
  BY <1>0, <1>2 DEF Send, Asked, Told, Holding
<1>3. CASE Lose
  BY <1>3 DEF Lose, Asked, Told, Holding
<1>4. ASSUME NEW m \in Requests, Recv(m) PROVE IInv'
  <2>1. Asked(m) /\ m.to = None /\ m \in net
    BY DEF Requests
  <2>2. handle(m) = None \/ Told(handle(m))
    <3>1. CASE handle(m) = iam_frame(m)
      BY <2>1, <3>1 DEF Asked, Told, iam_frame
    <3>2. CASE handle(m) = answer_read_property(m) /\ m.ask.object \in Inputs
      <4>1. handle(m) = [to |-> m.from, service |-> "ack", id |-> m.id,
                         val |-> values[m.ask.object]]
        BY <3>2 DEF answer_read_property
      <4>2. values[m.ask.object] \in Int
        BY <3>2, DeviceAssumption
      <4>3. ask[m.from] # None /\ m.id = id[m.from] =>
                values[m.ask.object] \in held[m.from]
        BY <2>1, <3>2 DEF Asked, Holding
      <4> HIDE DEF IInv, TypeOK, Domains
      <4> QED BY <2>1, <4>1, <4>2, <4>3 DEF Asked, Told
    <3> QED BY <3>1, <3>2 DEF handle, answer_read_property
  <2> QED BY <1>4, <2>1, <2>2 DEF Recv, Asked, Told, Holding
<1>5. ASSUME NEW c \in Managers, Begin(c) PROVE IInv'
  <2>1. PICK a \in Asks :
            /\ ask' = [ask EXCEPT ![c] = a]
            /\ held' = [held EXCEPT ![c] = IF a.object \in Inputs
                                           THEN {values[a.object]} ELSE {}]
            /\ net' = net \cup {[to |-> None, from |-> c, id |-> id[c] + 1, ask |-> a]}
    BY <1>5 DEF Begin
  <2>2. /\ id[c] < MaxId /\ id' = [id EXCEPT ![c] = @ + 1]
        /\ got' = [got EXCEPT ![c] = None] /\ UNCHANGED <<up, values, out>>
    BY <1>5 DEF Begin
  <2>3. id[c] \in Nat /\ id'[c] = id[c] + 1
    BY <2>2
  <2>4. a.object \in Inputs => values[a.object] \in Int
    BY DeviceAssumption
  <2>5. TypeOK' /\ Domains'
    BY <1>0, <2>1, <2>2, <2>3, <2>4
  <2>6. ASSUME NEW m, m.to = None, Asked(m) PROVE Asked(m)'
    BY <2>1, <2>2, <2>3, <2>6 DEF Asked
  <2>7. ASSUME NEW r, Told(r) PROVE Told(r)'
    BY <2>1, <2>2, <2>3, <2>7 DEF Told
  <2>8. \A d \in Managers : Holding(d)'
    BY <2>1, <2>2 DEF Holding
  <2> PICK new : new = [to |-> None, from |-> c, id |-> id[c] + 1, ask |-> a]
    OBVIOUS
  <2>9. Asked(new)' /\ new.to = None
    BY <2>1, <2>2, <2>3 DEF Asked
  <2>10. \A m \in net' : (IF m.to = None THEN Asked(m) ELSE Told(m))'
    BY <2>1, <2>6, <2>7, <2>9
  <2>11. (out = None \/ Told(out))'
    BY <2>2, <2>7 DEF Told
  <2> QED BY <2>5, <2>8, <2>10, <2>11
<1>6. ASSUME NEW c \in Managers, Resend(c) PROVE IInv'
  <2>1. Asked(Request(c)) /\ Request(c).to = None
    BY <1>6 DEF Resend, Request, Asked
  <2> QED BY <1>6, <2>1 DEF Resend, Asked, Told, Holding
<1>7. ASSUME NEW c \in Managers, Accept(c) PROVE IInv'
  <2>1. PICK r \in net : /\ Answers(c, r)
                         /\ net' = net \ {r}
                         /\ got' = [got EXCEPT ![c] = r.val]
                         /\ ask' = [ask EXCEPT ![c] = None]
                         /\ UNCHANGED <<up, values, out, id, held>>
    BY <1>7 DEF Accept
  <2>2. Told(r) /\ r.to = c
    BY <1>0, <2>1 DEF Answers
  <2>3. r.val # None => r.val \in held[c] /\ r.val \in Int
    BY <2>1, <2>2 DEF Told, Answers
  <2> QED BY <2>1, <2>3 DEF Asked, Told, Holding
<1>8. ASSUME NEW c \in Managers, GiveUp(c) PROVE IInv'
  BY <1>8 DEF GiveUp, Asked, Told, Holding
<1>9. CASE RecvFails
  BY <1>9 DEF RecvFails, Asked, Told, Holding
<1>10. CASE UNCHANGED vars
  BY <1>10 DEF vars, Asked, Told, Holding
<1> QED BY <1>1, <1>2, <1>3, <1>4, <1>5, <1>6, <1>7, <1>8, <1>9, <1>10 DEF Next

\* It holds of the device at start, and so always.
LEMMA InvHolds == Spec => []IInv
<1>1. Init => IInv
  <2> SUFFICES ASSUME Init PROVE IInv
    OBVIOUS
  <2>1. \A i \in Inputs : /\ values[i] \in MinOf[i]..MaxOf[i]
                          /\ (values[i] - MinOf[i]) % StepOf[i] = 0
    BY DeviceAssumption DEF Init
  <2> QED BY <2>1, DeviceAssumption DEF Init, IInv, TypeOK, Domains, Holding
<1> QED BY <1>1, InvInductive, PTL DEF Spec

\* No ramp ever leaves its band or its steps, whatever step and band it has
\* (Simulator::tick), and no frame goes astray.
THEOREM TypeCorrect == Spec => []TypeOK
<1>1. IInv => TypeOK
  BY DEF IInv
<1> QED BY <1>1, InvHolds, PTL

\* A manager never takes for its answer a value that was gone when it asked,
\* through any number of repeated requests, late replies and ticks between the
\* lookup and the reply (main.rs:141-163).
THEOREM ReadingFresh == Spec => []FreshReading
<1>1. IInv => FreshReading
  BY DEF IInv, Holding, FreshReading
<1> QED BY <1>1, InvHolds, PTL
=============================================================================
