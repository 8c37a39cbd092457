---------------------------- MODULE SnmpV3Proofs ----------------------------
(***************************************************************************)
(* What holds of every SNMPv3 agent and its managers: for any users, strays*)
(* and datagrams in flight, through every loss, repetition and restart.    *)
(***************************************************************************)
EXTENDS SnmpV3, TLAPS

\* What a manager has ever sent: a request of its own, under a clock it knew.
Asked(m) ==
    /\ m.from # "agent"
    /\ m.from \in Clients =>
        \E n \in 0..id[m.from], k \in Contacts \cup {None} : m = Request(m.from, n, k)

\* What the agent has ever sent.
Signed(r) ==
    /\ r.engine = OurEngine /\ r.boots = 1 /\ r.time \in 0..MaxTime
    /\ r.kind \in {"report", "response"}
    /\ r.kind = "response" =>
        /\ r.user \in Users /\ r.signer = r.user
        /\ r.seal = IF r.priv THEN Sealed(r.user, r.boots, r.time) ELSE None
        /\ r.body \in Values

\* A response to the request its manager waits on shows a value held since.
Current(r) ==
    r.kind = "response" /\ r.to \in Clients =>
        /\ r.id \in 0..id[r.to]
        /\ phase[r.to] = "asking" /\ r.id = id[r.to] => r.body \in held[r.to]

Sound(m) == IF m.to = "agent" THEN Asked(m) ELSE Signed(m) /\ Current(m)

Holding(c) ==
    /\ phase[c] = "asking" => value \in held[c]
    /\ IF phase[c] = "idle" THEN got[c] # None => got[c] \in held[c]
       ELSE got[c] = None

\* What makes the properties inductive: they are about datagrams that may have
\* been in flight for any time.
IInv == /\ TypeOK
        /\ \A m \in net : Sound(m)
        /\ \A c \in Clients : Holding(c)

\* A datagram in flight stays what it is while its manager's request does.
LEMMA SoundStays ==
    ASSUME NEW m, Sound(m), UNCHANGED id,
           \A c \in Clients : /\ phase'[c] = "asking" => phase[c] = "asking"
                              /\ held[c] \subseteq held'[c]
    PROVE  Sound(m)'
  BY DEF Sound, Asked, Signed, Current

\* What the agent sends back is sound.
LEMMA ReplySound ==
    ASSUME IInv, NEW m \in ToAgent, NEW r,
           \/ r = build_discovery_report(m)
           \/ Accepts(m) /\ r = build_authenticated_reply(m, Polled)
    PROVE  r.to # "agent" /\ Sound(r)
<1>1. m.to = "agent" /\ Asked(m)
  BY DEF ToAgent, IInv, Sound
<1>2. engine = OurEngine /\ boots = 1 /\ time \in 0..MaxTime /\ value \in Values
  BY DEF IInv, TypeOK
<1>3. CASE r = build_discovery_report(m)
  BY <1>1, <1>2, <1>3 DEF build_discovery_report, Asked, Sound, Signed, Current
<1>4. CASE Accepts(m) /\ r = build_authenticated_reply(m, Polled)
  <2>1. /\ r.to = m.from /\ r.kind = "response" /\ r.id = m.id /\ r.engine = engine
        /\ r.boots = boots /\ r.time = time /\ r.user = m.user /\ r.priv = m.priv
        /\ r.signer = m.user /\ r.body = value
        /\ r.seal = IF m.priv THEN Sealed(m.user, boots, time) ELSE None
    BY <1>4 DEF build_authenticated_reply, Polled
  <2>2. Signed(r)
    BY <1>2, <1>4, <2>1 DEF Signed, Accepts
  <2>3. ASSUME m.from \in Clients PROVE m.id \in 0..id[m.from]
    BY <1>1, <2>3 DEF Asked, Request
  <2>4. Current(r)
    BY <1>2, <2>1, <2>3 DEF Current, IInv, Holding
  <2> QED BY <1>1, <2>1, <2>2, <2>4 DEF Sound, Asked
<1> QED BY <1>3, <1>4

\* Every step keeps it: a late or repeated datagram is answered with what the
\* agent holds now, under the clock the agent has now (v3.rs:77-182).
LEMMA InvInductive == IInv /\ [Next]_vars => IInv'
<1> SUFFICES ASSUME IInv, [Next]_vars PROVE IInv'
  OBVIOUS
<1>0. /\ Clients \subseteq Users /\ OurEngine # NoEngine /\ None \notin Users
      /\ "agent" \notin Clients /\ InitialValue \in Values
      /\ MaxTime \in Nat /\ MaxId \in Nat
      /\ \A m \in Strays : m.to = "agent" /\ m.from # "agent" /\ m.from \notin Clients
  BY V3Assumption
<1>1. ASSUME net' \subseteq net, UNCHANGED <<agent, value, managers, held>> PROVE IInv'
  <2>1. \A m \in net : Sound(m)'
    BY <1>1, SoundStays DEF IInv, managers
  <2> QED BY <1>1, <2>1 DEF IInv, TypeOK, agent, managers, Holding
<1>2. ASSUME NEW r, Sound(r), net' \subseteq net \cup {r},
             UNCHANGED <<agent, value, managers, held>>
      PROVE  IInv'
  <2>1. \A m \in net \cup {r} : Sound(m)'
    BY <1>2, SoundStays DEF IInv, managers
  <2> QED BY <1>2, <2>1 DEF IInv, TypeOK, agent, managers, Holding
<1>3. ASSUME NEW m \in ToAgent, Discover(m) \/ Answer(m) \/ Drop(m) PROVE IInv'
  <2>1. CASE Discover(m)
    BY <1>2, <2>1, ReplySound DEF Discover, Reply
  <2>2. CASE Answer(m)
    BY <1>2, <2>2, ReplySound DEF Answer, Reply
  <2>3. CASE Drop(m)
    BY <1>1, <2>3 DEF Drop
  <2> QED BY <1>3, <2>1, <2>2, <2>3
<1>4. CASE Clock
  <2>1. \A m \in net : Sound(m)'
    BY <1>4, SoundStays DEF IInv, Clock, managers
  <2> QED BY <1>0, <1>4, <2>1 DEF IInv, TypeOK, Clock, managers, Holding
<1>5. ASSUME NEW v \in Values, value' = v, Hold(v), UNCHANGED <<net, managers>>,
             engine' = OurEngine, boots' = 1, time' \in 0..MaxTime
      PROVE  IInv'
  <2>1. \A m \in net : Sound(m)'
    BY <1>5, SoundStays DEF IInv, TypeOK, Hold, managers
  <2> QED BY <1>5, <2>1 DEF IInv, TypeOK, Hold, managers, Holding
<1>6. CASE Drift
  BY <1>5, <1>6 DEF Drift, IInv, TypeOK, agent
<1>7. CASE Restart
  BY <1>0, <1>5, <1>7 DEF Restart
<1>8. ASSUME NEW c \in Clients, Begin(c) PROVE IInv'
  <2> USE DEF IInv, TypeOK
  <2>1. id[c] \in 0..MaxId /\ id[c] < MaxId /\ id'[c] = id[c] + 1
    BY <1>8 DEF Begin
  <2>2. TypeOK'
    BY <1>0, <1>8, <2>1 DEF Begin, agent
  <2>3. ASSUME NEW m \in net PROVE Sound(m)'
    <3>1. Asked(m) => Asked(m)'
      BY <1>8, <2>1 DEF Asked, Begin
    <3>2. Current(m) => Current(m)'
      BY <1>8, <2>1 DEF Current, Begin
    <3> QED BY <3>1, <3>2 DEF Sound, Signed
  <2> PICK new : new = Request(c, id[c] + 1, known[c])
    OBVIOUS
  <2>4. Sound(new)'
    <3>1. new.to = "agent" /\ new.from = c
      BY DEF Request
    <3>2. id[c] + 1 \in 0..id'[c] /\ known[c] \in Contacts \cup {None}
      BY <2>1
    <3> QED BY <1>0, <3>1, <3>2 DEF Sound, Asked
  <2>5. \A d \in Clients : Holding(d)'
    BY <1>8 DEF Begin, Holding
  <2> QED BY <1>8, <2>2, <2>3, <2>4, <2>5 DEF Begin
<1>9. ASSUME NEW c \in Clients, Resend(c) PROVE IInv'
  <2> DEFINE m == Outstanding(c)
  <2>1. m.to = "agent" /\ m.from = c
    BY DEF Outstanding, Request
  <2>2. id[c] \in 0..id[c] /\ known[c] \in Contacts \cup {None}
    BY DEF IInv, TypeOK
  <2>3. Sound(m)
    BY <1>0, <2>1, <2>2 DEF Sound, Asked, Outstanding
  <2> HIDE DEF m
  <2>4. net' \subseteq net \cup {m} /\ UNCHANGED <<agent, value, managers, held>>
    BY <1>9 DEF Resend, m
  <2> QED BY <1>2, <2>3, <2>4
<1>10. ASSUME NEW c \in Clients, Learn(c) PROVE IInv'
  <2>1. PICK r \in net :
            /\ phase[c] = "discovering" /\ r.to = c /\ r.kind = "report"
            /\ known' = [known EXCEPT ![c] = [engine |-> r.engine, boots |-> r.boots,
                                              time |-> r.time]]
            /\ phase' = [phase EXCEPT ![c] = "idle"]
            /\ net' = net \ {r}
            /\ UNCHANGED <<agent, value, id, got, held>>
    BY <1>10 DEF Learn
  <2>2. [engine |-> r.engine, boots |-> r.boots, time |-> r.time] \in Contacts
    BY <1>0, <2>1 DEF IInv, Sound, Signed, Contacts
  <2>3. TypeOK'
    BY <2>1, <2>2 DEF IInv, TypeOK, agent
  <2>4. \A m \in net : Sound(m)'
    BY <2>1, SoundStays DEF IInv, TypeOK
  <2>5. \A d \in Clients : Holding(d)'
    BY <2>1 DEF IInv, TypeOK, Holding
  <2> QED BY <2>1, <2>3, <2>4, <2>5 DEF IInv
<1>11. ASSUME NEW c \in Clients, Accept(c) PROVE IInv'
  <2>1. PICK r \in net :
            /\ Answers(c, r)
            /\ got' = [got EXCEPT ![c] = r.body]
            /\ known' = [known EXCEPT ![c].boots = r.boots, ![c].time = r.time]
            /\ phase' = [phase EXCEPT ![c] = "idle"]
            /\ net' = net \ {r}
            /\ UNCHANGED <<agent, value, id, held>>
    BY <1>11 DEF Accept
  <2>2. /\ r.boots = 1 /\ r.time \in 0..MaxTime
        /\ r.body \in Values /\ r.body \in held[c]
    BY <1>0, <2>1 DEF IInv, Sound, Signed, Current, Answers
  <2>3. known' \in [Clients -> Contacts \cup {None}]
    <3>1. known[c] \in Contacts
      BY <2>1 DEF IInv, TypeOK, Answers
    <3> QED BY <2>1, <2>2, <3>1 DEF IInv, TypeOK, Contacts
  <2>4. TypeOK'
    BY <2>1, <2>2, <2>3 DEF IInv, TypeOK, agent
  <2>5. \A m \in net : Sound(m)'
    BY <2>1, SoundStays DEF IInv, TypeOK
  <2>6. \A d \in Clients : Holding(d)'
    BY <2>1, <2>2 DEF IInv, TypeOK, Holding
  <2> QED BY <2>1, <2>4, <2>5, <2>6 DEF IInv
<1>12. CASE Stray
  <2>1. PICK m \in Strays : net' = net \cup {m}
    BY <1>12 DEF Stray
  <2>2. Sound(m)
    BY <1>0 DEF Sound, Asked
  <2>3. net' \subseteq net \cup {m} /\ UNCHANGED <<agent, value, managers, held>>
    BY <1>12, <2>1 DEF Stray
  <2> QED BY <1>2, <2>1, <2>2, <2>3
<1>13. CASE Lose
  BY <1>1, <1>13 DEF Lose
<1>14. CASE UNCHANGED vars
  BY <1>1, <1>14 DEF vars, agent, managers
<1> QED BY <1>3, <1>4, <1>6, <1>7, <1>8, <1>9, <1>10, <1>11, <1>12, <1>13, <1>14
        DEF Next, Agent

\* It holds at start, of the strays in flight too, and so always.
LEMMA InvHolds == Spec => []IInv
<1>1. Init => IInv
  BY V3Assumption DEF Init, IInv, TypeOK, Holding
<1> QED BY <1>1, InvInductive, PTL DEF Spec

\* What a manager has learned is the agent's engine and a clock of it, whatever
\* was repeated or late (handle_v3_datagram, AgentState).
THEOREM TypeCorrect == Spec => []TypeOK
<1>1. IInv => TypeOK
  BY DEF IInv
<1> QED BY <1>1, InvHolds, PTL

\* No datagram of a manager that knows the engine is ever refused, however late
\* it comes and however often the agent restarted since (handle_v3_datagram
\* checks the engine id, which a restart keeps, and no clock).
THEOREM RequestsKept == Spec => []NeverDropped
<1>1. IInv => NeverDropped
  <2> SUFFICES ASSUME IInv, NEW c \in Clients, NEW m \in ToAgent,
                      m.from = c, m.priv
               PROVE  Accepts(m)
    BY DEF NeverDropped
  <2>1. PICK n \in 0..id[c], k \in Contacts \cup {None} : m = Request(c, n, k)
    BY DEF IInv, Sound, Asked, ToAgent
  <2>2. k # None /\ k \in Contacts
    BY <2>1 DEF Request
  <2>3. /\ m.engine = k.engine /\ m.boots = k.boots /\ m.time = k.time /\ m.user = c
        /\ m.signer = c /\ m.seal = Sealed(c, k.boots, k.time) /\ m.op = "get"
    BY <2>1, <2>2 DEF Request
  <2>4. k.engine = engine /\ c \in Users
    BY <2>2, V3Assumption DEF IInv, TypeOK, Contacts
  <2> QED BY <2>3, <2>4 DEF Accepts, verify_hmac, aes_cfb_decrypt
<1> QED BY <1>1, InvHolds, PTL

\* Every response in flight, for whatever user and level, is signed and sealed
\* so that its user can check and read it (build_authenticated_reply).
THEOREM ResponsesReadable == Spec => []RepliesReadable
<1>1. IInv => RepliesReadable
  BY DEF IInv, Sound, Signed, RepliesReadable, ToAgent
<1> QED BY <1>1, InvHolds, PTL

\* A reading is never of an earlier request, nor of a value that was gone when
\* it was asked for (build_response reads the shared map when it answers).
THEOREM ReadingFresh == Spec => []FreshReading
<1>1. IInv => FreshReading
  BY DEF IInv, Holding, FreshReading
<1> QED BY <1>1, InvHolds, PTL
=============================================================================
