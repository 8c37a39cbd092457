------------------------------- MODULE SnmpV3 -------------------------------
(***************************************************************************)
(* SNMPv3 between mock-snmp-agent and the managers that poll it, over a    *)
(* network that loses, repeats and reorders datagrams, with an agent that  *)
(* restarts: discovery, the checks of an authenticated request in their    *)
(* order, and the reply under the agent's own clock.                       *)
(*                                                                         *)
(* The agent handles a datagram in one action: SnmpAgent has the locks     *)
(* that make it so.  Cryptography is perfect: a signature is the name of   *)
(* its signer, a sealed PDU the key and the clock that went into its IV.   *)
(* The salt travels with the message and is left out.                      *)
(***************************************************************************)
EXTENDS Integers, FiniteSets

CONSTANTS
    Clients,        \* managers, each using its own name and passphrases
    Users,          \* the security names registered with the agent
    OurEngine,      \* the engine id fixed at start-up
    NoEngine,       \* the empty engine id of a first contact
    None,
    Values,         \* what the polled OID may hold
    InitialValue,
    Strays,         \* other datagrams that reach the agent
    Window,         \* how far behind a reply's clock may be for a manager
    MaxTime,        \* bound on the engine time
    MaxId,          \* bound on the requests of a manager
    MaxNet          \* bound on what is in flight when more is sent, resends aside

Ops == {"get", "getnext", "getbulk", "set"}

ASSUME V3Assumption ==
    /\ Clients \subseteq Users
    /\ OurEngine # NoEngine
    /\ {None, "agent"} \cap Users = {}
    /\ InitialValue \in Values
    /\ {Window, MaxTime, MaxId, MaxNet} \subseteq Nat
    /\ \A m \in Strays : /\ m.op \in Ops
                          /\ m.to = "agent" /\ m.from \notin Clients \cup {"agent"}

VARIABLES
    engine, boots, time,    \* AgentState: engine_id, engine_boots, engine_time()
    value,                  \* the polled OID in SharedValues
    net,                    \* datagrams in flight
    phase,                  \* what each manager waits for
    id,                     \* its current message id
    known,                  \* the engine id and clock it has learned
    got,                    \* its last reading
    held                    \* what the OID has held since its current request

agent == <<engine, boots, time>>
managers == <<phase, id, known, got>>
vars == <<engine, boots, time, value, net, phase, id, known, got, held>>

-----------------------------------------------------------------------------
(* Messages.                                                               *)

Sealed(key, b, t) == [key |-> key, boots |-> b, time |-> t]

\* The message a manager has outstanding: a discovery until it knows the
\* engine, then an authPriv GetRequest under the clock it has learned.
Request(c, n, k) ==
    IF k = None
    THEN [to |-> "agent", from |-> c, id |-> n, engine |-> NoEngine,
          boots |-> 0, time |-> 0, user |-> None, auth |-> FALSE,
          priv |-> FALSE, signer |-> None, seal |-> None, op |-> "get"]
    ELSE [to |-> "agent", from |-> c, id |-> n, engine |-> k.engine,
          boots |-> k.boots, time |-> k.time, user |-> c, auth |-> TRUE,
          priv |-> TRUE, signer |-> c,
          seal |-> Sealed(c, k.boots, k.time), op |-> "get"]

Outstanding(c) == Request(c, id[c], known[c])

\* The request id of a clear Get, GetNext or GetBulk, 0 for any other PDU.
extract_request_id(m) ==
    IF m.seal = None /\ m.op \in {"get", "getnext", "getbulk"} THEN m.id ELSE 0

build_discovery_report(m) ==
    [to |-> m.from, kind |-> "report", id |-> m.id, rid |-> extract_request_id(m),
     engine |-> engine, boots |-> boots, time |-> time, user |-> m.user,
     auth |-> FALSE, priv |-> FALSE, signer |-> None, seal |-> None,
     body |-> None]

\* Mutant: the reply is sealed under the clock of the request.
build_authenticated_reply_RequestClock(m, v) ==
    [to |-> m.from, kind |-> "response", id |-> m.id, rid |-> m.id,
     engine |-> engine, boots |-> boots, time |-> time, user |-> m.user,
     auth |-> TRUE, priv |-> m.priv, signer |-> m.user,
     seal |-> IF m.priv THEN Sealed(m.user, m.boots, m.time) ELSE None,
     body |-> v]

\* Mutant: the flags say authPriv whatever the request asked for.
build_authenticated_reply_FixedFlags(m, v) ==
    [to |-> m.from, kind |-> "response", id |-> m.id, rid |-> m.id,
     engine |-> engine, boots |-> boots, time |-> time, user |-> m.user,
     auth |-> TRUE, priv |-> TRUE, signer |-> m.user,
     seal |-> IF m.priv THEN Sealed(m.user, boots, time) ELSE None,
     body |-> v]

\* Signed always, sealed under the agent's own clock when the request was.
build_authenticated_reply(m, v) ==
    [to |-> m.from, kind |-> "response", id |-> m.id, rid |-> m.id,
     engine |-> engine, boots |-> boots, time |-> time, user |-> m.user,
     auth |-> TRUE, priv |-> m.priv, signer |-> m.user,
     seal |-> IF m.priv THEN Sealed(m.user, boots, time) ELSE None,
     body |-> v]

\* Mutant: the IV is built from the agent's own clock.
aes_cfb_decrypt_OwnClock(m, key) == m.seal = Sealed(key, boots, time)

\* Whether m decrypts to a PDU: the IV is built from the clock m carries.
aes_cfb_decrypt(m, key) == m.seal = Sealed(key, m.boots, m.time)

verify_hmac(m) == m.signer = m.user

-----------------------------------------------------------------------------
(* The agent.                                                              *)

Discovers(m) == m.engine = NoEngine

\* The checks of the authenticated path.
Accepts(m) ==
    /\ m.engine = engine
    /\ m.user \in Users
    /\ m.auth => verify_hmac(m)
    /\ m.seal # None => m.priv /\ aes_cfb_decrypt(m, m.user)
    /\ m.op \in {"get", "getnext"}

\* Mutant: the task was given a copy of the map, not the shared one.
Polled_AtBoot == InitialValue

\* What build_response reads.
Polled == value

\* The reply joins the datagrams in flight; m itself may come again.
Reply(m, r) == /\ \/ net' = (net \ {m}) \cup {r}
                  \/ Cardinality(net) < MaxNet /\ net' = net \cup {r}
               /\ UNCHANGED <<agent, value, managers, held>>

Discover(m) == /\ Discovers(m)
               /\ Reply(m, build_discovery_report(m))

Answer(m) == /\ ~Discovers(m)
             /\ Accepts(m)
             /\ Reply(m, build_authenticated_reply(m, Polled))

Drop(m) == /\ ~Discovers(m)
           /\ ~Accepts(m)
           /\ net' = net \ {m}
           /\ UNCHANGED <<agent, value, managers, held>>

Clock == /\ time < MaxTime
         /\ time' = time + 1
         /\ UNCHANGED <<engine, boots, value, net, managers, held>>

\* What every manager that is waiting may be told from now on.
Hold(v) == held' = [c \in Clients |-> IF phase[c] = "asking" THEN held[c] \cup {v}
                                      ELSE held[c]]

Drift == \E v \in Values : /\ value' = v
                           /\ Hold(v)
                           /\ UNCHANGED <<agent, net, managers>>

\* Mutant: every start makes up an engine id.
Restart_NewEngine == /\ engine' \in {OurEngine, None}
                     /\ boots' = 1
                     /\ time' = 0
                     /\ value' = InitialValue
                     /\ Hold(InitialValue)
                     /\ UNCHANGED <<net, managers>>

\* AgentState::new: nothing is kept, the engine id is the same.
Restart == /\ engine' = OurEngine
           /\ boots' = 1
           /\ time' = 0
           /\ value' = InitialValue
           /\ Hold(InitialValue)
           /\ UNCHANGED <<net, managers>>

ToAgent == {m \in net : m.to = "agent"}

Agent == (\E m \in ToAgent : Discover(m) \/ Answer(m) \/ Drop(m))
            \/ Clock \/ Drift \/ Restart

-----------------------------------------------------------------------------
(* The managers: one request at a time, sent again until it is answered.   *)

Begin(c) ==
    /\ phase[c] = "idle"
    /\ id[c] < MaxId /\ Cardinality(net) < MaxNet
    /\ id' = [id EXCEPT ![c] = @ + 1]
    /\ phase' = [phase EXCEPT ![c] = IF known[c] = None THEN "discovering"
                                     ELSE "asking"]
    /\ net' = net \cup {Request(c, id[c] + 1, known[c])}
    /\ got' = [got EXCEPT ![c] = None]
    /\ held' = [held EXCEPT ![c] = {value}]
    /\ UNCHANGED <<agent, value, known>>

Resend(c) == /\ phase[c] # "idle"
             /\ net' = net \cup {Outstanding(c)}
             /\ UNCHANGED <<agent, value, managers, held>>

Learn(c) == \E r \in net :
    /\ phase[c] = "discovering"
    /\ r.to = c /\ r.kind = "report" /\ r.rid = id[c]
    /\ known' = [known EXCEPT ![c] = [engine |-> r.engine, boots |-> r.boots,
                                      time |-> r.time]]
    /\ phase' = [phase EXCEPT ![c] = "idle"]
    /\ net' = net \ {r}
    /\ UNCHANGED <<agent, value, id, got, held>>

\* A reply whose clock is no more than Window behind the latest one seen.
Timely(c, r) == /\ r.boots >= known[c].boots
                /\ r.boots = known[c].boots => r.time + Window >= known[c].time

\* Meant for c's request and authentic.
Answers(c, r) == /\ phase[c] = "asking"
                 /\ r.to = c /\ r.kind = "response"
                 /\ r.id = id[c] /\ r.engine = known[c].engine
                 /\ r.auth /\ r.signer = c

Accept(c) == \E r \in net :
    /\ Answers(c, r)
    /\ Timely(c, r)
    /\ r.priv => r.seal = Sealed(c, r.boots, r.time)
    /\ got' = [got EXCEPT ![c] = r.body]
    /\ known' = [known EXCEPT ![c].boots = r.boots, ![c].time = r.time]
    /\ phase' = [phase EXCEPT ![c] = "idle"]
    /\ net' = net \ {r}
    /\ UNCHANGED <<agent, value, id, held>>

-----------------------------------------------------------------------------
(* The network.                                                            *)

Stray == /\ Cardinality(net) < MaxNet
         /\ \E m \in Strays : net' = net \cup {m}
         /\ UNCHANGED <<agent, value, managers, held>>

Lose == /\ \E m \in net : net' = net \ {m}
        /\ UNCHANGED <<agent, value, managers, held>>

Init == /\ engine = OurEngine /\ boots = 1 /\ time = 0
        /\ value = InitialValue
        /\ net = {}
        /\ phase = [c \in Clients |-> "idle"]
        /\ id = [c \in Clients |-> 0]
        /\ known = [c \in Clients |-> None]
        /\ got = [c \in Clients |-> None]
        /\ held = [c \in Clients |-> {}]

Next == \/ Agent
        \/ \E c \in Clients : Begin(c) \/ Resend(c) \/ Learn(c) \/ Accept(c)
        \/ Stray \/ Lose

Spec == Init /\ [][Next]_vars

\* The agent's handling of what c has outstanding.
HandleFor(c) == \E m \in ToAgent : /\ m.from = c /\ m.id = id[c]
                                   /\ Discover(m) \/ Answer(m)

\* A manager keeps asking, and of datagrams sent again and again some arrive:
\* the agent spawns a task for each.  Time passes (Instant).
Fairness == /\ WF_vars(Clock)
            /\ \A c \in Clients : /\ WF_vars(Resend(c))
                                  /\ SF_vars(HandleFor(c))
                                  /\ SF_vars(Learn(c))
                                  /\ SF_vars(Accept(c))

FairSpec == Spec /\ Fairness

-----------------------------------------------------------------------------
(* Properties.                                                             *)

Contacts == [engine : {OurEngine}, boots : {1}, time : 0..MaxTime]

\* Type invariant.
TypeOK == /\ engine = OurEngine /\ boots = 1 /\ time \in 0..MaxTime
          /\ value \in Values
          /\ phase \in [Clients -> {"idle", "discovering", "asking"}]
          /\ id \in [Clients -> 0..MaxId]
          /\ known \in [Clients -> Contacts \cup {None}]
          /\ \A c \in Clients : phase[c] = "asking" => known[c] # None
          /\ got \in [Clients -> Values \cup {None}]
          /\ held \in [Clients -> SUBSET Values]

\* Once a manager knows the engine, no request of its own is ever dropped,
\* however late it arrives and however often the agent has restarted or its
\* clock moved since: no manager has to discover again (main.rs:65-67).
NeverDropped ==
    \A c \in Clients, m \in ToAgent :
        (phase[c] = "asking" /\ m.from = c /\ m.id = id[c] /\ m.priv) => Accepts(m)

\* Whatever level a request asked for, its sender can check and read the reply
\* with its own keys and what the reply carries (build_authenticated_reply).
RepliesReadable ==
    \A r \in net \ ToAgent : r.kind = "response" =>
        /\ r.user \in Users /\ r.signer = r.user
        /\ r.priv => r.seal = Sealed(r.user, r.boots, r.time)
        /\ ~r.priv => r.seal = None

\* A manager's reading is something the OID held between its request and the
\* answer, not a reply to an earlier request or a value from before a restart.
FreshReading == \A c \in Clients : got[c] # None => got[c] \in held[c]

\* Unless the agent restarts for ever, every request is answered in the end,
\* discoveries included, through loss, repetition and the time that a restart
\* takes back: once the new clock has caught up, the same request is accepted
\* (handle_v3_datagram checks no clock).
Answered == <>[][time' >= time]_vars =>
                \A c \in Clients : phase[c] # "idle" ~> phase[c] = "idle"
=============================================================================
