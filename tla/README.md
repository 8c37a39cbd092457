# A TLA+ model of ems-industrial-fixtures

The repository holds mock field devices for testing an energy-management gateway: an SNMP agent
(a PDU and a switch), a Modbus server (battery rack, POI meter and two static devices), a Redfish
service (GPU node and CDU), a DNP3 outstation and a BACnet device. Each is a small tokio program
with a store of values, background tasks that change them, protocol handlers that read them, and,
for three of them, an HTTP *control surface* through which a digital twin overrides them.

This directory models the parts in which several tasks meet over shared state, checks them with
TLC and proves the main results with TLAPS. `PROJECT.json` lists the runs, the source lines of
every definition, the hazards and the theorems.

## 1. Inventory

| Component | State | Operations | What is hard |
|---|---|---|---|
| SNMP agent, `mock-snmp-agent` | `values` (OID to i64), `driven` (OIDs under control), USM `AgentState` | drift tick, mirror into the Raritan MIB, PDU load update, `PUT /oids`, v2c and v3 Get/GetNext | three tokio mutexes, four kinds of task, a snapshot used after its lock is gone, two views of one device, a panic inside a lock |
| Modbus handler, `mock-modbus-server` | `holding`, `input`, `driven`, `writable` | FC3/FC4 reads, FC6/FC16 writes, `PUT /registers` | word pairs: a value is two registers, each of which may be driven |
| `bess_rack` profile | the handler's, and the battery's charge and energy | `Battery::step` each tick | register resolution, clamps and tapers, driven state of charge, limits before and after a step |
| `poi_meter` profile | the handler's, and the last node draw | rounds of Modbus and HTTP reads, energy sawtooth | reads that answer at different instants, fail one by one, or never end |
| `dc_external`, `pv_inverter` | constant registers | reads, writes | nothing but the writable gate |
| Modbus TLS | none | authorisation of functions | configuration |
| SNMPv3 USM, part of the agent | engine id, boots, boot instant, users' keys | discovery, authenticated requests | late and repeated datagrams, two clocks, restarts |
| Redfish GPU node | eight GPUs' operating points | PATCH of a cap, GETs | totals against parts under one mutex; one GPU shown by two documents |
| Redfish CDU | none | GETs | nothing |
| DNP3 outstation | the dnp3 library's database | `PUT /points`, seed, master reads | points created on demand, event buffer of five |
| BACnet device | present values | tick, Who-Is, ReadProperty | frames dropped without a reply, a value looked up before its reply is sent, late answers, an error that ends the process |

How they meet: the SNMP agent's load follower and the POI meter read a GPU node's draw over
HTTP; the POI meter reads the racks over Modbus; the gateway, outside the repository, reads all of
them and writes racks' setpoints; the digital twin writes through the control surfaces.

What makes each correct, in one line: the SNMP agent never blocks, never mixes two states of its
map in a reply, keeps driven values and keeps its two MIBs in step; the rack conserves energy,
respects the limits it reports and leaves driven words alone; the meter publishes only what
was metered, of all racks or not at all. A v3 manager that knows the engine is never dropped
for its clock and can always read its reply; a GPU node's total is one it drew and its documents
agree; a DNP3 batch shows whole, and polled events tell everything or an overflow is flagged. A
manager's walk goes forward, ends unless no reply can carry what is next, and misses nothing; a BACnet manager is told fresh values of what there
is. And the site as a whole: the meter adds up what its rack and nodes really did, and ends at the load.

## 2. Modules

| Module | Models |
|---|---|
| `SnmpValues` | the OID map as data: initial values, sawtooth, Raritan mirror with its rounding and wrap-around, PDU readings, the answer to one binding |
| `OidStore` | the abstract agent: one map that PUTs, load updates and ticks change in one step each, replies that are snapshots |
| `SnmpAgent` | the tasks and locks of the agent; implements `OidStore` |
| `SnmpAgentProofs` | its theorems, the refinement of `OidStore` among them |
| `BessRack`, `BessRackProofs` | the `bess_rack` profile and its theorems |
| `PoiMeter`, `PoiMeterProofs` | the `poi_meter` profile and its theorems |
| `SnmpV3`, `SnmpV3Proofs` | the USM of the agent, its managers and the network between them |
| `RedfishNode`, `RedfishNodeProofs` | the power caps of the GPU node and the documents that depend on them |
| `Dnp3Outstation`, `Dnp3OutstationProofs` | the relay's analog inputs, `PUT /points` and a master that polls events |
| `SnmpWalk`, `SnmpWalkProofs` | a manager's GetNext walk over `OidStore` while PUTs create OIDs and values change |
| `Site` | `BessRack`, `RedfishNode` and `PoiMeter` composed, requests and answers apart |
| `BacnetDevice`, `BacnetDeviceProofs` | the ramp, the responder loop, its managers and the network |
| `MC...` | constants of the small instances |

### SnmpAgent and the code

`values`, `driven` and `holder` are the two shared maps and the three mutexes (`holder[l]` is the
task inside). `pc[t]` is the await at which task `t` stands; `rest[t]` is what a writer has still
to store; `req[p]`, `got[p]` are a datagram handler's request and the bindings answered so far.

* Drift task (`main.rs:80-93`): `SimWake`, `SimTakeDriven`, `SimTakeValues`, `SimTick`, `SimMirror`.
* Load follower (`pdu_load.rs:40-61`): `PduFetched` or `PduFetchFailed`, `PduSnapshot` (the
  `readings` call, whose guard is a temporary of one statement), `PduClaim`, `PduTakeValues`,
  `WriteEntry`, `WriteDone`, `PduWake`.
* `PUT /oids` (`control.rs:63-78`): `Put`, `PutReject` (422 before any lock), `PutParsed`,
  `PutTakeDriven`, `PutTakeValues`, one `WriteEntry` per OID, `WriteDone`.
* Datagrams (`main.rs:95-126`, `v3.rs:77-182`): `Receive`; for v3 `TakeState`, then `Discover`, `Drop`
  or `Verified`; `TakeValues`, one `ReadBinding` per binding, `ReadDone`, `Encode`, `Send`. `Panic` is the
  `expect` of `main.rs:196`, `EncodeFails` the `?` of `main.rs:168` or an `expect` of `v3.rs:231` or `270`.

A PUT may create any OID that parses as dotted numbers (`control.rs:47-52`), and `ObjectIdentifier::new` and the
encoder do not take all of those. `Refused` and `Unencodable` are the OIDs they do not take, any subsets of
`Fresh`: which ones is the library's business. A GetNext that comes to a refused one panics at the binding, with
`values` (and for v3 the USM state) locked; the mutexes are tokio's, which unwinding releases and does not poison.

Steps are finer than the awaits: each entry written and each binding read is a step, so what
is atomic in the model is atomic because of a lock. Maps are partial functions, so that PUT can
create OIDs. An OID keeps the components that tell it from the others; the order of the
real OIDs is kept, which is what GetNext depends on.

### BessRack and the code

The tick, a PUT and a protocol write each run whole under one std mutex with no await inside, so
each is one action: `Step` (`battery.rs:47-87`), `PutRegisters`, `WriteMultiple`, `WriteSingle`. Power is in
watts and energy in watt-ticks, as integers, rounded towards zero where the code has f64. Registers
are words of base `Word`, with int32 pairs, so sign and tearing are real. The charge lives outside
the registers, as in the code, and its register rounds to `SocStep`. Assumption `TickAssumption`
says that one tick at full power moves no more than the narrower taper holds. With
`TICK_MS=1000` that is `BATTERY_TIME_SCALE <= 720`; beyond it the code's clamp can hide energy.

### PoiMeter and the code

`Start` spawns all reads (`poi.rs:90-97`), `read_rack_power`, `node_power` and `ReadFails` end one each in
any order, with an answer that was true at any instant since the round began, `Measure` is the rest of the round (`poi.rs:98-121`). `Move` is the site changing under
the reads. `during` is a history variable: every state of the site in this round. `SawTick` and
`PutRegisters` share the registers. A float32 is represented by two words that, like its bits, tell
values apart; its rounding is not modelled.

### Site and the code

Each device is an INSTANCE of its own module, so the code of `BessRack`, `RedfishNode` and `PoiMeter` is
used as it is. `PoiMeter`'s external input `site` becomes an expression over the rack's registers and the
node's caps. A read is split: `RackServes` takes the rack's register at an instant (`handler.rs:50-56`) and
`RackAnswered` hands it to the round; `AskNode` is the GET of `compute_load.rs:36-39`, served by the
node's own steps, and `NodeAnswered` its reply. An answer that outlives its read (`RackReadFails`) belongs
to no later one, because rodbus matches transaction ids. The gateway writes setpoints (`WriteMultiple`) and an
operator PATCHes caps, each up to a bound. The meter's registers and the rack's others are written by
nobody here; `PoiMeter` and `BessRack` have those writes. The racks and the GPUs are alike, so one of each stands
for all; their sums are in `PoiMeter` and `RedfishNode`.

### SnmpWalk and the code

The agent is the abstract store, which `SnmpAgent` implements (`StoreImplemented`): `PutOids`,
`DriftTick`, `LoadClaim` and `LoadUpdate` change it, `LoadReads` computes what `LoadUpdate` stores, at the
voltages of an earlier instant (`pdu_load.rs:45`, `60`), and `Serve` is `build_response` for one GetNext
(`main.rs:171-214`), which comes to nothing when the next OID is `Unservable`. The manager is external: it asks for what follows its position, again until an answer is in,
takes the first one, and stops at an OID outside the subtree or at the end of the MIB. A binding is a value or none:
none is `endOfMibView` in the answer to a GetNext and `noSuchInstance` in that to a Get. `began` and `held` are
history: the OIDs there at first, and the binding that was next at each instant since the request.

### SnmpV3 and the code

One action per datagram: `Discover` (`v3.rs:98-104`), `Answer` when every check of `v3.rs:106-169`
passes, `Drop` otherwise; `SnmpAgent` shows which locks make this one step. `Clock` is
`engine_time`, `Restart` is `AgentState::new` with the fixed engine id of `main.rs:67`. Messages keep
what the checks look at: engine, clock, user, flags, signer, and for an encrypted PDU the key and the clock
of its IV, so that a receiver decrypts it only if it rebuilds the same IV. HMAC and AES are
perfect; the salt travels with the message and is left out. The managers follow RFC 3414 as far as
the repository relies on it: discover, ask, repeat, accept what is authentic and no more than `Window`
older than the latest clock seen. They are external, like the network.

### RedfishNode and the code

`Lock` is `node.gpus.lock()` in `serve`, `serve_gpu` and the PATCH closure (`gpu_chassis.rs:109-146`);
`AddGpu` is one round of the sum in `power_json`, a step each. Power is f64 in the code and a cap may be a fraction
of a watt, so the unit in which the model counts power is left open: it may be as small as one likes, and only
clocks, which the code rounds, are whole numbers (of MHz). The other documents and `Patch`
(`set_power_limit`, refusal included) are a step. `during[c]` is a history variable: the draws the
node has had while request `c` was served.

### Dnp3Outstation and the code

`Begin`, `Update` (one point each, in any order, as a HashMap is iterated), `End` are
`put_points`; `SeedOnDemand` is its second branch. The library is external: `outstation.transaction`
keeps everybody out, `update` with `detect_event` leaves an event when a point changes, a full
buffer drops the oldest and sets an overflow indication. The master is external as well: it reads everything at first
and after an overflow, and class 1 events otherwise.

### BacnetDevice and the code

`Tick` is `simulator.rs:30-43`. `Recv` is one turn of the loop up to the reply of `handle` (`main.rs:61-112`,
`answer_read_property` with its lock included), `Send` the rest; a tick may come between. `RecvFails` is the
`?` of `main.rs:61`: a receive that fails ends the loop and the process. A frame that is not
for this device, names what it does not have, or is not decoded gets no reply (`main.rs:77`, `95`, `139`, `143`,
`68`). The managers are external: they number their requests with invoke ids, ask again, and give up when they like.
An I-Am is encoded as a broadcast but sent to the peer alone (`main.rs:65`, `125`); the model sends it to the peer.

## 3. What is checked

| Run | Shows |
|---|---|
| `snmp_tasks` | types (a malformed batch leaves no trace), mutual exclusion, some holder of a lock can always go on, replies never torn, ticks never undo a driven value outside the mirror; `SnmpAgent` implements `OidStore` (batches, load updates and ticks are visible whole or not at all); requests end, by a panic if need be, both MIBs agree for good once PUTs stop, stale load readings are replaced |
| `snmp_v3` | no request of a manager that knows the engine is dropped, replies can be read by their addressee, readings are from between request and answer, and every request is answered unless the agent restarts for ever |
| `rack` | energy conservation, output within reported limits, driven words stay, a tiny setpoint still drains the rack |
| `snmp_walk` | a walk goes forward, visits all that was there from its beginning, reads bindings that were next at one instant, so never one twice, and ends unless what is next can for good not be served |
| `site` | the meter over a real rack and node implements `PoiMeter`, and the reading ends at the load that the caps allow |
| `bacnet` | values stay on the ramp, readings are fresh, what the device has is answered in the end, while the process runs |
| `poi` | no reading misses a rack or mixes rounds, the last draw is held, driven pairs stay, the meter converges |
| `redfish` | caps stay in range, totals are draws the node had, a GPU's two documents agree on power, throttling and clock |
| `dnp3` | batches seen whole, answered batches in force until another names the point, the relay's points keep their variation, events tell all that changed unless the buffer overflowed, and the master knows the database for good once PUTs stop |
| `snmp_mirror_clobbers`, `snmp_raw_values`, `dnp3_fraction` | violations, see section 5 |

**Bounds.** SNMP (71,256 states): a client, a poller, one phase, a
sawtooth that wraps after one to three ticks; a batch that drives a phase voltage to 0, so that the current saturates and
its mirror wraps, and creates an OID that the encoder refuses and one that `ObjectIdentifier::new` does, and a malformed batch;
GetNext requests of two bindings, in v2c and v3, that overlap what is written and come to those OIDs, and a
discovery. Two bindings are the least that can tear; one phase suffices because phases are
independent. `snmp_mirror_clobbers` drives a Raritan OID. The i64 and i32 bounds are scaled down so that truncation can happen. Rack: words of base 8, so that
int32 runs from -32 to 31 and the energy register saturates; 5 W against 50 watt-ticks, so both tapers
and both ends are reached; setpoints inside and outside the rating, charge driven to 40 % and beyond
100 %, half a setpoint written by FC6. Meter: two racks, three states of the site, words of base 8 so that
an export wraps as a negative number does, a sawtooth that carries between words and wraps. SNMPv3: one
manager with three requests, so that a late reply of the first can meet the second and the third; two
datagrams in flight besides resends, an engine time of 0 or 1 with `Window` 0, which is the strictest manager; a stranger's datagrams that are
clear, flagged private and falsely signed. Managers use different users and the agent keeps nothing
about them, so one stands for all. Redfish: two GPUs, two requests in flight, caps below, at and
above the demand and outside the range, with power in quarters of a watt, so that one cap lies a quarter below the
demand and its clock still rounds to the full one. DNP3: two handlers, the relay's points and one it does not
have, an event buffer that a batch can overflow. Walk: the PDU2-MIB of one phase, with OIDs created before,
within, at the end of and after it, the last of which `ObjectIdentifier::new` refuses, a value beyond 32 bits and a malformed
batch (26,133 states). Site: one rack of 1 W and 10
watt-ticks near its lower taper, one node of one GPU, one setpoint and one PATCH (`MaxWrites`, `MaxPatches`)
at any point of any round. These are enough for every pair of a change and a read to interleave; more
changes meet in `PoiMeter`, whose site moves without bound. BACnet: one ramp of three values whose maximum is
not on it, one manager with three requests (`MaxId`), so that a late answer can meet two later requests, and two
frames in flight when a request is first sent (`MaxNet`), resends and replies on top.

**Fairness.** In `SnmpAgent`, strong fairness per task: tokio schedules every ready task and its
mutexes are first come first served, so a waiter whose lock is freed again and again gets it.
New requests are not fair, and neither is the end of a fetch, since the HTTP client has no timeout.
In `BessRack` the tick is weakly fair (`main.rs:151-173` loops for ever). In `PoiMeter` the task and the
racks' reads are weakly fair (2 s timeout); the node's read is not, and `MeterConverges`
asks for its end in its hypothesis. In `SnmpV3` time passes and a manager resends (weak
fairness), and what is sent again and again arrives and is handled in the end (strong fairness per manager):
the network may lose any datagram but not all of them. In `SnmpWalk` and `BacnetDevice` likewise: what is asked again and
again is answered, in the walk when it can be. A walk whose next OID is for good one that no reply can carry does not end
(`Blocked`), and who asks a BACnet process that has ended is not answered; no fairness makes either happen. In `Site` the devices' tasks, the rounds and the reads are weakly fair; this node answers,
which is why its read has fairness here and not in `PoiMeter`. In `Dnp3Outstation` the master polls for ever, reads everything after
an overflow, and a handler inside the database finishes. Restarts are not fair, and `Answered` supposes that they stop.

The history variables (`during`, `calm`, `held`, `began`) never guard an action.

Deadlock checking is on in every run but `bacnet`, whose process may end for good.

## 4. What is proved

TLAPS, for all values of the constants that satisfy the named assumptions. Every invariant that a run checks and
every action property is a theorem. Each rests on an inductive invariant of its module:

* `SnmpAgentProofs`. `TypeCorrect`, then `MutualExclusion` (`LockInv` is inductive given the types:
  every action moves one task and the locks it takes or gives up; `MoveInside`, `MoveIn`, `MoveOut` say so
  once), `NoDeadlock` (from `LockInv`: a holder of `values` never waits; a holder of `driven`
  waits at most for `values`; a holder of the USM state likewise), `RepliesAreSnapshots` and
  `DrivenValuesSurvive`. For the snapshots the map must not change while a reader is inside: by
  `LockInv` whoever changes it holds `values`, so it is not the reader, and not at the same time.
* `StoreImplemented`: `SnmpAgent` implements `OidStore`. Of the map the clients see what it will be when its
  writer has finished (`StoreNow`), so the writer's first step inside the lock is the abstract one and the rest
  stutter: `PutTakeValues` is `Write`, `PduClaim` is `Claim`, `PduTakeValues` is `Follow`, `SimTick` is `Drift`,
  `ReadDone` and `Discover` are `Reply`, `Send` is `Deliver`. `Seen` says that one task at most is storing,
  `Untorn` that the bindings read so far are those of that map. `Ready` is what else must be remembered
  across a lock: the measurements never leave the map, a load's readings, computed under one lock and
  stored under another, carry one draw and a mirror that agrees, and a parsed batch has no malformed OID.
* `SnmpWalkProofs`. `WalkMissesNothing` and `BindingsWereNext`, for any root, batches and map. `Precedes` is a strict
  total order of OIDs (`NotItself`, `Transitive`, `Total`) in which a subtree has no gap (`NoGap`), and a finite set has
  a least OID, which is what `First` chooses (`FirstIsLeast`). `WalkInv` then says that every OID of the start is
  visited or ahead, that no answer under way, however late, skips one, and that the history `held` has the
  binding next now. Completeness alone is not inductive: it needs the answers, and these the history.
* `BessRackProofs`. `TypeCorrect` rests on lemmas about words (`Split`, `WordsOf`, `PutPairType`).
  `EnergyIsMetered` rests on `Limits`: the tapers bound what a tick takes by what is left, a fact
  about quotients (`Taper`, `QuotientBound`), so the clamp never bites. `OutputWithinReported` needs
  the invariant `LimitsReported` (undriven, the registers report the limits of the model's
  charge), and that an int32 reads back as written (`ReadsBack`) and past other writes (`ReadsElsewhere`).
  `DrivenWordsKept` follows from what a pair write leaves alone (`PutPairFrozen`), write by write.
* `PoiMeterProofs`. `SumsAreWhole` needs `OfThisRound`: what a round has in hand, of each rack and of the node, is what the
  site gave at an instant in `during`. So does `LastDrawKept`. `DrivenPairsKept` needs
  `CounterInBand`, which holds because only the sawtooth writes an undriven energy counter.
* `RedfishNodeProofs`. `PowerOfOneInstant` needs `Locked` (one task inside the mutex) and `Counting`: what is summed plus
  what is left is the node's draw. `ThrottleShown` needs `Faithful` (a reply tells the cap as it was when none has
  changed since) and `ClockTells`, about the rounding of the clock: it is the full one when the cap does not bind, and within half a MHz of the
  full one in proportion to the power always. It has no hypothesis on demand or clock, and holds in any unit of power.
  `TypeCorrect` bounds the caps; that a refused PATCH changes none is `Patch` itself, one branch of which leaves them.
* `Dnp3OutstationProofs`. `BatchesWhole` and `AnswersStand` need `Turn` (who is inside the database, and what of its batch is
  done); `AnswersStand` says both that an answer leaves its values and that a point stays until a batch names it. `EventsSuffice`
  needs `Told`: the master's view overlaid with the buffered events, in order, is the database. So does `TypeCorrect`,
  because a poll's view then has the types of the database.
* `SnmpV3Proofs`. One invariant, `IInv`: every datagram is `Sound` (a manager's request is signed with a key that the
  agent has; a response is signed by the agent under a clock no later than now, and its value was held since its
  request was sent), and so is what a manager holds. `RequestsKept`, `ResponsesReadable` and `ReadingFresh` follow.
* `BacnetDeviceProofs`. Its `IInv` says the same of frames: one to the latest request of a manager carries a value held since it
  was asked, whether it is on its way, about to be sent or taken. `TypeCorrect` needs that a step up the ramp stays on its grid through the wrap (`RampStep`).

The sums and overlays of `PoiMeter`, `RedfishNode` and `Dnp3Outstation` are folds of the community modules, which are recursive functions.
Induction over them is by the least counterexample: a set of numbers that is not empty has a least one
(`LeastNatural`), `FoldExists` then gives the recursive function on every subset, and a further least counterexample what it computes.

The assumptions are those of the modules, evaluated by TLC on every run: the shapes of the constants, and what
the code gives, such as the phases being 1 to 3 and the current at start within its sawtooth (`ValuesAssumption`,
`oids.rs:48`), no datagram of a stranger in the name of a manager (`V3Assumption`), a root and batches made of OIDs (`WalkAssumption`),
or `TickAssumption` above. None limits how many tasks, devices, OIDs or values there are.

Only model-checked: that `Site` implements `PoiMeter`, and all liveness (`NobodyStarves`, `MibsConverge`, `PduCarriesPower`,
`WalkEnds`, `RunsDown`, `MeterConverges`, `RestsAtLoad`, `MasterConverges` and both `Answered`), which is beyond the prover.

## 5. Where code and documents disagree

1. *The mirror overwrites driven OIDs* (`snmp_mirror_clobbers`). `main.rs:89` extends the map with the mirror
   whatever is driven, so a PDU2-MIB OID set by `PUT /oids` lasts one tick.
2. *Points on demand lose their fraction* (`dnp3_fraction`). They are configured as 32-bit integers
   (`control.rs:59-60`), against "engineering values (f64) directly" (`control.rs:5-6`).

3. *Values are cut to 32 bits* (`snmp_raw_values`). `build_response` serves `v as i32` (`main.rs:198`) where
   `control.rs:5-7` and the repository's `readme.md:51` say "raw i64". `WalkReads` asks for the stored value only where it fits.

Four more are built into the models and have no run of their own. `main.rs:196` expects a "non-empty OID" and panics for others
too: an OID such as `9.1`, which `parse_oid` takes, is refused by `ObjectIdentifier::new`. Whoever walks up to it gets no reply,
however often it asks, until the agent is restarted; `WalkEnds` excepts such a walk, and `NobodyStarves` shows that everybody
else goes on. `gpu_processors.rs:5-8` wants the clock down under a cap: a cap within about a quarter of a watt
of the demand (1000 W, 1980 MHz) is reported as `SWPowerCap` next to the full clock, because the clock is rounded (`gpu_processors.rs:83`); `ThrottleAgrees`
asks for the proportion within half a MHz and for the converse only. A rack's tick takes power from the limits
before it and publishes those after it (`battery.rs:51`, `82-84`), so one reading may show an output above the limit
next to it, against `readme.md:28`; what holds, and is proved, is `WithinReportedLimits`, against the limits reported *before* the
tick. The agent's boots counter stays 1 over a restart (`v3.rs:49`), so a manager that keeps RFC 3414's time window discards
replies until the new clock has caught up, against `main.rs:65-66`; `Answered` shows that it is answered in the end.

## 6. What is not modelled

Encodings (BER, Modbus frames, JSON), floating-point rounding (a division is exact) and NaN, a maximum clock that is
not a whole number of MHz, logging, start-up and
configuration parsing, TLS. In `PUT /oids` two spellings of one OID in a body are not distinguished.
The USM cryptography is one choice between dropping and verifying in `SnmpAgent` and perfect in
`SnmpV3`. v3 without `SNMP_V3_AUTH_PASS` drops everything, which `Drop` covers; without `PDU_LOAD_URL`
there is no follower, which a fetch that never ends covers. A rebalance between two reads of one
meter round shows in that reading; the model has it and no property forbids it. Redfish documents
without caps (thermal, inlet, CDU) and the static Modbus profiles are constants. The relay's binary points
are constant after the seed. The SNMP agent ends when a receive fails (`main.rs:97`), which `SnmpAgent` leaves out and `SnmpV3` has
as a part of `Restart`. A BACnet invoke id is a u8; a manager's ids here stay below its wrap. `GPU_DEMAND_W=0` and `BATTERY_TIME_SCALE=NaN` make NaNs, which integer models do not have.

## 7. Plan

Done: every component with state of its own, the abstract store with its refinement, a manager's
walk over it, the site composed of rack, node and meter, and a theorem for every safety property but one. Next, in this order:

1. Proof: the site implements the meter. `ImplementsMeter` needs the types of the three devices in one invariant, and that a
   rack's answer under way was its register in this round.
2. The Modbus read functions and the static profiles behind the writable gate.
3. The load follower of `SnmpAgent` over a real `RedfishNode`, in place of `NodeDraws`.
